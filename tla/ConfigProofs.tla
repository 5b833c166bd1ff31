---------------------------- MODULE ConfigProofs ----------------------------
(***************************************************************************)
(* The copies of the configuration agree for any number of requests,       *)
(* saves, edits, rebuilds, failures and restarts.                          *)
(*                                                                         *)
(* HostFirst is enough for what the host has: whoever changes what runs    *)
(* still has a call to make, after which the host calls back.  That the    *)
(* copies say the same needs, in addition, to follow the one change that a *)
(* patient operator makes at a time from copy to copy (InOrder).           *)
(***************************************************************************)
EXTENDS ConfigSync, TLAPS

Stages == {"idle", "set", "adopt", "copy", "file", "get", "put", "share", "finish"}
Unsent == {"adopt", "copy", "file", "get", "put"}
Sent == {"share", "finish"}

\* What runs is what the host has, or somebody is about to tell the host, or
\* the host is about to call.
HostFirst ==
  fails = 0 =>
    \/ pending
    \/ \E q \in Requests : req[q].pc \in Unsent
    \/ rt = Parsed(host)

\* Where no panel may set the cap to 0, no copy has it at 0.
NoZero == 0 \notin Caps
Positive == NoZero => rt.cap = 1 /\ \A g \in Gens : panel[g].cap = 1

\* A patient operator has one request at a time.
Alone ==
  patient => \A q, r \in Requests : q # r => At(q, "idle") \/ At(r, "idle")

SameKept(c, d) == c.num = d.num /\ (NoZero => c.cap = d.cap)

\* The panel that a request changed is the current one until the host calls
\* back, and then keeps what the host was told.
InOrder ==
  patient => \A q \in Requests :
    /\ req[q].pc \in Unsent \cup {"set"} => ~pending /\ req[q].gen = gen
    /\ req[q].pc \in Unsent \cup Sent => panel[gen] = rt /\ guard = rt
    /\ req[q].pc \in {"file", "get", "put"} => req[q].cfg = rt
    /\ req[q].pc \in {"get", "put"} \cup Sent /\ ~unsaved => file = FromConfig(rt)
    /\ req[q].pc \in Sent /\ pending =>
         req[q].gen = gen /\ host.num = rt.num /\ host.cap = rt.cap
    /\ req[q].pc \in Sent => SameKept(Own(q), rt)

Rested ==
  Settled /\ patient =>
    /\ panel[gen] = rt /\ guard = rt
    /\ ~strayed => SameKept(reg, rt)
    /\ ~unsaved => file = FromConfig(rt)

IInv == TypeOK /\ HostFirst /\ Positive /\ Alone /\ InOrder /\ Rested

-----------------------------------------------------------------------------
LEMMA Values ==
  /\ Default \in Config /\ Default \in HostForm /\ FromConfig(Default) \in Overrides
  /\ 1 \in Gens /\ Gens \subseteq Nat /\ MaxGen \in Nat
  /\ MaxSaves \in Nat /\ MaxEdits \in Nat /\ MaxFail \in Nat /\ MaxCrash \in Nat
BY ConfigAssumption DEF Default, Config, HostForm, Overrides, FromConfig, Gens

\* What is taken from the host's form is a configuration with positive
\* numbers, and a positive number is taken as it is.
LEMMA ParsedType ==
  ASSUME NEW h \in HostForm
  PROVE  /\ Parsed(h) \in Config /\ Parsed(h).cap = 1
         /\ h.num > 0 => Parsed(h).num = h.num
BY DEF Parsed, HostForm, Config, Default

LEMMA FromConfigType ==
  ASSUME NEW c \in Config PROVE FromConfig(c) \in Overrides
BY DEF FromConfig, Config, Overrides

LEMMA MergedType ==
  ASSUME NEW h \in HostForm, NEW c \in Config
  PROVE  Merged(h, c) \in HostForm /\ Merged(h, c).num = c.num /\ Merged(h, c).cap = c.cap
<1>1. c.num \in 0..2 /\ c.cap \in 0..1 /\ h.sig \in 0..1
  BY DEF Config, HostForm
<1>2. h = [num |-> h.num, cap |-> h.cap, sig |-> h.sig]
  BY DEF HostForm
<1>3. PICK g : g = [h EXCEPT !.num = c.num]
  OBVIOUS
<1>4. g = [num |-> c.num, cap |-> h.cap, sig |-> h.sig]
  BY <1>2, <1>3
<1>5. Merged(h, c) = [g EXCEPT !.cap = c.cap]
  BY <1>3 DEF Merged
<1>6. [g EXCEPT !.cap = c.cap] = [num |-> c.num, cap |-> c.cap, sig |-> h.sig]
  BY <1>4
<1> QED BY <1>1, <1>5, <1>6 DEF HostForm

LEMMA EditedType ==
  ASSUME NEW c \in Config, NEW d \in Edited(c)
  PROVE  d \in Config /\ (NoZero /\ c.cap = 1 => d.cap = 1)
<1>1. c.num \in 1..2 /\ c.cap \in 0..1 /\ c.sig \in 0..1
  BY DEF Config
<1>2. /\ d \in [num : {c.num} \cup 1..2, cap : {c.cap} \cup Caps, sig : {c.sig, 0}]
      /\ d.num \in 1..2 /\ d.cap \in {c.cap} \cup Caps /\ d.sig \in 0..1
  BY <1>1 DEF Edited
<1>3. d = [num |-> d.num, cap |-> d.cap, sig |-> d.sig]
  BY <1>2
<1>4. d.cap \in 0..1
  BY <1>1, <1>2, ConfigAssumption
<1>5. NoZero /\ c.cap = 1 => d.cap = 1
  BY <1>2, <1>4, ConfigAssumption DEF NoZero
<1> QED BY <1>2, <1>3, <1>4, <1>5 DEF Config

LEMMA InitIInv == Init => IInv
<1> SUFFICES ASSUME Init PROVE IInv
  OBVIOUS
<1>1. TypeOK
  <2>1. Idle \in [pc : Stages, gen : Gens, cfg : Config, got : HostForm]
    BY Values DEF Idle, Stages
  <2>2. req \in [Requests -> [pc : Stages, gen : Gens, cfg : Config, got : HostForm]]
    BY <2>1 DEF Init
  <2>3. panel \in [Gens -> Config]
    BY Values DEF Init
  <2>4. saves \in 0..MaxSaves /\ edits \in 0..MaxEdits /\ fails \in 0..MaxFail /\ crashes \in 0..MaxCrash
    BY Values DEF Init
  <2>5. rt \in Config /\ reg \in Config /\ gen \in Gens /\ guard \in Config /\ file \in Overrides
    BY Values DEF Init
  <2>6. host \in HostForm /\ pending \in BOOLEAN /\ patient \in Patience
    BY Values DEF Init
  <2>7. strayed \in BOOLEAN /\ unsaved \in BOOLEAN
    BY DEF Init
  <2> QED BY <2>2, <2>3, <2>4, <2>5, <2>6, <2>7 DEF TypeOK, Stages
<1>2. HostFirst
  BY DEF Init, HostFirst, Parsed, Default
<1>3. Positive /\ Alone
  BY DEF Init, Positive, Alone, At, Idle, Default
<1>4. InOrder
  BY DEF Init, InOrder, Unsent, Sent, Idle
<1>5. panel[gen] = rt /\ guard = rt /\ reg = rt /\ file = FromConfig(rt)
  BY Values DEF Init
<1>6. Rested
  BY <1>5 DEF Rested, SameKept
<1> QED BY <1>1, <1>2, <1>3, <1>4, <1>6 DEF IInv

-----------------------------------------------------------------------------
(* The requests.                                                           *)

Request == [pc : Stages, gen : Gens, cfg : Config, got : HostForm]

LEMMA ReqType == TypeOK => req \in [Requests -> Request]
BY DEF TypeOK, Request, Stages

\* While a patient operator's request is under way the others are idle.
LEMMA OthersIdle ==
  ASSUME Alone, patient, NEW q \in Requests, req[q].pc # "idle"
  PROVE  \A p \in Requests \ {q} : req[p].pc = "idle"
BY DEF Alone, At

\* A step of a request that is under way leaves it the only one, and whatever
\* it does, it is its own stage that the order of its changes is about.
LEMMA OneMoves ==
  ASSUME Alone, NEW q \in Requests, req[q].pc # "idle", patient' = patient,
         \A p \in Requests \ {q} : req'[p] = req[p]
  PROVE  /\ Alone'
         /\ patient' => \A p \in Requests \ {q} : req'[p].pc = "idle"
<1>1. patient => \A p \in Requests \ {q} : req[p].pc = "idle"
  BY OthersIdle
<1> QED BY <1>1 DEF Alone, At

LEMMA SetConfigIInv ==
  ASSUME IInv, NEW q \in Requests, SetConfig(q) PROVE IInv'
<1> USE DEF IInv
<1>1. /\ req' \in [Requests -> Request] /\ req'[q] = [req[q] EXCEPT !.pc = "adopt"]
      /\ \A p \in Requests \ {q} : req'[p] = req[p]
  BY ReqType DEF SetConfig, Request, Stages
<1>2. req[q] \in Request /\ req[q].pc = "set" /\ req'[q].pc = "adopt" /\ req'[q].gen = req[q].gen
  BY <1>1, ReqType DEF SetConfig, At, Request
<1>3. Own(q) \in Config
  BY <1>2 DEF TypeOK, Own, Request
<1>4. TypeOK'
  BY <1>1, <1>3 DEF TypeOK, SetConfig, Request, Stages, limits
<1>5. HostFirst'
  BY <1>2 DEF HostFirst, Unsent
<1>6. Positive'
  BY <1>2 DEF Positive, SetConfig, Own, Request
<1>7. Alone' /\ (patient' => \A p \in Requests \ {q} : req'[p].pc = "idle")
  BY <1>1, <1>2, OneMoves DEF SetConfig, limits
<1>8. InOrder'
  <2> SUFFICES ASSUME patient PROVE InOrder'
    BY DEF InOrder, SetConfig, limits
  <2>1. ~pending /\ req[q].gen = gen
    BY <1>2 DEF InOrder, Unsent
  <2>2. ~pending' /\ req'[q].gen = gen' /\ panel'[gen'] = rt' /\ guard' = rt'
    BY <1>2, <2>1 DEF SetConfig, Own
  <2>3. patient'
    BY DEF SetConfig, limits
  <2> QED BY <1>2, <1>7, <2>2, <2>3 DEF InOrder, Unsent, Sent
<1>9. Rested'
  BY <1>2 DEF Rested, Settled, At
<1> QED BY <1>4, <1>5, <1>6, <1>7, <1>8, <1>9

LEMMA HandleConfigIInv ==
  ASSUME IInv, NEW q \in Requests, HandleConfig(q) PROVE IInv'
<1> USE DEF IInv
<1>1. PICK c \in Edited(panel[gen]) : panel' = [panel EXCEPT ![gen] = c]
  BY DEF HandleConfig
<1>2. panel[gen] \in Config /\ gen \in Gens
  BY DEF TypeOK
<1>3. c \in Config /\ (NoZero /\ panel[gen].cap = 1 => c.cap = 1)
  BY <1>2, EditedType
<1>4. [Idle EXCEPT !.pc = "set", !.gen = gen] =
        [pc |-> "set", gen |-> gen, cfg |-> Default, got |-> Default]
  <2>1. PICK i : i = [Idle EXCEPT !.pc = "set"]
    OBVIOUS
  <2>2. i = [pc |-> "set", gen |-> 1, cfg |-> Default, got |-> Default]
    BY <2>1 DEF Idle
  <2>3. [i EXCEPT !.gen = gen] = [pc |-> "set", gen |-> gen, cfg |-> Default, got |-> Default]
    BY <2>2
  <2> QED BY <2>1, <2>3
<1>5. [pc |-> "set", gen |-> gen, cfg |-> Default, got |-> Default] \in Request
  BY <1>2, Values DEF Request, Stages
<1>6. /\ req' \in [Requests -> Request] /\ req'[q].pc = "set" /\ req'[q].gen = gen
      /\ \A p \in Requests \ {q} : req'[p] = req[p]
  BY <1>4, <1>5, ReqType DEF HandleConfig
<1>7. TypeOK'
  <2>1. panel' \in [Gens -> Config]
    BY <1>1, <1>2, <1>3 DEF TypeOK
  <2>2. saves' \in 0..MaxSaves
    BY Values DEF TypeOK, HandleConfig
  <2> QED BY <1>6, <2>1, <2>2 DEF TypeOK, HandleConfig, history, Request, Stages
<1>8. HostFirst'
  <2>1. \A p \in Requests : req[p].pc \in Unsent => req'[p].pc \in Unsent
    BY <1>6 DEF HandleConfig, At, Unsent
  <2> QED BY <2>1 DEF HostFirst, HandleConfig
<1>9. Positive'
  BY <1>1, <1>2, <1>3 DEF Positive, HandleConfig, TypeOK
<1>10. Alone' /\ (patient' => ~pending' /\ \A p \in Requests \ {q} : req'[p].pc = "idle")
  BY <1>6 DEF HandleConfig, MayChange, Alone, At
<1>11. InOrder'
  BY <1>6, <1>10 DEF InOrder, HandleConfig, history, Unsent, Sent
<1>12. Rested'
  BY <1>6 DEF Rested, Settled, At
<1> QED BY <1>7, <1>8, <1>9, <1>10, <1>11, <1>12

LEMMA AdoptIInv ==
  ASSUME IInv, NEW q \in Requests, Adopt(q) PROVE IInv'
<1> USE DEF IInv
<1>1. /\ req' \in [Requests -> Request] /\ req'[q].pc = "copy" /\ req'[q].gen = req[q].gen
      /\ \A p \in Requests \ {q} : req'[p] = req[p]
  BY ReqType DEF Adopt, Request, Stages
<1>2. req[q] \in Request /\ req[q].pc = "adopt"
  BY ReqType DEF Adopt, At
<1>3. TypeOK'
  BY <1>1, <1>2 DEF TypeOK, Adopt, history, Own, Request, Stages, limits
<1>4. HostFirst'
  BY <1>1 DEF HostFirst, Unsent
<1>5. Positive'
  BY <1>2 DEF Positive, Adopt, Own, Request
<1>6. Alone' /\ (patient' => \A p \in Requests \ {q} : req'[p].pc = "idle")
  BY <1>1, <1>2, OneMoves DEF Adopt, limits
<1>7. InOrder'
  <2> SUFFICES ASSUME patient PROVE InOrder'
    BY DEF InOrder, Adopt, history, limits
  <2>1. ~pending /\ req[q].gen = gen /\ panel[gen] = rt /\ guard = rt
    BY <1>2 DEF InOrder, Unsent
  <2>2. ~pending' /\ req'[q].gen = gen' /\ panel'[gen'] = rt' /\ guard' = rt'
    BY <1>1, <2>1 DEF Adopt, Own
  <2>3. patient'
    BY DEF Adopt, limits
  <2> QED BY <1>1, <1>6, <2>2, <2>3 DEF InOrder, Unsent, Sent
<1>8. Rested'
  BY <1>1 DEF Rested, Settled, At
<1> QED BY <1>3, <1>4, <1>5, <1>6, <1>7, <1>8

LEMMA CopyConfigIInv ==
  ASSUME IInv, NEW q \in Requests, CopyConfig(q) PROVE IInv'
<1> USE DEF IInv
<1>1. /\ req' \in [Requests -> Request] /\ req'[q].pc = "file" /\ req'[q].gen = req[q].gen
      /\ \A p \in Requests \ {q} : req'[p] = req[p]
      /\ req'[q].cfg = rt
  BY ReqType DEF CopyConfig, Request, Stages, TypeOK
<1>2. req[q] \in Request /\ req[q].pc = "copy"
  BY ReqType DEF CopyConfig, At
<1>3. TypeOK'
  BY <1>1 DEF TypeOK, CopyConfig, history, runtime, Request, Stages, limits
<1>4. HostFirst'
  BY <1>1 DEF HostFirst, Unsent
<1>5. Positive'
  BY DEF Positive, CopyConfig, runtime
<1>6. Alone' /\ (patient' => \A p \in Requests \ {q} : req'[p].pc = "idle")
  BY <1>1, <1>2, OneMoves DEF CopyConfig, limits
<1>7. InOrder'
  <2> SUFFICES ASSUME patient PROVE InOrder'
    BY DEF InOrder, CopyConfig, history, limits
  <2>1. ~pending /\ req[q].gen = gen /\ panel[gen] = rt /\ guard = rt
    BY <1>2 DEF InOrder, Unsent
  <2> QED BY <1>1, <1>6, <2>1 DEF InOrder, Unsent, Sent, CopyConfig, runtime, limits
<1>8. Rested'
  BY <1>1 DEF Rested, Settled, At
<1> QED BY <1>3, <1>4, <1>5, <1>6, <1>7, <1>8

LEMMA SaveOverridesIInv ==
  ASSUME IInv, NEW q \in Requests, SaveOverrides(q) PROVE IInv'
<1> USE DEF IInv
<1>1. /\ req' \in [Requests -> Request] /\ req'[q].pc = "get" /\ req'[q].gen = req[q].gen
      /\ \A p \in Requests \ {q} : req'[p] = req[p]
      /\ req'[q].cfg = req[q].cfg
  BY ReqType DEF SaveOverrides, Request, Stages
<1>2. req[q] \in Request /\ req[q].pc = "file"
  BY ReqType DEF SaveOverrides, At
<1>3. TypeOK'
  <2>1. file' \in Overrides
    BY <1>2, FromConfigType DEF SaveOverrides, Request
  <2> QED BY <1>1, <2>1 DEF TypeOK, SaveOverrides, runtime, Request, Stages, limits
<1>4. HostFirst'
  BY <1>1 DEF HostFirst, Unsent
<1>5. Positive'
  BY DEF Positive, SaveOverrides, runtime
<1>6. Alone' /\ (patient' => \A p \in Requests \ {q} : req'[p].pc = "idle")
  BY <1>1, <1>2, OneMoves DEF SaveOverrides, limits
<1>7. InOrder'
  <2> SUFFICES ASSUME patient PROVE InOrder'
    BY DEF InOrder, SaveOverrides, limits
  <2>1. /\ ~pending /\ req[q].gen = gen /\ panel[gen] = rt /\ guard = rt
        /\ req[q].cfg = rt
    BY <1>2 DEF InOrder, Unsent
  <2>2. file' = FromConfig(rt)
    BY <2>1 DEF SaveOverrides
  <2>3. FromConfig(rt)' = FromConfig(rt)
    BY DEF SaveOverrides, runtime, FromConfig
  <2> QED BY <1>1, <1>6, <2>1, <2>2, <2>3 DEF InOrder, Unsent, Sent, SaveOverrides, runtime, limits
<1>8. Rested'
  BY <1>1 DEF Rested, Settled, At
<1> QED BY <1>3, <1>4, <1>5, <1>6, <1>7, <1>8

LEMMA SaveFailsIInv ==
  ASSUME IInv, NEW q \in Requests, SaveFails(q) PROVE IInv'
<1> USE DEF IInv
<1>1. /\ req' \in [Requests -> Request] /\ req'[q].pc = "finish" /\ req'[q].gen = req[q].gen
      /\ \A p \in Requests \ {q} : req'[p] = req[p]
  BY ReqType, Values DEF SaveFails, Request, Stages
<1>2. req[q] \in Request /\ req[q].pc = "file"
  BY ReqType DEF SaveFails, At
<1>0. fails' \in 1..MaxFail
  BY Values DEF SaveFails, TypeOK
<1>3. TypeOK'
  <2>1. unsaved' \in BOOLEAN
    BY ConfigAssumption DEF SaveFails, TypeOK
  <2> QED BY <1>0, <1>1, <2>1 DEF TypeOK, SaveFails, runtime, Request, Stages
<1>4. HostFirst'
  BY <1>0 DEF HostFirst
<1>5. Positive'
  BY DEF Positive, SaveFails, runtime
<1>6. Alone' /\ (patient' => \A p \in Requests \ {q} : req'[p].pc = "idle")
  BY <1>1, <1>2, OneMoves DEF SaveFails
<1>7. InOrder'
  <2> SUFFICES ASSUME patient PROVE InOrder'
    BY DEF InOrder, SaveFails
  <2>1. ~pending /\ req[q].gen = gen /\ panel[gen] = rt /\ guard = rt
    BY <1>2 DEF InOrder, Unsent
  <2>2. SameKept(Own(q), rt)'
    BY <1>1, <2>1 DEF SaveFails, runtime, Own, SameKept
  <2>3. /\ gen' = gen /\ panel' = panel /\ guard' = guard /\ rt' = rt /\ unsaved'
        /\ patient' = patient /\ pending' = pending
    BY DEF SaveFails, runtime
  <2> QED BY <1>1, <1>6, <2>1, <2>2, <2>3 DEF InOrder, Unsent, Sent
<1>8. Rested'
  BY <1>1 DEF Rested, Settled, At
<1> QED BY <1>3, <1>4, <1>5, <1>6, <1>7, <1>8

LEMMA GetPluginConfigIInv ==
  ASSUME IInv, NEW q \in Requests, GetPluginConfig(q) PROVE IInv'
<1> USE DEF IInv
<1>1. /\ req' \in [Requests -> Request] /\ req'[q].pc = "put" /\ req'[q].gen = req[q].gen
      /\ \A p \in Requests \ {q} : req'[p] = req[p]
      /\ req'[q].cfg = req[q].cfg
  BY ReqType DEF GetPluginConfig, Request, Stages, TypeOK
<1>2. req[q] \in Request /\ req[q].pc = "get"
  BY ReqType DEF GetPluginConfig, At
<1>3. TypeOK'
  BY <1>1 DEF TypeOK, GetPluginConfig, history, runtime, Request, Stages, limits
<1>4. HostFirst'
  BY <1>1 DEF HostFirst, Unsent
<1>5. Positive'
  BY DEF Positive, GetPluginConfig, runtime
<1>6. Alone' /\ (patient' => \A p \in Requests \ {q} : req'[p].pc = "idle")
  BY <1>1, <1>2, OneMoves DEF GetPluginConfig, limits
<1>7. InOrder'
  <2> SUFFICES ASSUME patient PROVE InOrder'
    BY DEF InOrder, GetPluginConfig, history, limits
  <2>1. /\ ~pending /\ req[q].gen = gen /\ panel[gen] = rt /\ guard = rt
        /\ req[q].cfg = rt /\ (~unsaved => file = FromConfig(rt))
    BY <1>2 DEF InOrder, Unsent
  <2>3. FromConfig(rt)' = FromConfig(rt)
    BY DEF GetPluginConfig, runtime, FromConfig
  <2> QED BY <1>1, <1>6, <2>1, <2>3 DEF InOrder, Unsent, Sent, GetPluginConfig, runtime, limits, history
<1>8. Rested'
  BY <1>1 DEF Rested, Settled, At
<1> QED BY <1>3, <1>4, <1>5, <1>6, <1>7, <1>8

LEMMA PutPluginConfigIInv ==
  ASSUME IInv, NEW q \in Requests, PutPluginConfig(q) PROVE IInv'
<1> USE DEF IInv
<1>1. /\ req' \in [Requests -> Request] /\ req'[q].pc = "share" /\ req'[q].gen = req[q].gen
      /\ \A p \in Requests \ {q} : req'[p] = req[p]
  BY ReqType, Values DEF PutPluginConfig, Request, Stages
<1>2. req[q] \in Request /\ req[q].pc = "put"
  BY ReqType DEF PutPluginConfig, At
<1>0. host' \in HostForm /\ host'.num = req[q].cfg.num /\ host'.cap = req[q].cfg.cap
  BY <1>2, MergedType DEF PutPluginConfig, Request
<1>3. TypeOK'
  BY <1>0, <1>1 DEF TypeOK, PutPluginConfig, history, runtime, Request, Stages, limits
<1>4. HostFirst'
  BY DEF HostFirst, PutPluginConfig
<1>5. Positive'
  BY DEF Positive, PutPluginConfig, runtime
<1>6. Alone' /\ (patient' => \A p \in Requests \ {q} : req'[p].pc = "idle")
  BY <1>1, <1>2, OneMoves DEF PutPluginConfig, limits
<1>7. InOrder'
  <2> SUFFICES ASSUME patient PROVE InOrder'
    BY DEF InOrder, PutPluginConfig, history, limits
  <2>1. /\ ~pending /\ req[q].gen = gen /\ panel[gen] = rt /\ guard = rt
        /\ req[q].cfg = rt /\ (~unsaved => file = FromConfig(rt))
    BY <1>2 DEF InOrder, Unsent
  <2>2. req'[q].gen = gen' /\ host'.num = rt.num /\ host'.cap = rt.cap
    BY <1>0, <1>1, <2>1 DEF PutPluginConfig, runtime
  <2>3. FromConfig(rt)' = FromConfig(rt)
    BY DEF PutPluginConfig, runtime, FromConfig
  <2>4. SameKept(Own(q), rt)'
    BY <1>1, <2>1 DEF PutPluginConfig, runtime, Own, SameKept
  <2>5. /\ gen' = gen /\ panel' = panel /\ guard' = guard /\ rt' = rt /\ file' = file
        /\ patient' = patient /\ unsaved' = unsaved
    BY DEF PutPluginConfig, runtime, limits, history
  <2> QED BY <1>1, <1>6, <2>1, <2>2, <2>3, <2>4, <2>5 DEF InOrder, Unsent, Sent
<1>8. Rested'
  BY <1>1 DEF Rested, Settled, At
<1> QED BY <1>3, <1>4, <1>5, <1>6, <1>7, <1>8

LEMMA HostCallFailsIInv ==
  ASSUME IInv, NEW q \in Requests, HostCallFails(q) PROVE IInv'
<1> USE DEF IInv
<1>1. /\ req' \in [Requests -> Request] /\ req'[q].pc = "finish" /\ req'[q].gen = req[q].gen
      /\ \A p \in Requests \ {q} : req'[p] = req[p]
  BY ReqType, Values DEF HostCallFails, Request, Stages
<1>2. req[q] \in Request /\ req[q].pc \in {"get", "put"}
  BY ReqType DEF HostCallFails, At
<1>0. fails' \in 1..MaxFail
  BY Values DEF HostCallFails, TypeOK
<1>3. TypeOK'
  BY <1>0, <1>1 DEF TypeOK, HostCallFails, history, runtime, Request, Stages
<1>4. HostFirst'
  BY <1>0 DEF HostFirst
<1>5. Positive'
  BY DEF Positive, HostCallFails, runtime
<1>6. Alone' /\ (patient' => \A p \in Requests \ {q} : req'[p].pc = "idle")
  BY <1>1, <1>2, OneMoves DEF HostCallFails
<1>7. InOrder'
  <2> SUFFICES ASSUME patient PROVE InOrder'
    BY DEF InOrder, HostCallFails
  <2>1. /\ ~pending /\ req[q].gen = gen /\ panel[gen] = rt /\ guard = rt
        /\ req[q].cfg = rt /\ (~unsaved => file = FromConfig(rt))
    BY <1>2 DEF InOrder, Unsent
  <2>3. FromConfig(rt)' = FromConfig(rt)
    BY DEF HostCallFails, runtime, FromConfig
  <2>4. SameKept(Own(q), rt)'
    BY <1>1, <2>1 DEF HostCallFails, runtime, Own, SameKept
  <2>5. /\ gen' = gen /\ panel' = panel /\ guard' = guard /\ rt' = rt /\ file' = file
        /\ patient' = patient /\ pending' = pending /\ unsaved' = unsaved
    BY DEF HostCallFails, runtime, history
  <2> QED BY <1>1, <1>6, <2>1, <2>3, <2>4, <2>5 DEF InOrder, Unsent, Sent
<1>8. Rested'
  BY <1>1 DEF Rested, Settled, At
<1> QED BY <1>3, <1>4, <1>5, <1>6, <1>7, <1>8

LEMMA ShareConfigIInv ==
  ASSUME IInv, NEW q \in Requests, ShareConfig(q) PROVE IInv'
<1> USE DEF IInv
<1>1. /\ req' \in [Requests -> Request] /\ req'[q].pc = "finish" /\ req'[q].gen = req[q].gen
      /\ \A p \in Requests \ {q} : req'[p] = req[p]
  BY ReqType, Values DEF ShareConfig, Request, Stages
<1>2. req[q] \in Request /\ req[q].pc = "share"
  BY ReqType DEF ShareConfig, At
<1>3. TypeOK'
  BY <1>1 DEF TypeOK, ShareConfig, history, Request, Stages, limits
<1>4. HostFirst'
  <2>1. \A p \in Requests : req[p].pc \in Unsent => req'[p].pc \in Unsent
    BY <1>1, <1>2 DEF Unsent
  <2> QED BY <2>1 DEF HostFirst, ShareConfig, limits
<1>5. Positive'
  BY DEF Positive, ShareConfig, TypeOK
<1>6. Alone' /\ (patient' => \A p \in Requests \ {q} : req'[p].pc = "idle")
  BY <1>1, <1>2, OneMoves DEF ShareConfig, limits
<1>7. InOrder'
  <2> SUFFICES ASSUME patient PROVE InOrder'
    BY DEF InOrder, ShareConfig, history, limits
  <2>1. panel[gen] = rt /\ guard = rt /\ (~unsaved => file = FromConfig(rt)) /\ SameKept(Own(q), rt)
    BY <1>2 DEF InOrder, Unsent, Sent
  <2>2. panel' = panel
    BY <2>1 DEF ShareConfig, TypeOK
  <2>3. FromConfig(rt)' = FromConfig(rt)
    BY DEF ShareConfig, FromConfig
  <2>4. SameKept(Own(q), rt)'
    BY <1>1, <2>1, <2>2 DEF ShareConfig, Own, SameKept
  <2>5. pending => req[q].gen = gen /\ host.num = rt.num /\ host.cap = rt.cap
    BY <1>2 DEF InOrder, Sent
  <2>6. /\ gen' = gen /\ guard' = rt /\ rt' = rt /\ file' = file /\ host' = host
        /\ patient' = patient /\ pending' = pending /\ unsaved' = unsaved
    BY DEF ShareConfig, limits, history
  <2> QED BY <1>1, <1>6, <2>1, <2>2, <2>3, <2>4, <2>5, <2>6 DEF InOrder, Unsent, Sent
<1>8. Rested'
  BY <1>1 DEF Rested, Settled, At
<1> QED BY <1>3, <1>4, <1>5, <1>6, <1>7, <1>8

LEMMA FinishSaveIInv ==
  ASSUME IInv, NEW q \in Requests, FinishSave(q) PROVE IInv'
<1> USE DEF IInv
<1>1. Idle = [pc |-> "idle", gen |-> 1, cfg |-> Default, got |-> Default] /\ Idle \in Request
  BY Values DEF Idle, Request, Stages
<1>2. /\ req' \in [Requests -> Request] /\ req'[q].pc = "idle"
      /\ \A p \in Requests \ {q} : req'[p] = req[p]
  BY <1>1, ReqType DEF FinishSave
<1>3. req[q] \in Request /\ req[q].pc = "finish"
  BY ReqType DEF FinishSave, At
<1>4. Own(q) \in Config
  BY <1>3 DEF TypeOK, Own, Request
<1>5. TypeOK'
  BY <1>2, <1>4 DEF TypeOK, FinishSave, Request, Stages, limits
<1>6. HostFirst'
  <2>1. \A p \in Requests : req[p].pc \in Unsent => req'[p].pc \in Unsent
    BY <1>2, <1>3 DEF Unsent
  <2> QED BY <2>1 DEF HostFirst, FinishSave, limits
<1>7. Positive'
  BY DEF Positive, FinishSave
<1>8. Alone' /\ (patient' => \A p \in Requests \ {q} : req'[p].pc = "idle")
  BY <1>2, <1>3, OneMoves DEF FinishSave, limits
<1>9. InOrder'
  BY <1>2, <1>8 DEF InOrder, Unsent, Sent
<1>10. Rested'
  <2> SUFFICES ASSUME patient PROVE Rested'
    BY DEF Rested, FinishSave, limits
  <2>1. panel[gen] = rt /\ guard = rt /\ (~unsaved => file = FromConfig(rt)) /\ SameKept(Own(q), rt)
    BY <1>3 DEF InOrder, Unsent, Sent
  <2>2. /\ panel' = panel /\ gen' = gen /\ rt' = rt /\ file' = file /\ reg' = Own(q)
        /\ guard' = rt /\ unsaved' = unsaved
    BY <2>1 DEF FinishSave, Own
  <2>3. FromConfig(rt)' = FromConfig(rt) /\ SameKept(reg, rt)'
    BY <2>1, <2>2 DEF FromConfig, SameKept
  <2> QED BY <2>1, <2>2, <2>3 DEF Rested
<1> QED BY <1>5, <1>6, <1>7, <1>8, <1>9, <1>10

\* A page of the current panel hands the runner what runs, if nothing is under
\* way; one of a replaced panel strays.
LEMMA RegisterPageIInv ==
  ASSUME IInv, NEW g \in Gens, RegisterPage(g) PROVE IInv'
<1> USE DEF IInv
<1>1. /\ rt' = rt /\ gen' = gen /\ panel' = panel /\ guard' = guard /\ file' = file
      /\ host' = host /\ pending' = pending /\ req' = req /\ unsaved' = unsaved
      /\ saves' = saves /\ edits' = edits /\ fails' = fails /\ crashes' = crashes
      /\ patient' = patient
  BY DEF RegisterPage, limits
<1>2. reg' = panel[g] /\ reg' \in Config
  BY DEF RegisterPage, TypeOK
<1>3. strayed' = (patient /\ g # gen) /\ strayed' \in BOOLEAN
  BY DEF RegisterPage
<1>4. TypeOK'
  BY <1>1, <1>2, <1>3 DEF TypeOK
<1>5. HostFirst' /\ Positive' /\ Alone'
  BY <1>1 DEF HostFirst, Positive, Alone, At, Parsed
<1>6. FromConfig(rt)' = FromConfig(rt)
  BY <1>1 DEF FromConfig
<1>7. InOrder'
  BY <1>1, <1>6 DEF InOrder, SameKept, Own
<1>8. Rested'
  <2> SUFFICES ASSUME Settled, patient
               PROVE  (panel[gen] = rt /\ guard = rt /\ (~strayed => SameKept(reg, rt))
                       /\ (~unsaved => file = FromConfig(rt)))'
    BY <1>1 DEF Rested, Settled, At
  <2>1. panel[gen] = rt /\ guard = rt /\ (~unsaved => file = FromConfig(rt))
    BY DEF Rested
  <2>2. (~strayed => SameKept(reg, rt))'
    BY <1>1, <1>2, <1>3, <2>1 DEF SameKept
  <2> QED BY <1>1, <1>6, <2>1, <2>2
<1> QED BY <1>4, <1>5, <1>7, <1>8

-----------------------------------------------------------------------------
(* The host.                                                               *)

LEMMA HostEditIInv ==
  ASSUME IInv, HostEdit PROVE IInv'
<1> USE DEF IInv
<1>1. TypeOK'
  <2>1. edits' \in 0..MaxEdits
    BY Values DEF TypeOK, HostEdit
  <2> QED BY <2>1 DEF TypeOK, HostEdit, history, runtime
<1>2. HostFirst' /\ Rested'
  BY DEF HostFirst, Rested, Settled, HostEdit
<1>3. Positive' /\ Alone'
  BY DEF Positive, Alone, At, HostEdit, runtime
<1>4. InOrder'
  BY DEF InOrder, HostEdit, history, MayChange, At, Unsent, Sent
<1> QED BY <1>1, <1>2, <1>3, <1>4

LEMMA ReconfigureIInv ==
  ASSUME IInv, Reconfigure PROVE IInv'
<1> USE DEF IInv
<1> DEFINE c == Parsed(host)
<1>1. c \in Config /\ c.cap = 1 /\ (host.num > 0 => c.num = host.num)
  BY ParsedType DEF TypeOK
<1>2. FromConfig(c) \in Overrides
  BY <1>1, FromConfigType
<1> HIDE DEF c
<1>3. /\ pending /\ ~pending' /\ host' = host /\ req' = req /\ patient' = patient
      /\ saves' = saves /\ edits' = edits /\ fails' = fails /\ crashes' = crashes
      /\ rt' = c /\ reg' = c /\ guard' = c /\ ~strayed'
      /\ \/ file' = FromConfig(c) /\ unsaved' = FALSE
         \/ file' = file /\ unsaved' = patient
      /\ gen < MaxGen /\ gen' = gen + 1 /\ panel' = [panel EXCEPT ![gen'] = c]
  BY DEF Reconfigure, ApplyConfig, Rebuild, limits, c
<1>4. gen \in Gens /\ gen' \in Gens /\ gen' # gen
  BY <1>3, Values DEF TypeOK, Gens
<1>5. panel' \in [Gens -> Config] /\ panel'[gen'] = c /\ \A g \in Gens \ {gen'} : panel'[g] = panel[g]
  BY <1>1, <1>3, <1>4 DEF TypeOK
<1>6. TypeOK'
  <2>1. rt' \in Config /\ reg' \in Config /\ guard' \in Config /\ file' \in Overrides
    BY <1>1, <1>2, <1>3 DEF TypeOK
  <2>2. /\ host' \in HostForm /\ pending' \in BOOLEAN /\ patient' \in Patience
        /\ strayed' \in BOOLEAN /\ unsaved' \in BOOLEAN
    BY <1>3, ConfigAssumption DEF TypeOK, Reconfigure, ApplyConfig
  <2>3. /\ req' \in [Requests -> Request]
        /\ saves' \in 0..MaxSaves /\ edits' \in 0..MaxEdits
        /\ fails' \in 0..MaxFail /\ crashes' \in 0..MaxCrash
    BY <1>3, ReqType DEF TypeOK
  <2> QED BY <1>4, <1>5, <2>1, <2>2, <2>3 DEF TypeOK, Request, Stages
<1>7. HostFirst'
  <2>1. Parsed(host)' = c
    BY <1>3 DEF c, Parsed
  <2> QED BY <1>3, <2>1 DEF HostFirst
<1>8. Positive'
  BY <1>1, <1>3, <1>4, <1>5 DEF Positive
<1>9. Alone'
  BY <1>3 DEF Alone, At
<1>10. FromConfig(rt)' = FromConfig(c)
  BY <1>3 DEF FromConfig
<1>11. InOrder'
  <2> SUFFICES ASSUME patient, NEW q \in Requests, req[q].pc \in Sent
               PROVE  SameKept(Own(q), rt)'
    BY <1>3, <1>5, <1>10 DEF InOrder, Unsent, Sent
  <2>1. req[q].gen = gen /\ host.num = rt.num /\ host.cap = rt.cap /\ panel[gen] = rt
    BY <1>3 DEF InOrder, Sent
  <2>2. Own(q)' = rt
    BY <1>3, <1>4, <1>5, <2>1 DEF Own
  <2>3. rt.num > 0 /\ rt.num = c.num
    BY <1>1, <2>1 DEF TypeOK, Config
  <2>4. NoZero => rt.cap = c.cap
    BY <1>1 DEF Positive
  <2> QED BY <1>3, <2>2, <2>3, <2>4 DEF SameKept
<1>12. Rested'
  BY <1>3, <1>5, <1>10 DEF Rested, SameKept
<1> QED BY <1>6, <1>7, <1>8, <1>9, <1>11, <1>12

LEMMA RestartIInv ==
  ASSUME IInv, Restart PROVE IInv'
<1> USE DEF IInv
<1> DEFINE c == Parsed(host)
<1>1. c \in Config /\ c.cap = 1
  BY ParsedType DEF TypeOK
<1>2. FromConfig(c) \in Overrides
  BY <1>1, FromConfigType
<1> HIDE DEF c
<1>3. /\ ~pending' /\ host' = host /\ req' = [q \in Requests |-> Idle] /\ patient' = patient
      /\ saves' = saves /\ edits' = edits /\ fails' = fails
      /\ rt' = c /\ reg' = c /\ guard' = c /\ ~strayed'
      /\ \/ file' = FromConfig(c) /\ unsaved' = FALSE
         \/ file' = file /\ unsaved' = patient
      /\ gen' = 1 /\ panel' = [g \in Gens |-> c]
  BY DEF Restart, ApplyConfig, c
<1>4. crashes' \in 0..MaxCrash
  BY Values DEF Restart, TypeOK
<1>5. Idle \in Request /\ \A q \in Requests : req'[q].pc = "idle"
  BY <1>3, Values DEF Idle, Request, Stages
<1>6. TypeOK'
  <2>1. req' \in [Requests -> Request] /\ panel' \in [Gens -> Config] /\ gen' \in Gens
    BY <1>1, <1>3, <1>5, Values
  <2>2. rt' \in Config /\ reg' \in Config /\ guard' \in Config /\ file' \in Overrides
    BY <1>1, <1>2, <1>3 DEF TypeOK
  <2>3. /\ host' \in HostForm /\ pending' \in BOOLEAN /\ patient' \in Patience
        /\ strayed' \in BOOLEAN /\ unsaved' \in BOOLEAN
    BY <1>3, ConfigAssumption DEF TypeOK, Restart, ApplyConfig
  <2>4. saves' \in 0..MaxSaves /\ edits' \in 0..MaxEdits /\ fails' \in 0..MaxFail
    BY <1>3 DEF TypeOK
  <2> QED BY <1>4, <2>1, <2>2, <2>3, <2>4 DEF TypeOK, Request, Stages
<1>7. HostFirst'
  <2>1. Parsed(host)' = c
    BY <1>3 DEF c, Parsed
  <2> QED BY <1>3, <2>1 DEF HostFirst
<1>8. Positive'
  BY <1>1, <1>3 DEF Positive
<1>9. Alone' /\ InOrder'
  BY <1>5 DEF Alone, InOrder, At, Unsent, Sent
<1>10. Rested'
  <2>1. panel'[gen'] = c
    BY <1>3, Values
  <2>2. FromConfig(rt)' = FromConfig(c)
    BY <1>3 DEF FromConfig
  <2> QED BY <1>3, <2>1, <2>2 DEF Rested, SameKept
<1> QED BY <1>6, <1>7, <1>8, <1>9, <1>10

LEMMA NextIInv ==
  IInv /\ [Next]_vars => IInv'
<1> SUFFICES ASSUME IInv, [Next]_vars PROVE IInv'
  OBVIOUS
<1>1. ASSUME NEW q \in Requests, HandleConfig(q) \/ Proceed(q) \/ SaveFails(q) \/ HostCallFails(q)
      PROVE  IInv'
  BY <1>1, HandleConfigIInv, SetConfigIInv, AdoptIInv, CopyConfigIInv, SaveOverridesIInv,
     SaveFailsIInv,     GetPluginConfigIInv, PutPluginConfigIInv, HostCallFailsIInv, ShareConfigIInv,
     FinishSaveIInv DEF Proceed
<1>2. CASE HostEdit \/ Reconfigure \/ Restart
  BY <1>2, HostEditIInv, ReconfigureIInv, RestartIInv
<1>3. ASSUME NEW g \in Gens, RegisterPage(g) PROVE IInv'
  BY <1>3, RegisterPageIInv
<1>4. CASE UNCHANGED vars
  BY <1>4 DEF vars, history, runtime, limits, IInv, TypeOK, HostFirst, Parsed, Positive, Alone, At,
     InOrder, FromConfig, SameKept, Own, Rested, Settled
<1> QED BY <1>1, <1>2, <1>3, <1>4 DEF Next

LEMMA Invariant == Spec => []IInv
<1>1. Init => IInv
  BY InitIInv
<1>2. IInv /\ [Next]_vars => IInv'
  BY NextIInv
<1> QED BY <1>1, <1>2, PTL DEF Spec

-----------------------------------------------------------------------------
\* Every copy is a configuration that the code could have read, and every
\* bound is kept.
THEOREM TypeCorrect == Spec => []TypeOK
<1>1. IInv => TypeOK
  BY DEF IInv
<1> QED BY <1>1, Invariant, PTL

\* For any number of overlapping saves, edits, rebuilds and restarts: if every
\* save could be written and the host took it, it has what is in effect once
\* nothing is under way.
THEOREM HostKeepsWhatRuns == Spec => []HostHasWhatRuns
<1>1. IInv => HostHasWhatRuns
  BY DEF IInv, HostFirst, HostHasWhatRuns, Settled, At, Unsent
<1> QED BY <1>1, Invariant, PTL

\* Where no panel may set the cap to 0 (which the host's form cannot carry),
\* the copies agree whenever a change is through: the overrides, if they could
\* be written; the registration runner's, unless a registration page of a
\* replaced panel has set it since.
THEOREM CopiesAgree ==
  ASSUME 0 \notin Caps PROVE Spec => []LiveCopiesAgree
<1>1. IInv => LiveCopiesAgree
  BY DEF IInv, Rested, LiveCopiesAgree, SameKept, NoZero, FromConfig
<1> QED BY <1>1, Invariant, PTL

\* Whatever the panel may set, the copies of the runtime, the guard and the
\* panel agree whenever a change is through, and so do the overrides, if they
\* could be written.
MainCopiesAgree ==
  Settled /\ patient =>
    panel[gen] = rt /\ guard = rt /\ (~unsaved => file = FromConfig(rt))

THEOREM MainCopiesAlwaysAgree == Spec => []MainCopiesAgree
<1>1. IInv => MainCopiesAgree
  BY DEF IInv, Rested, MainCopiesAgree
<1> QED BY <1>1, Invariant, PTL
=============================================================================
