----------------------------- MODULE ConfigSync -----------------------------
(***************************************************************************)
(* The copies of the configuration and their two writers: a save in the    *)
(* panel (panel/api.go, runtime.go, persist, cpaapi) and a reconfiguration *)
(* by the host (config_plugin.go, runtime.go).                             *)
(*                                                                         *)
(* Three settings stand for the kinds there are: num must be positive      *)
(* wherever it comes from; cap may be 0 in the panel and in the overrides, *)
(* not in the host's form (max_reset_seconds); sig is a list that a preset *)
(* sets and that is neither in the overrides nor in the host patch.        *)
(***************************************************************************)
EXTENDS Integers, FiniteSets

CONSTANTS
  Requests,   \* requests of the panel that may be in flight
  MaxSaves,   \* bound: saves in the panel
  MaxEdits,   \* bound: edits of the host's configuration
  MaxGen,     \* bound: rebuilds
  MaxFail,    \* bound: saves that do not reach the host
  MaxCrash,   \* bound: restarts
  Caps,       \* what the panel may set cap to
  Patience    \* whether one waits for the last change to be through: {TRUE, FALSE}

ASSUME ConfigAssumption ==
  /\ {MaxSaves, MaxEdits, MaxFail, MaxCrash} \subseteq Nat /\ MaxGen \in Nat \ {0}
  /\ Caps \subseteq 0..1 /\ Patience \subseteq BOOLEAN

VARIABLES
  rt,         \* Runtime.Cfg
  gen,        \* which rebuild the current panel and guard are from
  panel,      \* the panel's copy, of each rebuild
  guard,      \* the current guard's copy
  reg,        \* the copy of the registration runner, which lives on
  file,       \* runtime-overrides.json
  host,       \* plugins.configs of the host
  pending,    \* the host changed and has not yet called reconfigure
  req,        \* requests in flight
  saves, edits, fails, crashes,
  patient,    \* of this behaviour: nobody saves or edits before that
  \* History, kept of patient behaviours:
  strayed,    \* the runner was last set by a page of a replaced panel
  unsaved     \* the overrides could not be written the last time

runtime == <<rt, gen, panel, guard, reg>>
limits == <<saves, edits, fails, crashes, patient>>
history == <<strayed, unsaved>>
vars == <<runtime, file, host, pending, req, limits, history>>

Config == [num : 1..2, cap : 0..1, sig : 0..1]
HostForm == [num : 0..2, cap : 0..1, sig : 0..1]
Overrides == [num : 1..2, cap : 0..1]
Default == [num |-> 1, cap |-> 1, sig |-> 0]

Idle == [pc |-> "idle", gen |-> 1, cfg |-> Default, got |-> Default]
At(q, pc) == req[q].pc = pc
Gens == 1..MaxGen

-----------------------------------------------------------------------------
(* Conversions.                                                            *)

\* Mutant: what the host has is taken as it is.
ParsedAsIs(h) == h

\* parseConfigFromReconfigure: what is not positive keeps its default.
Parsed(h) ==
  [num |-> IF h.num > 0 THEN h.num ELSE Default.num,
   cap |-> IF h.cap > 0 THEN h.cap ELSE Default.cap,
   sig |-> h.sig]

FromConfig(c) == [num |-> c.num, cap |-> c.cap]

\* HostPluginPatch over what the host has.
Merged(full, c) == [full EXCEPT !.num = c.num, !.cap = c.cap]

\* handleConfig takes the fields that are present and valid; handlePreset and
\* handleToggle are of the same form.
Edited(c) ==
  [num : {c.num} \cup 1..2, cap : {c.cap} \cup Caps, sig : {c.sig, 0}]

-----------------------------------------------------------------------------
(* A save in the panel.  The request works on the panel object it came to, *)
(* which a rebuild replaces but does not stop.  What a request does not    *)
(* need any more (got, cfg) is set to Default, for fewer states.           *)

MayChange ==
  patient => ~pending /\ \A q \in Requests : At(q, "idle")

HandleConfig(q) ==
  /\ At(q, "idle") /\ saves < MaxSaves /\ MayChange
  /\ saves' = saves + 1
  /\ \E c \in Edited(panel[gen]) : panel' = [panel EXCEPT ![gen] = c]
  /\ req' = [req EXCEPT ![q] = [Idle EXCEPT !.pc = "set", !.gen = gen]]
  /\ UNCHANGED <<rt, gen, guard, reg, file, host, pending, edits, fails, crashes, patient, history>>

\* The steps below read the panel's copy again, each for itself.
Own(q) == panel[req[q].gen]

SetConfig(q) ==
  /\ At(q, "set")
  /\ rt' = Own(q) /\ reg' = Own(q) /\ strayed' = (patient /\ req[q].gen # gen)
  /\ guard' = Own(q)
  /\ req' = [req EXCEPT ![q].pc = "adopt"]
  /\ UNCHANGED <<gen, panel, file, host, pending, limits, unsaved>>

\* PersistConfig sets the runtime's copy once more ...
Adopt(q) ==
  /\ At(q, "adopt")
  /\ rt' = Own(q)
  /\ req' = [req EXCEPT ![q].pc = "copy"]
  /\ UNCHANGED <<gen, panel, guard, reg, file, host, pending, limits, history>>

\* ... and PersistPanelConfig takes what the runtime has by now.
CopyConfig(q) ==
  /\ At(q, "copy")
  /\ req' = [req EXCEPT ![q].pc = "file", ![q].cfg = rt]
  /\ UNCHANGED <<runtime, file, host, pending, limits, history>>

SaveOverrides(q) ==
  /\ At(q, "file")
  /\ file' = FromConfig(req[q].cfg) /\ unsaved' = FALSE
  /\ req' = [req EXCEPT ![q].pc = "get"]
  /\ UNCHANGED <<runtime, host, pending, limits, strayed>>

\* The overrides are written to a file aside that is then renamed.  If that
\* fails, the host is not called; the panel shows a warning and goes on.
SaveFails(q) ==
  /\ At(q, "file") /\ fails < MaxFail
  /\ fails' = fails + 1 /\ unsaved' = patient
  /\ req' = [req EXCEPT ![q].pc = "finish", ![q].cfg = Default]
  /\ UNCHANGED <<runtime, file, host, pending, saves, edits, crashes, patient, strayed>>

\* WritePluginConfig: GET, merge, PUT.
GetPluginConfig(q) ==
  /\ At(q, "get")
  /\ req' = [req EXCEPT ![q].pc = "put", ![q].got = host]
  /\ UNCHANGED <<runtime, file, host, pending, limits, history>>

PutPluginConfig(q) ==
  /\ At(q, "put")
  /\ host' = Merged(req[q].got, req[q].cfg) /\ pending' = TRUE
  /\ req' = [req EXCEPT ![q].pc = "share", ![q].got = Default]
  /\ UNCHANGED <<runtime, file, limits, history>>

\* Either call may fail, with the same warning.
HostCallFails(q) ==
  /\ req[q].pc \in {"get", "put"} /\ fails < MaxFail
  /\ fails' = fails + 1
  /\ req' = [req EXCEPT ![q].pc = "finish", ![q].cfg = Default, ![q].got = Default]
  /\ UNCHANGED <<runtime, file, host, pending, saves, edits, crashes, patient, history>>

\* Mutant: the copy that was taken before the host was called.
ShareOld(q) ==
  /\ At(q, "share")
  /\ panel' = [panel EXCEPT ![gen] = req[q].cfg] /\ guard' = req[q].cfg
  /\ req' = [req EXCEPT ![q].pc = "finish"]
  /\ UNCHANGED <<rt, gen, reg, file, host, pending, limits, history>>

ShareConfig(q) ==
  /\ At(q, "share")
  /\ panel' = [panel EXCEPT ![gen] = rt] /\ guard' = rt
  /\ req' = [req EXCEPT ![q].pc = "finish", ![q].cfg = Default]
  /\ UNCHANGED <<rt, gen, reg, file, host, pending, limits, history>>

\* persistSwitches, after the save: the objects of the request's panel, which
\* the host's answer to this very save may have replaced meanwhile.
FinishSave(q) ==
  /\ At(q, "finish")
  /\ reg' = Own(q) /\ strayed' = FALSE
  /\ guard' = IF req[q].gen = gen THEN Own(q) ELSE guard
  /\ req' = [req EXCEPT ![q] = Idle]
  /\ UNCHANGED <<rt, gen, panel, file, host, pending, limits, unsaved>>

\* The pages of the registration (status, test, start, relogin) first hand the
\* runner the copy of the panel object they came to, which may be a replaced one.
RegisterPage(g) ==
  /\ g <= gen
  /\ reg' = panel[g] /\ strayed' = (patient /\ g # gen)
  /\ UNCHANGED <<rt, gen, panel, guard, file, host, pending, req, limits, unsaved>>

-----------------------------------------------------------------------------
(* The host.                                                               *)

HostEdit ==
  /\ edits < MaxEdits /\ MayChange
  /\ edits' = edits + 1
  /\ host' \in HostForm \ {host}
  /\ pending' = TRUE
  /\ UNCHANGED <<runtime, file, req, saves, fails, crashes, patient, history>>

\* ApplyConfig, all of it under Runtime.mu: the overrides follow, or cannot be
\* written, which is only logged; everything but the registration runner is
\* built anew.
ApplyConfig(c) ==
  /\ rt' = c /\ reg' = c /\ strayed' = FALSE
  /\ \/ file' = FromConfig(c) /\ unsaved' = FALSE
     \/ file' = file /\ unsaved' = patient

Rebuild(c) ==
  /\ gen < MaxGen /\ gen' = gen + 1
  /\ panel' = [panel EXCEPT ![gen'] = c] /\ guard' = c

\* Mutant: the overrides win over what the host sends.
OverridesFirst ==
  /\ pending /\ pending' = FALSE
  /\ LET c == Merged(Parsed(host), file) IN ApplyConfig(c) /\ Rebuild(c)
  /\ UNCHANGED <<host, req, limits>>

Reconfigure ==
  /\ pending /\ pending' = FALSE
  /\ ApplyConfig(Parsed(host)) /\ Rebuild(Parsed(host))
  /\ UNCHANGED <<host, req, limits>>

\* The process ends, its requests and objects with it, and the host registers
\* the plugin again.
Restart ==
  /\ crashes < MaxCrash /\ crashes' = crashes + 1
  /\ ApplyConfig(Parsed(host))
  /\ gen' = 1 /\ pending' = FALSE
  /\ panel' = [g \in Gens |-> rt'] /\ guard' = rt'
  /\ req' = [q \in Requests |-> Idle]
  /\ UNCHANGED <<host, saves, edits, fails, patient>>

-----------------------------------------------------------------------------
Init ==
  /\ rt = Default /\ reg = Default /\ gen = 1 /\ file = FromConfig(Default)
  /\ panel = [g \in Gens |-> Default] /\ guard = Default
  /\ host = Default /\ pending = FALSE /\ strayed = FALSE /\ unsaved = FALSE
  /\ req = [q \in Requests |-> Idle]
  /\ saves = 0 /\ edits = 0 /\ fails = 0 /\ crashes = 0
  /\ patient \in Patience

Proceed(q) ==
  \/ SetConfig(q) \/ Adopt(q) \/ CopyConfig(q) \/ SaveOverrides(q)
  \/ GetPluginConfig(q) \/ PutPluginConfig(q) \/ ShareConfig(q) \/ FinishSave(q)

Next ==
  \/ \E q \in Requests :
       HandleConfig(q) \/ Proceed(q) \/ SaveFails(q) \/ HostCallFails(q)
  \/ \E g \in Gens : RegisterPage(g)
  \/ HostEdit \/ Reconfigure \/ Restart

Spec == Init /\ [][Next]_vars

\* Requests end, and the host passes on every change of its configuration.
Fairness == WF_vars(Reconfigure) /\ \A q \in Requests : WF_vars(Proceed(q))
FairSpec == Spec /\ Fairness

-----------------------------------------------------------------------------
TypeOK ==
  /\ rt \in Config /\ reg \in Config /\ gen \in Gens
  /\ panel \in [Gens -> Config] /\ guard \in Config
  /\ file \in Overrides /\ host \in HostForm /\ pending \in BOOLEAN
  /\ req \in [Requests ->
       [pc : {"idle", "set", "adopt", "copy", "file", "get", "put", "share", "finish"},
        gen : Gens, cfg : Config, got : HostForm]]
  /\ saves \in 0..MaxSaves /\ edits \in 0..MaxEdits
  /\ fails \in 0..MaxFail /\ crashes \in 0..MaxCrash /\ patient \in Patience
  /\ strayed \in BOOLEAN /\ unsaved \in BOOLEAN

Settled == ~pending /\ \A q \in Requests : At(q, "idle")

\* Where one change at a time is made, every live copy and the overrides say
\* the same when nothing is under way, failed saves, failures of the host and
\* restarts included; but for overrides that could not be written, and for a
\* runner that a registration page of a replaced panel has set, until the next
\* page or change.  A save that a reconfiguration overtook sets the runner from a
\* replaced panel, too: it then has at least what the panel keeps in the overrides.
LiveCopiesAgree ==
  Settled /\ patient =>
    /\ panel[gen] = rt /\ guard = rt
    /\ ~strayed => FromConfig(reg) = FromConfig(rt)
    /\ ~unsaved => file = FromConfig(rt)

\* However saves and edits overlap: if every save could be written and the host
\* took it, it has what is in effect when nothing is under way.
HostHasWhatRuns == Settled /\ fails = 0 => Parsed(host) = rt

\* However saves and edits overlap, the runtime, the guard and the panel end
\* up with what the host has, unless a save did not reach it: each save puts
\* what it leaves in the runtime, and each put comes back as a reconfiguration.
EndsAtHost ==
  <>[](fails = 0 => rt = Parsed(host) /\ guard = rt /\ panel[gen] = rt)
=============================================================================
