--------------------------- MODULE RegisterProofs ---------------------------
(***************************************************************************)
(* The registration job for any number of jobs, batches, cards and         *)
(* restarts: one card shows it running, one goroutine looks after it, and  *)
(* what has ended stays so.                                                *)
(*                                                                         *)
(* The three rest on one shape of the history: the current job is its      *)
(* first card, and no other card shows a job running.                      *)
(***************************************************************************)
EXTENDS RegisterJob, SequenceTheorems, TLAPS

\* A history as the runner writes it, once it has given out ids up to n and
\* heard of batches up to b.
Cards(h, n, b) ==
  /\ h \in Seq(Job) /\ Len(h) <= MaxHistory
  /\ \A i, k \in 1..Len(h) : h[i].id = h[k].id => i = k
  /\ \A i \in 1..Len(h) : /\ h[i].id <= n /\ h[i].batch <= b
                          /\ h[i].status = "running" => i = 1

\* The current job is the first card; without one, none runs.
Shown ==
  IF cur = NoJob
  THEN \A i \in 1..Len(hist) : hist[i].status # "running"
  ELSE hist # <<>> /\ hist[1].id = cur.id /\ hist[1].status = cur.status

Histories ==
  Cards(hist, seq, Len(backend)) /\ Cards(file, seq, Len(backend)) /\ Shown

\* Who looks after which job.
Busy(id) == start[id].pc # "idle" \/ poll[id].pc # "none"

Looked ==
  /\ \A id \in Ids : start[id].pc = "idle" \/ poll[id].pc = "none"
  /\ \A id \in Ids : Busy(id) => id <= seq /\ cur # NoJob
  /\ Running => Busy(cur.id)

\* The types, in three parts: what the world and the ticker have, the
\* goroutines, the current job.
Surroundings ==
  /\ epoch \in 0..MaxEpoch /\ resets \in 0..MaxEpoch /\ epoch <= resets
  /\ wait \in [Kinds -> 0..Interval]
  /\ stop \in [pc : {"idle", "asked"}, id : 0..MaxJobs]
  /\ ticker \in [pc : {"idle", "check", "gate", "remote", "launch", "await"},
                 kind : Kinds, id : 0..MaxJobs]
  /\ backend \in Seq(View) /\ Len(backend) <= MaxBatches
  /\ \A b \in 1..Len(backend) : backend[b].batch <= Len(backend)

Starts == [pc : {"idle", "health", "call", "record"}, batch : Batches]
Polls == [pc : {"none", "check", "ask", "apply", "logging"}, batch : Batches,
          left : 0..PollRounds, view : View \cup {NoView}]

Goroutines ==
  /\ start \in [Ids -> Starts] /\ poll \in [Ids -> Polls]
  /\ \A id \in Ids : /\ start[id].batch <= Len(backend)
                     /\ poll[id].batch <= Len(backend)
                     /\ poll[id].view.batch <= Len(backend)

Current ==
  /\ cur \in Job \cup {NoJob} /\ cur.batch <= Len(backend)
  /\ seq \in 0..MaxJobs /\ paused \in 0..Pause

IInv == Surroundings /\ Goroutines /\ Current /\ Histories /\ Looked

\* The step of EndedStaysEnded.
StaysEnded ==
  \A i \in DOMAIN hist, k \in DOMAIN hist' :
    hist[i].status \in Ended /\ hist'[k].id = hist[i].id => hist'[k].status \in Ended

-----------------------------------------------------------------------------
(* The history.                                                            *)

LEMMA Numbers ==
  /\ {MaxJobs, MaxBatches, MaxHistory, Interval, Pause, PollRounds} \subseteq Nat \ {0}
  /\ MaxJobs \in Nat /\ MaxBatches \in Nat /\ MaxHistory \in Nat \ {0}
  /\ PollRounds \in Nat \ {0} /\ Pause \in Nat \ {0} /\ Interval \in Nat \ {0}
  /\ MaxEpoch \in Nat
BY RegisterAssumption

LEMMA JobFacts ==
  ASSUME NEW j \in Job
  PROVE  /\ j.id \in Nat /\ j.id > 0 /\ j.id \in Ids /\ j # NoJob
         /\ j.status \in {"running"} \cup Ended
BY Numbers DEF Job, Ids, NoJob

LEMMA Slice ==
  ASSUME NEW s \in Seq(Job), NEW m \in Nat \ {0}, NEW n \in 0..Len(s), m <= n + 1
  PROVE  /\ SubSeq(s, m, n) \in Seq(Job) /\ Len(SubSeq(s, m, n)) = n + 1 - m
         /\ \A i \in 1..(n + 1 - m) : SubSeq(s, m, n)[i] = s[m - 1 + i]
<1> DEFINE q == SubSeq(s, m, n)
<1>1. Len(s) \in Nat /\ m \in Int /\ n \in Int
  BY LenProperties
<1>2. \A i \in m..n : s[i] \in Job
  BY <1>1, ElementOfSeq
<1>3. /\ q \in Seq(Job) /\ Len(q) = IF m <= n THEN n - m + 1 ELSE 0
      /\ \A i \in 1..(n - m + 1) : q[i] = s[m + i - 1]
  BY <1>1, <1>2, SubSeqProperties
<1> HIDE DEF q
<1>4. Len(q) = n + 1 - m
  BY <1>1, <1>3
<1>5. ASSUME NEW i \in 1..(n + 1 - m) PROVE q[i] = s[m - 1 + i]
  <2>1. i \in 1..(n - m + 1) /\ m + i - 1 = m - 1 + i
    BY <1>1
  <2> QED BY <1>3, <2>1
<1>6. q \in Seq(Job) /\ Len(q) = n + 1 - m /\ \A i \in 1..(n + 1 - m) : q[i] = s[m - 1 + i]
  BY <1>3, <1>4, <1>5
<1> QED BY <1>6 DEF q

\* Behind its first card an updated history has cards of the old one, each
\* once, and none of the job that was put in front.
Updates(r, h, j) ==
  /\ r \in Seq(Job) /\ Len(r) \in 1..MaxHistory /\ r[1] = j
  /\ \E g \in [2..Len(r) -> 1..Len(h)] :
       /\ \A k \in 2..Len(r) : r[k] = h[g[k]] /\ h[g[k]].id # j.id
       /\ \A k, m \in 2..Len(r) : g[k] = g[m] => k = m

LEMMA UpsertedKeeps ==
  ASSUME NEW n \in Nat, NEW b \in Nat, NEW h, Cards(h, n, b), NEW j \in Job
  PROVE  Updates(Upserted(h, j), h, j)
<1> DEFINE r == Upserted(h, j)
           same == {i \in DOMAIN h : h[i].id = j.id}
           at == CHOOSE i \in same : TRUE
           keep == IF Len(h) < MaxHistory THEN Len(h) ELSE MaxHistory - 1
<1>1. /\ h \in Seq(Job) /\ Len(h) \in Nat /\ DOMAIN h = 1..Len(h)
      /\ MaxHistory \in Nat \ {0} /\ Len(h) <= MaxHistory
      /\ \A i \in 1..Len(h) : h[i] \in Job
  BY Numbers, LenProperties, ElementOfSeq DEF Cards
<1>2. <<j>> \in Seq(Job) /\ Len(<<j>>) = 1 /\ <<j>>[1] = j
  OBVIOUS
<1>3. CASE same # {}
  <2>1. at \in 1..Len(h) /\ h[at].id = j.id
    BY <1>1, <1>3
  <2> DEFINE front == SubSeq(h, 1, at - 1)
             back == SubSeq(h, at + 1, Len(h))
             p == <<j>> \o front
  <2>2. r = p \o back
    BY <1>3 DEF Upserted
  <2> HIDE DEF at, r
  <2>3. /\ front \in Seq(Job) /\ Len(front) = at - 1
        /\ \A i \in 1..(at - 1) : front[i] = h[i]
    <3>1. 1 \in Nat \ {0} /\ at - 1 \in 0..Len(h) /\ 1 <= at - 1 + 1
      BY <1>1, <2>1
    <3>2. /\ front \in Seq(Job) /\ Len(front) = at - 1 + 1 - 1
          /\ \A i \in 1..(at - 1 + 1 - 1) : front[i] = h[1 - 1 + i]
      BY <1>1, <3>1, Slice
    <3> HIDE DEF front
    <3> QED BY <2>1, <3>2
  <2>4. /\ back \in Seq(Job) /\ Len(back) = Len(h) - at
        /\ \A i \in 1..(Len(h) - at) : back[i] = h[at + i]
    <3> DEFINE m == at + 1
    <3>1. m \in Nat \ {0} /\ Len(h) \in 0..Len(h) /\ m <= Len(h) + 1 /\ m = at + 1
      BY <1>1, <2>1
    <3> HIDE DEF m
    <3>2. /\ SubSeq(h, m, Len(h)) \in Seq(Job) /\ Len(SubSeq(h, m, Len(h))) = Len(h) + 1 - m
          /\ \A i \in 1..(Len(h) + 1 - m) : SubSeq(h, m, Len(h))[i] = h[m - 1 + i]
      BY <1>1, <3>1, Slice
    <3>3. back = SubSeq(h, m, Len(h))
      BY <3>1
    <3> HIDE DEF back
    <3>4. Len(h) + 1 - m = Len(h) - at /\ m - 1 = at
      <4> DEFINE l == Len(h)
      <4>1. l \in Int /\ at \in Int
        BY <1>1, <2>1
      <4> HIDE DEF l
      <4>2. l + 1 - m = l - at /\ m - 1 = at
        BY <3>1, <4>1
      <4> QED BY <4>2 DEF l
    <3> QED BY <3>2, <3>3, <3>4
  <2> HIDE DEF front, back
  <2>5. /\ p \in Seq(Job) /\ Len(p) = at
        /\ \A k \in 1..at : p[k] = IF k = 1 THEN j ELSE h[k - 1]
    <3>1. /\ p \in Seq(Job) /\ Len(p) = Len(<<j>>) + Len(front)
          /\ \A i \in 1..(Len(<<j>>) + Len(front)) :
               p[i] = IF i <= Len(<<j>>) THEN <<j>>[i] ELSE front[i - Len(<<j>>)]
      BY <1>2, <2>3, ConcatProperties
    <3> HIDE DEF p
    <3> QED BY <1>2, <2>1, <2>3, <3>1
  <2> HIDE DEF p
  <2>6. /\ r \in Seq(Job) /\ Len(r) = Len(p) + Len(back)
        /\ \A i \in 1..(Len(p) + Len(back)) :
             r[i] = IF i <= Len(p) THEN p[i] ELSE back[i - Len(p)]
    BY <2>2, <2>4, <2>5, ConcatProperties
  <2>7. Len(r) = Len(h) /\ r[1] = j
    <3> DEFINE l == Len(h)
    <3>1. l \in Nat /\ at \in 1..l
      BY <1>1, <2>1
    <3>2. Len(r) = at + (l - at) /\ Len(back) = l - at
      BY <2>4, <2>5, <2>6
    <3> HIDE DEF l
    <3>3. Len(r) = l
      BY <3>1, <3>2
    <3>4. 1 \in 1..(Len(p) + Len(back)) /\ 1 <= Len(p) /\ 1 \in 1..at
      BY <2>5, <3>1, <3>2
    <3>5. r[1] = p[1] /\ p[1] = j
      BY <2>5, <2>6, <3>4
    <3> QED BY <3>3, <3>5 DEF l
  <2> DEFINE g == [k \in 2..Len(r) |-> IF k <= at THEN k - 1 ELSE k]
  <2>8. g \in [2..Len(r) -> 1..Len(h)]
    BY <1>1, <2>1, <2>7
  <2>9. ASSUME NEW k \in 2..Len(r)
        PROVE  r[k] = h[g[k]] /\ g[k] # at
    BY <1>1, <2>1, <2>4, <2>5, <2>6, <2>7
  <2>10. \A k \in 2..Len(r) : h[g[k]].id # j.id
    BY <2>1, <2>8, <2>9 DEF Cards
  <2>11. \A k, m \in 2..Len(r) : g[k] = g[m] => k = m
    BY <2>1, <2>7
  <2> HIDE DEF g
  <2>12. Len(r) \in 1..MaxHistory
    BY <1>1, <2>1, <2>7
  <2>13. Updates(r, h, j)
    BY <2>6, <2>7, <2>8, <2>9, <2>10, <2>11, <2>12 DEF Updates
  <2> QED BY <2>13 DEF r
<1>4. CASE same = {}
  <2> DEFINE front == SubSeq(h, 1, keep)
  <2>1. keep \in 0..Len(h) /\ keep + 1 <= MaxHistory
    BY <1>1
  <2>2. r = <<j>> \o front
    BY <1>4 DEF Upserted
  <2> HIDE DEF keep, r
  <2>3. /\ front \in Seq(Job) /\ Len(front) = keep
        /\ \A i \in 1..keep : front[i] = h[i]
    <3>1. 1 \in Nat \ {0} /\ keep \in 0..Len(h) /\ 1 <= keep + 1
      BY <1>1, <2>1
    <3>2. /\ front \in Seq(Job) /\ Len(front) = keep + 1 - 1
          /\ \A i \in 1..(keep + 1 - 1) : front[i] = h[1 - 1 + i]
      BY <1>1, <3>1, Slice
    <3> HIDE DEF front
    <3> QED BY <2>1, <3>2
  <2> HIDE DEF front
  <2>4. /\ r \in Seq(Job) /\ Len(r) = Len(<<j>>) + Len(front)
        /\ \A i \in 1..(Len(<<j>>) + Len(front)) :
             r[i] = IF i <= Len(<<j>>) THEN <<j>>[i] ELSE front[i - Len(<<j>>)]
    BY <1>2, <2>2, <2>3, ConcatProperties
  <2>5. Len(r) = keep + 1 /\ r[1] = j /\ \A k \in 2..Len(r) : r[k] = h[k - 1]
    BY <1>2, <2>1, <2>3, <2>4
  <2> DEFINE g == [k \in 2..Len(r) |-> k - 1]
  <2>6. g \in [2..Len(r) -> 1..Len(h)]
    BY <1>1, <2>1, <2>5
  <2>7. \A k \in 2..Len(r) : r[k] = h[g[k]] /\ h[g[k]].id # j.id
    BY <1>1, <1>4, <2>5, <2>6
  <2>8. \A k, m \in 2..Len(r) : g[k] = g[m] => k = m
    BY <2>1, <2>5
  <2> HIDE DEF g
  <2>9. Len(r) \in 1..MaxHistory
    BY <1>1, <2>1, <2>5
  <2>10. Updates(r, h, j)
    BY <2>4, <2>5, <2>6, <2>7, <2>8, <2>9 DEF Updates
  <2> QED BY <2>10 DEF r
<1> QED BY <1>3, <1>4

LEMMA UpsertedCards ==
  ASSUME NEW n \in Nat, NEW b \in Nat, NEW h, Cards(h, n, b), NEW j \in Job,
         j.id <= n, j.batch <= b,
         \A i \in 1..Len(h) : h[i].status = "running" => h[i].id = j.id
  PROVE  Cards(Upserted(h, j), n, b)
<1> DEFINE r == Upserted(h, j)
<1>1. Updates(r, h, j)
  BY UpsertedKeeps
<1> HIDE DEF r
<1>2. PICK g \in [2..Len(r) -> 1..Len(h)] :
        /\ \A k \in 2..Len(r) : r[k] = h[g[k]] /\ h[g[k]].id # j.id
        /\ \A k, m \in 2..Len(r) : g[k] = g[m] => k = m
  BY <1>1 DEF Updates
<1>3. /\ r \in Seq(Job) /\ Len(r) <= MaxHistory /\ Len(r) \in Nat /\ r[1] = j
      /\ \A k \in 1..Len(r) : k = 1 \/ k \in 2..Len(r)
  BY <1>1, Numbers DEF Updates
<1>4. ASSUME NEW i \in 1..Len(r), NEW k \in 1..Len(r), r[i].id = r[k].id
      PROVE  i = k
  <2>1. CASE i \in 2..Len(r) /\ k \in 2..Len(r)
    <3>1. h[g[i]].id = h[g[k]].id
      BY <1>2, <1>4, <2>1
    <3> QED BY <1>2, <2>1, <3>1 DEF Cards
  <2>2. CASE i = 1 /\ k \in 2..Len(r)
    BY <1>2, <1>3, <1>4, <2>2
  <2>3. CASE k = 1 /\ i \in 2..Len(r)
    BY <1>2, <1>3, <1>4, <2>3
  <2> QED BY <1>3, <2>1, <2>2, <2>3
<1>5. ASSUME NEW i \in 1..Len(r)
      PROVE  r[i].id <= n /\ r[i].batch <= b /\ (r[i].status = "running" => i = 1)
  <2>1. CASE i = 1
    BY <1>3, <2>1
  <2>2. CASE i \in 2..Len(r)
    BY <1>2, <2>2 DEF Cards
  <2> QED BY <1>3, <2>1, <2>2
<1>6. Cards(r, n, b)
  BY <1>3, <1>4, <1>5 DEF Cards
<1> QED BY <1>6 DEF r

LEMMA CardsGrow ==
  ASSUME NEW n \in Nat, NEW b \in Nat, NEW m \in Nat, NEW c \in Nat, n <= m, b <= c,
         NEW h, Cards(h, n, b)
  PROVE  Cards(h, m, c)
<1>1. \A i \in 1..Len(h) : h[i].id \in Nat /\ h[i].batch \in Nat
  <2> SUFFICES ASSUME NEW i \in 1..Len(h) PROVE h[i].id \in Nat /\ h[i].batch \in Nat
    OBVIOUS
  <2>1. h[i] \in Job
    BY ElementOfSeq DEF Cards
  <2> QED BY <2>1, Numbers DEF Job, Ids, Batches
<1> QED BY <1>1 DEF Cards

LEMMA NoCards == ASSUME NEW n, NEW b PROVE Cards(<<>>, n, b)
BY Numbers DEF Cards

-----------------------------------------------------------------------------
(* Steps of the runner, as the history sees them.                          *)

Later == seq' \in Nat /\ seq <= seq' /\ Len(backend') \in Nat /\ Len(backend) <= Len(backend')

LEMMA IInvNat == IInv => seq \in Nat /\ Len(backend) \in Nat /\ hist \in Seq(Job)
                         /\ DOMAIN hist = 1..Len(hist) /\ Len(hist) \in Nat
BY Numbers, LenProperties DEF IInv, Current, Surroundings, Histories, Cards

\* A card is put in front, for the job that runs or for a new one.
LEMMA Books ==
  ASSUME IInv, Later, NEW j \in Job, UpsertHistory(j), cur' = j,
         j.id <= seq', j.batch <= Len(backend'),
         \A i \in 1..Len(hist) : hist[i].status = "running" => hist[i].id = j.id,
         \A i \in 1..Len(hist) :
           hist[i].id = j.id /\ hist[i].status \in Ended => j.status \in Ended
  PROVE  Histories' /\ StaysEnded
<1>1. /\ Cards(hist, seq', Len(backend')) /\ Cards(file, seq', Len(backend'))
      /\ Cards(<<>>, seq', Len(backend'))
  BY IInvNat, CardsGrow, NoCards DEF IInv, Histories, Later
<1>2. hist' = Upserted(hist, j) /\ Cards(hist', seq', Len(backend')) /\ Updates(hist', hist, j)
  <2>1. hist' = Upserted(hist, j)
    BY DEF UpsertHistory
  <2>2. Cards(Upserted(hist, j), seq', Len(backend'))
    BY <1>1, UpsertedCards DEF Later
  <2>3. Updates(Upserted(hist, j), hist, j)
    BY <1>1, UpsertedKeeps DEF Later
  <2> QED BY <2>1, <2>2, <2>3
<1>3. Cards(file', seq', Len(backend'))
  BY <1>1, <1>2 DEF UpsertHistory, SaveHistory
<1>4. hist' \in Seq(Job) /\ Len(hist') \in Nat \ {0} /\ hist'[1] = j
      /\ DOMAIN hist' = 1..Len(hist')
  BY <1>2, Numbers, LenProperties DEF Updates
<1>5. Shown'
  BY <1>4, JobFacts, EmptySeq DEF Shown
<1>6. StaysEnded
  <2> SUFFICES ASSUME NEW i \in 1..Len(hist), NEW k \in 1..Len(hist'),
                      hist[i].status \in Ended, hist'[k].id = hist[i].id
               PROVE  hist'[k].status \in Ended
    BY <1>4, IInvNat DEF StaysEnded
  <2>1. CASE k = 1
    BY <1>4, <2>1
  <2>2. CASE k \in 2..Len(hist')
    <3>1. PICK g \in [2..Len(hist') -> 1..Len(hist)] : hist'[k] = hist[g[k]]
      BY <1>2, <2>2 DEF Updates
    <3>2. g[k] \in 1..Len(hist) /\ g[k] = i
      BY <1>1, <2>2, <3>1 DEF Cards
    <3> QED BY <3>1, <3>2
  <2> QED BY <1>4, <2>1, <2>2
<1> QED BY <1>2, <1>3, <1>5, <1>6 DEF Histories

\* What a step leaves behind that opens no job.
Carried ==
  /\ Histories' /\ StaysEnded /\ Current'
  /\ cur # NoJob => cur' # NoJob
  /\ Running' => Running /\ cur'.id = cur.id

\* The current job's card is shown anew.
LEMMA Shows ==
  ASSUME IInv, Later, seq' = seq, cur # NoJob, NEW j \in Job, j.id = cur.id,
         j.batch <= Len(backend'), cur.status \in Ended => j.status \in Ended,
         UpsertHistory(j), cur' = j, paused' \in 0..Pause
  PROVE  Carried
<1>1. /\ 1 \in 1..Len(hist) /\ hist[1].id = cur.id /\ hist[1].status = cur.status
      /\ cur.id <= seq
  BY IInvNat, EmptySeq DEF IInv, Histories, Shown, Cards
<1>2. \A i \in 1..Len(hist) : hist[i].status = "running" => hist[i].id = j.id
  BY <1>1 DEF IInv, Histories, Cards
<1>3. \A i \in 1..Len(hist) :
        hist[i].id = j.id /\ hist[i].status \in Ended => j.status \in Ended
  BY <1>1 DEF IInv, Histories, Cards
<1>4. Histories' /\ StaysEnded
  BY <1>1, <1>2, <1>3, Books
<1>5. Current'
  BY DEF IInv, Current
<1>6. cur' # NoJob
  BY JobFacts
<1>7. Running' => Running /\ cur'.id = cur.id
  BY JobFacts DEF Running, IInv, Current, Ended
<1> QED BY <1>4, <1>5, <1>6, <1>7 DEF Carried

LEMMA Stays ==
  ASSUME IInv, Later, seq' = seq, UNCHANGED <<cur, hist, file>>, paused' \in 0..Pause
  PROVE  Carried
<1>1. Cards(hist, seq', Len(backend')) /\ Cards(file, seq', Len(backend'))
  BY IInvNat, CardsGrow DEF IInv, Histories, Later
<1>2. Histories'
  BY <1>1 DEF IInv, Histories, Shown
<1>3. StaysEnded
  BY <1>1, IInvNat DEF StaysEnded, Cards
<1>4. Current'
  BY IInvNat, Numbers DEF IInv, Current, Later, Job, NoJob, Batches
<1> QED BY <1>2, <1>3, <1>4 DEF Carried, Running

LEMMA Ends ==
  ASSUME IInv, Later, seq' = seq, cur # NoJob, NEW s \in Ended, EndCurrent(s)
  PROVE  Carried /\ ~Running'
<1> DEFINE j == [cur EXCEPT !.status = s]
<1>1. cur \in Job /\ cur.batch <= Len(backend)
  BY DEF IInv, Current
<1>2. j \in Job /\ j.id = cur.id /\ j.batch = cur.batch /\ j.status = s
  BY <1>1 DEF Job
<1>3. UpsertHistory(j) /\ cur' = j /\ paused' \in {Pause, paused}
  BY DEF EndCurrent, PushHistory
<1> HIDE DEF j
<1>4. j.batch \in Nat /\ j.batch <= Len(backend')
  BY <1>1, <1>2, Numbers, IInvNat DEF Job, Batches, Later
<1>5. paused' \in 0..Pause
  BY <1>3, Numbers DEF IInv, Current
<1>6. Carried
  BY <1>2, <1>3, <1>4, <1>5, Shows
<1> QED BY <1>2, <1>3, <1>6 DEF Running, Ended

LEMMA Fails ==
  ASSUME IInv, Later, seq' = seq, NEW id \in Ids, FailJob(id)
  PROVE  Carried /\ ~(Running' /\ cur'.id = id)
<1>1. CASE cur.id = id
  <2>1. cur # NoJob /\ EndCurrent("failed")
    BY <1>1, Numbers DEF FailJob, Ids, NoJob
  <2> QED BY <2>1, Ends DEF Ended
<1>2. CASE cur.id # id
  <2>1. UNCHANGED <<cur, hist, paused, file>>
    BY <1>2 DEF FailJob
  <2> QED BY <1>2, <2>1, Stays DEF IInv, Current
<1> QED BY <1>1, <1>2

-----------------------------------------------------------------------------
(* Steps of the runner, as its goroutines see them.                        *)

LEMMA BatchNat ==
  /\ \A x \in Starts : x.batch \in Nat
  /\ \A y \in Polls : y.batch \in Nat /\ y.view.batch \in Nat
BY Numbers DEF Starts, Polls, View, NoView, Batches

LEMMA GoroutinesStep ==
  ASSUME IInv, Later, NEW id \in Ids, NEW x \in Starts, NEW y \in Polls,
         start' = [start EXCEPT ![id] = x], poll' = [poll EXCEPT ![id] = y],
         x.batch <= Len(backend'), y.batch <= Len(backend'), y.view.batch <= Len(backend')
  PROVE  /\ Goroutines'
         /\ start'[id] = x /\ poll'[id] = y
         /\ \A i \in Ids : i # id => start'[i] = start[i] /\ poll'[i] = poll[i]
<1>1. start \in [Ids -> Starts] /\ poll \in [Ids -> Polls]
  BY DEF IInv, Goroutines
<1>2. /\ start' \in [Ids -> Starts] /\ poll' \in [Ids -> Polls]
      /\ start'[id] = x /\ poll'[id] = y
      /\ \A i \in Ids : i # id => start'[i] = start[i] /\ poll'[i] = poll[i]
  BY <1>1
<1>3. ASSUME NEW i \in Ids, i # id
      PROVE  /\ start[i].batch <= Len(backend') /\ poll[i].batch <= Len(backend')
             /\ poll[i].view.batch <= Len(backend')
  <2>1. start[i].batch \in Nat /\ poll[i].batch \in Nat /\ poll[i].view.batch \in Nat
    BY <1>1, BatchNat
  <2> QED BY <2>1, IInvNat DEF IInv, Goroutines, Later
<1>4. Goroutines'
  BY <1>2, <1>3 DEF Goroutines
<1> QED BY <1>2, <1>4

\* The goroutines of one job go on.
LEMMA Works ==
  ASSUME IInv, Later, seq' = seq, Carried, Surroundings',
         NEW id \in Ids, NEW x \in Starts, NEW y \in Polls,
         start' = [start EXCEPT ![id] = x], poll' = [poll EXCEPT ![id] = y],
         x.batch <= Len(backend'), y.batch <= Len(backend'), y.view.batch <= Len(backend'),
         x.pc = "idle" \/ y.pc = "none",
         x.pc # "idle" \/ y.pc # "none" => Busy(id),
         Running' /\ cur'.id = id => x.pc # "idle" \/ y.pc # "none"
  PROVE  IInv' /\ StaysEnded
<1>1. /\ Goroutines'
      /\ start'[id] = x /\ poll'[id] = y
      /\ \A i \in Ids : i # id => start'[i] = start[i] /\ poll'[i] = poll[i]
  BY GoroutinesStep
<1>2. \A i \in Ids : Busy(i)' => Busy(i)
  BY <1>1 DEF Busy
<1>3. \A i \in Ids : Busy(i)' => i <= seq' /\ cur' # NoJob
  BY <1>2 DEF IInv, Looked, Carried
<1>4. Running' => Busy(cur.id)' /\ cur'.id = cur.id
  <2>1. CASE Running' /\ cur'.id # id
    <3>1. cur'.id = cur.id /\ Busy(cur.id) /\ cur.id \in Ids
      BY <2>1, JobFacts DEF Carried, IInv, Looked, Current, Running, NoJob
    <3> QED BY <1>1, <2>1, <3>1 DEF Busy
  <2>2. CASE Running' /\ cur'.id = id
    BY <1>1, <2>2 DEF Busy, Carried
  <2> QED BY <2>1, <2>2
<1>5. \A i \in Ids : start'[i].pc = "idle" \/ poll'[i].pc = "none"
  BY <1>1 DEF IInv, Looked
<1>6. Running' => Busy(cur.id)'
  BY <1>4
<1>7. Looked'
  <2>1. Running' => (start'[cur'.id].pc # "idle" \/ poll'[cur'.id].pc # "none")
    BY <1>4 DEF Busy
  <2> QED BY <1>3, <1>5, <2>1 DEF Looked, Busy
<1> QED BY <1>1, <1>7 DEF Carried, IInv

\* No goroutine of a job takes part.
LEMMA Elsewhere ==
  ASSUME IInv, Later, seq' = seq, Carried, Surroundings', UNCHANGED <<start, poll>>
  PROVE  IInv' /\ StaysEnded
<1>1. 1 \in Ids
  BY Numbers DEF Ids
<1>2. /\ start \in [Ids -> Starts] /\ poll \in [Ids -> Polls]
  BY DEF IInv, Goroutines
<1>3. /\ start' = [start EXCEPT ![1] = start[1]] /\ poll' = [poll EXCEPT ![1] = poll[1]]
      /\ start[1] \in Starts /\ poll[1] \in Polls
  BY <1>1, <1>2
<1>4. /\ start[1].batch <= Len(backend') /\ poll[1].batch <= Len(backend')
      /\ poll[1].view.batch <= Len(backend')
  BY <1>1, <1>3, BatchNat, IInvNat DEF IInv, Goroutines, Later
<1>5. /\ start[1].pc = "idle" \/ poll[1].pc = "none"
      /\ start[1].pc # "idle" \/ poll[1].pc # "none" => Busy(1)
  BY <1>1 DEF IInv, Looked, Busy
<1>6. Running' /\ cur'.id = 1 => start[1].pc # "idle" \/ poll[1].pc # "none"
  BY DEF Carried, IInv, Looked, Busy
<1> QED BY <1>1, <1>3, <1>4, <1>5, <1>6, Works

\* A new job becomes the current one, with one goroutine of its own.
LEMMA Opens ==
  ASSUME IInv, ~Running, seq < MaxJobs, seq' = seq + 1, UNCHANGED <<paused, backend>>,
         Surroundings', NEW j \in Job, j.id = seq + 1, j.status = "running",
         j.batch <= Len(backend), cur' = j, UpsertHistory(j),
         NEW x \in Starts, NEW y \in Polls,
         start' = [start EXCEPT ![seq + 1] = x], poll' = [poll EXCEPT ![seq + 1] = y],
         x.batch <= Len(backend), y.batch <= Len(backend), y.view.batch <= Len(backend),
         (x.pc = "idle") # (y.pc = "none")
  PROVE  IInv' /\ StaysEnded
<1> DEFINE id == seq + 1
<1>1. Later /\ id \in Ids /\ id \in Nat /\ seq \in Nat
  BY IInvNat, Numbers DEF Later, Ids
<1>2. \A i \in 1..Len(hist) : hist[i].status # "running" /\ hist[i].id <= seq
  BY JobFacts DEF IInv, Histories, Shown, Cards, Running, Current
<1>3. \A i \in 1..Len(hist) : hist[i].id # j.id
  <2> SUFFICES ASSUME NEW i \in 1..Len(hist) PROVE hist[i].id # j.id
    OBVIOUS
  <2>1. hist[i].id \in Nat
    BY IInvNat, JobFacts, ElementOfSeq
  <2> QED BY <1>1, <1>2, <2>1
<1>4. Histories' /\ StaysEnded
  BY <1>1, <1>2, <1>3, Books
<1>5. Current'
  BY <1>1, Numbers DEF IInv, Current
<1>6. /\ Goroutines'
      /\ start'[id] = x /\ poll'[id] = y
      /\ \A i \in Ids : i # id => start'[i] = start[i] /\ poll'[i] = poll[i]
  BY <1>1, GoroutinesStep
<1> HIDE DEF id
<1>7. \A i \in Ids : start'[i].pc = "idle" \/ poll'[i].pc = "none"
  BY <1>6 DEF IInv, Looked
<1>8. \A i \in Ids : Busy(i)' => i <= seq' /\ cur' # NoJob
  <2> SUFFICES ASSUME NEW i \in Ids, Busy(i)' PROVE i <= seq'
    BY JobFacts
  <2>1. CASE i = id
    BY <1>1, <2>1 DEF id
  <2>2. CASE i # id
    <3>1. i <= seq /\ i \in Nat
      BY <1>6, <2>2, Numbers DEF IInv, Looked, Busy, Ids
    <3> QED BY <1>1, <3>1
  <2> QED BY <2>1, <2>2
<1>9. Running' => (start'[cur'.id].pc # "idle" \/ poll'[cur'.id].pc # "none")
  BY <1>6 DEF id
<1>10. Looked'
  BY <1>7, <1>8, <1>9 DEF Looked, Busy
<1> QED BY <1>4, <1>5, <1>6, <1>10 DEF IInv

-----------------------------------------------------------------------------
(* The actions.                                                            *)

LEMMA Constants ==
  /\ Idle \in Starts /\ Idle.pc = "idle" /\ Idle.batch = 0
  /\ Asleep \in Polls /\ Asleep.pc = "none" /\ Asleep.batch = 0 /\ Asleep.view.batch = 0
  /\ NoStop \in [pc : {"idle", "asked"}, id : 0..MaxJobs]
  /\ NoTick \in [pc : {"idle", "check", "gate", "remote", "launch", "await"},
                 kind : Kinds, id : 0..MaxJobs]
  /\ NoView.batch = 0
BY Numbers DEF Idle, Starts, Asleep, Polls, NoStop, NoTick, NoView, Batches, Kinds

LEMMA InitIInv == Init => IInv
<1> SUFFICES ASSUME Init PROVE IInv
  OBVIOUS
<1>1. backend = <<>> /\ Len(backend) = 0 /\ <<>> \in Seq(View)
  BY DEF Init
<1>2. Surroundings
  BY <1>1, Numbers, Constants DEF Init, Surroundings
<1>3. Goroutines
  BY <1>1, Constants DEF Init, Goroutines
<1>4. Current
  BY <1>1, Numbers DEF Init, Current, NoJob
<1>5. Histories
  BY <1>1, NoCards DEF Init, Histories, Shown
<1>6. Looked
  BY Constants DEF Init, Looked, Busy, Running, NoJob
<1> QED BY <1>2, <1>3, <1>4, <1>5, <1>6 DEF IInv

LEMMA Unchanged ==
  ASSUME IInv, seq' = seq, backend' = backend
  PROVE  Later
BY IInvNat DEF Later

\* What a goroutine of job id finds.
LEMMA Own ==
  ASSUME IInv, NEW id \in Ids
  PROVE  /\ start[id] \in Starts /\ poll[id] \in Polls
         /\ start[id].batch <= Len(backend) /\ poll[id].batch <= Len(backend)
         /\ poll[id].view.batch <= Len(backend)
         /\ poll = [poll EXCEPT ![id] = poll[id]] /\ start = [start EXCEPT ![id] = start[id]]
         /\ start[id].pc # "idle" => poll[id].pc = "none" /\ Busy(id)
         /\ poll[id].pc # "none" => start[id].pc = "idle" /\ Busy(id)
         /\ Busy(id) => cur # NoJob
BY DEF IInv, Goroutines, Looked, Busy

\* A goroutine of the job returns.
LEMMA Returns ==
  ASSUME IInv, Later, seq' = seq, Carried, Surroundings', NEW id \in Ids,
         ~(Running' /\ cur'.id = id),
         \/ /\ start' = [start EXCEPT ![id] = Idle] /\ poll' = poll
            /\ start[id].pc # "idle"
         \/ /\ poll' = [poll EXCEPT ![id] = Asleep] /\ start' = start
            /\ poll[id].pc # "none"
  PROVE  IInv' /\ StaysEnded
<1>1. /\ 0 <= Len(backend') /\ start[id].batch <= Len(backend')
      /\ poll[id].batch <= Len(backend') /\ poll[id].view.batch <= Len(backend')
  BY Own, BatchNat, IInvNat DEF Later
<1>2. CASE /\ start' = [start EXCEPT ![id] = Idle] /\ poll' = poll
           /\ start[id].pc # "idle"
  <2>1. /\ poll' = [poll EXCEPT ![id] = poll[id]] /\ poll[id] \in Polls
        /\ poll[id].pc = "none" /\ Busy(id)
    BY <1>2, Own
  <2>2. /\ Idle \in Starts /\ Idle.pc = "idle" /\ Idle.batch <= Len(backend')
        /\ start' = [start EXCEPT ![id] = Idle]
    BY <1>1, <1>2, Constants
  <2> QED BY <1>1, <2>1, <2>2, Works
<1>3. CASE /\ poll' = [poll EXCEPT ![id] = Asleep] /\ start' = start
           /\ poll[id].pc # "none"
  <2>1. /\ start' = [start EXCEPT ![id] = start[id]] /\ start[id] \in Starts
        /\ start[id].pc = "idle" /\ Busy(id)
    BY <1>3, Own
  <2>2. /\ Asleep \in Polls /\ Asleep.pc = "none" /\ Asleep.batch <= Len(backend')
        /\ Asleep.view.batch <= Len(backend') /\ poll' = [poll EXCEPT ![id] = Asleep]
    BY <1>1, <1>3, Constants
  <2> QED BY <1>1, <2>1, <2>2, Works
<1> QED BY <1>2, <1>3

LEMMA BeginSafe ==
  ASSUME IInv, Begin, UNCHANGED <<paused, poll, backend>>, Surroundings'
  PROVE  IInv' /\ StaysEnded
<1> DEFINE j == [id |-> seq + 1, status |-> "running", batch |-> 0,
                 epoch |-> epoch, good |-> FALSE]
           x == [pc |-> "health", batch |-> 0]
<1>1. seq \in Nat /\ seq + 1 \in Ids /\ Len(backend) \in Nat
  BY IInvNat, Numbers DEF Begin, Ids
<1>2. j \in Job /\ x \in Starts
  BY <1>1, Numbers DEF Job, Batches, Starts, IInv, Surroundings
<1>3. /\ ~Running /\ seq < MaxJobs /\ seq' = seq + 1 /\ cur' = j /\ UpsertHistory(j)
      /\ start' = [start EXCEPT ![seq + 1] = x]
  BY DEF Begin
<1>4. ~Busy(seq + 1)
  BY <1>1 DEF IInv, Looked
<1>5. poll' = [poll EXCEPT ![seq + 1] = poll[seq + 1]]
  BY <1>1, Own
<1>6. /\ poll[seq + 1] \in Polls /\ poll[seq + 1].pc = "none"
      /\ poll[seq + 1].batch <= Len(backend) /\ poll[seq + 1].view.batch <= Len(backend)
  BY <1>1, <1>4, Own DEF Busy
<1>7. /\ j.id = seq + 1 /\ j.status = "running" /\ j.batch = 0
      /\ x.pc = "health" /\ x.batch = 0
  OBVIOUS
<1> HIDE DEF j, x
<1>8. /\ j.batch <= Len(backend) /\ x.batch <= Len(backend)
      /\ (x.pc = "idle") # (poll[seq + 1].pc = "none")
  BY <1>1, <1>6, <1>7
<1> QED BY <1>2, <1>3, <1>5, <1>6, <1>7, <1>8, Opens

LEMMA StartFromPanelSafe ==
  ASSUME IInv, StartFromPanel
  PROVE  IInv' /\ StaysEnded
BY BeginSafe DEF StartFromPanel, IInv, Surroundings

LEMMA StartHealthSafe ==
  ASSUME IInv, NEW id \in Ids, StartHealth(id)
  PROVE  IInv' /\ StaysEnded
<1>1. /\ start[id].pc = "health"
      /\ seq' = seq /\ UNCHANGED <<epoch, wait, poll, stop, ticker, backend, resets>>
  BY DEF StartHealth
<1>2. Later /\ Surroundings'
  BY <1>1, Unchanged DEF IInv, Surroundings
<1>3. CASE /\ Carried /\ ~(Running' /\ cur'.id = id)
           /\ start' = [start EXCEPT ![id] = Idle]
  BY <1>1, <1>2, <1>3, Returns
<1>4. CASE start' = [start EXCEPT ![id].pc = "call"] /\ UNCHANGED <<cur, hist, paused, file>>
  <2> DEFINE x == [start[id] EXCEPT !.pc = "call"]
  <2>1. x \in Starts /\ x.pc = "call" /\ x.batch = start[id].batch
    BY Own DEF Starts
  <2>2. start' = [start EXCEPT ![id] = x]
    BY <1>4
  <2>3. Carried
    BY <1>1, <1>2, <1>4, Stays DEF IInv, Current
  <2> HIDE DEF x
  <2> QED BY <1>1, <1>2, <2>1, <2>2, <2>3, Own, Works
<1>5. CASE FailJob(id) /\ start' = [start EXCEPT ![id] = Idle]
  BY <1>1, <1>2, <1>3, <1>5, Fails
<1>6. CASE /\ IF cur.id = id THEN EndCurrent("done")
                             ELSE UNCHANGED <<cur, hist, paused, file>>
           /\ start' = [start EXCEPT ![id] = Idle]
  <2>1. CASE cur.id = id
    <3>1. cur # NoJob
      BY <2>1, Numbers DEF Ids, NoJob
    <3>2. Carried /\ ~Running'
      BY <1>1, <1>2, <1>6, <2>1, <3>1, Ends DEF Ended
    <3> QED BY <1>3, <1>6, <3>2
  <2>2. CASE cur.id # id
    <3>1. Carried
      BY <1>1, <1>2, <1>6, <2>2, Stays DEF IInv, Current
    <3> QED BY <1>3, <1>6, <2>2, <3>1 DEF Carried
  <2> QED BY <2>1, <2>2
<1> QED BY <1>4, <1>5, <1>6 DEF StartHealth

LEMMA BackendGrows ==
  ASSUME IInv, Len(backend) < MaxBatches,
         backend' = Append(backend, [batch |-> Len(backend) + 1,
                                     state |-> "running", good |-> FALSE])
  PROVE  /\ backend' \in Seq(View) /\ Len(backend') = Len(backend) + 1
         /\ Len(backend') <= MaxBatches
         /\ \A b \in 1..Len(backend') : backend'[b].batch <= Len(backend')
<1> DEFINE v == [batch |-> Len(backend) + 1, state |-> "running", good |-> FALSE]
<1>1. backend \in Seq(View) /\ Len(backend) \in Nat
  BY IInvNat DEF IInv, Surroundings
<1>2. v \in View /\ v.batch = Len(backend) + 1
  BY <1>1, Numbers DEF View, Batches
<1> HIDE DEF v
<1>3. /\ backend' \in Seq(View) /\ Len(backend') = Len(backend) + 1
      /\ \A i \in 1..Len(backend) : backend'[i] = backend[i]
      /\ backend'[Len(backend) + 1] = v
  BY <1>1, <1>2, AppendProperties DEF v
<1>4. ASSUME NEW b \in 1..Len(backend')
      PROVE  backend'[b].batch <= Len(backend')
  <2>1. CASE b \in 1..Len(backend)
    <3>1. backend'[b] \in View
      BY <1>3, ElementOfSeq
    <3>2. backend'[b].batch <= Len(backend) /\ backend'[b].batch \in Nat
      BY <1>3, <2>1, <3>1, Numbers DEF IInv, Surroundings, View, Batches
    <3> QED BY <1>1, <1>3, <3>2
  <2>2. CASE b = Len(backend) + 1
    BY <1>1, <1>2, <1>3, <2>2
  <2> QED BY <1>1, <1>3, <2>1, <2>2
<1> QED BY <1>1, <1>3, <1>4, Numbers

LEMMA StartRegisterSafe ==
  ASSUME IInv, NEW id \in Ids, StartRegister(id)
  PROVE  IInv' /\ StaysEnded
<1>1. /\ start[id].pc = "call"
      /\ seq' = seq /\ UNCHANGED <<epoch, wait, poll, stop, ticker, resets>>
  BY DEF StartRegister
<1>2. Later /\ Surroundings'
  <2>1. CASE backend' = backend
    BY <1>1, <2>1, Unchanged DEF IInv, Surroundings
  <2>2. CASE /\ Len(backend) < MaxBatches
             /\ backend' = Append(backend, [batch |-> Len(backend) + 1,
                                            state |-> "running", good |-> FALSE])
    BY <1>1, <2>2, BackendGrows, IInvNat DEF IInv, Surroundings, Later
  <2> QED BY <2>1, <2>2 DEF StartRegister
<1>3. /\ start[id].pc # "idle" /\ Busy(id) /\ poll[id].pc = "none" /\ poll[id] \in Polls
      /\ poll' = [poll EXCEPT ![id] = poll[id]]
      /\ poll[id].batch <= Len(backend') /\ poll[id].view.batch <= Len(backend')
  BY <1>1, <1>2, Own, BatchNat, IInvNat DEF Later
<1>4. CASE FailJob(id) /\ start' = [start EXCEPT ![id] = Idle]
  <2>1. Carried /\ ~(Running' /\ cur'.id = id)
    BY <1>1, <1>2, <1>4, Fails
  <2> QED BY <1>1, <1>2, <1>3, <1>4, <2>1, Returns
<1>5. CASE /\ \E b \in {0, Len(backend')} :
                start' = [start EXCEPT ![id] = [pc |-> "record", batch |-> b]]
           /\ UNCHANGED <<cur, hist, paused, file>>
  <2>1. PICK b \in {0, Len(backend')} :
          start' = [start EXCEPT ![id] = [pc |-> "record", batch |-> b]]
    BY <1>5
  <2> DEFINE x == [pc |-> "record", batch |-> b]
  <2>2. b \in Batches /\ b <= Len(backend')
    BY <1>2, <2>1, Numbers DEF Later, Batches, Surroundings
  <2>3. x \in Starts /\ x.pc = "record" /\ x.batch = b
    BY <2>2 DEF Starts
  <2>4. Carried
    BY <1>1, <1>2, <1>5, Stays DEF IInv, Current
  <2> HIDE DEF x
  <2> QED BY <1>1, <1>2, <1>3, <2>1, <2>2, <2>3, <2>4, Works DEF x
<1> QED BY <1>4, <1>5 DEF StartRegister

LEMMA SpawnedType ==
  ASSUME NEW p \in [Ids -> Polls], NEW id \in Ids, NEW b \in Batches
  PROVE  \E y \in Polls : /\ Spawned(p, id, b) = [p EXCEPT ![id] = y]
                          /\ y.pc = "check" /\ y.batch = b /\ y.view.batch = 0
<1> DEFINE y == [pc |-> "check", batch |-> b, left |-> PollRounds, view |-> NoView]
<1>1. y \in Polls /\ y.pc = "check" /\ y.batch = b /\ y.view.batch = 0
  BY Numbers DEF Polls, NoView
<1>2. Spawned(p, id, b) = [p EXCEPT ![id] = y]
  BY DEF Spawned
<1> QED BY <1>1, <1>2

LEMMA StartRecordSafe ==
  ASSUME IInv, NEW id \in Ids, StartRecord(id)
  PROVE  IInv' /\ StaysEnded
<1> DEFINE b == start[id].batch
           j == [cur EXCEPT !.batch = b]
<1>1. /\ start[id].pc = "record" /\ start' = [start EXCEPT ![id] = Idle]
      /\ poll' = Spawned(poll, id, b)
      /\ seq' = seq /\ UNCHANGED <<epoch, paused, wait, stop, ticker, backend, resets>>
  BY DEF StartRecord
<1>2. Later /\ Surroundings'
  BY <1>1, Unchanged DEF IInv, Surroundings
<1>3. b \in Batches /\ b <= Len(backend) /\ 0 <= Len(backend) /\ Busy(id) /\ backend' = backend
  BY <1>1, Own, IInvNat DEF Starts
<1>4. PICK y \in Polls : /\ poll' = [poll EXCEPT ![id] = y]
                         /\ y.pc = "check" /\ y.batch = b /\ y.view.batch = 0
  <2>1. poll \in [Ids -> Polls]
    BY DEF IInv, Goroutines
  <2> HIDE DEF b
  <2> QED BY <1>1, <1>3, <2>1, SpawnedType
<1>5. Carried
  <2>1. CASE cur.id = id
    <3>1. cur # NoJob /\ cur \in Job
      BY <2>1, Numbers DEF Ids, NoJob, IInv, Current
    <3>2. j \in Job /\ j.id = cur.id /\ j.status = cur.status /\ j.batch = b
      BY <1>3, <3>1 DEF Job
    <3>3. cur' = j /\ UpsertHistory(j)
      BY <2>1 DEF StartRecord
    <3>4. paused' \in 0..Pause
      BY <1>1 DEF IInv, Current
    <3> HIDE DEF j, b
    <3> QED BY <1>1, <1>2, <1>3, <3>1, <3>2, <3>3, <3>4, Shows
  <2>2. CASE cur.id # id
    BY <1>1, <1>2, <2>2, Stays DEF StartRecord, IInv, Current
  <2> QED BY <2>1, <2>2
<1> HIDE DEF b
<1>6. Idle \in Starts /\ Idle.pc = "idle" /\ Idle.batch <= Len(backend')
  BY <1>3, Constants
<1>7. y.batch <= Len(backend') /\ y.view.batch <= Len(backend')
  BY <1>3, <1>4
<1> QED BY <1>1, <1>2, <1>3, <1>4, <1>5, <1>6, <1>7, Works

-----------------------------------------------------------------------------
\* The poller goes on, or it returns after the job that it found current has
\* ended.
LEMMA Polling ==
  ASSUME IInv, NEW id \in Ids, poll[id].pc # "none", Carried,
         UNCHANGED <<seq, epoch, wait, start, stop, ticker, backend, resets>>,
         NEW y \in Polls, poll' = [poll EXCEPT ![id] = y], y.pc # "none",
         y.batch <= Len(backend), y.view.batch <= Len(backend)
  PROVE  IInv' /\ StaysEnded
<1>1. Later /\ Surroundings'
  BY Unchanged DEF IInv, Surroundings
<1>2. /\ start' = [start EXCEPT ![id] = start[id]] /\ start[id] \in Starts
      /\ start[id].pc = "idle" /\ start[id].batch <= Len(backend) /\ Busy(id)
  BY Own
<1>3. backend' = backend
  OBVIOUS
<1> QED BY <1>1, <1>2, <1>3, Works

LEMMA PollReturns ==
  ASSUME IInv, NEW id \in Ids, poll[id].pc # "none", Carried, ~(Running' /\ cur'.id = id),
         UNCHANGED <<seq, epoch, wait, start, stop, ticker, backend, resets>>,
         poll' = [poll EXCEPT ![id] = Asleep]
  PROVE  IInv' /\ StaysEnded
<1>1. Later /\ Surroundings'
  BY Unchanged DEF IInv, Surroundings
<1> QED BY <1>1, Returns

LEMMA PollCheckSafe ==
  ASSUME IInv, NEW id \in Ids, PollCheck(id)
  PROVE  IInv' /\ StaysEnded
<1>1. /\ poll[id].pc = "check"
      /\ UNCHANGED <<seq, epoch, wait, start, stop, ticker, backend, resets>>
  BY DEF PollCheck
<1>2. Later
  BY <1>1, Unchanged
<1>3. CASE poll[id].left = 0
  <2>1. FailJob(id) /\ poll' = [poll EXCEPT ![id] = Asleep]
    BY <1>3 DEF PollCheck
  <2>2. Carried /\ ~(Running' /\ cur'.id = id)
    BY <1>1, <1>2, <2>1, Fails
  <2> QED BY <1>1, <2>1, <2>2, PollReturns
<1>4. CASE poll[id].left # 0
  <2>1. UNCHANGED <<cur, hist, paused, file>>
    BY <1>4 DEF PollCheck
  <2>2. Carried
    BY <1>1, <1>2, <2>1, Stays DEF IInv, Current
  <2>3. CASE cur.id = id /\ Running
    <3> DEFINE y == [poll[id] EXCEPT !.pc = "ask", !.left = @ - 1]
    <3>1. poll[id] \in Polls /\ poll[id].left \in 1..PollRounds
      BY <1>4, Own, Numbers DEF Polls
    <3>2. poll' = [poll EXCEPT ![id] = y]
      BY <1>4, <2>3 DEF PollCheck
    <3>3. y \in Polls /\ y.pc = "ask" /\ y.batch = poll[id].batch /\ y.view = poll[id].view
      <4>1. poll[id].left - 1 \in 0..PollRounds
        BY <3>1, Numbers
      <4> QED BY <3>1, <4>1 DEF Polls
    <3> HIDE DEF y
    <3>4. y.batch <= Len(backend) /\ y.view.batch <= Len(backend)
      BY <3>3, Own
    <3> QED BY <1>1, <2>2, <3>2, <3>3, <3>4, Polling
  <2>4. CASE ~(cur.id = id /\ Running)
    <3>1. poll' = [poll EXCEPT ![id] = Asleep]
      BY <1>4, <2>4 DEF PollCheck
    <3>2. ~(Running' /\ cur'.id = id)
      BY <2>1, <2>4 DEF Running
    <3> QED BY <1>1, <2>2, <3>1, <3>2, PollReturns
  <2> QED BY <2>3, <2>4
<1> QED BY <1>3, <1>4

LEMMA PollAskSafe ==
  ASSUME IInv, NEW id \in Ids, PollAsk(id)
  PROVE  IInv' /\ StaysEnded
<1>1. /\ poll[id].pc = "ask"
      /\ UNCHANGED <<seq, epoch, wait, start, stop, ticker, backend, resets>>
      /\ UNCHANGED <<cur, hist, paused, file>>
  BY DEF PollAsk
<1>2. Carried
  BY <1>1, Unchanged, Stays DEF IInv, Current
<1>3. /\ poll[id] \in Polls /\ poll[id].batch <= Len(backend)
      /\ poll[id].view.batch <= Len(backend) /\ poll[id].batch \in Nat
  BY Own, BatchNat
<1>4. ASSUME NEW b \in {Len(backend), poll[id].batch} \ {0},
             poll' = [poll EXCEPT ![id].pc = "apply", ![id].view = backend[b]]
      PROVE  IInv' /\ StaysEnded
  <2> DEFINE y == [poll[id] EXCEPT !.pc = "apply", !.view = backend[b]]
  <2>1. b \in 1..Len(backend)
    BY <1>3, IInvNat
  <2>2. backend[b] \in View /\ backend[b].batch <= Len(backend)
    BY <2>1, ElementOfSeq DEF IInv, Surroundings
  <2>3. poll' = [poll EXCEPT ![id] = y]
    BY <1>4 DEF IInv, Goroutines
  <2>4. y \in Polls /\ y.pc = "apply" /\ y.batch = poll[id].batch /\ y.view = backend[b]
    BY <1>3, <2>2 DEF Polls
  <2> HIDE DEF y
  <2> QED BY <1>1, <1>2, <1>3, <2>2, <2>3, <2>4, Polling
<1>5. CASE poll' = [poll EXCEPT ![id].pc = "check"]
  <2> DEFINE y == [poll[id] EXCEPT !.pc = "check"]
  <2>1. poll' = [poll EXCEPT ![id] = y]
    BY <1>5
  <2>2. y \in Polls /\ y.pc = "check" /\ y.batch = poll[id].batch /\ y.view = poll[id].view
    BY <1>3 DEF Polls
  <2> HIDE DEF y
  <2> QED BY <1>1, <1>2, <1>3, <2>1, <2>2, Polling
<1> QED BY <1>4, <1>5 DEF PollAsk

LEMMA PollApplySafe ==
  ASSUME IInv, NEW id \in Ids, PollApply(id)
  PROVE  IInv' /\ StaysEnded
<1> DEFINE view == poll[id].view
           y == [poll[id] EXCEPT !.pc = "check", !.view = NoView]
           z == [poll[id] EXCEPT !.pc = "logging"]
           j == Told(view)
<1>1. /\ poll[id].pc = "apply"
      /\ UNCHANGED <<seq, epoch, wait, start, stop, ticker, backend, resets>>
  BY DEF PollApply
<1>2. Later
  BY <1>1, Unchanged
<1>3. /\ poll[id] \in Polls /\ poll[id].batch <= Len(backend) /\ view.batch <= Len(backend)
      /\ poll \in [Ids -> Polls] /\ cur # NoJob /\ cur \in Job /\ paused \in 0..Pause
      /\ 0 <= Len(backend)
  BY <1>1, Own, IInvNat DEF IInv, Goroutines, Current
<1>4. /\ y \in Polls /\ y.pc = "check" /\ y.batch = poll[id].batch /\ y.view.batch = 0
      /\ [poll EXCEPT ![id].pc = "check", ![id].view = NoView] = [poll EXCEPT ![id] = y]
  BY <1>3, Constants DEF Polls
<1>5. /\ z \in Polls /\ z.pc = "logging" /\ z.batch = poll[id].batch /\ z.view = view
      /\ [poll EXCEPT ![id].pc = "logging"] = [poll EXCEPT ![id] = z]
  BY <1>3 DEF Polls
<1>6. view.batch \in Batches /\ view.good \in BOOLEAN
  <2>1. view \in View \cup {NoView}
    BY <1>3 DEF Polls
  <2>2. 0 \in Batches /\ NoView.batch = 0 /\ NoView.good = FALSE
    BY Numbers DEF NoView, Batches
  <2>3. CASE view \in View
    BY <2>3 DEF View
  <2> QED BY <2>1, <2>2, <2>3
<1>7. j \in Job /\ j.id = cur.id /\ j.batch = view.batch /\ j.status = cur.status
  BY <1>3, <1>6 DEF Told, Job
<1> HIDE DEF view, y, z, j
<1>8. ASSUME Carried, poll' = [poll EXCEPT ![id] = y] PROVE IInv' /\ StaysEnded
  BY <1>1, <1>3, <1>4, <1>8, Polling
<1>9. CASE /\ UNCHANGED <<cur, hist, paused, file>>
           /\ poll' = [poll EXCEPT ![id].pc = "check", ![id].view = NoView]
  <2>1. Carried
    BY <1>1, <1>2, <1>3, <1>9, Stays
  <2> QED BY <1>4, <1>8, <1>9, <2>1
<1>10. CASE /\ cur' = j /\ UpsertHistory(j) /\ UNCHANGED paused
            /\ poll' = [poll EXCEPT ![id].pc = "logging"]
  <2>1. Carried
    BY <1>1, <1>2, <1>3, <1>7, <1>10, Shows
  <2>2. z.batch <= Len(backend) /\ z.view.batch <= Len(backend)
    BY <1>3, <1>5
  <2> QED BY <1>1, <1>5, <1>10, <2>1, <2>2, Polling
<1>11. CASE /\ view.state \in Ended /\ cur' = [j EXCEPT !.status = view.state]
            /\ PushHistory(cur')
            /\ poll' = [poll EXCEPT ![id] = Asleep]
  <2> DEFINE k == [j EXCEPT !.status = view.state]
  <2>1. k \in Job /\ k.id = cur.id /\ k.batch = view.batch /\ k.status = view.state
    BY <1>7, <1>11 DEF Job
  <2>2. cur' = k /\ UpsertHistory(k) /\ paused' \in {Pause, paused}
    BY <1>11 DEF PushHistory
  <2> HIDE DEF k
  <2>3. paused' \in 0..Pause
    BY <1>3, <2>2, Numbers
  <2>4. Carried
    BY <1>1, <1>2, <1>3, <1>11, <2>1, <2>2, <2>3, Shows
  <2>5. ~(Running' /\ cur'.id = id)
    BY <1>11, <2>1, <2>2 DEF Running, Ended
  <2> QED BY <1>1, <1>11, <2>4, <2>5, PollReturns
<1>12. CASE /\ cur' = j /\ (UpsertHistory(j) \/ UNCHANGED <<hist, file>>) /\ UNCHANGED paused
            /\ poll' = [poll EXCEPT ![id].pc = "check", ![id].view = NoView]
  <2>1. CASE UpsertHistory(j)
    BY <1>1, <1>2, <1>3, <1>4, <1>7, <1>8, <1>12, <2>1, Shows
  <2>2. CASE UNCHANGED <<hist, file>>
    <3>1. Histories'
      BY <1>1, <1>3, <1>7, <1>12, <2>2, JobFacts DEF IInv, Histories, Shown
    <3>2. StaysEnded
      BY <2>2, IInvNat DEF StaysEnded, IInv, Histories, Cards
    <3>3. Current'
      BY <1>1, <1>3, <1>7, <1>12 DEF IInv, Current
    <3>4. Carried
      BY <1>7, <1>12, <3>1, <3>2, <3>3, JobFacts DEF Carried, Running
    <3> QED BY <1>4, <1>8, <1>12, <3>4
  <2> QED BY <1>12, <2>1, <2>2
<1> QED BY <1>9, <1>10, <1>11, <1>12 DEF PollApply, view, j

LEMMA PollLoggedSafe ==
  ASSUME IInv, NEW id \in Ids, PollLogged(id)
  PROVE  IInv' /\ StaysEnded
<1> DEFINE y == [poll[id] EXCEPT !.pc = "check", !.view = NoView]
<1>1. /\ poll[id].pc = "logging"
      /\ UNCHANGED <<seq, epoch, wait, start, stop, ticker, backend, resets>>
  BY DEF PollLogged
<1>2. Later /\ cur # NoJob
  BY <1>1, Unchanged, Own
<1>3. CASE poll[id].view.state \in Ended
  <2>1. EndCurrent(poll[id].view.state) /\ poll' = [poll EXCEPT ![id] = Asleep]
    BY <1>3 DEF PollLogged
  <2>2. Carried /\ ~Running'
    BY <1>1, <1>2, <1>3, <2>1, Ends
  <2> QED BY <1>1, <2>1, <2>2, PollReturns
<1>4. CASE poll[id].view.state \notin Ended
  <2>1. /\ poll' = [poll EXCEPT ![id].pc = "check", ![id].view = NoView]
        /\ UNCHANGED <<cur, hist, paused, file>>
    BY <1>4 DEF PollLogged
  <2>2. Carried
    BY <1>1, <1>2, <2>1, Stays DEF IInv, Current
  <2>3. /\ y \in Polls /\ y.pc = "check" /\ y.batch = poll[id].batch /\ y.view.batch = 0
        /\ poll' = [poll EXCEPT ![id] = y]
    <3>1. poll[id] \in Polls /\ poll \in [Ids -> Polls]
      BY Own DEF IInv, Goroutines
    <3> QED BY <2>1, <3>1, Constants DEF Polls
  <2> HIDE DEF y
  <2>4. y.batch <= Len(backend) /\ y.view.batch <= Len(backend)
    BY <2>3, Own, IInvNat
  <2> QED BY <1>1, <2>2, <2>3, <2>4, Polling
<1> QED BY <1>3, <1>4

-----------------------------------------------------------------------------
LEMMA StopEndSafe ==
  ASSUME IInv, StopEnd
  PROVE  IInv' /\ StaysEnded
<1>1. /\ stop' = NoStop
      /\ UNCHANGED <<seq, epoch, wait, start, poll, ticker, backend, resets>>
  BY DEF StopEnd
<1>2. Later /\ Surroundings'
  BY <1>1, Unchanged, Constants DEF IInv, Surroundings
<1>3. CASE stop.id # 0 /\ cur.id = stop.id /\ EndCurrent("stopped")
  <2>1. cur # NoJob
    BY <1>3 DEF NoJob
  <2>2. Carried
    BY <1>1, <1>2, <1>3, <2>1, Ends DEF Ended
  <2> QED BY <1>1, <1>2, <2>2, Elsewhere
<1>4. CASE UNCHANGED <<cur, hist, paused, file>>
  <2>1. Carried
    BY <1>1, <1>2, <1>4, Stays DEF IInv, Current
  <2> QED BY <1>1, <1>2, <2>1, Elsewhere
<1> QED BY <1>3, <1>4 DEF StopEnd

\* Steps that leave the jobs and their goroutines alone.
LEMMA WorldSafe ==
  ASSUME IInv, UNCHANGED <<cur, hist, file, seq, start, poll>>,
         paused' \in 0..Pause, Surroundings', Len(backend') = Len(backend)
  PROVE  IInv' /\ StaysEnded
<1>1. Later
  BY IInvNat DEF Later
<1>2. Carried
  BY <1>1, Stays
<1> QED BY <1>1, <1>2, Elsewhere

LEMMA PanelSafe ==
  ASSUME IInv, StopBegin \/ ClearSuccessHistory
  PROVE  IInv' /\ StaysEnded
<1>1. CASE StopBegin
  <2>1. (IF Running THEN cur.id ELSE 0) \in 0..MaxJobs
    BY Numbers DEF IInv, Current, Job, NoJob, Ids
  <2>2. Surroundings'
    BY <1>1, <2>1 DEF StopBegin, IInv, Surroundings
  <2> QED BY <1>1, <2>2, WorldSafe DEF StopBegin, IInv, Current
<1>2. CASE ClearSuccessHistory
  <2>1. Surroundings'
    BY <1>2, Numbers DEF ClearSuccessHistory, procs, IInv, Surroundings
  <2> QED BY <1>2, <2>1, Numbers, WorldSafe DEF ClearSuccessHistory, procs
<1> QED BY <1>1, <1>2

LEMMA NextKindType ==
  ASSUME IInv
  PROVE  NextKind \in [pc : {"idle", "check", "gate", "remote", "launch", "await"},
                       kind : Kinds, id : 0..MaxJobs]
BY Constants, Numbers DEF NextKind, Kinds

LEMMA AutoQuietSafe ==
  ASSUME IInv, AutoBegin \/ AutoCheck \/ AutoGate \/ AutoReturn
  PROVE  IInv' /\ StaysEnded
<1> DEFINE Ticks == [pc : {"idle", "check", "gate", "remote", "launch", "await"},
                     kind : Kinds, id : 0..MaxJobs]
<1>1. ticker \in Ticks /\ NextKind \in Ticks /\ NoTick \in Ticks
  BY NextKindType, Constants DEF IInv, Surroundings
<1>2. /\ [NoTick EXCEPT !.pc = "check"] \in Ticks /\ [ticker EXCEPT !.pc = "gate"] \in Ticks
      /\ [ticker EXCEPT !.pc = "remote"] \in Ticks
  BY <1>1
<1>3. /\ UNCHANGED <<cur, hist, file, seq, start, poll, epoch, resets, wait, stop, backend>>
      /\ ticker' \in Ticks
  <2> HIDE DEF Ticks
  <2> QED BY <1>1, <1>2 DEF AutoBegin, AutoCheck, AutoGate, AutoReturn
<1>4. paused' \in 0..Pause
  BY Numbers DEF AutoBegin, AutoCheck, AutoGate, AutoReturn, IInv, Current
<1>5. Surroundings'
  BY <1>3 DEF IInv, Surroundings
<1> QED BY <1>3, <1>4, <1>5, WorldSafe

\* A batch nobody accounts for gets a card of its own, since no card runs.
LEMMA CardIsNew ==
  ASSUME IInv, ~Running, NEW b
  PROVE  CardFor(b) = seq + 1
<1>1. \A i \in 1..Len(hist) : hist[i].status # "running"
  BY DEF IInv, Histories, Shown, Running, Cards
<1> QED BY <1>1, IInvNat DEF CardFor

LEMMA AutoRemoteSafe ==
  ASSUME IInv, AutoRemote
  PROVE  IInv' /\ StaysEnded
<1> DEFINE Ticks == [pc : {"idle", "check", "gate", "remote", "launch", "await"},
                     kind : Kinds, id : 0..MaxJobs]
           b == Len(backend)
<1>1. ticker \in Ticks /\ NextKind \in Ticks /\ [ticker EXCEPT !.pc = "launch"] \in Ticks
  BY NextKindType DEF IInv, Surroundings
<1>2. ticker' \in Ticks /\ UNCHANGED <<epoch, paused, wait, start, stop, backend, resets>>
  <2> HIDE DEF Ticks
  <2> QED BY <1>1 DEF AutoRemote
<1>3. Surroundings' /\ paused' \in 0..Pause
  BY <1>2 DEF IInv, Surroundings, Current
<1>4. CASE UNCHANGED <<cur, hist, seq, poll, file>>
  BY <1>2, <1>3, <1>4, WorldSafe
<1>5. CASE InProgress /\ AdoptRemoteRegistration /\ ~Running
  <2> DEFINE j == [id |-> seq + 1, status |-> "running", batch |-> b,
                   epoch |-> epoch, good |-> backend[b].good]
  <2>1. CardFor(b) = seq + 1
    BY <1>5, CardIsNew
  <2>2. /\ seq < MaxJobs /\ seq' = seq + 1 /\ cur' = j /\ UpsertHistory(j)
        /\ poll' = Spawned(poll, seq + 1, b)
    BY <1>5, <2>1 DEF AdoptRemoteRegistration
  <2>3. /\ seq \in Nat /\ seq + 1 \in Ids /\ b \in 1..MaxBatches /\ b \in Batches
        /\ backend \in Seq(View)
    BY <1>5, <2>2, IInvNat, EmptySeq, Numbers
       DEF InProgress, Ids, Batches, IInv, Surroundings
  <2>4. backend[b].good \in BOOLEAN
    <3>1. backend[b] \in View
      BY <2>3, ElementOfSeq
    <3> QED BY <3>1 DEF View
  <2>5. /\ j \in Job /\ j.id = seq + 1 /\ j.status = "running" /\ j.batch <= Len(backend)
    BY <2>3, <2>4, Numbers DEF Job, IInv, Surroundings
  <2>6. PICK y \in Polls : /\ poll' = [poll EXCEPT ![seq + 1] = y]
                           /\ y.pc = "check" /\ y.batch = b /\ y.view.batch = 0
    <3>1. poll \in [Ids -> Polls]
      BY DEF IInv, Goroutines
    <3> HIDE DEF b
    <3> DEFINE id == seq + 1
    <3>2. id \in Ids
      BY <2>3
    <3> HIDE DEF id
    <3>3. \E y \in Polls : /\ Spawned(poll, id, b) = [poll EXCEPT ![id] = y]
                           /\ y.pc = "check" /\ y.batch = b /\ y.view.batch = 0
      BY <2>3, <3>1, <3>2, SpawnedType
    <3> QED BY <2>2, <3>3 DEF id
  <2>7. y.batch <= Len(backend) /\ y.view.batch <= Len(backend)
    BY <2>3, <2>6
  <2>8. ~Busy(seq + 1)
    BY <2>3 DEF IInv, Looked
  <2>9. /\ start' = [start EXCEPT ![seq + 1] = start[seq + 1]] /\ start[seq + 1] \in Starts
        /\ start[seq + 1].pc = "idle" /\ start[seq + 1].batch <= Len(backend)
    BY <1>2, <2>3, <2>8, Own DEF Busy
  <2>10. (start[seq + 1].pc = "idle") # (y.pc = "none")
    BY <2>6, <2>9
  <2> HIDE DEF j, b
  <2> QED BY <1>2, <1>3, <1>5, <2>2, <2>5, <2>6, <2>7, <2>9, <2>10, Opens
<1>6. CASE AdoptRemoteRegistration /\ Running
  BY <1>4, <1>6 DEF AdoptRemoteRegistration
<1> QED BY <1>4, <1>5, <1>6 DEF AutoRemote

LEMMA AutoLaunchSafe ==
  ASSUME IInv, AutoLaunch
  PROVE  IInv' /\ StaysEnded
<1>1. UNCHANGED <<epoch, paused, poll, stop, backend, resets>>
  BY DEF AutoLaunch
<1>2. Interval \in 0..Interval /\ wait' \in [Kinds -> 0..Interval]
  BY Numbers DEF AutoLaunch, IInv, Surroundings
<1>3. CASE Begin /\ ticker' = [ticker EXCEPT !.pc = "await", !.id = seq + 1]
  <2>1. seq + 1 \in 0..MaxJobs
    BY <1>3, IInvNat, Numbers DEF Begin
  <2>2. Surroundings'
    BY <1>1, <1>2, <1>3, <2>1 DEF IInv, Surroundings
  <2> QED BY <1>1, <1>3, <2>2, BeginSafe
<1>4. CASE ticker' = NextKind /\ UNCHANGED <<cur, hist, seq, start, file>>
  <2>1. Surroundings'
    BY <1>1, <1>2, <1>4, NextKindType DEF IInv, Surroundings
  <2> QED BY <1>1, <1>4, <2>1, WorldSafe DEF IInv, Current
<1> QED BY <1>3, <1>4 DEF AutoLaunch

-----------------------------------------------------------------------------
\* The file shows at most one job running, in front.
LEMMA FirstRunningCard ==
  ASSUME NEW h, NEW n, NEW b, Cards(h, n, b)
  PROVE  \/ /\ FirstRunning(h) = NoJob
            /\ \A i \in 1..Len(h) : h[i].status # "running"
         \/ /\ FirstRunning(h) = h[1] /\ 1 \in 1..Len(h) /\ h[1].status = "running"
<1> DEFINE open == {i \in DOMAIN h : h[i].status = "running"}
<1>1. DOMAIN h = 1..Len(h) /\ Len(h) \in Nat
  BY LenProperties DEF Cards
<1>2. open \subseteq {1}
  BY <1>1 DEF Cards
<1>3. CASE open = {}
  BY <1>1, <1>3 DEF FirstRunning
<1>4. CASE open = {1}
  <2>1. (CHOOSE i \in open : \A k \in open : i <= k) = 1
    BY <1>4
  <2>2. FirstRunning(h) = h[1]
    BY <1>4, <2>1 DEF FirstRunning
  <2>3. 1 \in 1..Len(h) /\ h[1].status = "running"
    BY <1>1, <1>4
  <2> QED BY <2>2, <2>3
<1> QED BY <1>2, <1>3, <1>4

LEMMA RestartSafe ==
  ASSUME IInv, Restart
  PROVE  IInv'
<1>1. /\ hist' = file /\ file' = file /\ seq' = seq /\ backend' = backend
      /\ cur' = FirstRunning(file) /\ start' = [i \in Ids |-> Idle]
      /\ Resume(cur')
      /\ epoch' = 0 /\ paused' = 0 /\ resets' = resets + 1 /\ resets < MaxEpoch
      /\ wait' = [k \in Kinds |-> 0] /\ stop' = NoStop /\ ticker' = NoTick
  BY DEF Restart
<1>2. Surroundings'
  BY <1>1, Numbers, Constants DEF IInv, Surroundings
<1>3. Cards(file, seq, Len(backend)) /\ Len(backend) \in Nat /\ seq \in Nat
  BY IInvNat DEF IInv, Histories
<1>4. \/ /\ cur' = NoJob
         /\ \A i \in 1..Len(file) : file[i].status # "running"
      \/ /\ cur' = file[1] /\ 1 \in 1..Len(file) /\ file[1].status = "running"
  BY <1>1, <1>3, FirstRunningCard
<1>5. cur' = NoJob \/ (cur' \in Job /\ cur'.id <= seq /\ cur'.batch <= Len(backend))
  BY <1>3, <1>4, ElementOfSeq DEF Cards
<1>6. Current'
  BY <1>1, <1>3, <1>5, Numbers DEF IInv, Current, NoJob
<1>7. Histories'
  <2>1. Shown'
    BY <1>1, <1>3, <1>4, <1>5, JobFacts, EmptySeq, LenProperties DEF Shown, Cards
  <2> QED BY <1>1, <1>3, <2>1 DEF Histories
<1>8. start' \in [Ids -> Starts] /\ \A i \in Ids : start'[i].pc = "idle" /\ start'[i].batch = 0
  BY <1>1, Constants
<1> DEFINE none == [i \in Ids |-> Asleep]
<1>9. none \in [Ids -> Polls] /\ \A i \in Ids : /\ none[i].pc = "none" /\ none[i].batch = 0
                                               /\ none[i].view.batch = 0
  BY Constants
<1>10. CASE cur' = NoJob
  <2>1. poll' = none
    BY <1>1, <1>10 DEF Resume
  <2>2. Goroutines'
    BY <1>1, <1>3, <1>8, <1>9, <2>1 DEF Goroutines
  <2>3. Looked'
    BY <1>8, <1>9, <1>10, <2>1 DEF Looked, Busy, Running, NoJob
  <2> QED BY <1>2, <1>6, <1>7, <2>2, <2>3 DEF IInv
<1>11. CASE cur' # NoJob
  <2>1. cur' \in Job /\ cur'.id \in Ids /\ cur'.batch \in Batches /\ cur'.id <= seq
        /\ cur'.batch <= Len(backend)
    BY <1>5, <1>11 DEF Job
  <2>2. poll' = Spawned(none, cur'.id, cur'.batch)
    BY <1>1, <1>11 DEF Resume
  <2> HIDE DEF none
  <2>3. PICK y \in Polls : /\ poll' = [none EXCEPT ![cur'.id] = y]
                           /\ y.pc = "check" /\ y.batch = cur'.batch /\ y.view.batch = 0
    <3> DEFINE id == cur'.id
               b == cur'.batch
    <3>1. id \in Ids /\ b \in Batches
      BY <2>1
    <3> HIDE DEF id, b
    <3>2. \E y \in Polls : /\ Spawned(none, id, b) = [none EXCEPT ![id] = y]
                           /\ y.pc = "check" /\ y.batch = b /\ y.view.batch = 0
      BY <1>9, <3>1, SpawnedType
    <3> QED BY <2>2, <3>2 DEF id, b
  <2>4. /\ poll' \in [Ids -> Polls] /\ poll'[cur'.id] = y
        /\ \A i \in Ids : i # cur'.id => poll'[i] = none[i]
    BY <1>9, <2>1, <2>3
  <2>5. Goroutines'
    BY <1>1, <1>3, <1>8, <1>9, <2>1, <2>3, <2>4 DEF Goroutines
  <2>6. \A i \in Ids : start'[i].pc # "idle" \/ poll'[i].pc # "none" => i = cur'.id
    BY <1>8, <1>9, <2>4
  <2>7. Looked'
    BY <1>1, <1>8, <1>11, <2>1, <2>3, <2>4, <2>6 DEF Looked, Busy
  <2> QED BY <1>2, <1>6, <1>7, <2>5, <2>7 DEF IInv
<1> QED BY <1>10, <1>11

LEMMA BackendEndsSafe ==
  ASSUME IInv, BackendEnds
  PROVE  IInv' /\ StaysEnded
<1> DEFINE b == Len(backend)
<1>1. PICK s \in Ended, g \in BOOLEAN :
        backend' = [backend EXCEPT ![b].state = s, ![b].good = g]
  BY DEF BackendEnds
<1>2. backend # <<>> /\ UNCHANGED <<cur, hist, seq, epoch, paused, wait, start, poll, stop,
                                  ticker, file, resets>>
  BY DEF BackendEnds, InProgress, procs
<1>3. backend \in Seq(View) /\ b \in 1..Len(backend) /\ Len(backend) \in Nat
  BY <1>2, IInvNat, EmptySeq DEF IInv, Surroundings
<1> DEFINE v == [backend[b] EXCEPT !.state = s, !.good = g]
<1>4. backend[b] \in View
  BY <1>3, ElementOfSeq
<1>5. v \in View /\ v.batch = backend[b].batch
  BY <1>4 DEF View
<1>6. backend' = [backend EXCEPT ![b] = v]
  BY <1>1, <1>3
<1> HIDE DEF v, b
<1>7. /\ backend' \in Seq(View) /\ Len(backend') = Len(backend)
      /\ \A i \in 1..Len(backend) : backend'[i] = IF i = b THEN v ELSE backend[i]
  BY <1>3, <1>5, <1>6, ExceptSeq
<1>8. \A i \in 1..Len(backend') : backend'[i].batch <= Len(backend')
  BY <1>3, <1>5, <1>7 DEF IInv, Surroundings
<1>9. Surroundings'
  BY <1>2, <1>7, <1>8 DEF IInv, Surroundings
<1> QED BY <1>2, <1>7, <1>9, WorldSafe DEF IInv, Current

LEMMA ElapseSafe ==
  ASSUME IInv, Elapse
  PROVE  IInv' /\ StaysEnded
<1>1. /\ UNCHANGED <<cur, hist, seq, epoch, start, poll, stop, ticker, backend, file, resets>>
      /\ paused' = IF paused > 0 THEN paused - 1 ELSE 0
      /\ wait' = [k \in Kinds |-> IF wait[k] > 0 THEN wait[k] - 1 ELSE 0]
  BY DEF Elapse, procs
<1>2. paused' \in 0..Pause
  BY <1>1, Numbers DEF IInv, Current
<1>3. wait' \in [Kinds -> 0..Interval]
  BY <1>1, Numbers DEF IInv, Surroundings
<1>4. Surroundings'
  BY <1>1, <1>3 DEF IInv, Surroundings
<1> QED BY <1>1, <1>2, <1>4, WorldSafe

-----------------------------------------------------------------------------
LEMMA StepSafe ==
  ASSUME IInv, [Next]_vars
  PROVE  IInv' /\ (StaysEnded \/ Restart)
<1>1. ASSUME NEW id \in Ids, StartStep(id) PROVE IInv' /\ StaysEnded
  BY <1>1, StartHealthSafe, StartRegisterSafe, StartRecordSafe DEF StartStep
<1>2. ASSUME NEW id \in Ids, PollStep(id) PROVE IInv' /\ StaysEnded
  BY <1>2, PollCheckSafe, PollAskSafe, PollApplySafe, PollLoggedSafe DEF PollStep
<1>3. CASE AutoStep
  BY <1>3, AutoQuietSafe, AutoRemoteSafe, AutoLaunchSafe DEF AutoStep
<1>4. CASE StartFromPanel \/ StopBegin \/ StopEnd \/ ClearSuccessHistory
  BY <1>4, StartFromPanelSafe, PanelSafe, StopEndSafe
<1>5. CASE BackendEnds \/ Elapse
  BY <1>5, BackendEndsSafe, ElapseSafe
<1>6. CASE Restart
  BY <1>6, RestartSafe
<1>7. CASE UNCHANGED vars
  <2>1. Surroundings' /\ paused' \in 0..Pause
    BY <1>7 DEF vars, IInv, Surroundings, Current
  <2> QED BY <1>7, <2>1, WorldSafe DEF vars
<1> QED BY <1>1, <1>2, <1>3, <1>4, <1>5, <1>6, <1>7 DEF Next

\* The shape of history, goroutines and current job holds in every state.
THEOREM Invariance == Spec => []IInv
BY InitIInv, StepSafe, PTL DEF Spec

\* Every variable keeps its type.
THEOREM TypeCorrect == Spec => []TypeOK
<1>1. IInv => TypeOK
  BY IInvNat DEF IInv, Surroundings, Goroutines, Current, Histories, Cards, Starts, Polls, TypeOK
<1> QED BY <1>1, Invariance, PTL

\* Exactly one card shows a job running, that of the current job while it
\* runs, whatever starts, stops, answers, adoptions and restarts meet.
THEOREM OneCardRuns == Spec => []OneRunningCard
<1>1. IInv => OneRunningCard
  BY IInvNat, EmptySeq DEF IInv, Histories, Shown, Cards, OneRunningCard, Running, NoJob
<1> QED BY <1>1, Invariance, PTL

\* A running job is looked after by one goroutine and no more.
THEOREM JobAttended == Spec => []Attended
<1>1. IInv => Attended
  BY JobFacts DEF IInv, Looked, Current, Busy, Attended, Running, NoJob
<1> QED BY <1>1, Invariance, PTL

\* Between restarts a card that shows an end never shows the job running.
THEOREM EndIsFinal == Spec => EndedStaysEnded
<1>1. IInv /\ [Next]_vars =>
        [\A i \in DOMAIN hist, k \in DOMAIN hist' :
           hist[i].status \in Ended /\ hist'[k].id = hist[i].id =>
             hist'[k].status \in Ended \/ Restart]_vars
  BY StepSafe DEF StaysEnded
<1> QED BY <1>1, Invariance, PTL DEF Spec, EndedStaysEnded
=============================================================================
