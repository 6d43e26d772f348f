-------------------------- MODULE TokenCaptureProofs ------------------------
(***************************************************************************)
(* Proofs of the safety properties of TokenCapture, for any number of      *)
(* authorizations that run at one time, of ids and of tokens.              *)
(***************************************************************************)
EXTENDS TokenCapture, SequenceTheorems, FiniteSetTheorems, WellFoundedInduction,
        TLAPS

USE NamesAssumption, BoundAssumption

(***************************************************************************)
(* A nonempty set of natural numbers has a smallest element: the first     *)
(* observation that Capture looks for exists.                              *)
(***************************************************************************)
LEMMA Smallest ==
    ASSUME NEW S \in SUBSET Nat, S # {}
    PROVE  \E m \in S : \A n \in S : m <= n
<1> DEFINE Less == {p \in Nat \X Nat : p[1] < p[2]}
<1>1. IsWellFoundedOn(Less, Nat)
  BY NatLessThanWellFounded DEF OpToRel
<1>2. \E m \in S : \A n \in S : ~ (<<n, m>> \in Less)
  BY <1>1, WFMin
<1>3. \A m, n \in S : ~ (<<n, m>> \in Less) => m <= n
  OBVIOUS
<1> QED
  BY <1>2, <1>3

-----------------------------------------------------------------------------
(* The queue, as the set of observations that wait in it. *)

Waiting == {queue[i] : i \in 1..Len(queue)}

\* What is dropped has the id or no owner; the rest stays.
LEMMA Dropped ==
    ASSUME CaptureTypeOK, NEW id, DropObservations(id)
    PROVE  /\ queue' \in Seq(Observations) /\ Len(queue') <= MaxQueue
           /\ \A o \in Waiting' : o \in Waiting /\ o.owner \notin {id, NoId}
<1> DEFINE kept == {i \in 1..Len(queue) : queue[i].owner \notin {id, NoId}}
<1>1. PICK place \in [1..Cardinality(kept) -> kept] :
        queue' = [n \in DOMAIN place |-> queue[place[n]]]
  BY DEF DropObservations
<1>2. queue \in Seq(Observations) /\ Len(queue) \in Nat /\ Len(queue) <= MaxQueue
  BY LenProperties DEF CaptureTypeOK
<1>3. IsFiniteSet(1..Len(queue)) /\ Cardinality(1..Len(queue)) = Len(queue)
  <2>1. /\ IsFiniteSet(1..Len(queue))
        /\ Cardinality(1..Len(queue)) = IF 1 > Len(queue) THEN 0 ELSE Len(queue) - 1 + 1
    <3> HIDE DEF kept
    <3>1. 1 \in Int /\ Len(queue) \in Int
      BY <1>2
    <3> QED
      BY <3>1, FS_Interval
  <2> QED
    BY <1>2, <2>1
<1>4. Cardinality(kept) \in Nat /\ Cardinality(kept) <= Len(queue)
  <2>1. kept \in SUBSET (1..Len(queue))
    OBVIOUS
  <2>2. IsFiniteSet(kept) /\ Cardinality(kept) <= Cardinality(1..Len(queue))
    BY <1>3, <2>1, FS_Subset
  <2> QED
    BY <1>3, <2>2, FS_CardinalityType
<1> DEFINE m == Cardinality(kept)
<1>5. \A n \in 1..m : place[n] \in 1..Len(queue) /\ queue[place[n]].owner \notin {id, NoId}
  OBVIOUS
<1>6. queue' = [n \in 1..m |-> queue[place[n]]]
  BY <1>1
<1> HIDE DEF m, kept
<1>7. \A n \in 1..m : queue[place[n]] \in Observations
  BY <1>2, <1>5, ElementOfSeq
<1>8. m \in Nat /\ m <= Len(queue)
  BY <1>4 DEF m
<1>9. queue' \in Seq(Observations) /\ Len(queue') = m
  BY <1>6, <1>7, <1>8
<1>10. ASSUME NEW o \in Waiting'
       PROVE  o \in Waiting /\ o.owner \notin {id, NoId}
  <2>1. PICK n \in 1..m : o = queue'[n]
    BY <1>9 DEF Waiting
  <2> QED
    BY <1>5, <1>6, <2>1 DEF Waiting
<1> QED
  BY <1>2, <1>8, <1>9, <1>10

\* One more observation waits.
LEMMA Appended ==
    ASSUME CaptureTypeOK, NEW o \in Observations, queue' = Append(queue, o),
           Len(queue) < MaxQueue
    PROVE  /\ queue' \in Seq(Observations) /\ Len(queue') <= MaxQueue
           /\ \A p \in Waiting' : p \in Waiting \/ p = o
<1>1. queue \in Seq(Observations) /\ Len(queue) \in Nat
  BY LenProperties DEF CaptureTypeOK
<1>2. /\ queue' \in Seq(Observations) /\ Len(queue') = Len(queue) + 1
      /\ \A i \in 1..Len(queue) : queue'[i] = queue[i]
      /\ queue'[Len(queue) + 1] = o
  BY <1>1, AppendProperties
<1>3. ASSUME NEW p \in Waiting'
      PROVE  p \in Waiting \/ p = o
  <2>1. PICK i \in 1..Len(queue) + 1 : p = queue'[i]
    BY <1>2 DEF Waiting
  <2>2. i \in 1..Len(queue) \/ i = Len(queue) + 1
    BY <1>1
  <2> QED
    BY <1>2, <2>1, <2>2 DEF Waiting
<1> QED
  BY <1>1, <1>2, <1>3

\* An observation is taken out, the others wait on.
LEMMA Removed ==
    ASSUME CaptureTypeOK, NEW k \in 1..Len(queue), queue' = RemoveAt(queue, k)
    PROVE  /\ queue' \in Seq(Observations) /\ Len(queue') <= MaxQueue
           /\ \A p \in Waiting' : p \in Waiting
<1> DEFINE n == Len(queue)
           front == SubSeq(queue, 1, k - 1)
           back == SubSeq(queue, k + 1, n)
<1>1. queue \in Seq(Observations) /\ n \in Nat /\ n <= MaxQueue
  BY LenProperties DEF CaptureTypeOK
<1>2. \A i \in 1..n : queue[i] \in Observations
  BY <1>1, ElementOfSeq
<1>3. queue' = front \o back
  BY DEF RemoveAt
<1> HIDE DEF n
<1>4. /\ k \in 1..n /\ k - 1 \in Int /\ k + 1 \in Int
      /\ \A i \in 1..(k - 1) : queue[i] \in Observations
      /\ \A i \in (k + 1)..n : queue[i] \in Observations
  BY <1>1, <1>2 DEF n
<1>5. /\ front \in Seq(Observations) /\ Len(front) = k - 1
      /\ \A i \in 1..(k - 1) : front[i] = queue[i]
  <2>1. /\ SubSeq(queue, 1, k - 1) \in Seq(Observations)
        /\ Len(SubSeq(queue, 1, k - 1)) = IF 1 <= k - 1 THEN (k - 1) - 1 + 1 ELSE 0
        /\ \A i \in 1..((k - 1) - 1 + 1) : SubSeq(queue, 1, k - 1)[i] = queue[1 + i - 1]
    BY <1>4, SubSeqProperties
  <2> QED
    BY <1>1, <1>4, <2>1
<1>6. /\ back \in Seq(Observations) /\ Len(back) = n - k
      /\ \A i \in 1..(n - k) : back[i] = queue[k + i]
  <2>1. /\ SubSeq(queue, k + 1, n) \in Seq(Observations)
        /\ Len(SubSeq(queue, k + 1, n)) = IF k + 1 <= n THEN n - (k + 1) + 1 ELSE 0
        /\ \A i \in 1..(n - (k + 1) + 1) : SubSeq(queue, k + 1, n)[i] = queue[(k + 1) + i - 1]
    BY <1>1, <1>4, SubSeqProperties
  <2>2. Len(back) = n - k
    BY <1>1, <1>4, <2>1
  <2>3. ASSUME NEW i \in 1..(n - k)
        PROVE  back[i] = queue[k + i]
    <3>1. (k + 1) + i - 1 = k + i /\ i \in 1..(n - (k + 1) + 1)
      BY <1>1, <1>4
    <3> QED
      BY <2>1, <3>1
  <2> QED
    BY <2>1, <2>2, <2>3
<1> HIDE DEF front, back
<1>7. /\ queue' \in Seq(Observations) /\ Len(queue') = (k - 1) + (n - k)
      /\ \A i \in 1..(k - 1) + (n - k) :
            queue'[i] = IF i <= k - 1 THEN front[i] ELSE back[i - (k - 1)]
  BY <1>3, <1>5, <1>6, ConcatProperties
<1>8. ASSUME NEW p \in Waiting'
      PROVE  p \in Waiting
  <2>1. PICK i \in 1..(k - 1) + (n - k) : p = queue'[i]
    BY <1>7 DEF Waiting
  <2>2. CASE i <= k - 1
    <3>1. i \in 1..(k - 1) /\ i \in 1..n
      BY <1>1, <1>4, <2>2
    <3>2. p = queue[i]
      BY <1>5, <1>7, <2>1, <2>2, <3>1
    <3> QED
      BY <3>1, <3>2 DEF Waiting, n
  <2>3. CASE i > k - 1
    <3>1. i - (k - 1) \in 1..(n - k) /\ i + 1 \in 1..n
      BY <1>1, <1>4, <2>3
    <3>2. p = queue[k + (i - (k - 1))]
      BY <1>4, <1>6, <1>7, <2>1, <2>3, <3>1
    <3>3. k + (i - (k - 1)) = i + 1
      BY <1>1, <1>4
    <3> QED
      BY <3>1, <3>2, <3>3 DEF Waiting, n
  <2> QED
    BY <1>1, <1>4, <2>2, <2>3
<1> QED
  BY <1>1, <1>4, <1>7, <1>8

-----------------------------------------------------------------------------
(***************************************************************************)
(* The inductive invariant.  A run without a browser knows nothing, and no *)
(* two browsers have the same id.  What a run knows of tokens (in its tab, *)
(* in the events to come, captured) was issued in its browser, and since   *)
(* it began unless a restored tab could not be blanked.                    *)
(***************************************************************************)
IdsDiffer ==
    \A r, s \in Runs : r # s /\ run[r].id = run[s].id => run[r].id = NoId

RunInv(r) ==
    /\ IF Running(r) THEN run[r].id \in Ids ELSE run[r] = IdleRun
    /\ run[r].since <= Issued
    /\ tab[r] # 0 => tab[r] <= Issued /\ origin[tab[r]] = r
    /\ run[r].step \in {"gate", "driving", "captured"} =>
          tab[r] = 0 \/ tab[r] > run[r].since \/ run[r].stuck
    /\ run[r].events > 0 =>
          /\ run[r].news > run[r].since /\ run[r].news <= Issued
          /\ origin[run[r].news] = r
    /\ run[r].tok # 0 =>
          /\ run[r].step \in {"captured", "closing"} /\ run[r].tok <= Issued
          /\ origin[run[r].tok] = r \/ run[r].loose
          /\ run[r].tok > run[r].since \/ run[r].stuck \/ run[r].loose

(***************************************************************************)
(* An observation of the id that a browser has now was made in this        *)
(* browser; and it is late, or somebody is there to take or to drop it.    *)
(***************************************************************************)
OwnedBy(o, r) ==
    Running(r) /\ run[r].id = o.owner =>
        /\ origin[o.tok] = r
        /\ o.tok > run[r].since \/ (run[r].stuck /\ run[r].step # "opened")
Owned(o) == o.tok <= Issued /\ \A r \in Runs : OwnedBy(o, r)
AwaitedBy(o, r) ==
    run[r].step \notin {"idle", "closing"} /\ o.owner \in {run[r].id, NoId}
Awaited(o) == o.late \/ \E r \in Runs : AwaitedBy(o, r)

CaptureInv ==
    /\ CaptureTypeOK /\ IdsDiffer
    /\ \A r \in Runs : RunInv(r)
    /\ \A o \in Waiting : Owned(o) /\ Awaited(o)

(***************************************************************************)
(* A step of run r: the others do nothing, and an issued token keeps its   *)
(* origin.                                                                 *)
(***************************************************************************)
StepOf(r) ==
    /\ \A s \in Runs \ {r} : run'[s] = run[s] /\ tab'[s] = tab[s]
    /\ Issued <= Issued' /\ \A t \in 1..Issued : origin'[t] = origin[t]

LEMMA Types ==
    ASSUME CaptureTypeOK
    PROVE  /\ Issued \in Nat /\ Issued <= MaxToken
           /\ \A r \in Runs : run[r] \in RunRecords /\ tab[r] \in 0..MaxToken
           /\ \A o \in Waiting : o \in Observations
<1>1. Issued \in Nat
  BY LenProperties DEF CaptureTypeOK, Issued
<1>2. \A o \in Waiting : o \in Observations
  BY ElementOfSeq DEF CaptureTypeOK, Waiting
<1> QED
  BY <1>1, <1>2 DEF CaptureTypeOK

LEMMA StepKeeps ==
    ASSUME CaptureInv, CaptureTypeOK', NEW r \in Runs, StepOf(r), RunInv(r)',
           \A s \in Runs \ {r} : run[s].id # run'[r].id \/ run'[r].id = NoId,
           \A o \in Waiting' :
              /\ o.tok <= Issued' /\ OwnedBy(o, r)'
              /\ o \in Waiting \/ \A s \in Runs \ {r} : OwnedBy(o, s)'
              /\ Awaited(o)'
    PROVE  CaptureInv'
<1>1. /\ Issued \in Nat /\ Issued' \in Nat
      /\ \A s \in Runs : run[s] \in RunRecords /\ tab[s] \in 0..MaxToken
      /\ \A o \in Waiting : o.tok \in 1..MaxToken
  BY Types DEF CaptureInv, CaptureTypeOK, Issued, Observations, Tokens
<1>2. ASSUME NEW s \in Runs \ {r}
      PROVE  RunInv(s)'
  <2>1. run'[s] = run[s] /\ tab'[s] = tab[s] /\ RunInv(s)
    BY DEF StepOf, CaptureInv
  <2>2. \A t \in Nat \ {0} : t <= Issued => t <= Issued' /\ origin'[t] = origin[t]
    BY <1>1 DEF StepOf
  <2>3. /\ tab[s] \in Nat /\ run[s].news \in Nat /\ run[s].tok \in Nat /\ run[s].since \in Nat
    BY <1>1 DEF RunRecords
  <2>4. run[s].since <= Issued'
    BY <1>1, <2>1, <2>3 DEF RunInv, StepOf
  <2>5. tab[s] # 0 => tab[s] <= Issued' /\ origin'[tab[s]] = s
    BY <2>1, <2>2, <2>3 DEF RunInv
  <2>6. run[s].events > 0 => run[s].news <= Issued' /\ origin'[run[s].news] = s
    BY <2>1, <2>2, <2>3 DEF RunInv
  <2>7. run[s].tok # 0 => run[s].tok <= Issued' /\ origin'[run[s].tok] = origin[run[s].tok]
    BY <2>1, <2>2, <2>3 DEF RunInv
  <2> QED
    BY <2>1, <2>4, <2>5, <2>6, <2>7 DEF RunInv, Running
<1>3. IdsDiffer'
  BY DEF StepOf, CaptureInv, IdsDiffer
<1>4. ASSUME NEW o \in Waiting', NEW s \in Runs \ {r}
      PROVE  OwnedBy(o, s)'
  <2>1. CASE o \in Waiting
    <3>1. OwnedBy(o, s) /\ o.tok \in 1..Issued
      BY <1>1, <2>1 DEF CaptureInv, Owned
    <3> QED
      BY <3>1 DEF StepOf, OwnedBy, Running
  <2>2. CASE o \notin Waiting
    BY <2>2
  <2> QED
    BY <2>1, <2>2
<1> QED
  BY <1>2, <1>3, <1>4 DEF CaptureInv, Owned

\* Somebody is still there for an observation, if it was not run r alone.
LEMMA AwaitedKept ==
    ASSUME NEW r \in Runs, StepOf(r), NEW o, Awaited(o), AwaitedBy(o, r) => AwaitedBy(o, r)'
    PROVE  Awaited(o)'
BY DEF StepOf, Awaited, AwaitedBy

-----------------------------------------------------------------------------
(* The steps of a run. *)

LEMMA LaunchKeeps ==
    ASSUME CaptureInv, NEW r \in Runs, NEW id \in Ids, Launch(r, id)
    PROVE  CaptureInv'
<1>1. /\ ~Running(r) /\ run[r] = IdleRun /\ DropObservations(id) /\ origin' = origin
      /\ \A s \in Runs : run[s].id # id
      /\ run' = [run EXCEPT ![r] = [IdleRun EXCEPT !.step = "opened", !.id = id,
                                                   !.since = Issued]]
  BY DEF Launch, CaptureInv, RunInv
<1>2. PICK left \in {0, tab[r]} : tab' = [tab EXCEPT ![r] = left]
  BY DEF Launch
<1>3. CaptureTypeOK /\ Issued \in Nat /\ Issued <= MaxToken /\ Issued' = Issued
  BY <1>1, Types DEF CaptureInv, Issued
<1>4. /\ queue' \in Seq(Observations) /\ Len(queue') <= MaxQueue
      /\ \A o \in Waiting' : o \in Waiting /\ o.owner \notin {id, NoId}
  BY <1>1, <1>3, Dropped
<1>5. run'[r] = [step |-> "opened", id |-> id, tok |-> 0, news |-> 0, events |-> 0,
                 since |-> Issued, stuck |-> FALSE, loose |-> FALSE]
  BY <1>1, <1>3 DEF CaptureTypeOK, IdleRun
<1>6. run' \in [Runs -> RunRecords] /\ tab' \in [Runs -> 0..MaxToken]
  <2>1. run'[r] \in RunRecords
    BY <1>3, <1>5 DEF RunRecords, Steps
  <2>2. run' = [run EXCEPT ![r] = run'[r]]
    BY <1>1, <1>3 DEF CaptureTypeOK
  <2>3. run' \in [Runs -> RunRecords]
    BY <1>3, <2>1, <2>2 DEF CaptureTypeOK
  <2>4. tab' \in [Runs -> 0..MaxToken]
    BY <1>2, <1>3 DEF CaptureTypeOK
  <2> QED
    BY <2>3, <2>4
<1>7. CaptureTypeOK'
  BY <1>1, <1>3, <1>4, <1>6 DEF CaptureTypeOK
<1>8. StepOf(r)
  BY <1>1, <1>2, <1>3 DEF StepOf, CaptureTypeOK
<1>9. RunInv(r)'
  <2>1. tab'[r] \in {0, tab[r]} /\ RunInv(r)
    BY <1>2, <1>3 DEF CaptureTypeOK, CaptureInv
  <2>2. /\ run'[r].step = "opened" /\ run'[r].id = id /\ run'[r].since = Issued
        /\ run'[r].events = 0 /\ run'[r].tok = 0
    BY <1>5
  <2>3. tab'[r] # 0 => tab'[r] <= Issued' /\ origin'[tab'[r]] = r
    BY <1>1, <1>3, <2>1 DEF RunInv
  <2> QED
    BY <1>3, <2>2, <2>3 DEF RunInv, Running
<1>10. ASSUME NEW o \in Waiting'
       PROVE  o \in Waiting /\ o.tok <= Issued' /\ OwnedBy(o, r)' /\ Awaited(o)'
  <2>1. o \in Waiting /\ Owned(o) /\ Awaited(o) /\ o.owner # id
    BY <1>4 DEF CaptureInv
  <2>2. ~AwaitedBy(o, r)
    BY <1>1 DEF AwaitedBy, IdleRun
  <2> QED
    BY <1>3, <1>5, <1>8, <2>1, <2>2, AwaitedKept DEF Owned, OwnedBy
<1> QED
  BY <1>1, <1>5, <1>7, <1>8, <1>9, <1>10, StepKeeps

LEMMA WatchKeeps ==
    ASSUME CaptureInv, NEW r \in Runs, Watch(r)
    PROVE  CaptureInv'
<1>1. PICK left \in {0, tab[r]} :
        /\ tab' = [tab EXCEPT ![r] = left]
        /\ run' = [run EXCEPT ![r].step = "gate", ![r].stuck = left # 0]
        /\ IF left = 0 THEN UNCHANGED queue
           ELSE /\ Len(queue) < MaxQueue
                /\ queue' = Append(queue, Observed(r, left, run[r].id))
  BY DEF Watch
<1>2. run[r].step = "opened" /\ origin' = origin /\ CaptureTypeOK /\ Issued' = Issued
  BY DEF Watch, CaptureInv, Issued
<1>3. /\ Issued \in Nat /\ run[r] \in RunRecords /\ left \in 0..MaxToken
      /\ run[r].id \in Ids /\ RunInv(r)
  BY <1>2, Types DEF CaptureInv, RunInv, Running
<1>4. run'[r] = [run[r] EXCEPT !.step = "gate", !.stuck = left # 0]
  BY <1>1, <1>2 DEF CaptureTypeOK
<1> DEFINE new == Observed(r, left, run[r].id)
<1>5. left # 0 => new \in Observations
  BY <1>3 DEF Observed, Observations, Tokens
<1>6. /\ queue' \in Seq(Observations) /\ Len(queue') <= MaxQueue
      /\ \A o \in Waiting' : o \in Waiting \/ (left # 0 /\ o = new)
  <2>1. CASE left = 0
    BY <1>1, <1>2, <2>1 DEF CaptureTypeOK, Waiting
  <2>2. CASE left # 0
    BY <1>1, <1>2, <1>5, <2>2, Appended
  <2> QED
    BY <2>1, <2>2
<1>7. CaptureTypeOK'
  <2>1. run'[r] \in RunRecords
    BY <1>3, <1>4 DEF RunRecords, Steps
  <2>2. run' = [run EXCEPT ![r] = run'[r]]
    BY <1>1, <1>2 DEF CaptureTypeOK
  <2> QED
    BY <1>1, <1>2, <1>3, <1>6, <2>1, <2>2 DEF CaptureTypeOK
<1>8. StepOf(r)
  BY <1>1, <1>2, <1>3 DEF StepOf, CaptureTypeOK
<1>9. /\ run'[r].step = "gate" /\ run'[r].stuck = (left # 0) /\ tab'[r] = left
      /\ run'[r].id = run[r].id /\ run'[r].since = run[r].since
      /\ run'[r].events = run[r].events /\ run'[r].news = run[r].news
      /\ run'[r].tok = run[r].tok /\ run'[r].loose = run[r].loose
  BY <1>1, <1>2, <1>3, <1>4 DEF CaptureTypeOK, RunRecords
<1>10. RunInv(r)'
  BY <1>2, <1>3, <1>9 DEF RunInv, Running
<1>11. ASSUME NEW o \in Waiting'
       PROVE  /\ o.tok <= Issued' /\ OwnedBy(o, r)' /\ Awaited(o)'
              /\ o \in Waiting \/ \A s \in Runs \ {r} : OwnedBy(o, s)'
  <2>1. CASE o \in Waiting
    <3>1. Owned(o) /\ Awaited(o) /\ (AwaitedBy(o, r) => AwaitedBy(o, r)')
      BY <1>2, <1>9, <2>1 DEF CaptureInv, AwaitedBy
    <3>2. OwnedBy(o, r)'
      BY <1>2, <1>9, <3>1 DEF Owned, OwnedBy, Running
    <3> QED
      BY <1>2, <1>8, <2>1, <3>1, <3>2, AwaitedKept DEF Owned
  <2>2. CASE left # 0 /\ o = new
    <3>1. o.tok = left /\ o.owner = run[r].id /\ left = tab[r]
      BY <2>2 DEF Observed
    <3>2. o.tok <= Issued' /\ OwnedBy(o, r)'
      <4>1. left <= Issued' /\ origin'[left] = r
        BY <1>2, <1>3, <2>2, <3>1 DEF RunInv
      <4>2. run'[r].stuck = TRUE /\ run'[r].step # "opened"
        BY <1>9, <2>2
      <4> QED
        BY <3>1, <4>1, <4>2 DEF OwnedBy
    <3>3. \A s \in Runs \ {r} : OwnedBy(o, s)'
      BY <1>3, <1>8, <3>1 DEF CaptureInv, IdsDiffer, StepOf, OwnedBy
    <3>4. AwaitedBy(o, r)'
      BY <1>9, <3>1 DEF AwaitedBy
    <3> QED
      BY <3>2, <3>3, <3>4 DEF Awaited
  <2> QED
    BY <1>6, <2>1, <2>2
<1>12. \A s \in Runs \ {r} : run[s].id # run'[r].id
  BY <1>3, <1>9 DEF CaptureInv, IdsDiffer
<1> QED
  BY <1>7, <1>8, <1>10, <1>11, <1>12, StepKeeps

LEMMA ConfirmKeeps ==
    ASSUME CaptureInv, NEW r \in Runs, Confirmed(r)
    PROVE  CaptureInv'
<1>1. /\ run[r].step = "gate" /\ run' = [run EXCEPT ![r].step = "driving"]
      /\ tab' = tab /\ queue' = queue /\ origin' = origin /\ Issued' = Issued
      /\ CaptureTypeOK /\ Waiting' = Waiting
  BY DEF Confirmed, CaptureInv, Issued, Waiting
<1>2. run[r] \in RunRecords /\ RunInv(r) /\ run[r].id \in Ids /\ Issued \in Nat
  BY <1>1, Types DEF CaptureInv, RunInv, Running
<1>3. run'[r] = [run[r] EXCEPT !.step = "driving"]
  BY <1>1 DEF CaptureTypeOK
<1>4. CaptureTypeOK'
  BY <1>1, <1>2, <1>3 DEF CaptureTypeOK, RunRecords, Steps
<1>5. StepOf(r)
  BY <1>1, <1>2 DEF StepOf, CaptureTypeOK
<1>6. /\ run'[r].step = "driving" /\ run'[r].id = run[r].id /\ run'[r].since = run[r].since
      /\ run'[r].stuck = run[r].stuck /\ run'[r].loose = run[r].loose
      /\ run'[r].events = run[r].events /\ run'[r].news = run[r].news
      /\ run'[r].tok = run[r].tok
  BY <1>2, <1>3 DEF RunRecords
<1>7. RunInv(r)'
  BY <1>1, <1>2, <1>6 DEF RunInv, Running
<1>8. ASSUME NEW o \in Waiting'
      PROVE  o \in Waiting /\ o.tok <= Issued' /\ OwnedBy(o, r)' /\ Awaited(o)'
  <2>1. Owned(o) /\ Awaited(o) /\ (AwaitedBy(o, r) => AwaitedBy(o, r)')
    BY <1>1, <1>6 DEF CaptureInv, AwaitedBy
  <2> QED
    BY <1>1, <1>5, <1>6, <2>1, AwaitedKept DEF Owned, OwnedBy, Running
<1>9. \A s \in Runs \ {r} : run[s].id # run'[r].id
  BY <1>2, <1>6 DEF CaptureInv, IdsDiffer
<1> QED
  BY <1>4, <1>5, <1>7, <1>8, <1>9, StepKeeps

LEMMA IssueKeeps ==
    ASSUME CaptureInv, NEW r \in Runs, Issue(r)
    PROVE  CaptureInv'
<1>0. CaptureTypeOK /\ Issued \in Nat
  BY Types DEF CaptureInv
<1> PICK new \in Nat : new = Issued + 1
  BY <1>0
<1>1. /\ run[r].step \in {"driving", "closing"} /\ run[r].tok = 0 /\ run[r].events = 0
      /\ Issued < MaxToken /\ origin' = Append(origin, r)
      /\ tab' = [tab EXCEPT ![r] = new]
      /\ run' = [run EXCEPT ![r].news = new, ![r].events = 2]
      /\ queue' = queue /\ CaptureTypeOK /\ Waiting' = Waiting
  BY DEF Issue, CaptureInv, Waiting
<1>2. run[r] \in RunRecords /\ RunInv(r) /\ run[r].id \in Ids /\ Issued \in Nat
  BY <1>1, Types DEF CaptureInv, RunInv, Running
<1>3. run'[r] = [run[r] EXCEPT !.news = new, !.events = 2]
  BY <1>1 DEF CaptureTypeOK
<1>4. /\ origin' \in Seq(Runs) /\ Issued' = new
      /\ \A t \in 1..Issued : origin'[t] = origin[t]
      /\ origin'[new] = r
  BY <1>1, AppendProperties DEF CaptureTypeOK, Issued
<1>5. new \in 1..MaxToken /\ new \in 0..MaxToken
  BY <1>1, <1>2
<1>6. CaptureTypeOK'
  <2>1. run'[r] \in RunRecords
    <3>1. run[r] \in RunRecords /\ 2 \in 0..2
      BY <1>2
    <3>2. [run[r] EXCEPT !.news = new] \in RunRecords
      BY <1>5, <3>1 DEF RunRecords
    <3> QED
      BY <1>3, <3>1, <3>2 DEF RunRecords
  <2>2. run' = [run EXCEPT ![r] = run'[r]]
    BY <1>1 DEF CaptureTypeOK
  <2>3. run' \in [Runs -> RunRecords]
    BY <1>1, <2>1, <2>2 DEF CaptureTypeOK
  <2>4. tab' \in [Runs -> 0..MaxToken]
    BY <1>1, <1>5 DEF CaptureTypeOK
  <2> QED
    BY <1>1, <1>4, <1>5, <2>3, <2>4 DEF CaptureTypeOK
<1>7. Issued < new
  BY <1>2
<1>8. StepOf(r)
  <2>1. \A s \in Runs \ {r} : run'[s] = run[s] /\ tab'[s] = tab[s]
    BY <1>1 DEF CaptureTypeOK
  <2> QED
    BY <1>2, <1>4, <1>7, <2>1 DEF StepOf
<1>9. /\ run'[r].step = run[r].step /\ run'[r].id = run[r].id /\ run'[r].since = run[r].since
      /\ run'[r].stuck = run[r].stuck /\ run'[r].tok = 0
      /\ run'[r].news = new /\ run'[r].events = 2 /\ tab'[r] = new
  BY <1>1, <1>2, <1>3 DEF RunRecords, CaptureTypeOK
<1>10. run[r].since <= Issued /\ run[r].since \in Nat
  BY <1>2 DEF RunInv, RunRecords
<1>11. RunInv(r)'
  <2>1. run'[r].since <= Issued' /\ new > run[r].since
    BY <1>2, <1>4, <1>7, <1>9, <1>10
  <2>2. tab'[r] <= Issued' /\ origin'[tab'[r]] = r /\ tab'[r] > run'[r].since
    BY <1>4, <1>9, <2>1
  <2>3. Running(r)' /\ run'[r].id \in Ids
    BY <1>1, <1>2, <1>9 DEF Running
  <2> QED
    BY <1>4, <1>9, <2>1, <2>2, <2>3 DEF RunInv
<1>12. ASSUME NEW o \in Waiting'
       PROVE  o \in Waiting /\ o.tok <= Issued' /\ OwnedBy(o, r)' /\ Awaited(o)'
  <2>1. /\ Owned(o) /\ Awaited(o) /\ (AwaitedBy(o, r) => AwaitedBy(o, r)')
        /\ o \in Observations
    BY <1>1, <1>9, Types DEF CaptureInv, AwaitedBy
  <2>2. o.tok \in 1..Issued
    BY <1>2, <2>1 DEF Owned, Observations, Tokens
  <2>3. o.tok <= Issued'
    BY <1>2, <1>4, <1>5, <1>7, <2>2
  <2>4. OwnedBy(o, r)'
    <3>1. OwnedBy(o, r) /\ origin'[o.tok] = origin[o.tok]
      BY <1>4, <2>1, <2>2 DEF Owned
    <3> QED
      BY <1>9, <3>1 DEF OwnedBy, Running
  <2> QED
    BY <1>1, <1>8, <2>1, <2>3, <2>4, AwaitedKept
<1>13. \A s \in Runs \ {r} : run[s].id # run'[r].id
  BY <1>2, <1>9 DEF CaptureInv, IdsDiffer
<1> QED
  BY <1>6, <1>8, <1>11, <1>12, <1>13, StepKeeps

LEMMA RecordKeeps ==
    ASSUME CaptureInv, NEW r \in Runs, RecordNavigation(r)
    PROVE  CaptureInv'
<1>1. PICK owner \in {run[r].id, NoId} : queue' = Append(queue, Observed(r, run[r].news, owner))
  BY DEF RecordNavigation
<1>2. /\ run[r].events > 0 /\ Len(queue) < MaxQueue
      /\ run' = [run EXCEPT ![r].events = @ - 1]
      /\ tab' = tab /\ origin' = origin /\ Issued' = Issued /\ CaptureTypeOK
  BY DEF RecordNavigation, CaptureInv, Issued
<1>3. run[r] \in RunRecords /\ RunInv(r) /\ Issued \in Nat
  BY <1>2, Types DEF CaptureInv
<1>4. run[r].id \in Ids /\ Running(r)
  BY <1>2, <1>3 DEF RunInv, IdleRun
<1>5. run'[r] = [run[r] EXCEPT !.events = @ - 1]
  BY <1>2 DEF CaptureTypeOK
<1>6. /\ run'[r].step = run[r].step /\ run'[r].id = run[r].id /\ run'[r].since = run[r].since
      /\ run'[r].stuck = run[r].stuck /\ run'[r].loose = run[r].loose
      /\ run'[r].events = run[r].events - 1 /\ run'[r].news = run[r].news
      /\ run'[r].tok = run[r].tok
  BY <1>3, <1>5 DEF RunRecords
<1> DEFINE new == Observed(r, run[r].news, owner)
<1>7. /\ run[r].news \in 1..Issued /\ run[r].news > run[r].since
      /\ origin[run[r].news] = r
  BY <1>2, <1>3 DEF RunInv, RunRecords
<1>8. new \in Observations
  BY <1>2, <1>3, <1>4, <1>7 DEF Observed, Observations, Tokens, RunRecords
<1>9. new.tok = run[r].news /\ new.owner = owner /\ new.late = (run[r].step = "closing")
  BY DEF Observed
<1> HIDE DEF new
<1>10. /\ queue' \in Seq(Observations) /\ Len(queue') <= MaxQueue
       /\ \A o \in Waiting' : o \in Waiting \/ o = new
  BY <1>1, <1>2, <1>8, Appended DEF new
<1>11. CaptureTypeOK'
  <2>1. run'[r] \in RunRecords
    <3>1. run[r].events - 1 \in 0..2
      BY <1>2, <1>3 DEF RunRecords
    <3> QED
      BY <1>3, <1>5, <3>1 DEF RunRecords
  <2>2. run' = [run EXCEPT ![r] = run'[r]]
    BY <1>2 DEF CaptureTypeOK
  <2>3. run' \in [Runs -> RunRecords]
    BY <1>2, <2>1, <2>2 DEF CaptureTypeOK
  <2> QED
    BY <1>2, <1>10, <2>3 DEF CaptureTypeOK
<1>12. StepOf(r)
  BY <1>2, <1>3 DEF StepOf, CaptureTypeOK
<1>13. RunInv(r)'
  BY <1>2, <1>3, <1>4, <1>6 DEF RunInv, Running
<1>14. ASSUME NEW o \in Waiting'
       PROVE  /\ o.tok <= Issued' /\ OwnedBy(o, r)' /\ Awaited(o)'
              /\ o \in Waiting \/ \A s \in Runs \ {r} : OwnedBy(o, s)'
  <2>1. CASE o \in Waiting
    <3>1. Owned(o) /\ Awaited(o) /\ (AwaitedBy(o, r) => AwaitedBy(o, r)')
      BY <1>6, <2>1 DEF CaptureInv, AwaitedBy
    <3> QED
      BY <1>2, <1>6, <1>12, <2>1, <3>1, AwaitedKept DEF Owned, OwnedBy, Running
  <2>2. CASE o = new
    <3>1. o.tok <= Issued' /\ OwnedBy(o, r)'
      BY <1>2, <1>3, <1>6, <1>7, <1>9, <2>2 DEF OwnedBy
    <3>2. \A s \in Runs \ {r} : OwnedBy(o, s)'
      <4>1. ASSUME NEW s \in Runs \ {r}, Running(s)
            PROVE  run[s].id # owner
        BY <1>4, <4>1 DEF CaptureInv, IdsDiffer, RunInv
      <4> QED
        BY <1>9, <1>12, <2>2, <4>1 DEF StepOf, OwnedBy, Running
    <3>3. Awaited(o)'
      BY <1>4, <1>6, <1>9, <2>2 DEF Awaited, AwaitedBy, Running
    <3> QED
      BY <3>1, <3>2, <3>3
  <2> QED
    BY <1>10, <2>1, <2>2
<1>15. \A s \in Runs \ {r} : run[s].id # run'[r].id
  BY <1>4, <1>6 DEF CaptureInv, IdsDiffer
<1> QED
  BY <1>11, <1>12, <1>13, <1>14, <1>15, StepKeeps

\* What the run takes is its own, and of its own time: its tab's address, or an
\* observation that has its id, or one without owner.
LEMMA CaptureKeeps ==
    ASSUME CaptureInv, NEW r \in Runs, Capture(r)
    PROVE  CaptureInv'
<1>1. /\ run[r].step = "driving" /\ tab' = tab /\ origin' = origin /\ Issued' = Issued
      /\ CaptureTypeOK
  BY DEF Capture, CaptureInv, Issued
<1>2. run[r] \in RunRecords /\ RunInv(r) /\ run[r].id \in Ids /\ Issued \in Nat
  BY <1>1, Types DEF CaptureInv, RunInv, Running
<1>3. PICK tok \in 1..MaxToken, loose \in BOOLEAN :
        /\ run' = [run EXCEPT ![r].step = "captured", ![r].tok = tok, ![r].loose = loose]
        /\ tok <= Issued
        /\ origin[tok] = r \/ loose
        /\ tok > run[r].since \/ run[r].stuck \/ loose
        /\ queue' \in Seq(Observations) /\ Len(queue') <= MaxQueue
        /\ \A o \in Waiting' : o \in Waiting
  <2> DEFINE mine == MineOrNone(r)
             first == CHOOSE i \in mine : \A j \in mine : i <= j
  <2>1. CASE mine # {}
    <3>1. /\ run' = [run EXCEPT ![r].step = "captured", ![r].tok = queue[first].tok,
                                ![r].loose = queue[first].owner = NoId]
          /\ queue' = RemoveAt(queue, first)
      BY <2>1 DEF Capture
    <3>2. first \in mine
      <4>1. mine \in SUBSET Nat
        BY LenProperties, <1>1 DEF MineOrNone, CaptureTypeOK
      <4>2. \E i \in mine : \A j \in mine : i <= j
        BY <2>1, <4>1, Smallest
      <4> QED
        BY <4>2
    <3> HIDE DEF first
    <3>3. first \in 1..Len(queue) /\ queue[first].owner \in {run[r].id, NoId}
      BY <3>2 DEF MineOrNone
    <3> DEFINE o == queue[first]
    <3>4. o \in Waiting /\ o \in Observations
      BY <3>3, <1>1, Types DEF Waiting
    <3>5. Owned(o)
      BY <3>4 DEF CaptureInv
    <3>6. o.tok \in 1..MaxToken /\ o.tok <= Issued /\ OwnedBy(o, r)
      BY <3>4, <3>5 DEF Observations, Tokens, Owned
    <3>7. o.owner # NoId => o.owner = run[r].id
      BY <3>3
    <3>8. \/ o.owner = NoId
          \/ origin[o.tok] = r /\ (o.tok > run[r].since \/ run[r].stuck)
      BY <1>1, <3>6, <3>7 DEF OwnedBy, Running
    <3>9. /\ queue' \in Seq(Observations) /\ Len(queue') <= MaxQueue
          /\ \A p \in Waiting' : p \in Waiting
      BY <1>1, <3>1, <3>3, Removed
    <3> HIDE DEF o
    <3>10. /\ run' = [run EXCEPT ![r].step = "captured", ![r].tok = o.tok,
                                 ![r].loose = (o.owner = NoId)]
           /\ (o.owner = NoId) \in BOOLEAN
      BY <3>1 DEF o
    <3> QED
      BY <3>6, <3>8, <3>9, <3>10
  <2>2. CASE mine = {}
    <3>1. /\ tab[r] # 0 /\ queue' = queue
          /\ run' = [run EXCEPT ![r].step = "captured", ![r].tok = tab[r]]
      BY <2>2 DEF Capture
    <3>2. /\ tab[r] \in 1..MaxToken /\ tab[r] <= Issued /\ origin[tab[r]] = r
          /\ tab[r] > run[r].since \/ run[r].stuck
      BY <1>1, <1>2, <3>1 DEF RunInv, CaptureTypeOK
    <3>3. run' = [run EXCEPT ![r].step = "captured", ![r].tok = tab[r],
                             ![r].loose = run[r].loose]
      BY <1>1, <1>2, <3>1 DEF CaptureTypeOK, RunRecords
    <3>4. Waiting' = Waiting /\ run[r].loose \in BOOLEAN
      BY <1>2, <3>1 DEF Waiting, RunRecords
    <3> QED
      BY <1>1, <3>1, <3>2, <3>3, <3>4 DEF CaptureTypeOK
  <2> QED
    BY <2>1, <2>2
<1>4. run'[r] = [run[r] EXCEPT !.step = "captured", !.tok = tok, !.loose = loose]
  BY <1>1, <1>3 DEF CaptureTypeOK
<1>5. CaptureTypeOK'
  <2>1. run'[r] \in RunRecords
    <3>1. PICK last \in RunRecords : last = [run[r] EXCEPT !.step = "captured"]
      BY <1>2 DEF RunRecords, Steps
    <3>2. tok \in 0..MaxToken
      OBVIOUS
    <3>3. PICK taken \in RunRecords : taken = [last EXCEPT !.tok = tok]
      BY <3>1, <3>2 DEF RunRecords
    <3>4. run'[r] = [taken EXCEPT !.loose = loose]
      BY <1>4, <3>1, <3>3
    <3> QED
      BY <3>3, <3>4 DEF RunRecords
  <2>2. run' = [run EXCEPT ![r] = run'[r]]
    BY <1>1, <1>3 DEF CaptureTypeOK
  <2>3. run' \in [Runs -> RunRecords]
    BY <1>1, <2>1, <2>2 DEF CaptureTypeOK
  <2> QED
    BY <1>1, <1>3, <2>3 DEF CaptureTypeOK
<1>6. StepOf(r)
  BY <1>1, <1>2, <1>3 DEF StepOf, CaptureTypeOK
<1>7. /\ run'[r].step = "captured" /\ run'[r].id = run[r].id /\ run'[r].since = run[r].since
      /\ run'[r].stuck = run[r].stuck /\ run'[r].loose = loose /\ run'[r].tok = tok
      /\ run'[r].events = run[r].events /\ run'[r].news = run[r].news
  BY <1>2, <1>4 DEF RunRecords
<1>8. RunInv(r)'
  BY <1>1, <1>2, <1>3, <1>7 DEF RunInv, Running
<1>9. ASSUME NEW o \in Waiting'
      PROVE  o \in Waiting /\ o.tok <= Issued' /\ OwnedBy(o, r)' /\ Awaited(o)'
  <2>1. o \in Waiting /\ Owned(o) /\ Awaited(o) /\ (AwaitedBy(o, r) => AwaitedBy(o, r)')
    BY <1>3, <1>7 DEF CaptureInv, AwaitedBy
  <2>2. OwnedBy(o, r)'
    BY <1>1, <1>7, <2>1 DEF Owned, OwnedBy, Running
  <2> QED
    BY <1>1, <1>6, <2>1, <2>2, AwaitedKept DEF Owned
<1>10. \A s \in Runs \ {r} : run[s].id # run'[r].id
  BY <1>2, <1>7 DEF CaptureInv, IdsDiffer
<1> QED
  BY <1>5, <1>6, <1>8, <1>9, <1>10, StepKeeps

\* What is left after a run has dropped its observations waits for another run.
LEMMA DropKeeps ==
    ASSUME CaptureInv, NEW r \in Runs, Drop(r)
    PROVE  CaptureInv'
<1>1. /\ run[r].step \in {"opened", "gate", "driving", "captured"}
      /\ run' = [run EXCEPT ![r].step = "closing"]
      /\ DropObservations(run[r].id) /\ origin' = origin /\ Issued' = Issued
      /\ CaptureTypeOK
  BY DEF Drop, CaptureInv, Issued
<1>2. PICK left \in {0, tab[r]} : tab' = [tab EXCEPT ![r] = left]
  BY DEF Drop
<1>3. run[r] \in RunRecords /\ RunInv(r) /\ run[r].id \in Ids /\ Issued \in Nat
  BY <1>1, Types DEF CaptureInv, RunInv, Running
<1>4. /\ queue' \in Seq(Observations) /\ Len(queue') <= MaxQueue
      /\ \A o \in Waiting' : o \in Waiting /\ o.owner \notin {run[r].id, NoId}
  BY <1>1, Dropped
<1>5. run'[r] = [run[r] EXCEPT !.step = "closing"]
  BY <1>1 DEF CaptureTypeOK
<1>6. CaptureTypeOK'
  <2>1. run'[r] \in RunRecords
    BY <1>3, <1>5 DEF RunRecords, Steps
  <2>2. run' = [run EXCEPT ![r] = run'[r]]
    BY <1>1 DEF CaptureTypeOK
  <2>3. run' \in [Runs -> RunRecords]
    BY <1>1, <2>1, <2>2 DEF CaptureTypeOK
  <2>4. tab' \in [Runs -> 0..MaxToken]
    BY <1>1, <1>2 DEF CaptureTypeOK
  <2> QED
    BY <1>1, <1>4, <2>3, <2>4 DEF CaptureTypeOK
<1>7. StepOf(r)
  BY <1>1, <1>2, <1>3 DEF StepOf, CaptureTypeOK
<1>8. /\ run'[r].step = "closing" /\ run'[r].id = run[r].id /\ run'[r].since = run[r].since
      /\ run'[r].stuck = run[r].stuck /\ run'[r].loose = run[r].loose
      /\ run'[r].tok = run[r].tok
      /\ run'[r].events = run[r].events /\ run'[r].news = run[r].news
  BY <1>3, <1>5 DEF RunRecords
<1>9. tab'[r] \in {0, tab[r]}
  BY <1>1, <1>2 DEF CaptureTypeOK
<1>10. RunInv(r)'
  BY <1>1, <1>3, <1>8, <1>9 DEF RunInv, Running
<1>11. ASSUME NEW o \in Waiting'
       PROVE  o \in Waiting /\ o.tok <= Issued' /\ OwnedBy(o, r)' /\ Awaited(o)'
  <2>1. o \in Waiting /\ Owned(o) /\ Awaited(o) /\ ~AwaitedBy(o, r)
    BY <1>4 DEF CaptureInv, AwaitedBy
  <2>2. OwnedBy(o, r)'
    BY <1>4, <1>8 DEF OwnedBy
  <2> QED
    BY <1>1, <1>7, <2>1, <2>2, AwaitedKept DEF Owned
<1>12. \A s \in Runs \ {r} : run[s].id # run'[r].id
  BY <1>3, <1>8 DEF CaptureInv, IdsDiffer
<1> QED
  BY <1>6, <1>7, <1>10, <1>11, <1>12, StepKeeps

LEMMA CloseKeeps ==
    ASSUME CaptureInv, NEW r \in Runs, Close(r)
    PROVE  CaptureInv'
<1>1. /\ run[r].step = "closing" /\ run' = [run EXCEPT ![r] = IdleRun]
      /\ queue' = queue /\ origin' = origin /\ Issued' = Issued
      /\ CaptureTypeOK /\ Waiting' = Waiting
  BY DEF Close, CaptureInv, Issued, Waiting
<1>2. PICK left \in {0, tab[r]} : tab' = [tab EXCEPT ![r] = left]
  BY DEF Close
<1>3. Issued \in Nat /\ RunInv(r) /\ run'[r] = IdleRun
  BY <1>1, Types DEF CaptureInv, CaptureTypeOK
<1>4. CaptureTypeOK'
  <2>1. IdleRun \in RunRecords
    BY DEF IdleRun, RunRecords, Steps
  <2>2. run' \in [Runs -> RunRecords]
    BY <1>1, <2>1 DEF CaptureTypeOK
  <2>3. tab' \in [Runs -> 0..MaxToken]
    BY <1>1, <1>2 DEF CaptureTypeOK
  <2> QED
    BY <1>1, <2>2, <2>3 DEF CaptureTypeOK
<1>5. StepOf(r)
  BY <1>1, <1>2, <1>3 DEF StepOf, CaptureTypeOK
<1>6. RunInv(r)'
  <2>1. tab'[r] \in {0, tab[r]}
    BY <1>1, <1>2 DEF CaptureTypeOK
  <2> QED
    BY <1>1, <1>3, <2>1 DEF RunInv, Running, IdleRun
<1>7. ASSUME NEW o \in Waiting'
      PROVE  o \in Waiting /\ o.tok <= Issued' /\ OwnedBy(o, r)' /\ Awaited(o)'
  <2>1. o \in Waiting /\ Owned(o) /\ Awaited(o) /\ ~AwaitedBy(o, r)
    BY <1>1 DEF CaptureInv, AwaitedBy
  <2>2. OwnedBy(o, r)'
    BY <1>3 DEF OwnedBy, Running, IdleRun
  <2> QED
    BY <1>1, <1>5, <2>1, <2>2, AwaitedKept DEF Owned
<1>8. run'[r].id = NoId
  BY <1>3 DEF IdleRun
<1> QED
  BY <1>4, <1>5, <1>6, <1>7, <1>8, StepKeeps

-----------------------------------------------------------------------------
(* The invariant, and what follows from it. *)

\* Nothing waits yet, and nobody has a token.
LEMMA CaptureInit == Init => CaptureInv
<1> SUFFICES ASSUME Init PROVE CaptureInv
  OBVIOUS
<1>1. IdleRun \in RunRecords
  BY DEF IdleRun, RunRecords, Steps
<1>2. Waiting = {} /\ Issued = 0
  BY DEF Init, Waiting, Issued
<1>3. CaptureTypeOK
  BY <1>1, <1>2 DEF Init, CaptureTypeOK
<1>4. \A r \in Runs : RunInv(r) /\ run[r].id = NoId
  BY <1>2 DEF Init, RunInv, Running, IdleRun
<1> QED
  BY <1>2, <1>3, <1>4 DEF CaptureInv, IdsDiffer

LEMMA CaptureNext == CaptureInv /\ [Next]_vars => CaptureInv'
<1> SUFFICES ASSUME CaptureInv, [Next]_vars
             PROVE  CaptureInv'
  OBVIOUS
<1>1. CASE UNCHANGED vars
  BY <1>1 DEF vars, CaptureInv, CaptureTypeOK, IdsDiffer, RunInv, Running, Waiting, Owned,
         OwnedBy, Awaited, AwaitedBy, Issued
<1>2. ASSUME NEW r \in Runs, NEW id \in Ids, Launch(r, id)
      PROVE  CaptureInv'
  BY <1>2, LaunchKeeps
<1>3. ASSUME NEW r \in Runs,
             Watch(r) \/ Confirmed(r) \/ Issue(r) \/ RecordNavigation(r)
      PROVE  CaptureInv'
  BY <1>3, WatchKeeps, ConfirmKeeps, IssueKeeps, RecordKeeps
<1>4. ASSUME NEW r \in Runs, Capture(r) \/ Drop(r) \/ Close(r)
      PROVE  CaptureInv'
  BY <1>4, CaptureKeeps, DropKeeps, CloseKeeps
<1> QED
  BY <1>1, <1>2, <1>3, <1>4 DEF Next

(***************************************************************************)
(* What a run knows of tokens was issued in its browser, and an            *)
(* observation waits only while somebody is there for it.                  *)
(***************************************************************************)
LEMMA CaptureHolds == Spec => []CaptureInv
<1> QED
  BY CaptureInit, CaptureNext, PTL DEF Spec

(***************************************************************************)
(* The state of PlaywrightTokenProvider keeps to its types: what a     *)
(* run holds are issued tokens and known ids, in every step.               *)
(***************************************************************************)
THEOREM CaptureTypeCorrect == Spec => []CaptureTypeOK
<1>1. CaptureInv => CaptureTypeOK
  BY DEF CaptureInv
<1> QED
  BY <1>1, CaptureHolds, PTL

(***************************************************************************)
(* acquire_token returns a token that VK issued in the run's own browser,  *)
(* or one whose page would not say whose it was: the shared queue and the  *)
(* ids that return give it no other.                                       *)
(***************************************************************************)
THEOREM TokensAreOwn == Spec => []OwnToken
<1>1. CaptureInv => OwnToken
  BY DEF CaptureInv, RunInv, OwnToken
<1> QED
  BY <1>1, CaptureHolds, PTL

(***************************************************************************)
(* acquire_token returns no token from before the run, unless a restored   *)
(* tab could not be blanked or the token's page would not say whose it was *)
(* (_discard_stale_token_pages, _drop_context_observations).               *)
(***************************************************************************)
THEOREM TokensAreFresh == Spec => []FreshToken
<1>1. CaptureInv => FreshToken
  BY DEF CaptureInv, RunInv, FreshToken
<1> QED
  BY <1>1, CaptureHolds, PTL

(***************************************************************************)
(* A token stays in _observed_token_urls only while a run is there to take *)
(* or to drop it, but for one that VK issues while the browser closes      *)
(* (acquire_token's finally block).                                        *)
(***************************************************************************)
THEOREM NoTokenStays == Spec => []NoTokenKept
<1>1. ASSUME CaptureInv
      PROVE  NoTokenKept
  <2>1. ASSUME NEW i \in 1..Len(queue)
        PROVE  \/ queue[i].late
               \/ \E r \in Runs : Running(r) /\ queue[i].owner \in {run[r].id, NoId}
    <3>1. queue[i] \in Waiting
      BY DEF Waiting
    <3>2. Awaited(queue[i])
      BY <1>1, <3>1 DEF CaptureInv
    <3> QED
      BY <3>2 DEF Awaited, AwaitedBy, Running
  <2> QED
    BY <2>1 DEF NoTokenKept
<1> QED
  BY <1>1, CaptureHolds, PTL

=============================================================================
