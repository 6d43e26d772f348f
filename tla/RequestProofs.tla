---------------------------- MODULE RequestProofs ---------------------------
(***************************************************************************)
(* Proofs about requests of the operator that work beside the program:     *)
(* commands on a run (RunControl) and edits of its list (ListEditing), for *)
(* every number of accounts, groups and request threads.                   *)
(***************************************************************************)
EXTENDS RunControl, ListEditing, RunServiceProofs

USE WindowAssumption, QueueAssumption, RunAssumption

-----------------------------------------------------------------------------
(***************************************************************************)
(* What a step may do to the database: a step of RunService, or a write of *)
(* a command or of the loop with what it has read before.                  *)
(***************************************************************************)
LateReset ==
    /\ \E r \in Requests : ResetQuotaOf(req[r].accounts)
    /\ UNCHANGED <<itemVars, runState, dailyLimit, accountVars>>
LateRows ==
    /\ \/ \E r \in Requests : ResumeRows(req[r].state, req[r].accounts)
       \/ SetAsideRows
       \/ /\ \E Ids \in SUBSET Items : itemState' = WithoutRows(Ids)
          /\ UNCHANGED <<itemAccount, counted, attempts, leaseLeft, retryIn>>
       \/ UNCHANGED itemVars
    /\ runState' \in RunState
    /\ UNCHANGED <<quotaVars, dailyLimit, accountVars>>

ControlRange ==
    /\ req' \in [Requests -> Request]
    /\ checked' \in Accounts \cup {NoAccount} /\ limitRead' \in Limits
    /\ verdict' \in RunState \cup {"none", "counting"}
    /\ halted' \in BOOLEAN /\ overtaken' \in BOOLEAN

\* A thread without a request is idle.
LEMMA NoRequestType == NoRequest \in Request /\ NoRequest.at = "idle"
BY DEF NoRequest, Request, RunState

LEMMA CommandStep ==
    ASSUME ControlTypeOK, NEW r \in Requests, Command(r)
    PROVE  /\ ControlRange
           /\ UNCHANGED dbVars \/ LateReset \/ LateRows
<1> USE DEF ControlTypeOK, ControlRange
<1>0. RunTypeOK /\ runState \in RunState
  BY DEF RunTypeOK, QueueTypeOK
<1>1. ASSUME NEW at \in {"reset", "reset_running", "start", "pause", "stop"},
             NEW S \in SUBSET Accounts, NEW next \in RunState,
             Begin(r, at, S, next), halted' \in BOOLEAN
      PROVE  ControlRange /\ UNCHANGED dbVars
  <2>1. [at |-> at, state |-> runState, accounts |-> S, next |-> next] \in Request
    BY <1>0 DEF Request
  <2> QED
    BY <1>1, <2>1 DEF Begin
<1>2. /\ Active \in SUBSET Accounts /\ {} \in SUBSET Accounts
      /\ "running" \in RunState /\ "paused" \in RunState /\ "stopped" \in RunState
  BY DEF Active, RunState
<1>3. ASSUME NEW ig \in BOOLEAN, StartRead(r, ig)
      PROVE  ControlRange /\ UNCHANGED dbVars
  BY <1>1, <1>2, <1>3 DEF StartRead
<1>4. CASE StartReset(r)
  <2>1. req' \in [Requests -> Request]
    <3>1. req[r] \in Request
      OBVIOUS
    <3>2. [req[r] EXCEPT !.at = "start"] \in Request
      BY <3>1 DEF Request
    <3> QED
      BY <1>4, <3>2, NoRequestType DEF StartReset, End
  <2> QED
    BY <1>4, <2>1 DEF StartReset, LateReset
<1>5. ASSUME WriteRun(r), halted' \in BOOLEAN
      PROVE  ControlRange /\ runState' \in RunState
  <2>1. req[r].next \in RunState
    BY DEF Request
  <2> QED
    BY <1>5, <2>1, NoRequestType DEF WriteRun, End
<1>6. CASE StartWrite(r) \/ PauseWrite(r) \/ StopWrite(r)
  BY <1>5, <1>6 DEF StartWrite, PauseWrite, StopWrite, LateRows, WriteRun
<1>7. CASE HaltRead(r)
  BY <1>1, <1>2, <1>7 DEF HaltRead
<1>8. ASSUME NEW Ids \in SUBSET Items, Remove(r, Ids)
      PROVE  ControlRange /\ LateRows
  <2>1. [req[r] EXCEPT !.at = "removed"] \in Request
    BY DEF Request
  <2>2. ControlRange
    BY <1>8, <2>1 DEF Remove
  <2> QED
    BY <1>0, <1>8, <2>2 DEF Remove, LateRows, accountVars
<1>9. CASE RecountRead(r)
  <2> DEFINE next == ReconcileVerdict(itemState, runState)
  <2>1. next \in RunState
    BY <1>0, VerdictIsState
  <2> HIDE DEF next
  <2>2. [NoRequest EXCEPT !.at = "recount", !.state = runState, !.next = next] \in Request
    BY <1>0, <2>1 DEF NoRequest, Request
  <2>3. ControlRange
    BY <1>9, <2>2, NoRequestType DEF RecountRead, End, next
  <2> QED
    BY <1>9, <2>3 DEF RecountRead
<1>10. CASE RecountWrite(r)
  <2>1. req[r].next \in RunState
    BY DEF Request
  <2> QED
    BY <1>10, <2>1, NoRequestType DEF RecountWrite, End, LateRows
<1> QED
  BY <1>3, <1>4, <1>6, <1>7, <1>8, <1>9, <1>10 DEF Command

LEMMA ControlStep ==
    ASSUME ControlTypeOK, [ControlNext]_allVars
    PROVE  /\ ControlRange
           /\ [RunNext]_dbVars \/ LateReset \/ LateRows
<1> USE DEF ControlTypeOK, ControlRange
<1>0. RunTypeOK /\ dailyLimit \in Limits
  BY DEF RunTypeOK
<1>1. ASSUME NEW r \in Requests, Command(r)
      PROVE  ControlRange /\ (UNCHANGED dbVars \/ LateReset \/ LateRows)
  BY <1>1, CommandStep
<1>2. ASSUME NEW a \in Accounts, WorkerCheck(a)
      PROVE  ControlRange /\ UNCHANGED dbVars
  BY <1>0, <1>2 DEF WorkerCheck
<1>3. CASE WorkerClaim
  <2>1. [RunNext]_dbVars
    BY <1>3 DEF WorkerClaim, RunNext, Work
  <2> QED
    BY <1>3, <2>1 DEF WorkerClaim
<1>4. CASE IdleRead \/ IdleCount
  BY <1>4 DEF IdleRead, IdleCount, RestVerdict, RunState
<1>5. CASE IdleWrite
  BY <1>5 DEF IdleWrite, LateRows
<1>6. CASE Settle
  <2>1. RunNext
    BY <1>6 DEF Settle, RunNext, Work, Operate, ChangeLogin
  <2> QED
    BY <1>6, <2>1 DEF Settle, controlVars
<1>7. CASE Change
  <2>1. RunNext
    BY <1>7 DEF Change, RunNext, Operate, Configure
  <2> QED
    BY <1>7, <2>1 DEF Change, controlVars
<1>8. CASE Reborn
  <2>1. RunNext
    BY <1>8 DEF Reborn, RunNext
  <2> QED
    BY <1>8, <2>1, NoRequestType DEF Reborn
<1>9. CASE ClockTick /\ UNCHANGED <<accountVars, controlVars>>
  BY <1>9 DEF RunNext, controlVars
<1>10. CASE UNCHANGED allVars
  BY <1>10 DEF allVars, controlVars
<1> QED
  BY <1>1, <1>2, <1>3, <1>4, <1>5, <1>6, <1>7, <1>8, <1>9, <1>10 DEF ControlNext

\* The late writes keep what RunService's own steps keep.
LEMMA LateWritesKeep ==
    ASSUME ControlTypeOK, PoolConsistent, QuotaLedger, LateReset \/ LateRows
    PROVE  RunTypeOK' /\ PoolConsistent' /\ QuotaLedger'
<1> USE DEF ControlTypeOK, RunTypeOK, QueueTypeOK, WorkItemState, RunState, Request,
            quotaVars, itemVars, accountVars
<1>1. CASE LateReset
  <2>1. ASSUME NEW a \in Accounts
        PROVE  \/ quota'[a] = NoRow /\ charged'[a] = {}
               \/ quota'[a] = quota[a] /\ charged'[a] = charged[a]
    BY <1>1 DEF LateReset, ResetQuotaOf
  <2>2. ~ (NoRow.left > 0)
    BY DEF NoRow
  <2>3. QuotaLedger'
    BY <1>1, <2>1, <2>2 DEF LateReset, QuotaLedger
  <2>4. RunTypeOK'
    BY <1>1, QuotaRows DEF LateReset, ResetQuotaOf
  <2>5. PoolConsistent'
    BY <1>1 DEF LateReset, PoolConsistent, Started
  <2> QED
    BY <2>3, <2>4, <2>5
<1>2. CASE LateRows
  <2>1. /\ runState' \in RunState /\ UNCHANGED <<quotaVars, dailyLimit, accountVars>>
        /\ \/ \E r \in Requests : ResumeRows(req[r].state, req[r].accounts)
           \/ SetAsideRows
           \/ /\ \E Ids \in SUBSET Items : itemState' = WithoutRows(Ids)
              /\ UNCHANGED <<itemAccount, counted, attempts, leaseLeft, retryIn>>
           \/ UNCHANGED itemVars
    BY <1>2 DEF LateRows
  <2>2. UNCHANGED <<counted, attempts, leaseLeft, retryIn>>
    BY <2>1 DEF ResumeRows, SetAsideRows
  <2>3. QuotaLedger'
    BY <2>1, <2>2 DEF QuotaLedger
  <2>4. ASSUME NEW r \in Requests, ResumeRows(req[r].state, req[r].accounts)
        PROVE  /\ itemState' \in [Items -> WorkItemState]
               /\ itemAccount' \in [Items -> Accounts \cup {NoAccount}]
               /\ PoolConsistent'
    <3>1. req[r].accounts \in SUBSET Accounts
      OBVIOUS
    <3>2. /\ itemState' \in [Items -> WorkItemState]
          /\ itemAccount' \in [Items -> Accounts \cup {NoAccount}]
      BY <2>4 DEF ResumeRows
    <3>3. PoolConsistent'
      BY <2>4, <3>1 DEF ResumeRows, BackToPool, BackToOwner, PoolConsistent, Started
    <3> QED
      BY <3>2, <3>3
  <2>5. ASSUME SetAsideRows \/ UNCHANGED itemVars
        PROVE  /\ itemState' \in [Items -> WorkItemState]
               /\ itemAccount' \in [Items -> Accounts \cup {NoAccount}]
               /\ PoolConsistent'
    BY <2>2, <2>5 DEF SetAsideRows, PoolConsistent, Started
  <2>6. ASSUME NEW Ids, itemState' = WithoutRows(Ids), UNCHANGED itemAccount
        PROVE  /\ itemState' \in [Items -> WorkItemState]
               /\ itemAccount' \in [Items -> Accounts \cup {NoAccount}]
               /\ PoolConsistent'
    BY <2>2, <2>6 DEF WithoutRows, PoolConsistent, Started
  <2>7. RunTypeOK'
    BY <2>1, <2>2, <2>4, <2>5, <2>6
  <2> QED
    BY <2>1, <2>3, <2>4, <2>5, <2>6, <2>7
<1> QED
  BY <1>1, <1>2

ControlInv == ControlTypeOK /\ PoolConsistent /\ QuotaLedger

LEMMA ControlInvInit == ControlInit => ControlInv
<1> SUFFICES ASSUME ControlInit PROVE ControlInv
  OBVIOUS
<1>1. RunTypeOK /\ PoolConsistent /\ QuotaLedger
  BY TypeInit, PoolInit, LedgerInit DEF ControlInit
<1>2. dailyLimit \in Limits
  BY <1>1 DEF RunTypeOK
<1> QED
  BY <1>1, <1>2, NoRequestType DEF ControlInit, ControlInv, ControlTypeOK

LEMMA ControlInvNext == ControlInv /\ [ControlNext]_allVars => ControlInv'
<1> SUFFICES ASSUME ControlInv, [ControlNext]_allVars PROVE ControlInv'
  OBVIOUS
<1>1. ControlTypeOK /\ PoolConsistent /\ QuotaLedger /\ RunTypeOK
  BY DEF ControlInv, ControlTypeOK
<1>2. ControlRange /\ ([RunNext]_dbVars \/ LateReset \/ LateRows)
  BY <1>1, ControlStep
<1>3. RunTypeOK' /\ PoolConsistent' /\ QuotaLedger'
  <2>1. CASE [RunNext]_dbVars
    BY <1>1, <2>1, TypeNext, PoolNext, LedgerNext
  <2> QED
    BY <1>1, <1>2, <2>1, LateWritesKeep
<1> QED
  BY <1>2, <1>3 DEF ControlInv, ControlTypeOK, ControlRange

LEMMA ControlHolds == ControlSpec => []ControlInv
BY ControlInvInit, ControlInvNext, PTL DEF ControlSpec

\* Every state has its type.
THEOREM ControlTypeCorrect == ControlSpec => []ControlTypeOK
<1>1. ControlInv => ControlTypeOK
  BY DEF ControlInv
<1> QED
  BY <1>1, ControlHolds, PTL

\* The ledger stays exact although a reset may come late and a claim may be
\* charged against a limit that has changed since it was read.
THEOREM LedgerKeptByCommands == ControlSpec => []QuotaLedger
<1>1. ControlInv => QuotaLedger
  BY DEF ControlInv
<1> QED
  BY <1>1, ControlHolds, PTL

\* A worker never charges a group beyond the limit it has read.
THEOREM ChargesWithinLimitRead == ControlSpec => LimitAsRead
<1> DEFINE Within == \A a \in Accounts : charged'[a] # charged[a] =>
                        charged'[a] = {} \/ Cardinality(charged'[a]) <= limitRead
<1>1. ControlInv /\ [ControlNext]_allVars => [Within]_allVars
  <2> SUFFICES ASSUME ControlInv, ControlNext, NEW a \in Accounts, charged'[a] # charged[a]
               PROVE  charged'[a] = {} \/ Cardinality(charged'[a]) <= limitRead
    OBVIOUS
  <2>0. ControlTypeOK /\ PoolConsistent /\ QuotaLedger /\ RunTypeOK /\ limitRead \in Nat
    BY DEF ControlInv, ControlTypeOK
  <2>1. CASE WorkerClaim
    <3>1. checked \in Accounts
      BY <2>0, <2>1 DEF WorkerClaim, ControlTypeOK
    <3>2. PICK i \in Items : ClaimWithin(checked, i, limitRead)
      BY <2>1 DEF WorkerClaim, dbVars, queueVars, quotaVars
    <3>3. a = checked /\ NeedsQuota(i)
      BY <2>0, <3>1, <3>2 DEF ClaimWithin, quotaVars, RunTypeOK, QueueTypeOK
    <3> QED
      BY <2>0, <3>1, <3>2, <3>3, ClaimLedger
  <2>2. ASSUME NEW r \in Requests, Command(r)
        PROVE  charged'[a] = {}
    <3>1. LateReset
      BY <2>0, <2>2, CommandStep DEF LateRows, dbVars, queueVars, quotaVars
    <3> QED
      BY <3>1 DEF LateReset, ResetQuotaOf
  <2>3. CASE \/ \E b \in Accounts : WorkerCheck(b)
             \/ IdleRead \/ IdleCount \/ IdleWrite \/ Settle \/ Change \/ Reborn \/ ClockTick
    <3>1. charged' = charged
      BY <2>3 DEF WorkerCheck, IdleRead, IdleCount, IdleWrite, Settle, ScheduleRetry,
                  MarkReconcile, MarkPaused, Finalize, LogIn, LoseLogin, Change, SetLimit,
                  Reborn, Startup, ClockTick, dbVars, queueVars, quotaVars
    <3> QED
      BY <3>1
  <2> QED
    BY <2>1, <2>2, <2>3 DEF ControlNext
<1>2. ControlSpec => [][Within]_allVars
  BY <1>1, ControlHolds, PTL DEF ControlSpec
<1> QED
  BY <1>2 DEF LimitAsRead

-----------------------------------------------------------------------------
(***************************************************************************)
(* A halted run rests.  That the run is not running is not enough:         *)
(* finish_if_idle may write waiting_limit over a halt, in which claim_next *)
(* would claim.  What saves it is the event loop: finish_if_idle never     *)
(* runs while a worker is between its check and its claim, so a worker     *)
(* that has checked before the halt finds the run paused or stopped.       *)
(***************************************************************************)
HaltsTo(requests) ==
    \A r \in Requests : /\ requests[r].at = "pause" => requests[r].next = "paused"
                        /\ requests[r].at = "stop" => requests[r].next = "stopped"
HaltInv ==
    /\ HaltsTo(req)
    /\ halted => ~GoUnderWay /\ runState # "running"
    /\ halted /\ checked # NoAccount => ~RunClaimable
    /\ checked # NoAccount => verdict = "none"
    /\ verdict # "running"

\* No run is running before the first command.
LEMMA HaltInit == ControlInit => HaltInv
BY DEF ControlInit, RunInit, QueueInit, HaltInv, HaltsTo, GoUnderWay, NoRequest

\* What a command does to its own entry of the table matters only if it goes on to
\* write a state.
LEMMA EntryKeeps ==
    ASSUME req \in [Requests -> Request], req' \in [Requests -> Request], HaltsTo(req),
           NEW r \in Requests, \A q \in Requests \ {r} : req'[q] = req[q],
           req'[r].at = "pause" => req'[r].next = "paused",
           req'[r].at = "stop" => req'[r].next = "stopped"
    PROVE  /\ HaltsTo(req')
           /\ GoUnderWay' => \/ GoUnderWay \/ req'[r].at \in {"reset", "start"}
                             \/ req'[r].at = "recount" /\ req'[r].next \in Claimable
<1>1. HaltsTo(req')
  BY DEF HaltsTo
<1>2. ASSUME NEW q \in Requests, q # r,
             \/ req'[q].at \in {"reset", "start"}
             \/ req'[q].at = "recount" /\ req'[q].next \in Claimable
      PROVE  GoUnderWay
  BY <1>2 DEF GoUnderWay
<1> QED
  BY <1>1, <1>2 DEF GoUnderWay

\* The steps of a command keep the invariant.
LEMMA CommandKeepsHalt ==
    ASSUME ControlTypeOK, HaltInv, NEW r \in Requests, Command(r)
    PROVE  HaltInv'
<1> DEFINE Entry == /\ req \in [Requests -> Request] /\ req' \in [Requests -> Request]
                    /\ \A q \in Requests \ {r} : req'[q] = req[q]
<1>0. /\ req \in [Requests -> Request] /\ req' \in [Requests -> Request]
      /\ req[r].at = "pause" => req[r].next = "paused"
      /\ req[r].at = "stop" => req[r].next = "stopped"
      /\ HaltsTo(req)
      /\ halted => ~GoUnderWay
      /\ req[r].at \in {"reset", "start"} => GoUnderWay
      /\ req[r].at = "recount" /\ req[r].next \in Claimable => GoUnderWay
  <2>1. req \in [Requests -> Request] /\ req' \in [Requests -> Request]
    BY CommandStep DEF ControlTypeOK, ControlRange
  <2>2. HaltsTo(req) /\ (halted => ~GoUnderWay)
    BY DEF HaltInv
  <2>3. /\ req[r].at = "pause" => req[r].next = "paused"
        /\ req[r].at = "stop" => req[r].next = "stopped"
    BY <2>2 DEF HaltsTo
  <2>4. /\ req[r].at \in {"reset", "start"} => GoUnderWay
        /\ req[r].at = "recount" /\ req[r].next \in Claimable => GoUnderWay
    BY DEF GoUnderWay
  <2> QED
    BY <2>1, <2>2, <2>3, <2>4
<1>1. ASSUME NEW ig, StartRead(r, ig)
      PROVE  HaltInv'
  <2>1. /\ Entry /\ req'[r].at \in {"reset", "start", "reset_running"}
        /\ UNCHANGED <<runState, checked, verdict>>
        /\ halted' = FALSE \/ (halted' = halted /\ req'[r].at = "reset_running")
    BY <1>0, <1>1 DEF StartRead, Begin, dbVars, queueVars
  <2> QED
    BY <1>0, <2>1, EntryKeeps DEF HaltInv, RunClaimable
<1>2. CASE StartReset(r)
  <2>1. /\ Entry /\ req'[r].at \in {"start", "idle"}
        /\ req'[r].at = "start" => req[r].at = "reset"
        /\ UNCHANGED <<runState, checked, verdict, halted>>
    <3>1. CASE req[r].at = "reset"
      BY <1>0, <1>2, <3>1 DEF StartReset, Request
    <3>2. CASE req[r].at # "reset"
      BY <1>0, <1>2, <3>2 DEF StartReset, End, NoRequest
    <3> QED
      BY <3>1, <3>2
  <2> QED
    BY <1>0, <2>1, EntryKeeps DEF HaltInv, RunClaimable
<1>3. CASE StartWrite(r)
  <2>1. /\ Entry /\ req'[r].at = "idle" /\ ~halted
        /\ UNCHANGED <<checked, verdict, halted>>
    BY <1>0, <1>3 DEF StartWrite, WriteRun, End, NoRequest
  <2> QED
    BY <1>0, <2>1, EntryKeeps DEF HaltInv
<1>4. CASE HaltRead(r)
  <2>1. /\ Entry /\ UNCHANGED <<runState, checked, verdict, halted>>
        /\ \/ req'[r].at = "pause" /\ req'[r].next = "paused"
           \/ req'[r].at = "stop" /\ req'[r].next = "stopped"
    BY <1>0, <1>4 DEF HaltRead, Begin, dbVars, queueVars
  <2> QED
    BY <1>0, <2>1, EntryKeeps DEF HaltInv, RunClaimable
<1>5. CASE PauseWrite(r) \/ StopWrite(r)
  <2>1. /\ Entry /\ req'[r].at = "idle"
        /\ runState' \in {"paused", "stopped"} /\ UNCHANGED <<checked, verdict>>
        /\ halted' = (halted \/ ~GoUnderWay)
    BY <1>0, <1>5 DEF PauseWrite, StopWrite, WriteRun, End, NoRequest
  <2> QED
    BY <1>0, <2>1, EntryKeeps DEF HaltInv, RunClaimable
<1>6. ASSUME NEW Ids, Remove(r, Ids)
      PROVE  HaltInv'
  <2>1. /\ Entry /\ req'[r].at = "removed"
        /\ UNCHANGED <<runState, checked, verdict, halted>>
    BY <1>0, <1>6 DEF Remove
  <2> QED
    BY <1>0, <2>1, EntryKeeps DEF HaltInv, RunClaimable
<1>7. CASE RecountRead(r)
  <2> DEFINE next == ReconcileVerdict(itemState, runState)
  <2>1. /\ Entry /\ UNCHANGED <<runState, checked, verdict>>
        /\ halted' = (halted /\ (next = runState \/ next \notin Claimable))
        /\ \/ req'[r].at = "idle"
           \/ req'[r].at = "recount" /\ req'[r].next = next /\ next # runState
    <3>1. CASE next = runState
      BY <1>0, <1>7, <3>1 DEF RecountRead, End, NoRequest, dbVars, queueVars
    <3>2. CASE next # runState
      <4>1. req' = [req EXCEPT ![r] = [at |-> "recount", state |-> runState, accounts |-> {},
                                       next |-> next]]
        BY <1>7, <3>2 DEF RecountRead, NoRequest
      <4>2. req'[r].at = "recount" /\ req'[r].next = next
        BY <1>0, <4>1
      <4> QED
        BY <1>0, <1>7, <3>2, <4>1, <4>2 DEF RecountRead, dbVars, queueVars
    <3> QED
      BY <3>1, <3>2
  <2> HIDE DEF next
  <2>2. halted' => halted /\ (req'[r].at = "recount" => req'[r].next \notin Claimable)
    BY <2>1
  <2> QED
    BY <1>0, <2>1, <2>2, EntryKeeps DEF HaltInv, RunClaimable
<1>8. CASE RecountWrite(r)
  <2>1. /\ Entry /\ req'[r].at = "idle" /\ runState' = req[r].next
        /\ req[r].at = "recount" /\ UNCHANGED <<checked, verdict, halted>>
    BY <1>0, <1>8 DEF RecountWrite, End, NoRequest
  <2>2. halted => req[r].next \notin Claimable
    BY <1>0, <2>1
  <2> QED
    BY <1>0, <2>1, <2>2, EntryKeeps DEF HaltInv, RunClaimable, Claimable
<1> QED
  BY <1>1, <1>2, <1>3, <1>4, <1>5, <1>6, <1>7, <1>8 DEF Command

\* Every step keeps the invariant.
LEMMA HaltNext == ControlTypeOK /\ HaltInv /\ [ControlNext]_allVars => HaltInv'
<1> SUFFICES ASSUME ControlTypeOK, HaltInv, [ControlNext]_allVars
             PROVE  HaltInv'
  OBVIOUS
<1> USE DEF HaltInv, GoUnderWay, Claimable, RunClaimable
<1>1. ASSUME NEW a \in Accounts, WorkerCheck(a)
      PROVE  HaltInv'
  BY <1>1 DEF WorkerCheck, LoopFree, dbVars, queueVars
<1>2. CASE WorkerClaim
  <2>1. runState' = runState \/ (RunClaimable /\ checked # NoAccount)
    BY <1>2 DEF WorkerClaim, ClaimWithin, IsNext, Candidates, dbVars, queueVars
  <2> QED
    BY <1>2, <2>1 DEF WorkerClaim
<1>3. CASE IdleRead \/ IdleCount
  BY <1>3 DEF IdleRead, IdleCount, RestVerdict, LoopFree, dbVars, queueVars
<1>4. CASE IdleWrite
  BY <1>4 DEF IdleWrite
<1>5. CASE Settle \/ Change
  <2>1. UNCHANGED <<runState, controlVars>>
    BY <1>5 DEF Settle, Change, ScheduleRetry, MarkReconcile, MarkPaused, Finalize, LogIn,
                LoseLogin, SetLimit, queueVars
  <2> QED
    BY <2>1 DEF controlVars
<1>6. CASE Reborn
  <2>1. HaltsTo(req') /\ ~GoUnderWay'
    BY <1>6 DEF Reborn, HaltsTo, NoRequest
  <2> QED
    BY <1>6, <2>1 DEF Reborn, Startup, SuspendedRun
<1>7. CASE (ClockTick /\ UNCHANGED <<accountVars, controlVars>>) \/ UNCHANGED allVars
  BY <1>7 DEF ClockTick, allVars, dbVars, queueVars, controlVars
<1> QED
  BY <1>1, <1>2, <1>3, <1>4, <1>5, <1>6, <1>7, CommandKeepsHalt DEF ControlNext

\* Only a worker that has checked takes up a row, and only of a claimable run.
LEMMA OnlyCheckedWorkersClaim ==
    ASSUME ControlTypeOK, [ControlNext]_allVars, NEW i \in Items,
           itemState[i] # "processing", itemState'[i] = "processing"
    PROVE  checked # NoAccount /\ RunClaimable
<1>1. CASE WorkerClaim
  BY <1>1 DEF WorkerClaim, ClaimWithin, IsNext, Candidates, dbVars, queueVars, itemVars
<1>2. ASSUME NEW r \in Requests, Command(r)
      PROVE  FALSE
  BY <1>2 DEF Command, StartRead, Begin, StartReset, StartWrite, ResumeRows, HaltRead, PauseWrite,
              StopWrite, SetAsideRows, Remove, WithoutRows, RecountRead, RecountWrite,
              dbVars, queueVars, itemVars
<1>3. CASE Settle
  <2>1. ASSUME NEW j \in Items, NEW s, \/ ScheduleRetry(j) \/ MarkReconcile(j)
                                       \/ MarkPaused(j) \/ Finalize(j, s)
        PROVE  FALSE
    BY <2>1 DEF ScheduleRetry, MarkReconcile, MarkPaused, Finalize, ControlTypeOK, RunTypeOK, QueueTypeOK
  <2>2. ASSUME NEW a \in Accounts, LogIn(a) \/ LoseLogin(a)
        PROVE  FALSE
    BY <2>2 DEF LogIn, LoseLogin, queueVars, itemVars
  <2> QED
    BY <1>3, <2>1, <2>2 DEF Settle
<1>4. CASE Change
  BY <1>4 DEF Change, SetLimit, queueVars, itemVars
<1>5. CASE Reborn
  BY <1>5 DEF Reborn, Startup, Recovered
<1>6. CASE (\E a \in Accounts : WorkerCheck(a)) \/ IdleRead \/ IdleCount \/ IdleWrite
           \/ ClockTick \/ UNCHANGED allVars
  BY <1>6 DEF WorkerCheck, IdleRead, IdleCount, IdleWrite, ClockTick, allVars, dbVars,
              queueVars, itemVars
<1> QED
  BY <1>1, <1>2, <1>3, <1>4, <1>5, <1>6 DEF ControlNext

\* After a pause, a stop or a restart no group is begun or retried until a new
\* Start, or the recount of a removal that sets the run going, is under way.
THEOREM HaltHolds == ControlSpec => HaltedRunRests
<1>1. ControlInv => ControlTypeOK
  BY DEF ControlInv
<1>2. HaltInv /\ ControlTypeOK /\ [ControlNext]_allVars =>
        [\A i \in Items :
          itemState[i] # "processing" /\ itemState'[i] = "processing" => ~halted]_allVars
  BY OnlyCheckedWorkersClaim DEF HaltInv
<1> QED
  BY <1>1, <1>2, ControlHolds, HaltInit, HaltNext, PTL DEF ControlSpec, HaltedRunRests

-----------------------------------------------------------------------------
(***************************************************************************)
(* The groups a stop has set aside: as long as no request has written over *)
(* another, and no recount over a stop, there are some only while the run  *)
(* is stopped.                                                             *)
(***************************************************************************)
Aside == {i \in Items : itemState[i] = "paused" /\ ~Started(i)}
Halting(requests) ==
    \A r \in Requests : /\ requests[r].at = "pause" => requests[r].state # "stopped"
                        /\ requests[r].at = "stop" => requests[r].next = "stopped"
AsideInv ==
    /\ Halting(req)
    /\ ~overtaken /\ Aside # {} => runState = "stopped"

LEMMA AsideInit == ControlInit => AsideInv
<1> SUFFICES ASSUME ControlInit PROVE AsideInv
  OBVIOUS
<1>1. \A i \in Items : itemState[i] \in {"waiting", "assigned"}
  BY DEF ControlInit, RunInit, QueueInit
<1>2. Aside = {}
  BY <1>1 DEF Aside
<1>3. \A r \in Requests : req[r].at = "idle"
  BY DEF ControlInit, NoRequest
<1> QED
  BY <1>2, <1>3 DEF AsideInv, Halting

\* A group at work has been begun.
AtWorkBegun == \A i \in Items : itemState[i] = "processing" => Started(i)

LEMMA AtWorkNext == ControlTypeOK /\ AtWorkBegun /\ [ControlNext]_allVars => AtWorkBegun'
<1> SUFFICES ASSUME ControlTypeOK, AtWorkBegun, [ControlNext]_allVars PROVE AtWorkBegun'
  OBVIOUS
<1> USE DEF ControlTypeOK, RunTypeOK, QueueTypeOK, AtWorkBegun, Started, itemVars
<1>1. ASSUME NEW a, NEW j \in Items, NEW limit, ClaimWithin(a, j, limit)
      PROVE  AtWorkBegun'
  BY <1>1 DEF ClaimWithin
<1>2. CASE LateReset \/ LateRows
  BY <1>2 DEF LateReset, LateRows, ResumeRows, SetAsideRows, BackToPool, BackToOwner, WithoutRows
<1>3. CASE [RunNext]_dbVars
  <2>1. ASSUME NEW j \in Items, NEW s, \/ ScheduleRetry(j) \/ MarkReconcile(j)
                                        \/ MarkPaused(j) \/ Finalize(j, s)
        PROVE  AtWorkBegun'
    BY <2>1 DEF ScheduleRetry, MarkReconcile, MarkPaused, Finalize
  <2>2. ASSUME NEW ig, Start(ig)
        PROVE  AtWorkBegun'
    BY <2>2 DEF Start, ResumeRows, BackToPool, BackToOwner
  <2>3. CASE Pause \/ Stop \/ ResetWhileRunning
    BY <2>3 DEF Pause, Stop, SetAsideRows, ResetWhileRunning
  <2>4. CASE Startup \/ FinishIfIdle \/ ClockTick
    BY <2>4 DEF Startup, Recovered, FinishIfIdle, ClockTick
  <2>5. CASE \/ \E a \in Accounts : Disable(a) \/ Enable(a) \/ LogIn(a) \/ LoseLogin(a)
             \/ \E n \in Limits : SetLimit(n)
             \/ UNCHANGED dbVars
    BY <2>5 DEF Disable, ReleaseUnstarted, Enable, LogIn, LoseLogin, SetLimit, dbVars, queueVars
  <2>6. ASSUME NEW Ids \in SUBSET Items, RemoveGroups(Ids)
        PROVE  AtWorkBegun'
    BY <2>6 DEF RemoveGroups, WithoutRows
  <2> QED
    BY <1>1, <1>3, <2>1, <2>2, <2>3, <2>4, <2>5, <2>6
       DEF RunNext, Work, Operate, CommandRun, Configure, ChangeLogin
<1> QED
  BY <1>2, <1>3, ControlStep

\* A step that leaves the run in its state, or suspends it, sets nothing aside.
LEMMA AsideQuiet ==
    ASSUME ControlTypeOK, AsideInv, UNCHANGED overtaken,
           runState' = runState \/ runState # "stopped", Aside' \subseteq Aside,
           Halting(req')
    PROVE  AsideInv'
BY DEF AsideInv

LEMMA AsideNext ==
    ControlTypeOK /\ AtWorkBegun /\ AsideInv /\ [ControlNext]_allVars => AsideInv'
<1> SUFFICES ASSUME ControlTypeOK, AtWorkBegun, AsideInv, [ControlNext]_allVars PROVE AsideInv'
  OBVIOUS
<1>0. /\ req \in [Requests -> Request] /\ NoRequest.at # "pause"
      /\ itemState \in [Items -> WorkItemState] /\ attempts \in [Items -> Nat]
      /\ NoRequest.at # "stop" /\ Halting(req)
  BY DEF ControlTypeOK, RunTypeOK, QueueTypeOK, NoRequest, AsideInv
<1>1. ASSUME UNCHANGED <<itemState, attempts>>
      PROVE  Aside' = Aside
  BY <1>1 DEF Aside, Started
<1>2. ASSUME NEW r \in Requests, NEW at, NEW S, NEW next, Begin(r, at, S, next),
             at = "pause" => runState # "stopped", at = "stop" => next = "stopped"
      PROVE  AsideInv'
  <2>1. UNCHANGED <<runState, overtaken>> /\ Aside' = Aside
    BY <1>1, <1>2 DEF Begin, dbVars, queueVars, itemVars
  <2>2. Halting(req')
    BY <1>0, <1>2 DEF Begin, Halting
  <2> QED
    BY <2>1, <2>2, AsideQuiet
<1>3. ASSUME NEW r \in Requests, NEW ig, StartRead(r, ig)
      PROVE  AsideInv'
  <2>1. \E at \in {"reset_running", "reset", "start"}, S \in {Active} :
            Begin(r, at, S, "running")
    BY <1>3 DEF StartRead
  <2> QED
    BY <1>2, <2>1
<1>4. ASSUME NEW r \in Requests, HaltRead(r)
      PROVE  AsideInv'
  BY <1>2, <1>4 DEF HaltRead
<1>5. ASSUME NEW r \in Requests, StartReset(r)
      PROVE  AsideInv'
  <2>1. UNCHANGED <<runState, overtaken>> /\ Aside' = Aside
    BY <1>1, <1>5 DEF StartReset, itemVars
  <2>2. Halting(req')
    BY <1>0, <1>5 DEF StartReset, End, Request, Halting
  <2> QED
    BY <2>1, <2>2, AsideQuiet
<1>6. ASSUME NEW r \in Requests, WriteRun(r)
      PROVE  /\ Halting(req')
             /\ runState' = req[r].next
             /\ ~overtaken' => ~overtaken /\ runState = req[r].state
  BY <1>0, <1>6 DEF WriteRun, End, Halting
<1>7. ASSUME NEW r \in Requests, StartWrite(r)
      PROVE  AsideInv'
  <2>1. ResumeRows(req[r].state, req[r].accounts) /\ WriteRun(r)
    BY <1>7 DEF StartWrite
  <2>2. ~overtaken' => Aside' = {}
    <3>1. CASE req[r].state = "stopped"
      BY <1>0, <2>1, <3>1 DEF ResumeRows, BackToPool, BackToOwner, Aside, Started
    <3>2. CASE req[r].state # "stopped"
      <4>1. Aside' \subseteq Aside
        BY <1>0, <2>1 DEF ResumeRows, BackToPool, BackToOwner, Aside, Started
      <4> QED
        BY <1>6, <2>1, <3>2, <4>1 DEF AsideInv
    <3> QED
      BY <3>1, <3>2
  <2> QED
    BY <1>6, <2>1, <2>2 DEF AsideInv
<1>8. ASSUME NEW r \in Requests, PauseWrite(r)
      PROVE  AsideInv'
  <2>1. WriteRun(r) /\ req[r].state # "stopped" /\ Aside' = Aside
    BY <1>0, <1>1, <1>8 DEF PauseWrite, Halting, itemVars
  <2> QED
    BY <1>6, <2>1 DEF AsideInv
<1>9. ASSUME NEW r \in Requests, StopWrite(r)
      PROVE  AsideInv'
  <2>1. WriteRun(r) /\ req[r].next = "stopped"
    BY <1>0, <1>9 DEF StopWrite, Halting
  <2> QED
    BY <1>6, <2>1 DEF AsideInv
<1>10. CASE \/ IdleRead \/ IdleCount
            \/ \E a \in Accounts : WorkerCheck(a)
            \/ Change
            \/ ClockTick /\ UNCHANGED <<accountVars, controlVars>>
            \/ UNCHANGED allVars
  <2>1. UNCHANGED <<runState, overtaken, req>> /\ Aside' = Aside
    BY <1>1, <1>10 DEF IdleRead, IdleCount, WorkerCheck, Change, SetLimit, ClockTick,
                       allVars, controlVars, dbVars, queueVars, itemVars
  <2> QED
    BY <1>0, <2>1, AsideQuiet
<1>11. CASE IdleWrite
  <2>1. Aside' = Aside
    BY <1>1, <1>11 DEF IdleWrite, itemVars
  <2> QED
    BY <2>1, <1>11 DEF IdleWrite, AsideInv
<1>12. CASE WorkerClaim
  <2>1. CASE UNCHANGED dbVars
    <3>1. Aside' = Aside
      BY <1>1, <2>1 DEF dbVars, queueVars, itemVars
    <3> QED
      BY <1>12, <2>1, <3>1 DEF WorkerClaim, AsideInv, dbVars, queueVars
  <2>2. ASSUME NEW i \in Items, ClaimWithin(checked, i, limitRead)
        PROVE  AsideInv'
    <3>1. runState # "stopped"
      BY <2>2 DEF ClaimWithin, IsNext, Candidates, RunClaimable
    <3>2. Aside' \subseteq Aside
      BY <1>0, <2>2 DEF ClaimWithin, Aside, Started
    <3> QED
      BY <1>12, <3>1, <3>2 DEF WorkerClaim, AsideInv
  <2> QED
    BY <1>12, <2>1, <2>2 DEF WorkerClaim
<1>13. CASE Settle
  <2>1. UNCHANGED <<runState, overtaken, req>>
    BY <1>13 DEF Settle, ScheduleRetry, MarkReconcile, MarkPaused, Finalize, LogIn, LoseLogin,
                 controlVars, queueVars
  <2>2. Aside' \subseteq Aside
    <3>1. ASSUME NEW i \in Items, ScheduleRetry(i) \/ MarkReconcile(i)
                                  \/ \E s \in {"success", "failed"} : Finalize(i, s)
          PROVE  Aside' \subseteq Aside
      BY <1>0, <3>1 DEF ScheduleRetry, MarkReconcile, Finalize, Aside, Started
    <3>2. ASSUME NEW i \in Items, MarkPaused(i)
          PROVE  Aside' \subseteq Aside
      BY <1>0, <3>2 DEF MarkPaused, Aside, AtWorkBegun, Started
    <3>3. ASSUME NEW a \in Accounts, LogIn(a) \/ LoseLogin(a)
          PROVE  Aside' \subseteq Aside
      BY <1>1, <3>3 DEF LogIn, LoseLogin, queueVars, itemVars
    <3> QED
      BY <1>13, <3>1, <3>2, <3>3 DEF Settle
  <2> QED
    BY <1>0, <2>1, <2>2, AsideQuiet
<1>14. CASE Reborn
  <2>1. Aside' \subseteq Aside
    BY <1>0, <1>14 DEF Reborn, Startup, Recovered, Aside, Started
  <2>2. runState' = runState \/ runState # "stopped"
    BY <1>14 DEF Reborn, Startup, SuspendedRun, RunClaimable
  <2>3. Halting(req')
    BY <1>0, <1>14 DEF Reborn, Halting
  <2> QED
    BY <1>14, <2>1, <2>2, <2>3, AsideQuiet DEF Reborn
<1>15. ASSUME NEW r \in Requests, NEW Ids \in SUBSET Items, Remove(r, Ids)
       PROVE  AsideInv'
  <2>1. Aside' \subseteq Aside
    BY <1>0, <1>15 DEF Remove, WithoutRows, Aside, Started
  <2>2. Halting(req')
    BY <1>0, <1>15 DEF Remove, Request, Halting
  <2> QED
    BY <1>0, <1>15, <2>1, <2>2, AsideQuiet DEF Remove
<1>16. ASSUME NEW r \in Requests, RecountRead(r)
       PROVE  AsideInv'
  <2>1. UNCHANGED <<runState, overtaken>> /\ Aside' = Aside
    BY <1>1, <1>16 DEF RecountRead, dbVars, queueVars, itemVars
  <2>2. req' = [req EXCEPT ![r] = req'[r]] /\ req'[r].at \notin {"pause", "stop"}
    BY <1>0, <1>16 DEF RecountRead, End, NoRequest
  <2>3. Halting(req')
    BY <1>0, <2>2 DEF Halting
  <2> QED
    BY <2>1, <2>3, AsideQuiet
<1>17. ASSUME NEW r \in Requests, RecountWrite(r)
       PROVE  AsideInv'
  <2>1. Aside' = Aside /\ (~overtaken' => ~overtaken /\ runState # "stopped")
    BY <1>1, <1>17 DEF RecountWrite, itemVars
  <2>2. Halting(req')
    BY <1>0, <1>17 DEF RecountWrite, End, Halting
  <2> QED
    BY <2>1, <2>2 DEF AsideInv
<1> QED
  BY <1>3, <1>4, <1>5, <1>7, <1>8, <1>9, <1>10, <1>11, <1>12, <1>13, <1>14, <1>15, <1>16, <1>17
     DEF ControlNext, Command

\* Groups set aside by a stop are waiting again in every run that can go on, as
\* long as no request has written over the state of another, and no recount over a
\* stop.
THEOREM SetAsideReturn == ControlSpec => []SetAsideRowsReturn
<1>1. ControlInit => AtWorkBegun
  <2> SUFFICES ASSUME ControlInit, NEW i \in Items PROVE itemState[i] # "processing"
    BY DEF AtWorkBegun
  <2>1. itemState[i] = IF itemAccount[i] = NoAccount THEN "waiting" ELSE "assigned"
    BY DEF ControlInit, RunInit, QueueInit
  <2> QED
    BY <2>1
<1>2. ControlInv => ControlTypeOK
  BY DEF ControlInv
<1>3. AsideInv => SetAsideRowsReturn
  <2> SUFFICES ASSUME AsideInv, ~overtaken, RunClaimable, NEW i \in Items,
                      itemState[i] = "paused"
               PROVE  Started(i)
    BY DEF SetAsideRowsReturn
  <2>1. Aside = {}
    BY DEF AsideInv, RunClaimable
  <2> QED
    BY <2>1 DEF Aside
<1> QED
  BY <1>1, <1>2, <1>3, ControlHolds, AsideInit, AtWorkNext, AsideNext, PTL DEF ControlSpec

-----------------------------------------------------------------------------
(* The list, whatever comes between the steps of an import and a removal.  *)

(***************************************************************************)
(* A group that is no row of the list has not been begun, nor has one that *)
(* an import is about to replace; a run that is completed, or is going to  *)
(* be, has nothing left to do in it, and none is completed while an import *)
(* has found it open.                                                      *)
(***************************************************************************)
AbsentUnbegun == \A i \in Items : itemState[i] = "absent" => ~Started(i)
ReplacedUnbegun == \A i \in replaced : importing /\ ~Started(i)
NothingLeft == ~overlapped =>
    /\ runState = "completed" => Open = {} /\ ~importing
    /\ phase = "read" /\ reconciled = "completed" => Open = {}

ListInv == ListTypeOK /\ AbsentUnbegun /\ ReplacedUnbegun /\ NothingLeft

LEMMA ListInvInit == ListInit => ListInv
<1> SUFFICES ASSUME ListInit PROVE ListInv
  OBVIOUS
<1>1. RunTypeOK
  BY TypeInit DEF ListInit
<1>2. ListTypeOK
  BY <1>1 DEF ListInit, ListTypeOK, RunState
<1>3. AbsentUnbegun /\ ReplacedUnbegun
  BY DEF ListInit, RunInit, QueueInit, AbsentUnbegun, ReplacedUnbegun, Started
<1>4. NothingLeft
  BY DEF ListInit, RunInit, QueueInit, NothingLeft
<1> QED
  BY <1>2, <1>3, <1>4 DEF ListInv

(***************************************************************************)
(* The program's own steps: no group comes back to the open ones, none     *)
(* leaves or enters the list, none is begun while an import keeps the      *)
(* loop, and a run becomes completed only without open groups or an import *)
(* under way.                                                              *)
(***************************************************************************)
LEMMA ProgramStep ==
    ASSUME RunTypeOK, Program \/ Startup \/ UNCHANGED dbVars
    PROVE  /\ \A i \in Items :
                 /\ itemState'[i] \in OpenStates => itemState[i] \in OpenStates
                 /\ itemState'[i] = "absent" <=> itemState[i] = "absent"
                 /\ attempts'[i] >= attempts[i]
                 /\ itemState[i] = "absent" \/ importing => attempts'[i] = attempts[i]
           /\ runState' = "completed" => runState = "completed" \/ (Open = {} /\ ~importing)
<1> DEFINE Rows == \A i \in Items :
                 /\ itemState'[i] \in OpenStates => itemState[i] \in OpenStates
                 /\ itemState'[i] = "absent" <=> itemState[i] = "absent"
                 /\ attempts'[i] >= attempts[i]
                 /\ itemState[i] = "absent" => attempts'[i] = attempts[i]
           Same == attempts' = attempts
           Ended == runState' = "completed" => runState = "completed"
<1> USE DEF RunTypeOK, QueueTypeOK, WorkItemState, OpenStates, itemVars, quotaVars, accountVars
<1>1. ASSUME NEW a \in Accounts, NEW j \in Items, NEW limit \in Limits, ClaimWithin(a, j, limit)
      PROVE  Rows /\ Ended
  <2>1. itemState[j] \in {"assigned", "retry_wait", "waiting"}
    BY <1>1 DEF ClaimWithin, IsNext, Candidates, OwnRows, SharedRows
  <2> QED
    BY <1>1, <2>1 DEF ClaimWithin
<1>2. ASSUME NEW j \in Items, ScheduleRetry(j) \/ MarkReconcile(j) \/ MarkPaused(j)
      PROVE  Rows /\ Ended
  BY <1>2 DEF ScheduleRetry, MarkReconcile, MarkPaused
<1>3. ASSUME NEW j \in Items, NEW s, Finalize(j, s)
      PROVE  Rows /\ Ended
  BY <1>3 DEF Finalize
<1>4. ASSUME NEW ig, Start(ig)
      PROVE  Rows /\ Ended /\ Same
  BY <1>4 DEF Start, ResumeRows, BackToPool, BackToOwner
<1>5. ASSUME Stop \/ Pause \/ ResetWhileRunning
      PROVE  Rows /\ Ended /\ Same
  BY <1>5 DEF Stop, SetAsideRows, Pause, ResetWhileRunning
<1>6. ASSUME NEW a \in Accounts, Disable(a)
      PROVE  Rows /\ Ended /\ Same
  BY <1>6 DEF Disable, ReleaseUnstarted, ReleasedRows
<1>7. ASSUME Startup
      PROVE  Rows /\ Ended /\ Same
  BY <1>7 DEF Startup, Recovered, ExpiredLeases, SuspendedRun
<1>8. ASSUME FinishIfIdle
      PROVE  Rows /\ (runState' = "completed" => Open = {})
  <2>1. Rows
    BY <1>8 DEF FinishIfIdle
  <2>2. runState' = "completed" => Open = {}
    BY <1>8 DEF FinishIfIdle, IdleVerdict, RestVerdict, Busy, InState, Open
  <2> QED
    BY <2>1, <2>2
<1>9. ASSUME \/ ClockTick
             \/ \E a \in Accounts : Enable(a) \/ LogIn(a) \/ LoseLogin(a)
             \/ \E n \in Limits : SetLimit(n)
             \/ UNCHANGED dbVars
      PROVE  Rows /\ Ended /\ Same
  BY <1>9 DEF ClockTick, Enable, LogIn, LoseLogin, SetLimit, dbVars, queueVars
<1>10. CASE \/ CommandRun \/ Configure \/ ClockTick \/ Startup \/ UNCHANGED dbVars
  <2>1. Rows /\ Ended /\ Same
    BY <1>4, <1>5, <1>6, <1>7, <1>9, <1>10 DEF CommandRun, Configure
  <2> QED
    BY <2>1
<1>11. CASE LoopLetGo /\ (Work \/ FinishIfIdle \/ ChangeLogin)
  <2>1. Rows /\ (runState' = "completed" => runState = "completed" \/ Open = {})
    <3>1. CASE Work
      BY <1>1, <1>2, <1>3, <3>1 DEF Work
    <3>2. CASE FinishIfIdle \/ ChangeLogin
      BY <1>8, <1>9, <3>2 DEF ChangeLogin
    <3> QED
      BY <1>11, <3>1, <3>2
  <2>2. ~importing
    BY <1>11 DEF LoopLetGo
  <2> QED
    BY <2>1, <2>2
<1> QED
  BY <1>10, <1>11 DEF Program

\* These steps keep the database well typed.
LEMMA ProgramTypes ==
    ASSUME RunTypeOK, Program \/ Startup \/ UNCHANGED dbVars
    PROVE  RunTypeOK'
<1>1. [RunNext]_dbVars
  BY DEF Program, RunNext, Operate
<1> QED
  BY <1>1, TypeNext

LEMMA ProgramKeeps ==
    ASSUME ListInv, Program \/ Startup \/ UNCHANGED dbVars,
           importing' \in {importing, FALSE}, replaced' = IF importing' THEN replaced ELSE {},
           phase' \in {phase, "idle"}, reconciled' \in {reconciled, "draft"},
           doomed' \subseteq doomed, loaded' \in {loaded, "draft"}, overlapped' = overlapped
    PROVE  ListInv'
<1>1. RunTypeOK'
  BY ProgramTypes DEF ListInv, ListTypeOK
<1>2. ListTypeOK'
  <2>1. /\ phase' \in {"idle", "selected", "deleted", "read"}
        /\ loaded' \in RunState /\ reconciled' \in RunState
    BY DEF ListInv, ListTypeOK, RunState
  <2>2. /\ importing' \in BOOLEAN /\ replaced' \subseteq Items
        /\ doomed' \subseteq Items /\ overlapped' \in BOOLEAN
    BY DEF ListInv, ListTypeOK
  <2> QED
    BY <1>1, <2>1, <2>2 DEF ListTypeOK
<1>3. /\ \A i \in Items :
            /\ itemState'[i] \in OpenStates => itemState[i] \in OpenStates
            /\ itemState'[i] = "absent" <=> itemState[i] = "absent"
            /\ itemState[i] = "absent" \/ importing => attempts'[i] = attempts[i]
      /\ runState' = "completed" => runState = "completed" \/ (Open = {} /\ ~importing)
  BY ProgramStep DEF ListInv, ListTypeOK
<1>4. AbsentUnbegun' /\ ReplacedUnbegun'
  BY <1>3 DEF ListInv, ListTypeOK, AbsentUnbegun, ReplacedUnbegun, Started
<1>5. Open' \subseteq Open
  BY <1>3 DEF Open, InState
<1>6. NothingLeft'
  BY <1>3, <1>5 DEF ListInv, ListTypeOK, NothingLeft
<1> QED
  BY <1>2, <1>4, <1>6 DEF ListInv

(***************************************************************************)
(* The rows after an import or a removal.                                  *)
(***************************************************************************)
LEMMA EditedRows ==
    ASSUME RunTypeOK, AbsentUnbegun, NEW R \in SUBSET Items, NEW A \in SUBSET Items,
           EditRows(R, A), runState' = runState
    PROVE  /\ RunTypeOK' /\ AbsentUnbegun' /\ Open' \subseteq Open \union A
           /\ \A i \in Items : ~Started(i) => ~Started(i)'
<1> USE DEF EditRows, RunTypeOK, QueueTypeOK, WorkItemState, RunState, quotaVars, accountVars
<1>1. RunTypeOK'
  OBVIOUS
<1>2. AbsentUnbegun' /\ \A i \in Items : ~Started(i) => ~Started(i)'
  BY DEF AbsentUnbegun, Started
<1>3. Open' \subseteq Open \union A
  BY DEF Open, InState, OpenStates
<1> QED
  BY <1>1, <1>2, <1>3

\* A step that only reads leaves the database and what is known of it.
LEMMA ReadKeeps ==
    ASSUME RunTypeOK, AbsentUnbegun, UNCHANGED <<itemVars, quotaVars, dailyLimit, accountVars>>,
           runState' \in RunState
    PROVE  /\ RunTypeOK' /\ AbsentUnbegun' /\ Open' = Open
           /\ \A i \in Items : Started(i)' = Started(i)
BY DEF itemVars, quotaVars, accountVars, RunTypeOK, QueueTypeOK, AbsentUnbegun, Started, Open,
       InState

LEMMA EditKeeps == ASSUME ListInv, Edit PROVE ListInv'
<1> USE DEF ListInv, ListTypeOK
<1>0. runState \in RunState
  BY DEF RunTypeOK, QueueTypeOK
<1>1. ASSUME NEW replace \in BOOLEAN, ImportRead(replace)
      PROVE  ListInv'
  <2>1. /\ UNCHANGED <<dbVars, removeVars, overlapped>> /\ importing' = TRUE
        /\ runState # "completed" /\ replaced' \in {Unbegun, {}}
    BY <1>1 DEF ImportRead
  <2>2. /\ RunTypeOK' /\ AbsentUnbegun' /\ Open' = Open
        /\ \A i \in Items : Started(i)' = Started(i)
    BY <1>0, <2>1, ReadKeeps DEF dbVars, queueVars
  <2>3. replaced' \subseteq Items /\ \A i \in replaced' : ~Started(i)
    BY <2>1 DEF Unbegun, InState
  <2>4. ReplacedUnbegun'
    BY <2>1, <2>2, <2>3 DEF ReplacedUnbegun
  <2>5. NothingLeft'
    BY <2>1, <2>2 DEF NothingLeft, removeVars, dbVars, queueVars
  <2> QED
    BY <2>1, <2>2, <2>3, <2>4, <2>5 DEF removeVars
<1>2. ASSUME NEW Refs \in SUBSET Items, ImportWrite(Refs)
      PROVE  ListInv'
  <2> DEFINE added == Refs \cap (Absent \cup replaced)
  <2>1. added \in SUBSET Items
    OBVIOUS
  <2>2. /\ importing /\ EditRows(replaced, added)
        /\ overlapped' = (overlapped \/ (phase = "read" /\ reconciled = "completed"))
        /\ importing' = FALSE /\ replaced' = {}
        /\ UNCHANGED <<runState, phase, doomed, loaded, reconciled>>
    BY <1>2 DEF ImportWrite, removeVars
  <2> HIDE DEF added
  <2>3. RunTypeOK' /\ AbsentUnbegun'
    BY <2>1, <2>2, EditedRows
  <2>4. ReplacedUnbegun'
    BY <2>2 DEF ReplacedUnbegun
  <2>5. NothingLeft'
    BY <2>2 DEF NothingLeft
  <2> QED
    BY <2>2, <2>3, <2>4, <2>5
<1>3. ASSUME NEW Ids \in SUBSET Items, RemoveSelect(Ids)
      PROVE  ListInv'
  <2>1. /\ UNCHANGED <<dbVars, loaded, reconciled, importVars, overlapped>>
        /\ phase' = "selected" /\ doomed' \subseteq Items
    BY <1>3 DEF RemoveSelect
  <2>2. /\ RunTypeOK' /\ AbsentUnbegun' /\ Open' = Open
        /\ \A i \in Items : Started(i)' = Started(i)
    BY <1>0, <2>1, ReadKeeps DEF dbVars, queueVars
  <2> QED
    BY <2>1, <2>2 DEF NothingLeft, ReplacedUnbegun, importVars, dbVars, queueVars
<1>4. CASE RemoveCommit
  <2>1. /\ EditRows(doomed, {}) /\ phase' = "deleted" /\ doomed' = {}
        /\ UNCHANGED <<runState, loaded, reconciled, importVars, overlapped>>
    BY <1>4 DEF RemoveCommit
  <2>2. /\ RunTypeOK' /\ AbsentUnbegun' /\ Open' \subseteq Open
        /\ \A i \in Items : ~Started(i) => ~Started(i)'
    BY <2>1, EditedRows
  <2> QED
    BY <2>1, <2>2 DEF NothingLeft, ReplacedUnbegun, importVars
<1>5. CASE ReconcileRead
  <2> DEFINE next == ReconcileVerdict(itemState, runState)
  <2>1. /\ UNCHANGED <<dbVars, doomed, importVars, overlapped>> /\ phase' = "read"
        /\ loaded' = runState /\ reconciled' = next
    BY <1>5 DEF ReconcileRead
  <2>2. /\ RunTypeOK' /\ AbsentUnbegun' /\ Open' = Open
        /\ \A i \in Items : Started(i)' = Started(i)
    BY <1>0, <2>1, ReadKeeps DEF dbVars, queueVars
  <2>3. next \in RunState
    BY <1>0, VerdictIsState
  <2>4. next = "completed" => Open = {} \/ runState = "completed"
    BY DEF ReconcileVerdict, Open, InState
  <2> HIDE DEF next
  <2>5. NothingLeft'
    BY <2>1, <2>2, <2>4 DEF NothingLeft, importVars, dbVars, queueVars
  <2>6. ReplacedUnbegun'
    BY <2>1, <2>2 DEF ReplacedUnbegun, importVars
  <2> QED
    BY <1>0, <2>1, <2>2, <2>3, <2>5, <2>6 DEF importVars
<1>6. CASE ReconcileWrite
  <2>1. /\ UNCHANGED <<itemVars, quotaVars, dailyLimit, accountVars, doomed, importVars>>
        /\ phase = "read" /\ phase' = "idle" /\ loaded' = "draft" /\ reconciled' = "draft"
        /\ runState' \in {reconciled, runState}
        /\ overlapped' = (overlapped \/ (importing /\ reconciled = "completed"))
    BY <1>6 DEF ReconcileWrite
  <2>2. /\ RunTypeOK' /\ AbsentUnbegun' /\ Open' = Open
        /\ \A i \in Items : Started(i)' = Started(i)
    BY <1>0, <2>1, ReadKeeps
  <2>3. NothingLeft'
    BY <2>1, <2>2 DEF NothingLeft, importVars
  <2>4. ReplacedUnbegun'
    BY <2>1, <2>2 DEF ReplacedUnbegun, importVars
  <2> QED
    BY <2>1, <2>2, <2>3, <2>4 DEF importVars, RunState
<1> QED
  BY <1>1, <1>2, <1>3, <1>4, <1>5, <1>6 DEF Edit

LEMMA ListInvNext == ListInv /\ [ListNext]_listVars => ListInv'
<1> SUFFICES ASSUME ListInv, [ListNext]_listVars PROVE ListInv'
  OBVIOUS
<1>0. replaced = IF importing THEN replaced ELSE {}
  BY DEF ListInv, ReplacedUnbegun
<1>1. CASE Edit
  BY <1>1, EditKeeps
<1>2. CASE Program /\ UNCHANGED editVars
  BY <1>0, <1>2, ProgramKeeps DEF editVars, importVars, removeVars
<1>3. CASE /\ Startup
           /\ importing' = FALSE /\ replaced' = {}
           /\ phase' = "idle" /\ doomed' = {} /\ loaded' = "draft" /\ reconciled' = "draft"
           /\ UNCHANGED overlapped
  BY <1>3, ProgramKeeps
<1>4. CASE UNCHANGED listVars
  BY <1>0, <1>4, ProgramKeeps DEF listVars, editVars, importVars, removeVars
<1> QED
  BY <1>1, <1>2, <1>3, <1>4 DEF ListNext

LEMMA ListHolds == ListSpec => []ListInv
BY ListInvInit, ListInvNext, PTL DEF ListSpec

(***************************************************************************)
(* Every state has its type.                                               *)
(***************************************************************************)
THEOREM ListTypeCorrect == ListSpec => []ListTypeOK
<1>1. ListInv => ListTypeOK
  BY DEF ListInv
<1> QED
  BY <1>1, ListHolds, PTL

(***************************************************************************)
(* A completed run has nothing left to do, unless the verdict "completed"  *)
(* of a removal (remove_groups, reconcile_state) and the rows of an import *)
(* crossed.                                                                *)
(***************************************************************************)
THEOREM NoWorkIsStranded == ListSpec => []NoStrandedWork
<1>1. ListInv => NoStrandedWork
  BY DEF ListInv, NothingLeft, NoStrandedWork
<1> QED
  BY <1>1, ListHolds, PTL

(***************************************************************************)
(* An import neither deletes nor renews a begun group, although it looks   *)
(* for the rows it replaces before it writes (import_text): no worker gets *)
(* the loop in between.                                                    *)
(***************************************************************************)
THEOREM ImportsSpareBegunGroups == ListSpec => ImportKeepsBegunGroups
<1> DEFINE Spared == \A i \in Items : Started(i) =>
                        \/ itemState'[i] # "absent" /\ attempts'[i] >= attempts[i]
                        \/ RemoveCommit
<1>1. ListInv /\ [ListNext]_listVars => [Spared]_listVars
  <2> SUFFICES ASSUME ListInv, ListNext, NEW i \in Items, Started(i), ~RemoveCommit
               PROVE  itemState'[i] # "absent" /\ attempts'[i] >= attempts[i]
    OBVIOUS
  <2>0. itemState[i] # "absent" /\ i \notin replaced /\ RunTypeOK
    BY DEF ListInv, AbsentUnbegun, ReplacedUnbegun, ListTypeOK
  <2>1. attempts[i] \in Nat
    BY <2>0 DEF RunTypeOK, QueueTypeOK
  <2>2. CASE Program \/ Startup
    BY <2>0, <2>2, ProgramStep
  <2>3. CASE Edit
    <3>1. ASSUME NEW Refs \in SUBSET Items, ImportWrite(Refs)
          PROVE  itemState'[i] = itemState[i] /\ attempts'[i] = attempts[i]
      <4>1. i \notin Absent
        BY <2>0 DEF Absent, InState
      <4> QED
        BY <2>0, <3>1, <4>1 DEF ImportWrite, EditRows
    <3>2. CASE \/ \E replace \in BOOLEAN : ImportRead(replace)
               \/ \E Ids \in SUBSET Items : RemoveSelect(Ids)
               \/ ReconcileRead \/ ReconcileWrite
      BY <2>0, <2>1, <3>2 DEF ImportRead, RemoveSelect, ReconcileRead, ReconcileWrite, dbVars,
                              queueVars, itemVars
    <3> QED
      BY <2>0, <2>1, <2>3, <3>1, <3>2 DEF Edit
  <2> QED
    BY <2>2, <2>3 DEF ListNext
<1>2. ListSpec => [][Spared]_listVars
  BY <1>1, ListHolds, PTL DEF ListSpec
<1> QED
  BY <1>2 DEF ImportKeepsBegunGroups
=============================================================================
