--------------------------- MODULE OutreachProofs ---------------------------
(***************************************************************************)
(* Proofs about the running program: it implements RunService step by      *)
(* step, so every theorem about RunService holds of it; it works only      *)
(* while its run has been set going; and its deliveries are accounted for. *)
(***************************************************************************)
EXTENDS Outreach, RunServiceProofs

USE OutreachAssumption

\* A worker past its claim holds an item, and before it saves an answer it has one.
Holds == \A a \in Accounts :
            /\ pc[a] \in BeforeClaim <=> cur[a] = NoItem
            /\ pc[a] \in {"finish", "save"} => reply[a] \in VkReply

-----------------------------------------------------------------------------
(* Implementation of RunService. *)

\* Each step of a worker is a transaction of the queue, a change of its
\* account's login, or no change of the database.
LEMMA WorkerRefines ==
    ASSUME OutreachTypeOK, Holds, NEW a \in Accounts, Worker(a)
    PROVE  [RunNext]_dbVars
<1> USE DEF OutreachTypeOK, Holds, BeforeClaim
<1>1. CASE LoopCheck(a) \/ ReadLimit(a) \/ ClaimNothing(a)
  BY <1>1 DEF LoopCheck, ReadLimit, ClaimNothing
<1>2. CASE Claim(a)
  <2>1. limitRead[a] \in Limits
    OBVIOUS
  <2> QED
    BY <1>2, <2>1 DEF Claim, RunNext, Work
<1>3. CASE FinishAttempt(a) \/ SaveDirection(a) \/ SetFinalResult(a) \/ FinalizeExhausted(a)
           \/ IncrementAccount(a)
  BY <1>3 DEF FinishAttempt, SaveDirection, SetFinalResult, FinalizeExhausted, IncrementAccount
<1>4. CASE FinalizeItem(a) \/ Park(a) \/ Reconcile(a) \/ Retry(a)
  <2>1. pc[a] \in {"finalize", "park", "decide"} => cur[a] \in Items
    OBVIOUS
  <2>2. CASE FinalizeItem(a)
    BY <2>1, <2>2 DEF FinalizeItem, Finalize, RunNext, Work
  <2>3. CASE Park(a) \/ Reconcile(a) \/ Retry(a)
    BY <2>1, <2>3 DEF Park, Reconcile, Retry, RunNext, Work
  <2> QED
    BY <1>4, <2>2, <2>3
<1>5. CASE TokenRefreshed(a) \/ RequireLogin(a)
  BY <1>5 DEF TokenRefreshed, RequireLogin, RunNext, Operate, ChangeLogin
<1>6. CASE Answer(a)
  BY <1>6 DEF Answer, VkAnswer, RunNext, Operate, ChangeLogin
<1>7. CASE WorkerError(a)
  BY <1>7 DEF WorkerError
<1> QED
  BY <1>1, <1>2, <1>3, <1>4, <1>5, <1>6, <1>7 DEF Worker, Section

\* Each step of the program is a step of RunService or leaves its state alone.
LEMMA StepRefines ==
    ASSUME OutreachTypeOK, Holds, [OutreachNext]_vars
    PROVE  [RunNext]_dbVars
<1>1. CASE \E a \in Accounts : Worker(a)
  BY <1>1, WorkerRefines
<1>2. CASE SupervisorTick
  BY <1>2 DEF SupervisorTick, RunNext
<1>3. CASE OperatorStart \/ OperatorHalt \/ OperatorRemove
  BY <1>3 DEF OperatorStart, OperatorHalt, OperatorRemove, RunNext, Operate, CommandRun
<1>4. CASE OperatorAccount
  BY <1>4 DEF OperatorAccount, RunNext, Operate, CommandRun, Configure, ChangeLogin
<1>5. CASE Crash
  BY <1>5 DEF Crash
<1>6. CASE Restart
  BY <1>6 DEF Restart, RunNext
<1>7. CASE Clock
  BY <1>7 DEF Clock, RunNext
<1>8. CASE UNCHANGED vars
  BY <1>8 DEF vars
<1> QED
  BY <1>1, <1>2, <1>3, <1>4, <1>5, <1>6, <1>7, <1>8 DEF OutreachNext, Operator

-----------------------------------------------------------------------------
(* Type correctness, with the items the workers hold. *)

\* The program starts well typed, with no worker holding a row.
LEMMA OutreachTypeInit == OutreachInit => OutreachTypeOK /\ Holds
<1> SUFFICES ASSUME OutreachInit PROVE OutreachTypeOK /\ Holds
    OBVIOUS
<1>1. RunTypeOK
  BY TypeInit DEF OutreachInit
<1>2. /\ up \in BOOLEAN /\ setGoing \in BOOLEAN
      /\ limitRead \in [Accounts -> Limits]
      /\ pc \in [Accounts -> PC] /\ cur \in [Accounts -> Items \cup {NoItem}]
      /\ reply \in [Accounts -> VkReply \cup {"none"}] /\ retried \in [Accounts -> BOOLEAN]
      /\ processed \in [Accounts -> Nat]
  BY <1>1 DEF OutreachInit, PC, Parked, RunTypeOK
<1>3. /\ resMsg \in [Items -> AttemptState] /\ resSug \in [Items -> AttemptState]
      /\ outcome \in [Items -> Outcomes] /\ seen \in [Items -> SUBSET VkReply]
      /\ delivered \in [Items -> Nat] /\ inDoubt \in [Items -> BOOLEAN]
  BY DEF OutreachInit, AttemptState, Outcomes
<1>4. Holds
  BY DEF OutreachInit, Holds, BeforeClaim
<1> QED
  BY <1>1, <1>2, <1>3, <1>4 DEF OutreachTypeOK

\* The part of the type invariant that is not about the database.
WorkerTypeOK ==
    /\ up \in BOOLEAN
    /\ pc \in [Accounts -> PC]
    /\ limitRead \in [Accounts -> Limits]
    /\ cur \in [Accounts -> Items \cup {NoItem}]
    /\ reply \in [Accounts -> VkReply \cup {"none"}]
    /\ retried \in [Accounts -> BOOLEAN]
    /\ resMsg \in [Items -> AttemptState]
    /\ resSug \in [Items -> AttemptState]
    /\ outcome \in [Items -> Outcomes]
    /\ seen \in [Items -> SUBSET VkReply]
    /\ processed \in [Accounts -> Nat]
    /\ delivered \in [Items -> Nat]
    /\ inDoubt \in [Items -> BOOLEAN]
    /\ setGoing \in BOOLEAN

\* Workers that vanish leave well-typed variables.
LEMMA AbandonTypes ==
    ASSUME WorkerTypeOK, NEW S, Abandon(S)
    PROVE  /\ delivered' \in [Items -> Nat] /\ inDoubt' \in [Items -> BOOLEAN]
           /\ cur' = [a \in Accounts |-> IF a \in S THEN NoItem ELSE cur[a]]
           /\ reply' = [a \in Accounts |-> IF a \in S THEN "none" ELSE reply[a]]
           /\ retried' \in [Accounts -> BOOLEAN] /\ limitRead' = limitRead
<1> USE DEF WorkerTypeOK
<1>1. PICK hit : delivered' = [i \in Items |->
            IF \E a \in hit : cur[a] = i THEN delivered[i] + 1 ELSE delivered[i]]
  BY DEF Abandon
<1>2. delivered' \in [Items -> Nat]
  BY <1>1
<1>3. inDoubt' = [i \in Items |-> inDoubt[i] \/ \E a \in S : cur[a] = i]
  BY DEF Abandon
<1>4. inDoubt' \in [Items -> BOOLEAN]
  BY <1>3, Zenon
<1>5. retried' \in [Accounts -> BOOLEAN]
  BY DEF Abandon
<1> QED
  BY <1>2, <1>4, <1>5 DEF Abandon

\* A worker that answers in the loop keeps the types and the holdings.
LEMMA WorkerTypes ==
    ASSUME WorkerTypeOK, Holds, dailyLimit \in Limits, NEW a \in Accounts, Worker(a)
    PROVE  WorkerTypeOK' /\ Holds'
<1> USE DEF WorkerTypeOK, Holds, PC, Parked, BeforeClaim, AttemptState, Outcomes, resultVars,
            historyVars, workerVars
<1>1. CASE LoopCheck(a) \/ ReadLimit(a) \/ ClaimNothing(a)
  BY <1>1 DEF LoopCheck, ReadLimit, ClaimNothing
<1>2. CASE Claim(a)
  BY <1>2 DEF Claim
<1>3. CASE FinishAttempt(a)
  <2>1. cur[a] \in Items
    BY <1>3 DEF FinishAttempt
  <2> QED
    BY <1>3, <2>1 DEF FinishAttempt
<1>4. CASE SaveDirection(a)
  <2>1. StateOf(reply[a]) \in AttemptState
    BY DEF StateOf
  <2> QED
    BY <1>4, <2>1 DEF SaveDirection
<1>5. CASE SetFinalResult(a)
  BY <1>5 DEF SetFinalResult, Verdict, OutcomeOf
<1>6. CASE FinalizeExhausted(a)
  BY <1>6 DEF FinalizeExhausted, Exhausted
<1>7. CASE FinalizeItem(a) \/ IncrementAccount(a)
  BY <1>7 DEF FinalizeItem, IncrementAccount, Leave
<1>8. CASE RequireLogin(a) \/ Park(a) \/ Reconcile(a) \/ Retry(a)
  BY <1>8 DEF RequireLogin, Park, Reconcile, Retry, Leave
<1>9. CASE TokenRefreshed(a)
  BY <1>9 DEF TokenRefreshed
<1>10. ASSUME NEW kind \in Replies, VkAnswer(a, kind)
       PROVE  WorkerTypeOK' /\ Holds'
  BY <1>10 DEF VkAnswer, MayPublish
<1>11. CASE WorkerError(a)
  <2>1. Abandon({a}) /\ pc' = [pc EXCEPT ![a] = "loop"]
    BY <1>11 DEF WorkerError
  <2>2. UNCHANGED <<up, resultVars, setGoing>>
    BY <1>11 DEF WorkerError
  <2> QED
    BY <2>1, <2>2, AbandonTypes
<1> QED
  BY <1>1, <1>2, <1>3, <1>4, <1>5, <1>6, <1>7, <1>8, <1>9, <1>10, <1>11
  DEF Worker, Section, Answer

\* Every step of a worker keeps the types and the holdings.
LEMMA WorkerTypeNext ==
    ASSUME WorkerTypeOK, Holds, dailyLimit \in Limits, [OutreachNext]_vars
    PROVE  WorkerTypeOK' /\ Holds'
<1> USE DEF WorkerTypeOK, Holds, PC, Parked, BeforeClaim, resultVars, historyVars, workerVars
<1>1. CASE \E a \in Accounts : Worker(a)
  BY <1>1, WorkerTypes
<1>2. CASE SupervisorTick
  <2> DEFINE alive  == IF runState = "running" THEN Active ELSE {}
             doomed == {a \in Accounts \ alive : pc[a] # "off"}
  <2>1. Abandon(doomed) /\ UNCHANGED <<up, resultVars, setGoing>>
    BY <1>2 DEF SupervisorTick
  <2>2. /\ \A a \in Accounts : pc[a] \in Parked
        /\ pc' = [a \in Accounts |->
                IF a \in doomed THEN "off"
                ELSE IF a \in alive /\ pc[a] = "off" THEN "loop" ELSE pc[a]]
    BY <1>2 DEF SupervisorTick
  <2> HIDE DEF doomed, alive
  <2>3. ASSUME NEW a \in Accounts
        PROVE  /\ pc'[a] \in Parked /\ pc'[a] \notin {"finish", "save"}
               /\ pc'[a] \in BeforeClaim <=> cur'[a] = NoItem
    <3>1. CASE a \in doomed
      BY <2>1, <2>2, <3>1, AbandonTypes
    <3>2. CASE a \notin doomed
      BY <2>1, <2>2, <3>2, AbandonTypes
    <3> QED
      BY <3>1, <3>2
  <2>4. pc' \in [Accounts -> PC]
    BY <2>2, <2>3
  <2>5. cur' \in [Accounts -> Items \cup {NoItem}] /\ reply' \in [Accounts -> VkReply \cup {"none"}]
    BY <2>1, AbandonTypes
  <2>6. WorkerTypeOK'
    BY <2>1, <2>4, <2>5, AbandonTypes
  <2>7. Holds'
    BY <2>3
  <2> QED
    BY <2>6, <2>7
<1>3. CASE Operator
  BY <1>3 DEF Operator, OperatorStart, OperatorHalt, OperatorRemove, OperatorAccount
<1>4. CASE Crash
  <2>1. Abandon(Accounts) /\ pc' = [a \in Accounts |-> "off"]
    BY <1>4 DEF Crash
  <2>2. up' = FALSE /\ UNCHANGED <<resultVars, setGoing>>
    BY <1>4 DEF Crash
  <2>3. ASSUME NEW a \in Accounts
        PROVE  pc'[a] = "off" /\ cur'[a] = NoItem /\ reply'[a] = "none"
    BY <2>1, AbandonTypes
  <2>4. /\ cur' \in [Accounts -> Items \cup {NoItem}]
        /\ reply' \in [Accounts -> VkReply \cup {"none"}]
    BY <2>1, AbandonTypes
  <2>5. WorkerTypeOK'
    BY <2>1, <2>2, <2>4, AbandonTypes
  <2> QED
    BY <2>3, <2>5
<1>5. CASE Restart \/ Clock
  BY <1>5 DEF Restart, Clock
<1>6. CASE UNCHANGED vars
  BY <1>6 DEF vars
<1> QED
  BY <1>1, <1>2, <1>3, <1>4, <1>5, <1>6 DEF OutreachNext

\* Every step of the program keeps the types and the holdings.
LEMMA OutreachTypeNext ==
    OutreachTypeOK /\ Holds /\ [OutreachNext]_vars => OutreachTypeOK' /\ Holds'
<1>1. OutreachTypeOK <=> RunTypeOK /\ WorkerTypeOK
  BY DEF OutreachTypeOK, WorkerTypeOK
<1>2. OutreachTypeOK' <=> RunTypeOK' /\ WorkerTypeOK'
  BY DEF OutreachTypeOK, WorkerTypeOK
<1> QED
  BY <1>1, <1>2, StepRefines, TypeNext, WorkerTypeNext DEF RunTypeOK

\* The running program is well typed.
THEOREM OutreachTypeCorrect == Spec => []OutreachTypeOK
BY OutreachTypeInit, OutreachTypeNext, PTL DEF Spec

\* The running program implements the run service: every behaviour of the
\* workers, the supervisor, the operator and crashes is one of RunSpec.
THEOREM OutreachImplementsRunService == Spec => RunSpec
<1>1. OutreachInit => RunInit
  BY DEF OutreachInit
<1>2. OutreachTypeOK /\ Holds /\ [OutreachNext]_vars => [RunNext]_dbVars
  BY StepRefines
<1> QED
  BY <1>1, <1>2, OutreachTypeInit, OutreachTypeNext, PTL DEF Spec, RunSpec

\* Whatever the workers, the operator and crashes do, every account's ledger
\* counts the groups it began in its window, each once.
THEOREM OutreachKeepsLedger == Spec => []QuotaLedger
BY OutreachImplementsRunService, LedgerKept, PTL

\* ... and every started group keeps its account.
THEOREM OutreachKeepsAccounts == Spec => OneAccountPerGroup
BY OutreachImplementsRunService, AccountKept, PTL

-----------------------------------------------------------------------------
(* A run is worked on only after it was set going. *)

\* A run that may be worked on has been set going since it was last halted.
GoingInv == RunClaimable => setGoing

\* Only a claim takes up a row, and only of a claimable run.
LEMMA OnlyClaimsProcess ==
    ASSUME RunTypeOK, [RunNext]_dbVars, NEW i \in Items,
           itemState[i] # "processing", itemState'[i] = "processing"
    PROVE  RunClaimable
<1> USE DEF RunTypeOK, QueueTypeOK, itemVars
<1>1. ASSUME NEW a \in Accounts, NEW j \in Items, NEW limit \in Limits, ClaimWithin(a, j, limit)
      PROVE  RunClaimable
  BY <1>1 DEF ClaimWithin, IsNext, Candidates
<1>2. ASSUME NEW j \in Items, NEW s, \/ ScheduleRetry(j) \/ MarkReconcile(j)
                                     \/ MarkPaused(j) \/ Finalize(j, s)
      PROVE  FALSE
  BY <1>2 DEF ScheduleRetry, MarkReconcile, MarkPaused, Finalize
<1>3. ASSUME NEW ig, Start(ig)
      PROVE  FALSE
  BY <1>3 DEF Start, ResumeRows
<1>4. CASE Stop \/ Startup \/ \E a \in Accounts : Disable(a)
  BY <1>4 DEF Stop, SetAsideRows, Startup, Recovered, Disable, ReleaseUnstarted
<1>5. CASE \/ ResetWhileRunning \/ Pause \/ FinishIfIdle \/ ClockTick
           \/ \E a \in Accounts : Enable(a) \/ LogIn(a) \/ LoseLogin(a)
           \/ \E n \in Limits : SetLimit(n)
           \/ UNCHANGED dbVars
  BY <1>5 DEF ResetWhileRunning, Pause, FinishIfIdle, ClockTick, Enable, LogIn, LoseLogin,
              SetLimit, dbVars, queueVars
<1>6. ASSUME NEW Ids \in SUBSET Items, RemoveGroups(Ids)
      PROVE  FALSE
  BY <1>6 DEF RemoveGroups, WithoutRows
<1> QED
  BY <1>1, <1>2, <1>3, <1>4, <1>5, <1>6 DEF RunNext, Work, Operate, CommandRun, Configure,
     ChangeLogin

\* A worker makes no run claimable: it claims rows of one that is, or leaves it.
LEMMA WorkerSetsNothingGoing ==
    ASSUME NEW a \in Accounts, Worker(a)
    PROVE  setGoing' = setGoing /\ (RunClaimable' => RunClaimable)
<1> USE DEF RunClaimable, historyVars, queueVars, dbVars
<1>1. CASE LoopCheck(a) \/ ReadLimit(a) \/ ClaimNothing(a)
  BY <1>1 DEF LoopCheck, ReadLimit, ClaimNothing
<1>2. CASE Claim(a)
  BY <1>2 DEF Claim, ClaimWithin
<1>3. CASE FinishAttempt(a) \/ SaveDirection(a) \/ SetFinalResult(a) \/ FinalizeExhausted(a)
           \/ IncrementAccount(a)
  BY <1>3 DEF FinishAttempt, SaveDirection, SetFinalResult, FinalizeExhausted, IncrementAccount
<1>4. CASE FinalizeItem(a) \/ Park(a) \/ Reconcile(a) \/ Retry(a)
  BY <1>4 DEF FinalizeItem, Finalize, Park, MarkPaused, Reconcile, MarkReconcile,
              Retry, ScheduleRetry
<1>5. CASE TokenRefreshed(a) \/ RequireLogin(a)
  BY <1>5 DEF TokenRefreshed, RequireLogin, LogIn, LoseLogin
<1>6. CASE Answer(a)
  BY <1>6 DEF Answer, VkAnswer, LoseLogin
<1>7. CASE WorkerError(a)
  BY <1>7 DEF WorkerError
<1> QED
  BY <1>1, <1>2, <1>3, <1>4, <1>5, <1>6, <1>7 DEF Worker, Section

\* A Start, a Resume and the recount after a removal set a run going; a pause, a
\* stop and a restart halt it; the rest leaves it as it is, or halts it.
LEMMA StepKeepsGoing ==
    ASSUME GoingInv, [OutreachNext]_vars
    PROVE  GoingInv'
<1> USE DEF GoingInv, RunClaimable
<1>1. CASE \E a \in Accounts : Worker(a)
  BY <1>1, WorkerSetsNothingGoing
<1>2. CASE SupervisorTick
  <2>1. setGoing' = setGoing
    BY <1>2 DEF SupervisorTick
  <2>2. CASE runState = "running"
    BY <2>1, <2>2
  <2>3. CASE runState # "running"
    <3>1. UNCHANGED dbVars
      BY <1>2, <2>3 DEF SupervisorTick
    <3> QED
      BY <2>1, <2>3, <3>1 DEF dbVars, queueVars
  <2> QED
    BY <2>2, <2>3
<1>3. CASE OperatorStart
  BY <1>3 DEF OperatorStart
<1>4. CASE OperatorHalt
  BY <1>4 DEF OperatorHalt, Pause, Stop
<1>5. CASE OperatorRemove
  BY <1>5 DEF OperatorRemove
<1>6. CASE OperatorAccount
  <2>1. UNCHANGED <<runState, setGoing>>
    BY <1>6 DEF OperatorAccount, ResetWhileRunning, Disable, ReleaseUnstarted, Enable,
                SetLimit, LogIn, LoseLogin, queueVars, historyVars
  <2> QED
    BY <2>1
<1>7. CASE Crash
  BY <1>7 DEF Crash, dbVars, queueVars
<1>8. CASE Restart
  BY <1>8 DEF Restart, Startup, SuspendedRun
<1>9. CASE Clock
  BY <1>9 DEF Clock, ClockTick, historyVars
<1>10. CASE UNCHANGED vars
  BY <1>10 DEF vars, dbVars, queueVars, historyVars
<1> QED
  BY <1>1, <1>2, <1>3, <1>4, <1>5, <1>6, <1>7, <1>8, <1>9, <1>10 DEF OutreachNext, Operator

\* A run that may be worked on has been set going, throughout.
LEMMA GoingHolds == Spec => []GoingInv
<1>1. OutreachInit => GoingInv
  BY DEF OutreachInit, RunInit, QueueInit, GoingInv, RunClaimable
<1> QED
  BY <1>1, StepKeepsGoing, PTL DEF Spec

\* After a pause, a stop or a restart no group is begun or retried until a Start,
\* a Resume or the recount after a removal has set the run going again.
THEOREM WorkOnlyWhenSetGoing == Spec => NoClaimUnlessSetGoing
<1>1. OutreachTypeOK /\ Holds /\ GoingInv /\ [OutreachNext]_vars
        => [\A i \in Items :
              itemState[i] # "processing" /\ itemState'[i] = "processing" => setGoing]_vars
  BY StepRefines, OnlyClaimsProcess DEF GoingInv, OutreachTypeOK
<1> QED
  BY <1>1, GoingHolds, OutreachTypeInit, OutreachTypeNext, PTL DEF Spec, NoClaimUnlessSetGoing

-----------------------------------------------------------------------------
(* Delivery: what the answers, the results and the row of a group say about  *)
(* each other, whoever works on it and wherever that worker is interrupted.  *)

Untouched(i) == delivered[i] = 0 \/ RepeatedBlindly(i)
Clear(i) == ~inDoubt[i] \/ "auth" \in seen[i]
Undecided(i) == OutcomeOf(resMsg[i], resSug[i]) = "pending"
SentRecorded(i) == "sent" \in {resMsg[i], resSug[i]}
BothFailed(i) == resMsg[i] = "failed_final" /\ resSug[i] = "failed_final"

Done == {"success", "failed"}
AtRest(i) ==
    itemState[i] \notin {"processing", "reconcile_required", "success", "failed", "absent"}

(***************************************************************************)
(* The holder of a row answers for it: the row is at work for its account  *)
(* until it is finished.  A dead process has no workers.                   *)
(***************************************************************************)
HolderRow(a) ==
    cur[a] # NoItem =>
        /\ itemAccount[cur[a]] = a
        /\ IF pc[a] = "count" THEN itemState[cur[a]] \in Done
                              ELSE itemState[cur[a]] = "processing"
DeadIsIdle == ~up => \A a \in Accounts : pc[a] = "off"

(***************************************************************************)
(* The group's half: answers are recorded with what they prove, a row that *)
(* may be claimed has nothing sent and no answer missing, and a finished   *)
(* one has its result.                                                     *)
(***************************************************************************)
Answers(i) ==
    /\ "network" \in seen[i] => inDoubt[i]
    /\ "sent" \in seen[i] => delivered[i] > 0
    /\ SentRecorded(i) => "sent" \in seen[i]
    /\ resMsg[i] = "failed_final" => "denied" \in seen[i] \/ resSug[i] = "failed_final"
    /\ delivered[i] > 1 => RepeatedBlindly(i)
RestIsClear(i) == AtRest(i) => Untouched(i) /\ Clear(i)
ResultSaved(i) ==
    /\ itemState[i] = "success" => outcome[i] = "success" /\ SentRecorded(i)
    /\ itemState[i] = "failed" => outcome[i] = "failed" /\ BothFailed(i) /\ Untouched(i)
GroupInv(i) == Answers(i) /\ RestIsClear(i) /\ ResultSaved(i)

(***************************************************************************)
(* The worker's half: the answer it holds accounts for what was sent and   *)
(* for the doubt about it, until the decision has taken both into account. *)
(***************************************************************************)
AtWork(a) ==
    LET i == cur[a] IN
    /\ pc[a] = "wait" => Undecided(i) /\ Untouched(i) /\ Clear(i)
    /\ pc[a] = "finish" =>
         /\ Undecided(i)
         /\ reply[a] = "sent" => delivered[i] > 0
         /\ reply[a] = "network" => inDoubt[i]
         /\ Untouched(i) \/ reply[a] \in {"sent", "timeout", "network"}
         /\ Clear(i) \/ reply[a] = "network"
    /\ pc[a] = "save" =>
         /\ Undecided(i) /\ reply[a] \in seen[i]
         /\ Untouched(i) \/ reply[a] \in {"sent", "network"}
         /\ Clear(i) \/ reply[a] = "network"
    /\ pc[a] = "decide" =>
         /\ Untouched(i) \/ SentRecorded(i) \/ "network" \in seen[i]
         /\ Clear(i) \/ (Undecided(i) /\ "network" \in seen[i])
    /\ pc[a] = "park" => Untouched(i) /\ Clear(i)
    /\ pc[a] = "finalize" =>
         \/ outcome[i] = "success" /\ SentRecorded(i)
         \/ outcome[i] = "failed" /\ BothFailed(i) /\ Untouched(i)

DeliveryInv ==
    /\ OutreachTypeOK /\ Holds /\ DeadIsIdle
    /\ \A a \in Accounts : HolderRow(a) /\ AtWork(a)
    /\ \A i \in Items : GroupInv(i)

-----------------------------------------------------------------------------
(* What a step leaves alone. *)

ResultsSame(i) ==
    /\ seen'[i] = seen[i] /\ resMsg'[i] = resMsg[i] /\ resSug'[i] = resSug[i]
    /\ outcome'[i] = outcome[i] /\ delivered'[i] = delivered[i] /\ inDoubt'[i] = inDoubt[i]
RowSame(i) == itemState'[i] = itemState[i] /\ itemAccount'[i] = itemAccount[i]
GroupSame(i) == ResultsSame(i) /\ RowSame(i)
WorkerSame(a) == pc'[a] = pc[a] /\ cur'[a] = cur[a] /\ reply'[a] = reply[a]

\* A group that nothing happens to keeps its half.
LEMMA GroupKept ==
    ASSUME NEW i \in Items, GroupInv(i), ResultsSame(i),
           \/ RowSame(i)
           \/ AtRest(i) /\ AtRest(i)'
           \/ itemState'[i] \in {"processing", "reconcile_required", "absent"}
    PROVE  GroupInv(i)'
<1>1. Answers(i)'
  BY DEF GroupInv, Answers, ResultsSame, SentRecorded, RepeatedBlindly
<1>2. RestIsClear(i)'
  BY DEF GroupInv, RestIsClear, AtRest, ResultsSame, RowSame, Untouched, Clear, RepeatedBlindly
<1>3. ResultSaved(i)'
  BY DEF GroupInv, ResultSaved, AtRest, ResultsSame, RowSame, SentRecorded, BothFailed, Untouched,
         RepeatedBlindly
<1> QED
  BY <1>1, <1>2, <1>3 DEF GroupInv

\* A worker that does nothing keeps its half, if its group is left alone.
LEMMA WorkerKept ==
    ASSUME DeliveryInv, NEW b \in Accounts, WorkerSame(b),
           cur[b] # NoItem => GroupSame(cur[b])
    PROVE  HolderRow(b)' /\ AtWork(b)'
<1>1. CASE cur[b] = NoItem
  BY <1>1 DEF DeliveryInv, Holds, BeforeClaim, WorkerSame, HolderRow, AtWork
<1>2. CASE cur[b] # NoItem
  <2>1. HolderRow(b)'
    BY <1>2 DEF DeliveryInv, HolderRow, WorkerSame, GroupSame, RowSame
  <2>2. AtWork(b)'
    BY <1>2 DEF DeliveryInv, AtWork, WorkerSame, GroupSame, ResultsSame, Undecided, Untouched,
                Clear, SentRecorded, BothFailed, RepeatedBlindly
  <2> QED
    BY <2>1, <2>2
<1> QED
  BY <1>1, <1>2

(***************************************************************************)
(* A step of worker a about group j: every other group and every other     *)
(* worker is left alone, and no other worker holds j.                      *)
(***************************************************************************)
StepOf(a, j) ==
    /\ up /\ up' = up
    /\ \A b \in Accounts \ {a} : WorkerSame(b)
    /\ \A i \in Items \ {j} : GroupSame(i)

LEMMA StepOfKeeps ==
    ASSUME DeliveryInv, OutreachTypeOK', Holds', NEW a \in Accounts, NEW j,
           cur[a] = j \/ j = NoItem \/ (j \in Items /\ AtRest(j)), StepOf(a, j),
           HolderRow(a)', AtWork(a)', j \in Items => GroupInv(j)'
    PROVE  DeliveryInv'
<1>1. ASSUME NEW b \in Accounts, b # a
      PROVE  HolderRow(b)' /\ AtWork(b)'
  <2>1. cur[b] # NoItem => cur[b] # j /\ cur[b] \in Items
    BY <1>1 DEF DeliveryInv, HolderRow, AtRest, Done, OutreachTypeOK
  <2> QED
    BY <1>1, <2>1, WorkerKept DEF StepOf
<1>2. ASSUME NEW i \in Items, i # j
      PROVE  GroupInv(i)'
  BY <1>2, GroupKept DEF StepOf, GroupSame, DeliveryInv
<1>3. DeadIsIdle'
  BY DEF StepOf, DeadIsIdle
<1> QED
  BY <1>1, <1>2, <1>3 DEF DeliveryInv

-----------------------------------------------------------------------------
(* The steps of a worker. *)

\* The loop's looks at the run and the limit, and a claim that finds nothing.
LEMMA LookKeeps ==
    ASSUME DeliveryInv, OutreachTypeOK', Holds', NEW a \in Accounts,
           LoopCheck(a) \/ ReadLimit(a) \/ ClaimNothing(a) \/ TokenRefreshed(a)
    PROVE  DeliveryInv'
<1> USE DEF dbVars, queueVars, itemVars, resultVars, historyVars
<1>1. \A i \in Items : GroupSame(i)
  BY DEF LoopCheck, ReadLimit, ClaimNothing, TokenRefreshed, LogIn, GroupSame, ResultsSame,
         RowSame
<1>2. /\ up /\ up' = up /\ cur' = cur /\ reply' = reply
      /\ \A b \in Accounts \ {a} : pc'[b] = pc[b]
  BY DEF LoopCheck, ReadLimit, ClaimNothing, TokenRefreshed, DeliveryInv, OutreachTypeOK
<1>3. HolderRow(a)' /\ AtWork(a)'
  <2>1. CASE TokenRefreshed(a)
    <3>1. WorkerSame(a)
      BY <1>2, <2>1 DEF TokenRefreshed, WorkerSame
    <3> QED
      BY <1>1, <3>1, WorkerKept DEF DeliveryInv, OutreachTypeOK
  <2>2. CASE LoopCheck(a) \/ ReadLimit(a) \/ ClaimNothing(a)
    <3>1. pc'[a] \in BeforeClaim
      BY <2>2 DEF LoopCheck, ReadLimit, ClaimNothing, BeforeClaim, DeliveryInv, OutreachTypeOK
    <3> QED
      BY <3>1 DEF Holds, BeforeClaim, HolderRow, AtWork
  <2> QED
    BY <2>1, <2>2
<1>4. StepOf(a, NoItem)
  BY <1>1, <1>2 DEF StepOf, WorkerSame
<1>5. NoItem \notin Items
  OBVIOUS
<1> QED
  BY <1>3, <1>4, <1>5, StepOfKeeps

\* A claim finds a row at rest, so nothing is sent to its group nor missing.
LEMMA ClaimKeeps ==
    ASSUME DeliveryInv, OutreachTypeOK', Holds', NEW a \in Accounts, Claim(a)
    PROVE  DeliveryInv'
<1>1. PICK j \in Items :
        /\ ClaimWithin(a, j, limitRead[a])
        /\ cur' = [cur EXCEPT ![a] = j]
        /\ pc' = [pc EXCEPT ![a] =
               IF OutcomeOf(resMsg[j], resSug[j]) = "pending" THEN "wait" ELSE "decide"]
  BY DEF Claim
<1>2. /\ up /\ up' = up /\ reply' = reply /\ \A i \in Items : ResultsSame(i)
  BY DEF Claim, resultVars, historyVars, ResultsSame
<1>3. AtRest(j)
  BY <1>1 DEF ClaimWithin, IsNext, Candidates, OwnRows, SharedRows, AtRest
<1>4. /\ itemState' = [itemState EXCEPT ![j] = "processing"]
      /\ itemAccount' = [itemAccount EXCEPT ![j] = a]
  BY <1>1 DEF ClaimWithin
<1>5. StepOf(a, j)
  BY <1>1, <1>2, <1>4
  DEF StepOf, WorkerSame, GroupSame, RowSame, DeliveryInv, OutreachTypeOK, RunTypeOK, QueueTypeOK
<1>6. itemState'[j] = "processing" /\ itemAccount'[j] = a
  BY <1>4 DEF DeliveryInv, OutreachTypeOK, RunTypeOK, QueueTypeOK
<1>7. GroupInv(j)'
  BY <1>2, <1>6, GroupKept DEF DeliveryInv
<1>8. cur'[a] = j /\ pc'[a] = IF Undecided(j) THEN "wait" ELSE "decide"
  BY <1>1 DEF DeliveryInv, OutreachTypeOK, Undecided
<1>9. Untouched(j) /\ Clear(j)
  BY <1>3 DEF DeliveryInv, GroupInv, RestIsClear
<1>10. HolderRow(a)'
  BY <1>6, <1>8 DEF HolderRow
<1>11. AtWork(a)'
  BY <1>2, <1>8, <1>9 DEF AtWork, ResultsSame, Undecided, Untouched, Clear, RepeatedBlindly
<1> QED
  BY <1>3, <1>5, <1>7, <1>10, <1>11, StepOfKeeps

\* The group a worker past its claim holds, with what the invariant says of it.
LEMMA Held ==
    ASSUME DeliveryInv, NEW a \in Accounts, NEW j, cur[a] = j, j # NoItem
    PROVE  j \in Items /\ GroupInv(j) /\ AtWork(a) /\ HolderRow(a)
BY DEF DeliveryInv, OutreachTypeOK

\* A row at work is neither at rest nor finished.
LEMMA RowAtWork ==
    ASSUME NEW j, Answers(j)', itemState'[j] = "processing"
    PROVE  GroupInv(j)'
BY DEF GroupInv, RestIsClear, ResultSaved, AtRest

\* VK's answer: what it published is owed to the answer, and so is the doubt.
LEMMA AnswerKeeps ==
    ASSUME DeliveryInv, OutreachTypeOK', Holds', NEW a \in Accounts,
           NEW j \in Items, cur[a] = j, NEW kind \in Replies, VkAnswer(a, kind)
    PROVE  DeliveryInv'
<1>1. /\ pc[a] = "wait" /\ up /\ up' = up /\ cur' = cur
      /\ pc' = [pc EXCEPT ![a] = "finish"] /\ reply' = [reply EXCEPT ![a] = kind]
  BY DEF VkAnswer
<1>2. GroupInv(j) /\ HolderRow(a) /\ Undecided(j) /\ Untouched(j) /\ Clear(j)
  BY <1>1, Held DEF AtWork
<1>3. \A i \in Items : RowSame(i)
  BY DEF VkAnswer, LoseLogin, dbVars, queueVars, itemVars, RowSame
<1>4. /\ seen' = seen /\ resMsg' = resMsg /\ resSug' = resSug /\ outcome' = outcome
      /\ inDoubt' = [inDoubt EXCEPT ![j] = @ \/ kind = "network"]
      /\ MayPublish(j, kind)
  BY DEF VkAnswer, resultVars
<1>5. \A i \in Items \ {j} : delivered'[i] = delivered[i] /\ inDoubt'[i] = inDoubt[i]
  BY <1>4 DEF MayPublish, DeliveryInv, OutreachTypeOK
<1>6. StepOf(a, j)
  BY <1>1, <1>3, <1>4, <1>5
  DEF StepOf, WorkerSame, GroupSame, ResultsSame, DeliveryInv, OutreachTypeOK
<1>7. pc'[a] = "finish" /\ reply'[a] = kind /\ cur'[a] = j
  BY <1>1 DEF DeliveryInv, OutreachTypeOK
<1>8. /\ delivered[j] \in Nat
      /\ \/ delivered'[j] = delivered[j] /\ kind # "sent"
         \/ delivered'[j] = delivered[j] + 1 /\ kind \in {"sent", "timeout", "network"}
  BY <1>4 DEF MayPublish, DeliveryInv, OutreachTypeOK
<1>9. inDoubt'[j] <=> inDoubt[j] \/ kind = "network"
  BY <1>4 DEF DeliveryInv, OutreachTypeOK
<1>10. itemState'[j] = "processing" /\ itemAccount'[j] = a
  BY <1>1, <1>2, <1>3 DEF HolderRow, RowSame
<1>11. Answers(j)'
  BY <1>2, <1>4, <1>8, <1>9 DEF GroupInv, Answers, Untouched, RepeatedBlindly, SentRecorded
<1>12. HolderRow(a)'
  BY <1>7, <1>10 DEF HolderRow
<1>13. AtWork(a)'
  BY <1>2, <1>4, <1>7, <1>8, <1>9 DEF AtWork, Undecided, Untouched, Clear, RepeatedBlindly
<1> QED
  BY <1>6, <1>10, <1>11, <1>12, <1>13, RowAtWork, StepOfKeeps

\* The answer becomes part of the group's history.
LEMMA FinishKeeps ==
    ASSUME DeliveryInv, OutreachTypeOK', Holds', NEW a \in Accounts,
           NEW j \in Items, cur[a] = j, FinishAttempt(a)
    PROVE  DeliveryInv'
<1>1. /\ pc[a] = "finish" /\ up /\ up' = up /\ cur' = cur /\ reply' = reply
      /\ pc' = [pc EXCEPT ![a] = "save"]
  BY DEF FinishAttempt
<1>2. GroupInv(j) /\ HolderRow(a) /\ AtWork(a)
  BY Held
<1>3. /\ itemState' = itemState /\ itemAccount' = itemAccount
      /\ resMsg' = resMsg /\ resSug' = resSug /\ outcome' = outcome
      /\ delivered' = delivered /\ inDoubt' = inDoubt
      /\ seen' = [seen EXCEPT ![j] = @ \cup {reply[a]}]
  BY DEF FinishAttempt, dbVars, queueVars, itemVars, historyVars
<1>4. StepOf(a, j)
  BY <1>1, <1>3
  DEF StepOf, WorkerSame, GroupSame, ResultsSame, RowSame, DeliveryInv, OutreachTypeOK
<1>5. pc'[a] = "save" /\ seen'[j] = seen[j] \cup {reply[a]}
  BY <1>1, <1>3 DEF DeliveryInv, OutreachTypeOK
<1>6. itemState'[j] = "processing" /\ itemAccount'[j] = a
  BY <1>1, <1>2, <1>3 DEF HolderRow
<1>7. RepeatedBlindly(j) => RepeatedBlindly(j)'
  BY <1>5 DEF RepeatedBlindly
<1>8. Answers(j)'
  BY <1>1, <1>2, <1>3, <1>5, <1>7 DEF GroupInv, Answers, AtWork, SentRecorded
<1>9. HolderRow(a)'
  BY <1>1, <1>5, <1>6 DEF HolderRow
<1>10. AtWork(a)'
  <2>1. reply[a] = "timeout" => RepeatedBlindly(j)'
    BY <1>5 DEF RepeatedBlindly
  <2> QED
    BY <1>1, <1>2, <1>3, <1>5, <1>7, <2>1 DEF AtWork, Undecided, Untouched, Clear
<1> QED
  BY <1>4, <1>6, <1>8, <1>9, <1>10, RowAtWork, StepOfKeeps

\* A saved answer decides the direction, and a final denial opens the other one.
LEMMA SaveKeeps ==
    ASSUME DeliveryInv, OutreachTypeOK', Holds', NEW a \in Accounts,
           NEW j \in Items, cur[a] = j, SaveDirection(a)
    PROVE  DeliveryInv'
<1> DEFINE state == StateOf(reply[a])
           sug == Direction(j) = "suggested"
<1>1. /\ pc[a] = "save" /\ up /\ up' = up /\ cur' = cur
      /\ reply' = [reply EXCEPT ![a] = "none"]
      /\ pc' = [pc EXCEPT ![a] = IF ~sug /\ reply[a] = "denied" /\ resSug[j] \notin Final
                                 THEN "wait" ELSE "decide"]
  BY DEF SaveDirection, Direction
<1>2. GroupInv(j) /\ HolderRow(a) /\ AtWork(a)
  BY Held
<1>3. /\ itemState' = itemState /\ itemAccount' = itemAccount /\ seen' = seen
      /\ outcome' = outcome /\ delivered' = delivered /\ inDoubt' = inDoubt
      /\ resMsg' = IF sug THEN resMsg ELSE [resMsg EXCEPT ![j] = state]
      /\ resSug' = IF sug THEN [resSug EXCEPT ![j] = state] ELSE resSug
  BY DEF SaveDirection, Direction, dbVars, queueVars, itemVars, historyVars
<1>4. StepOf(a, j)
  BY <1>1, <1>3
  DEF StepOf, WorkerSame, GroupSame, ResultsSame, RowSame, DeliveryInv, OutreachTypeOK
<1>5. /\ itemState'[j] = "processing" /\ itemAccount'[j] = a /\ cur'[a] = j
      /\ pc'[a] = IF ~sug /\ reply[a] = "denied" /\ resSug[j] \notin Final
                  THEN "wait" ELSE "decide"
  BY <1>1, <1>2, <1>3 DEF HolderRow, DeliveryInv, OutreachTypeOK
<1>6. /\ Undecided(j) /\ reply[a] \in seen[j]
      /\ Untouched(j) \/ reply[a] \in {"sent", "network"}
      /\ Clear(j) \/ reply[a] = "network"
  BY <1>1, <1>2 DEF AtWork
<1>7. /\ state = "sent" <=> reply[a] = "sent"
      /\ state = "failed_final" <=> reply[a] = "denied"
  BY DEF StateOf
<1>8. /\ resMsg'[j] = (IF sug THEN resMsg[j] ELSE state)
      /\ resSug'[j] = (IF sug THEN state ELSE resSug[j])
  BY <1>3 DEF DeliveryInv, OutreachTypeOK
<1>9. /\ resMsg[j] # "sent" /\ resSug[j] # "sent"
      /\ sug <=> resMsg[j] = "failed_final"
      /\ sug => resSug[j] # "failed_final"
  BY <1>6 DEF Undecided, OutcomeOf, Direction
<1> HIDE DEF state, sug
<1>10. Answers(j)'
  BY <1>2, <1>3, <1>6, <1>7, <1>8, <1>9 DEF GroupInv, Answers, SentRecorded, RepeatedBlindly
<1>11. HolderRow(a)'
  BY <1>5 DEF HolderRow
<1>12. AtWork(a)'
  <2>1. (Untouched(j) <=> Untouched(j)') /\ (Clear(j) <=> Clear(j)')
    BY <1>3 DEF Untouched, Clear, RepeatedBlindly
  <2>2. CASE pc'[a] = "wait"
    <3>1. ~sug /\ reply[a] = "denied" /\ resSug[j] \notin Final
      BY <1>5, <2>2
    <3>2. Undecided(j)'
      BY <1>8, <1>9, <3>1, <1>7 DEF Undecided, OutcomeOf, Final
    <3> QED
      BY <1>5, <1>6, <2>1, <2>2, <3>1, <3>2 DEF AtWork
  <2>3. CASE pc'[a] = "decide"
    <3>1. reply[a] = "sent" => SentRecorded(j)'
      BY <1>7, <1>8 DEF SentRecorded
    <3>2. reply[a] = "network" => Undecided(j)'
      BY <1>7, <1>8, <1>9 DEF Undecided, OutcomeOf
    <3> QED
      BY <1>3, <1>5, <1>6, <2>1, <2>3, <3>1, <3>2 DEF AtWork
  <2> QED
    BY <1>5, <2>2, <2>3
<1> QED
  BY <1>4, <1>5, <1>10, <1>11, <1>12, RowAtWork, StepOfKeeps

\* A worker that waits for the loop answers for no group.
LEMMA LeftIdle ==
    ASSUME DeliveryInv, NEW a \in Accounts, Leave(a)
    PROVE  /\ HolderRow(a)' /\ AtWork(a)'
           /\ \A b \in Accounts \ {a} : pc'[b] = pc[b] /\ cur'[b] = cur[b]
BY DEF DeliveryInv, OutreachTypeOK, Leave, HolderRow, AtWork

\* What an undecided group without a login problem or a lost answer shows.
LEMMA RetryableIsClear ==
    ASSUME DeliveryInv, NEW a \in Accounts, NEW j \in Items, cur[a] = j,
           pc[a] = "decide", Retryable(a)
    PROVE  Untouched(j) /\ Clear(j) /\ Undecided(j)
<1>1. AtWork(a)
  BY Held
<1>2. Undecided(j) /\ "auth" \notin seen[j] /\ "network" \notin seen[j]
  BY DEF Retryable, Verdict, Undecided
<1>3. ~SentRecorded(j)
  BY <1>2 DEF Undecided, OutcomeOf, SentRecorded
<1> QED
  BY <1>1, <1>2, <1>3 DEF AtWork

\* A decided group: a failure with an unknown outcome would be undecided.
LEMMA DecideKeeps ==
    ASSUME DeliveryInv, OutreachTypeOK', Holds', NEW a \in Accounts,
           NEW j \in Items, cur[a] = j, SetFinalResult(a)
    PROVE  DeliveryInv'
<1>1. /\ pc[a] = "decide" /\ up /\ up' = up /\ cur' = cur /\ reply' = reply
      /\ pc' = [pc EXCEPT ![a] = "finalize"]
      /\ ~Undecided(j) /\ outcome' = [outcome EXCEPT ![j] = OutcomeOf(resMsg[j], resSug[j])]
  BY DEF SetFinalResult, Verdict, Undecided
<1>2. GroupInv(j) /\ HolderRow(a) /\ AtWork(a)
  BY Held
<1>3. /\ itemState' = itemState /\ itemAccount' = itemAccount /\ seen' = seen
      /\ resMsg' = resMsg /\ resSug' = resSug /\ delivered' = delivered /\ inDoubt' = inDoubt
  BY DEF SetFinalResult, dbVars, queueVars, itemVars, historyVars
<1>4. StepOf(a, j)
  BY <1>1, <1>3
  DEF StepOf, WorkerSame, GroupSame, ResultsSame, RowSame, DeliveryInv, OutreachTypeOK
<1>5. /\ itemState'[j] = "processing" /\ itemAccount'[j] = a
      /\ cur'[a] = j /\ pc'[a] = "finalize" /\ outcome'[j] = OutcomeOf(resMsg[j], resSug[j])
  BY <1>1, <1>2, <1>3 DEF HolderRow, DeliveryInv, OutreachTypeOK
<1>6. Answers(j)'
  BY <1>2, <1>3 DEF GroupInv, Answers, SentRecorded, RepeatedBlindly
<1>7. HolderRow(a)'
  BY <1>5 DEF HolderRow
<1>8. SentRecorded(j) \/ (BothFailed(j) /\ Untouched(j))
  <2>1. SentRecorded(j) \/ BothFailed(j)
    BY <1>1 DEF Undecided, OutcomeOf, SentRecorded, BothFailed
  <2>2. Untouched(j) \/ SentRecorded(j) \/ "network" \in seen[j]
    BY <1>1, <1>2 DEF AtWork
  <2>3. "network" \in seen[j] => "auth" \in seen[j]
    BY <1>1, <1>2 DEF AtWork, GroupInv, Answers, Clear
  <2> QED
    BY <2>1, <2>2, <2>3 DEF Untouched, RepeatedBlindly
<1>9. AtWork(a)'
  <2>1. SentRecorded(j) => outcome'[j] = "success"
    BY <1>5 DEF SentRecorded, OutcomeOf
  <2>2. BothFailed(j) => outcome'[j] = "failed"
    BY <1>5 DEF BothFailed, OutcomeOf
  <2> QED
    BY <1>3, <1>5, <1>8, <2>1, <2>2
    DEF AtWork, SentRecorded, BothFailed, Untouched, RepeatedBlindly
<1> QED
  BY <1>4, <1>5, <1>6, <1>7, <1>9, RowAtWork, StepOfKeeps

\* A group that is given up after its last attempt.
LEMMA ExhaustKeeps ==
    ASSUME DeliveryInv, OutreachTypeOK', Holds', NEW a \in Accounts,
           NEW j \in Items, cur[a] = j, FinalizeExhausted(a)
    PROVE  DeliveryInv'
<1>1. /\ pc[a] = "decide" /\ up /\ up' = up /\ cur' = cur /\ reply' = reply
      /\ pc' = [pc EXCEPT ![a] = "finalize"] /\ Retryable(a)
      /\ resMsg' = [resMsg EXCEPT ![j] = Exhausted(@)]
      /\ resSug' = [resSug EXCEPT ![j] = Exhausted(@)]
      /\ outcome' = [outcome EXCEPT ![j] = "failed"]
  BY DEF FinalizeExhausted
<1>2. GroupInv(j) /\ HolderRow(a) /\ AtWork(a)
  BY Held
<1>3. /\ itemState' = itemState /\ itemAccount' = itemAccount /\ seen' = seen
      /\ delivered' = delivered /\ inDoubt' = inDoubt
  BY DEF FinalizeExhausted, dbVars, queueVars, itemVars, historyVars
<1>4. StepOf(a, j)
  BY <1>1, <1>3
  DEF StepOf, WorkerSame, GroupSame, ResultsSame, RowSame, DeliveryInv, OutreachTypeOK
<1>5. Untouched(j) /\ Undecided(j)
  BY <1>1, RetryableIsClear
<1>6. /\ itemState'[j] = "processing" /\ itemAccount'[j] = a
      /\ cur'[a] = j /\ pc'[a] = "finalize" /\ outcome'[j] = "failed"
      /\ resMsg'[j] = Exhausted(resMsg[j]) /\ resSug'[j] = Exhausted(resSug[j])
  BY <1>1, <1>2, <1>3 DEF HolderRow, DeliveryInv, OutreachTypeOK
<1>7. BothFailed(j)'
  BY <1>5, <1>6 DEF BothFailed, Exhausted, Undecided, OutcomeOf, Final
<1>8. Answers(j)'
  BY <1>2, <1>3, <1>7 DEF GroupInv, Answers, SentRecorded, BothFailed, RepeatedBlindly
<1>9. HolderRow(a)'
  BY <1>6 DEF HolderRow
<1>10. AtWork(a)'
  BY <1>3, <1>5, <1>6, <1>7 DEF AtWork, Untouched, RepeatedBlindly
<1> QED
  BY <1>4, <1>6, <1>8, <1>9, <1>10, RowAtWork, StepOfKeeps

\* A group set aside for a login: what it met is a login problem.
LEMMA LoginKeeps ==
    ASSUME DeliveryInv, OutreachTypeOK', Holds', NEW a \in Accounts,
           NEW j \in Items, cur[a] = j, RequireLogin(a)
    PROVE  DeliveryInv'
<1>1. /\ pc[a] = "decide" /\ up /\ up' = up /\ cur' = cur /\ reply' = reply
      /\ pc' = [pc EXCEPT ![a] = "park"] /\ Undecided(j) /\ "auth" \in seen[j]
  BY DEF RequireLogin, Verdict, Undecided
<1>2. GroupInv(j) /\ HolderRow(a) /\ AtWork(a)
  BY Held
<1>3. \A i \in Items : GroupSame(i)
  BY DEF RequireLogin, LoseLogin, queueVars, itemVars, resultVars, historyVars,
         GroupSame, ResultsSame, RowSame
<1>4. StepOf(a, j)
  BY <1>1, <1>3 DEF StepOf, WorkerSame, DeliveryInv, OutreachTypeOK
<1>5. pc'[a] = "park" /\ cur'[a] = j
  BY <1>1 DEF DeliveryInv, OutreachTypeOK
<1>6. ~SentRecorded(j)
  BY <1>1 DEF Undecided, OutcomeOf, SentRecorded
<1>7. Untouched(j) /\ Clear(j)
  BY <1>1, <1>2, <1>6 DEF AtWork, Untouched, Clear, RepeatedBlindly
<1>8. HolderRow(a)'
  BY <1>1, <1>2, <1>3, <1>5 DEF HolderRow, GroupSame, RowSame
<1>9. AtWork(a)'
  BY <1>3, <1>5, <1>7 DEF AtWork, GroupSame, ResultsSame, Untouched, Clear, RepeatedBlindly
<1> QED
  BY <1>2, <1>3, <1>4, <1>8, <1>9, GroupKept, StepOfKeeps DEF GroupSame

\* A row goes back to rest, or to the operator, or is finished.
LEMMA SettleKeeps ==
    ASSUME DeliveryInv, OutreachTypeOK', Holds', NEW a \in Accounts,
           NEW j \in Items, cur[a] = j, Park(a) \/ Reconcile(a) \/ Retry(a)
    PROVE  DeliveryInv'
<1>1. /\ up /\ up' = up /\ reply' = reply /\ Leave(a) /\ itemAccount' = itemAccount
      /\ \A i \in Items : ResultsSame(i)
  BY DEF Park, Reconcile, Retry, MarkPaused, MarkReconcile, ScheduleRetry, resultVars,
         historyVars, ResultsSame
<1>2. PICK s \in {"paused", "reconcile_required", "retry_wait"} :
        /\ itemState' = [itemState EXCEPT ![j] = s]
        /\ s # "reconcile_required" => Untouched(j) /\ Clear(j)
  <2>1. CASE Park(a)
    BY <2>1, Held DEF Park, MarkPaused, AtWork
  <2>2. CASE Reconcile(a)
    BY <2>2 DEF Reconcile, MarkReconcile
  <2>3. CASE Retry(a)
    BY <2>3, RetryableIsClear DEF Retry, ScheduleRetry
  <2> QED
    BY <2>1, <2>2, <2>3
<1>3. itemState'[j] = s /\ \A i \in Items \ {j} : RowSame(i)
  BY <1>1, <1>2 DEF RowSame, DeliveryInv, OutreachTypeOK, RunTypeOK, QueueTypeOK
<1>4. StepOf(a, j)
  BY <1>1, <1>3, LeftIdle DEF StepOf, WorkerSame, GroupSame
<1>5. GroupInv(j)'
  <2>1. Answers(j)'
    BY <1>1, Held DEF GroupInv, Answers, ResultsSame, SentRecorded, RepeatedBlindly
  <2>2. RestIsClear(j)'
    BY <1>1, <1>2, <1>3 DEF RestIsClear, AtRest, ResultsSame, Untouched, Clear, RepeatedBlindly
  <2>3. ResultSaved(j)'
    BY <1>3 DEF ResultSaved
  <2> QED
    BY <2>1, <2>2, <2>3 DEF GroupInv
<1> QED
  BY <1>1, <1>4, <1>5, LeftIdle, StepOfKeeps

\* The row takes the outcome that was saved, and then the account counts it.
LEMMA FinalizeKeeps ==
    ASSUME DeliveryInv, OutreachTypeOK', Holds', NEW a \in Accounts,
           NEW j \in Items, cur[a] = j, FinalizeItem(a)
    PROVE  DeliveryInv'
<1>1. /\ pc[a] = "finalize" /\ up /\ up' = up /\ cur' = cur /\ reply' = reply
      /\ pc' = [pc EXCEPT ![a] = "count"]
      /\ itemAccount' = itemAccount /\ \A i \in Items : ResultsSame(i)
      /\ itemState' = [itemState EXCEPT ![j] = outcome[j]] /\ outcome[j] \in Done
  BY DEF FinalizeItem, Finalize, resultVars, historyVars, ResultsSame, Done
<1>2. GroupInv(j) /\ HolderRow(a) /\ AtWork(a)
  BY Held
<1>3. itemState'[j] = outcome[j] /\ \A i \in Items \ {j} : RowSame(i)
  BY <1>1 DEF RowSame, DeliveryInv, OutreachTypeOK, RunTypeOK, QueueTypeOK
<1>4. pc'[a] = "count" /\ cur'[a] = j
  BY <1>1 DEF DeliveryInv, OutreachTypeOK
<1>5. StepOf(a, j)
  BY <1>1, <1>3 DEF StepOf, WorkerSame, GroupSame, DeliveryInv, OutreachTypeOK
<1>6. GroupInv(j)'
  <2>1. Answers(j)'
    BY <1>1, <1>2 DEF GroupInv, Answers, ResultsSame, SentRecorded, RepeatedBlindly
  <2>2. RestIsClear(j)'
    BY <1>1, <1>3 DEF RestIsClear, AtRest, Done
  <2>3. ResultSaved(j)'
    BY <1>1, <1>2, <1>3 DEF ResultSaved, AtWork, ResultsSame, SentRecorded, BothFailed,
                           Untouched, RepeatedBlindly
  <2> QED
    BY <2>1, <2>2, <2>3 DEF GroupInv
<1>7. HolderRow(a)'
  BY <1>1, <1>2, <1>3, <1>4 DEF HolderRow
<1>8. AtWork(a)'
  BY <1>4 DEF AtWork
<1> QED
  BY <1>5, <1>6, <1>7, <1>8, StepOfKeeps

LEMMA CountKeeps ==
    ASSUME DeliveryInv, OutreachTypeOK', Holds', NEW a \in Accounts,
           NEW j \in Items, cur[a] = j, IncrementAccount(a)
    PROVE  DeliveryInv'
<1>1. /\ up /\ up' = up /\ reply' = reply /\ Leave(a) /\ \A i \in Items : GroupSame(i)
  BY DEF IncrementAccount, dbVars, queueVars, itemVars, historyVars, GroupSame, ResultsSame,
         RowSame
<1>2. StepOf(a, j)
  BY <1>1, LeftIdle DEF StepOf, WorkerSame
<1>3. GroupInv(j)'
  BY <1>1, Held, GroupKept DEF GroupSame
<1> QED
  BY <1>1, <1>2, <1>3, LeftIdle, StepOfKeeps

-----------------------------------------------------------------------------
(* Workers that vanish. *)

(***************************************************************************)
(* A worker cut off during its call leaves a row at work, to which nothing *)
(* had been sent unless blindly; in any other place nothing is sent.       *)
(***************************************************************************)
LEMMA AbandonKeeps ==
    ASSUME DeliveryInv, OutreachTypeOK', Holds', NEW S \in SUBSET Accounts, Abandon(S),
           \A a \in S : pc'[a] \in {"off", "loop"},
           \A a \in Accounts \ S : pc'[a] = pc[a] \/ {pc[a], pc'[a]} \subseteq {"off", "loop"},
           DeadIsIdle', itemState' = itemState, itemAccount' = itemAccount,
           UNCHANGED resultVars
    PROVE  DeliveryInv'
<1>1. PICK hit \in SUBSET {a \in S : pc[a] = "wait"} :
        delivered' = [i \in Items |->
            IF \E a \in hit : cur[a] = i THEN delivered[i] + 1 ELSE delivered[i]]
  BY DEF Abandon
<1>2. inDoubt' = [i \in Items |-> inDoubt[i] \/ \E a \in S : cur[a] = i]
  BY DEF Abandon
<1>3. /\ cur' = [a \in Accounts |-> IF a \in S THEN NoItem ELSE cur[a]]
      /\ reply' = [a \in Accounts |-> IF a \in S THEN "none" ELSE reply[a]]
  BY DEF Abandon
<1>4. /\ seen' = seen /\ resMsg' = resMsg /\ resSug' = resSug /\ outcome' = outcome
  BY DEF resultVars
<1>5. ASSUME NEW i \in Items, \A a \in S : cur[a] # i
      PROVE  GroupSame(i)
  <2>1. delivered'[i] = delivered[i]
    BY <1>1, <1>5
  <2>2. inDoubt'[i] = inDoubt[i]
    BY <1>2, <1>5 DEF DeliveryInv, OutreachTypeOK
  <2> QED
    BY <1>4, <2>1, <2>2 DEF GroupSame, ResultsSame, RowSame
<1>6. ASSUME NEW i \in Items
      PROVE  GroupInv(i)'
  <2>1. CASE \A a \in S : cur[a] # i
    BY <1>5, <2>1, GroupKept DEF GroupSame, DeliveryInv
  <2>2. CASE \E a \in S : cur[a] = i
    <3>1. PICK a \in S : cur[a] = i
      BY <2>2
    <3>2. GroupInv(i) /\ HolderRow(a) /\ i # NoItem
      BY <3>1 DEF DeliveryInv
    <3>3. ~AtRest(i) /\ ~AtRest(i)'
      BY <3>1, <3>2 DEF HolderRow, AtRest, Done
    <3>4. /\ delivered[i] \in Nat
          /\ \/ delivered'[i] = delivered[i]
             \/ /\ delivered'[i] = delivered[i] + 1 /\ Untouched(i)
                /\ itemState[i] = "processing"
      <4>1. CASE \E b \in hit : cur[b] = i
        <5>1. PICK b \in hit : cur[b] = i
          BY <4>1
        <5>2. b \in Accounts /\ pc[b] = "wait"
          OBVIOUS
        <5>3. Untouched(i) /\ HolderRow(b)
          BY <5>1, <5>2 DEF DeliveryInv, AtWork
        <5>4. itemState[i] = "processing"
          BY <3>2, <5>1, <5>2, <5>3 DEF HolderRow
        <5> QED
          BY <1>1, <4>1, <5>3, <5>4 DEF DeliveryInv, OutreachTypeOK
      <4>2. CASE ~ \E b \in hit : cur[b] = i
        BY <1>1, <4>2 DEF DeliveryInv, OutreachTypeOK
      <4> QED
        BY <4>1, <4>2
    <3>5. inDoubt[i] => inDoubt'[i]
      BY <1>2
    <3>6. Answers(i)'
      BY <1>4, <3>2, <3>4, <3>5
      DEF GroupInv, Answers, SentRecorded, Untouched, RepeatedBlindly
    <3>7. RestIsClear(i)'
      BY <3>3 DEF RestIsClear
    <3>8. ResultSaved(i)'
      BY <1>4, <3>2, <3>4 DEF GroupInv, ResultSaved, SentRecorded, BothFailed, Untouched,
                              RepeatedBlindly
    <3> QED
      BY <3>6, <3>7, <3>8 DEF GroupInv
  <2> QED
    BY <2>1, <2>2
<1>7. ASSUME NEW b \in Accounts
      PROVE  HolderRow(b)' /\ AtWork(b)'
  <2>1. CASE cur'[b] = NoItem
    BY <2>1 DEF Holds, BeforeClaim, HolderRow, AtWork
  <2>2. CASE cur'[b] # NoItem
    <3>1. b \notin S /\ cur'[b] = cur[b] /\ reply'[b] = reply[b] /\ cur[b] \in Items
      BY <1>3, <2>2 DEF DeliveryInv, OutreachTypeOK
    <3>2. pc'[b] = pc[b]
      BY <2>2, <3>1 DEF Holds, BeforeClaim
    <3>3. \A a \in S : cur[a] # cur[b]
      BY <2>2, <3>1 DEF DeliveryInv, HolderRow
    <3> QED
      BY <1>5, <3>1, <3>2, <3>3, WorkerKept DEF WorkerSame
  <2> QED
    BY <2>1, <2>2
<1> QED
  BY <1>6, <1>7 DEF DeliveryInv

LEMMA ErrorKeeps ==
    ASSUME DeliveryInv, OutreachTypeOK', Holds', NEW a \in Accounts, WorkerError(a)
    PROVE  DeliveryInv'
<1>1. /\ up /\ up' = up /\ Abandon({a}) /\ pc' = [pc EXCEPT ![a] = "loop"]
      /\ itemState' = itemState /\ itemAccount' = itemAccount /\ UNCHANGED resultVars
  BY DEF WorkerError, dbVars, queueVars, itemVars
<1>2. DeadIsIdle'
  BY <1>1 DEF DeadIsIdle
<1>3. /\ pc'[a] = "loop"
      /\ \A b \in Accounts \ {a} : pc'[b] = pc[b]
  BY <1>1 DEF DeliveryInv, OutreachTypeOK
<1> QED
  BY <1>1, <1>2, <1>3, AbandonKeeps

LEMMA TickKeeps ==
    ASSUME DeliveryInv, OutreachTypeOK', Holds', SupervisorTick
    PROVE  DeliveryInv'
<1> DEFINE alive == IF runState = "running" THEN Active ELSE {}
           doomed == {a \in Accounts \ alive : pc[a] # "off"}
<1>1. /\ up /\ up' = up /\ Abandon(doomed)
      /\ pc' = [a \in Accounts |->
                IF a \in doomed THEN "off"
                ELSE IF a \in alive /\ pc[a] = "off" THEN "loop" ELSE pc[a]]
      /\ UNCHANGED resultVars
  BY DEF SupervisorTick
<1>2. itemState' = itemState /\ itemAccount' = itemAccount
  BY DEF SupervisorTick, FinishIfIdle, dbVars, queueVars, itemVars
<1> HIDE DEF alive
<1>3. DeadIsIdle'
  BY <1>1 DEF DeadIsIdle
<1>4. \A a \in doomed : pc'[a] \in {"off", "loop"}
  BY <1>1
<1>5. \A a \in Accounts \ doomed : pc'[a] = pc[a] \/ {pc[a], pc'[a]} \subseteq {"off", "loop"}
  BY <1>1
<1> QED
  BY <1>1, <1>2, <1>3, <1>4, <1>5, AbandonKeeps

LEMMA CrashKeeps ==
    ASSUME DeliveryInv, OutreachTypeOK', Holds', Crash
    PROVE  DeliveryInv'
<1>1. /\ Abandon(Accounts) /\ pc' = [a \in Accounts |-> "off"]
      /\ itemState' = itemState /\ itemAccount' = itemAccount /\ UNCHANGED resultVars
  BY DEF Crash, dbVars, queueVars, itemVars
<1>2. DeadIsIdle'
  BY <1>1 DEF DeadIsIdle
<1> QED
  BY <1>1, <1>2, AbandonKeeps

-----------------------------------------------------------------------------
(* Steps of the operator, of the clock, and of the restart. *)

Deleted(i) ==
    (AtRest(i) \/ itemState[i] = "reconcile_required") /\ itemState'[i] = "absent"

\* Such a step changes no row but those at rest, or deletes one; neither has a
\* holder.
LEMMA RowsKept ==
    ASSUME DeliveryInv, OutreachTypeOK', Holds', DeadIsIdle',
           UNCHANGED <<workerVars, resultVars, delivered, inDoubt>>,
           \A i \in Items : RowSame(i) \/ (AtRest(i) /\ AtRest(i)') \/ Deleted(i)
    PROVE  DeliveryInv'
<1>1. /\ \A i \in Items : ResultsSame(i)
      /\ \A b \in Accounts : WorkerSame(b)
  BY DEF workerVars, resultVars, ResultsSame, WorkerSame
<1>2. ASSUME NEW i \in Items
      PROVE  GroupInv(i)'
  BY <1>1, GroupKept DEF DeliveryInv, Deleted
<1>3. ASSUME NEW b \in Accounts
      PROVE  HolderRow(b)' /\ AtWork(b)'
  <2>1. ASSUME cur[b] # NoItem
        PROVE  GroupSame(cur[b])
    <3>1. cur[b] \in Items /\ HolderRow(b)
      BY <2>1 DEF DeliveryInv, OutreachTypeOK
    <3>2. ~AtRest(cur[b]) /\ ~Deleted(cur[b])
      BY <2>1, <3>1 DEF HolderRow, AtRest, Deleted, Done
    <3> QED
      BY <1>1, <3>1, <3>2 DEF GroupSame
  <2> QED
    BY <1>1, <2>1, WorkerKept
<1> QED
  BY <1>2, <1>3 DEF DeliveryInv

\* Rows that a start gives back, that a stop sets aside, and that a disabled
\* account releases are at rest, before and after; a removal deletes rows at
\* rest and unresolved ones.
LEMMA OperatorRows ==
    ASSUME OutreachTypeOK, Operator, NEW i \in Items
    PROVE  RowSame(i) \/ (AtRest(i) /\ AtRest(i)') \/ Deleted(i)
<1> USE DEF OutreachTypeOK, RunTypeOK, QueueTypeOK, RowSame, AtRest, Deleted
<1>1. CASE OperatorStart
  <2>1. PICK ig \in BOOLEAN : Start(ig)
    BY <1>1 DEF OperatorStart
  <2>2. ResumeRows(runState, Active)
    BY <2>1 DEF Start
  <2> QED
    BY <2>2 DEF ResumeRows, BackToPool, BackToOwner
<1>2. CASE OperatorHalt
  <2>1. CASE Pause
    BY <2>1 DEF Pause, itemVars
  <2>2. CASE Stop
    <3>1. SetAsideRows
      BY <2>2 DEF Stop
    <3> QED
      BY <3>1 DEF SetAsideRows
  <2> QED
    BY <1>2, <2>1, <2>2 DEF OperatorHalt
<1>3. CASE OperatorAccount
  <2>1. \/ \E a \in Accounts : Disable(a)
        \/ itemState' = itemState /\ itemAccount' = itemAccount
    BY <1>3 DEF OperatorAccount, ResetWhileRunning, Enable, SetLimit, LogIn, LoseLogin,
                queueVars, itemVars
  <2>2. CASE \E a \in Accounts : Disable(a)
    <3>1. PICK a \in Accounts : ReleaseUnstarted(a)
      BY <2>2 DEF Disable
    <3> QED
      BY <3>1 DEF ReleaseUnstarted, ReleasedRows
  <2> QED
    BY <2>1, <2>2
<1>4. CASE OperatorRemove
  <2>1. PICK Ids \in SUBSET Items : RemoveGroups(Ids)
    BY <1>4 DEF OperatorRemove
  <2>2. itemState' = WithoutRows(Ids) /\ itemAccount' = itemAccount
    BY <2>1 DEF RemoveGroups
  <2>3. i \in Removable => itemState[i] \in {"waiting", "assigned", "paused", "reconcile_required"}
    BY DEF Removable, Unbegun, InState
  <2> QED
    BY <2>2, <2>3 DEF WithoutRows
<1> QED
  BY <1>1, <1>2, <1>3, <1>4 DEF Operator

LEMMA OperatorKeeps ==
    ASSUME DeliveryInv, OutreachTypeOK', Holds', Operator \/ Clock
    PROVE  DeliveryInv'
<1>1. UNCHANGED <<workerVars, resultVars, delivered, inDoubt, up>>
  BY DEF Operator, OperatorStart, OperatorHalt, OperatorRemove, OperatorAccount, Clock, historyVars
<1>2. \A i \in Items : RowSame(i) \/ (AtRest(i) /\ AtRest(i)') \/ Deleted(i)
  <2>1. CASE Operator
    BY <2>1, OperatorRows DEF DeliveryInv
  <2>2. CASE Clock
    BY <2>2 DEF Clock, ClockTick, RowSame
  <2> QED
    BY <2>1, <2>2
<1>3. DeadIsIdle'
  BY <1>1 DEF DeliveryInv, DeadIsIdle, workerVars
<1> QED
  BY <1>1, <1>2, <1>3, RowsKept

\* A restart finds no worker, and gives a row at work to the operator.
LEMMA RestartKeeps ==
    ASSUME DeliveryInv, OutreachTypeOK', Holds', Restart
    PROVE  DeliveryInv'
<1>1. /\ ~up /\ up' = TRUE /\ UNCHANGED <<workerVars, resultVars, delivered, inDoubt>>
      /\ itemState' = [i \in Items |-> Recovered(i)] /\ itemAccount' = itemAccount
  BY DEF Restart, Startup
<1>2. \A i \in Items : ResultsSame(i)
  BY <1>1 DEF resultVars, ResultsSame
<1>3. ASSUME NEW i \in Items
      PROVE  GroupInv(i)'
  <2>1. RowSame(i) \/ itemState'[i] = "reconcile_required"
    BY <1>1 DEF Recovered, RowSame
  <2> QED
    BY <1>2, <2>1, GroupKept DEF DeliveryInv
<1>4. ASSUME NEW b \in Accounts
      PROVE  HolderRow(b)' /\ AtWork(b)'
  <2>1. pc'[b] = "off"
    BY <1>1 DEF DeliveryInv, DeadIsIdle, workerVars
  <2> QED
    BY <2>1 DEF Holds, BeforeClaim, HolderRow, AtWork
<1>5. DeadIsIdle'
  BY <1>1 DEF DeadIsIdle
<1> QED
  BY <1>3, <1>4, <1>5 DEF DeliveryInv

-----------------------------------------------------------------------------
(* The invariant of the whole program. *)

LEMMA DeliveryInit == OutreachInit => DeliveryInv
<1> SUFFICES ASSUME OutreachInit PROVE DeliveryInv
  OBVIOUS
<1>1. OutreachTypeOK /\ Holds
  BY OutreachTypeInit
<1>2. DeadIsIdle /\ \A a \in Accounts : HolderRow(a) /\ AtWork(a)
  BY DEF OutreachInit, DeadIsIdle, HolderRow, AtWork
<1>3. ASSUME NEW i \in Items
      PROVE  GroupInv(i)
  <2>1. /\ resMsg[i] = "not_attempted" /\ resSug[i] = "not_attempted"
        /\ seen[i] = {} /\ delivered[i] = 0 /\ inDoubt[i] = FALSE
        /\ itemState[i] \in {"waiting", "assigned"}
    BY DEF OutreachInit, RunInit, QueueInit
  <2> QED
    BY <2>1 DEF GroupInv, Answers, RestIsClear, ResultSaved, SentRecorded, Untouched, Clear
<1> QED
  BY <1>1, <1>2, <1>3 DEF DeliveryInv

LEMMA WorkerKeeps ==
    ASSUME DeliveryInv, OutreachTypeOK', Holds', NEW a \in Accounts, Worker(a)
    PROVE  DeliveryInv'
<1>1. CASE LoopCheck(a) \/ ReadLimit(a) \/ ClaimNothing(a) \/ TokenRefreshed(a)
  BY <1>1, LookKeeps
<1>2. CASE Claim(a)
  BY <1>2, ClaimKeeps
<1>3. CASE WorkerError(a)
  BY <1>3, ErrorKeeps
<1>4. CASE \/ Answer(a) \/ FinishAttempt(a) \/ SaveDirection(a)
           \/ SetFinalResult(a) \/ FinalizeExhausted(a) \/ RequireLogin(a)
           \/ Park(a) \/ Reconcile(a) \/ Retry(a)
           \/ FinalizeItem(a) \/ IncrementAccount(a)
  <2>1. pc[a] \in {"wait", "finish", "save", "decide", "park", "finalize", "count"}
    BY <1>4 DEF Answer, VkAnswer, FinishAttempt, SaveDirection, SetFinalResult,
       FinalizeExhausted, RequireLogin, Park, Reconcile, Retry, FinalizeItem, IncrementAccount
  <2>2. PICK j \in Items : cur[a] = j
    BY <2>1 DEF DeliveryInv, Holds, BeforeClaim, OutreachTypeOK
  <2> QED
    BY <1>4, <2>2, AnswerKeeps, FinishKeeps, SaveKeeps, DecideKeeps, ExhaustKeeps, LoginKeeps,
       SettleKeeps, FinalizeKeeps, CountKeeps DEF Answer
<1> QED
  BY <1>1, <1>2, <1>3, <1>4 DEF Worker, Section

LEMMA DeliveryNext ==
    ASSUME DeliveryInv, [OutreachNext]_vars
    PROVE  DeliveryInv'
<1>1. OutreachTypeOK' /\ Holds'
  BY OutreachTypeNext DEF DeliveryInv
<1>2. CASE \E a \in Accounts : Worker(a)
  BY <1>1, <1>2, WorkerKeeps
<1>3. CASE SupervisorTick
  BY <1>1, <1>3, TickKeeps
<1>4. CASE Operator \/ Clock
  BY <1>1, <1>4, OperatorKeeps
<1>5. CASE Crash
  BY <1>1, <1>5, CrashKeeps
<1>6. CASE Restart
  BY <1>1, <1>6, RestartKeeps
<1>7. CASE UNCHANGED vars
  <2>1. \A i \in Items : RowSame(i)
    BY <1>7 DEF vars, dbVars, queueVars, itemVars, RowSame
  <2>2. DeadIsIdle'
    BY <1>7 DEF vars, workerVars, DeliveryInv, DeadIsIdle
  <2> QED
    BY <1>1, <1>7, <2>1, <2>2, RowsKept DEF vars, historyVars
<1> QED
  BY <1>2, <1>3, <1>4, <1>5, <1>6, <1>7 DEF OutreachNext

LEMMA DeliveryHolds == Spec => []DeliveryInv
BY DeliveryInit, DeliveryNext, PTL DEF Spec

-----------------------------------------------------------------------------
(* What the invariant says of a program that is looked at at any moment. *)

\* Whoever holds a row has it to itself, for its own account, at work.
THEOREM HolderAlone == Spec => []HolderOwnsItem
<1>1. DeliveryInv => HolderOwnsItem
  <2> SUFFICES ASSUME DeliveryInv, NEW a \in Accounts
               PROVE  /\ pc[a] \in BeforeClaim <=> cur[a] = NoItem
                      /\ cur[a] # NoItem =>
                            /\ itemAccount[cur[a]] = a
                            /\ pc[a] # "count" => itemState[cur[a]] = "processing"
                            /\ \A b \in Accounts \ {a} : cur[b] # cur[a]
    BY DEF HolderOwnsItem
  <2>1. \A b \in Accounts : HolderRow(b)
    BY DEF DeliveryInv
  <2> QED
    BY <2>1 DEF DeliveryInv, Holds, HolderRow
<1> QED
  BY <1>1, DeliveryHolds, PTL

\* A group gets a second message only after an answer that the code retries
\* blindly, however often its run is stopped, its worker cut off or the process
\* killed.
THEOREM DuplicateOnlyBlindly == Spec => []DuplicateOnlyAfterBlindRetry
<1>1. DeliveryInv => DuplicateOnlyAfterBlindRetry
  BY DEF DeliveryInv, GroupInv, Answers, DuplicateOnlyAfterBlindRetry
<1> QED
  BY <1>1, DeliveryHolds, PTL

\* A row is finished after its result, with the attempts that justify it.
THEOREM FinishedIsRecorded == Spec => []FinishedMeansRecorded
<1>1. ASSUME DeliveryInv, NEW i \in Items
      PROVE  /\ itemState[i] = "success" =>
                  /\ outcome[i] = "success" /\ "sent" \in seen[i] /\ delivered[i] > 0
                  /\ "sent" \in {resMsg[i], resSug[i]}
             /\ itemState[i] = "failed" =>
                  outcome[i] = "failed" /\ resMsg[i] = "failed_final"
                                        /\ resSug[i] = "failed_final"
  BY <1>1 DEF DeliveryInv, GroupInv, Answers, ResultSaved, SentRecorded, BothFailed
<1>2. DeliveryInv => FinishedMeansRecorded
  BY <1>1 DEF FinishedMeansRecorded
<1> QED
  BY <1>2, DeliveryHolds, PTL

\* A group reported as failed received nothing, unless by a blind repetition.
THEOREM FailedGotNothing == Spec => []FailedMeansNothingSent
<1>1. DeliveryInv => FailedMeansNothingSent
  BY DEF DeliveryInv, GroupInv, ResultSaved, Untouched, FailedMeansNothingSent
<1> QED
  BY <1>1, DeliveryHolds, PTL

\* A post is suggested only to a group that denied a message and got nothing.
THEOREM SuggestedAfterDenial == Spec => []SuggestedOnlyAfterDenial
<1>1. ASSUME DeliveryInv, NEW a \in Accounts, pc[a] = "wait", Direction(cur[a]) = "suggested"
      PROVE  /\ "denied" \in seen[cur[a]]
             /\ delivered[cur[a]] = 0 \/ RepeatedBlindly(cur[a])
  <2>1. PICK j \in Items : cur[a] = j
    BY <1>1 DEF DeliveryInv, Holds, BeforeClaim, OutreachTypeOK
  <2>2. Undecided(j) /\ Untouched(j) /\ Answers(j) /\ resMsg[j] = "failed_final"
    BY <1>1, <2>1, Held DEF AtWork, GroupInv, Direction
  <2> QED
    BY <2>1, <2>2 DEF Undecided, OutcomeOf, Answers, Untouched
<1>2. DeliveryInv => SuggestedOnlyAfterDenial
  BY <1>1 DEF SuggestedOnlyAfterDenial
<1> QED
  BY <1>2, DeliveryHolds, PTL

\* A call is made for groups of which no answer is missing only.
LEMMA CallIsClear ==
    ASSUME DeliveryInv, NEW a \in Accounts, pc[a] = "wait"
    PROVE  Clear(cur[a])
BY DEF DeliveryInv, AtWork

\* One step publishes nothing in a group whose answer is missing.
LEMMA StepSendsNothingInDoubt ==
    ASSUME DeliveryInv, [OutreachNext]_vars, NEW i \in Items, inDoubt[i], "auth" \notin seen[i]
    PROVE  delivered'[i] = delivered[i]
<1>1. \A a \in Accounts : pc[a] = "wait" => cur[a] # i
  BY CallIsClear DEF Clear
<1>2. ASSUME NEW S \in SUBSET Accounts, Abandon(S)
      PROVE  delivered'[i] = delivered[i]
  BY <1>1, <1>2 DEF Abandon
<1>3. CASE SupervisorTick
  <2>1. \E S \in SUBSET Accounts : Abandon(S)
    BY <1>3 DEF SupervisorTick
  <2> QED
    BY <1>2, <2>1
<1>4. CASE Crash
  BY <1>2, <1>4 DEF Crash
<1>5. ASSUME NEW a \in Accounts, Worker(a)
      PROVE  delivered'[i] = delivered[i]
  <2>1. CASE WorkerError(a)
    BY <1>2, <2>1 DEF WorkerError
  <2>2. CASE Answer(a)
    BY <1>1, <2>2 DEF Answer, VkAnswer, MayPublish, DeliveryInv, OutreachTypeOK
  <2>3. CASE LoopCheck(a) \/ TokenRefreshed(a) \/ Section(a)
    BY <2>3 DEF LoopCheck, TokenRefreshed, Section, ReadLimit, Claim, ClaimNothing, FinishAttempt,
       SaveDirection, SetFinalResult, FinalizeExhausted, FinalizeItem, IncrementAccount,
       RequireLogin, Park, Reconcile, Retry, historyVars
  <2> QED
    BY <1>5, <2>1, <2>2, <2>3 DEF Worker
<1>6. CASE Operator \/ Restart \/ Clock
  BY <1>6 DEF Operator, OperatorStart, OperatorHalt, OperatorRemove, OperatorAccount, Restart,
     Clock, historyVars
<1>7. CASE UNCHANGED vars
  BY <1>7 DEF vars, historyVars
<1> QED
  BY <1>3, <1>4, <1>5, <1>6, <1>7 DEF OutreachNext

\* A group whose answer was lost, or whose call was cut off, is not written to
\* again, if it met no login problem.
THEOREM NothingSentInDoubt == Spec => NoResendInDoubt
<1>1. DeliveryInv /\ [OutreachNext]_vars
        => [\A i \in Items :
              inDoubt[i] /\ "auth" \notin seen[i] => delivered'[i] = delivered[i]]_vars
  BY StepSendsNothingInDoubt
<1> QED
  BY <1>1, DeliveryHolds, PTL DEF Spec, NoResendInDoubt

-----------------------------------------------------------------------------
(* The tally of an account. *)

Finished(a) == {i \in Items : itemAccount[i] = a /\ itemState[i] \in {"success", "failed"}}
Uncounted(a) == IF pc[a] = "count" THEN 1 ELSE 0

\* A row that a worker has finished and not yet counted is one more than the
\* tally, so the increment that follows never overtakes the rows.
TallyInv == \A a \in Accounts : processed[a] + Uncounted(a) <= Cardinality(Finished(a))

\* A finished row stays finished, for the same account.
LEMMA FinishedStays ==
    ASSUME OutreachTypeOK, Holds, [OutreachNext]_vars, NEW i \in Items,
           itemState[i] \in {"success", "failed"}
    PROVE  RowSame(i)
<1> USE DEF OutreachTypeOK, RunTypeOK, QueueTypeOK
<1>1. [RunNext]_dbVars
  BY StepRefines
<1>2. itemState'[i] = itemState[i]
  BY <1>1, StepReopensNothing
<1>3. ASSUME NEW a \in Accounts, NEW j \in Items, NEW limit \in Limits, ClaimWithin(a, j, limit)
      PROVE  itemAccount'[i] = itemAccount[i]
  <2>1. i # j
    BY <1>3 DEF ClaimWithin, IsNext, Candidates, OwnRows, SharedRows
  <2> QED
    BY <1>3, <2>1 DEF ClaimWithin
<1>4. ASSUME NEW ig \in BOOLEAN, Start(ig)
      PROVE  itemAccount'[i] = itemAccount[i]
  BY <1>4 DEF Start, ResumeRows, BackToPool
<1>5. ASSUME NEW a \in Accounts, Disable(a)
      PROVE  itemAccount'[i] = itemAccount[i]
  BY <1>5 DEF Disable, ReleaseUnstarted, ReleasedRows
<1> DEFINE Goal == itemAccount'[i] = itemAccount[i]
<1>6. ASSUME Work
      PROVE  Goal
  BY <1>3, <1>6 DEF Work, ScheduleRetry, MarkReconcile, MarkPaused, Finalize
<1>7. ASSUME Operate
      PROVE  Goal
  BY <1>4, <1>5, <1>7 DEF Operate, CommandRun, Configure, ChangeLogin, RemoveGroups,
     ResetWhileRunning, Pause, Stop, SetAsideRows, Enable, LogIn, LoseLogin, SetLimit, queueVars,
     itemVars
<1>8. ASSUME FinishIfIdle \/ Startup \/ ClockTick \/ UNCHANGED dbVars
      PROVE  Goal
  BY <1>8 DEF FinishIfIdle, Startup, ClockTick, dbVars, queueVars, itemVars
<1> QED
  BY <1>1, <1>2, <1>6, <1>7, <1>8 DEF RunNext, RowSame

\* The rows an account has finished can be counted, and never become fewer.
LEMMA FinishedGrows ==
    ASSUME OutreachTypeOK, Holds, [OutreachNext]_vars, NEW a \in Accounts
    PROVE  /\ Cardinality(Finished(a)) \in Nat /\ Cardinality(Finished(a)') \in Nat
           /\ Cardinality(Finished(a)) <= Cardinality(Finished(a)')
<1>1. Finished(a) \in SUBSET Finished(a)'
  BY FinishedStays DEF Finished, RowSame
<1>2. Finished(a)' \in SUBSET Items
  BY DEF Finished
<1>3. IsFiniteSet(Items)
  BY QueueAssumption
<1>4. IsFiniteSet(Finished(a)')
  BY <1>2, <1>3, FS_Subset
<1> QED
  BY <1>1, <1>4, FS_Subset, FS_CardinalityType

\* One step makes the tally and its pending increment larger only by finishing
\* a row.
LEMMA TallyMoves ==
    ASSUME OutreachTypeOK, Holds, [OutreachNext]_vars, NEW a \in Accounts, ~FinalizeItem(a)
    PROVE  processed'[a] + Uncounted(a)' <= processed[a] + Uncounted(a)
<1> USE DEF OutreachTypeOK, Uncounted, resultVars, workerVars
<1>1. ASSUME NEW b \in Accounts, Worker(b), b # a
      PROVE  processed'[a] = processed[a] /\ pc'[a] = pc[a]
  BY <1>1 DEF Worker, Section, LoopCheck, TokenRefreshed, Answer, VkAnswer, WorkerError,
     ReadLimit, Claim, ClaimNothing, FinishAttempt, SaveDirection, SetFinalResult,
     FinalizeExhausted, FinalizeItem, IncrementAccount, RequireLogin, Park, Reconcile, Retry, Leave
<1>2. CASE IncrementAccount(a)
  BY <1>2 DEF IncrementAccount, Leave
<1>3. ASSUME Worker(a), ~IncrementAccount(a)
      PROVE  processed'[a] = processed[a] /\ pc'[a] # "count"
  BY <1>3 DEF Worker, Section, LoopCheck, TokenRefreshed, Answer, VkAnswer, WorkerError,
     ReadLimit, Claim, ClaimNothing, FinishAttempt, SaveDirection, SetFinalResult,
     FinalizeExhausted, RequireLogin, Park, Reconcile, Retry, Leave
<1>4. CASE SupervisorTick \/ Crash
  BY <1>4 DEF SupervisorTick, Crash
<1>5. CASE Operator \/ Restart \/ Clock \/ UNCHANGED vars
  BY <1>5 DEF Operator, OperatorStart, OperatorHalt, OperatorRemove, OperatorAccount, Restart,
     Clock, vars
<1> QED
  BY <1>1, <1>2, <1>3, <1>4, <1>5 DEF OutreachNext

LEMMA TallyNext ==
    ASSUME DeliveryInv, TallyInv, [OutreachNext]_vars
    PROVE  TallyInv'
<1> SUFFICES ASSUME NEW a \in Accounts
             PROVE  processed'[a] + Uncounted(a)' <= Cardinality(Finished(a)')
  BY DEF TallyInv
<1>1. OutreachTypeOK /\ Holds /\ OutreachTypeOK' /\ Holds'
  BY OutreachTypeNext DEF DeliveryInv
<1>2. /\ processed[a] + Uncounted(a) <= Cardinality(Finished(a))
      /\ Cardinality(Finished(a)) \in Nat /\ Cardinality(Finished(a)') \in Nat
      /\ Cardinality(Finished(a)) <= Cardinality(Finished(a)')
      /\ processed[a] \in Nat /\ processed'[a] \in Nat
      /\ Uncounted(a) \in Nat /\ Uncounted(a)' \in Nat
  BY <1>1, FinishedGrows DEF TallyInv, OutreachTypeOK, Uncounted
<1>3. CASE ~FinalizeItem(a)
  BY <1>1, <1>2, <1>3, TallyMoves
<1>4. CASE FinalizeItem(a)
  <2>1. PICK j \in Items : cur[a] = j
    BY <1>4 DEF FinalizeItem, DeliveryInv, Holds, BeforeClaim, OutreachTypeOK
  <2>2. HolderRow(a) /\ j # NoItem
    BY <2>1 DEF DeliveryInv
  <2>3. /\ processed' = processed /\ Uncounted(a) = 0 /\ Uncounted(a)' = 1
        /\ itemAccount' = itemAccount
        /\ itemState' = [itemState EXCEPT ![j] = outcome[j]]
        /\ outcome[j] \in {"success", "failed"}
    BY <1>1, <1>4, <2>1 DEF FinalizeItem, Finalize, Uncounted, resultVars, OutreachTypeOK
  <2>4. itemAccount[j] = a /\ itemState[j] = "processing"
    BY <1>4, <2>1, <2>2 DEF FinalizeItem, HolderRow
  <2>5. Finished(a)' = Finished(a) \cup {j} /\ j \notin Finished(a)
    BY <1>1, <2>3, <2>4 DEF Finished, OutreachTypeOK, RunTypeOK, QueueTypeOK
  <2>6. IsFiniteSet(Finished(a))
    <3>1. Finished(a) \in SUBSET Items
      BY DEF Finished
    <3> QED
      BY <3>1, FS_Subset, QueueAssumption
  <2>7. Cardinality(Finished(a)') = Cardinality(Finished(a)) + 1
    BY <2>5, <2>6, FS_AddElement
  <2> QED
    BY <1>2, <2>3, <2>7
<1> QED
  BY <1>3, <1>4

\* The counter of an account never runs ahead of the rows it has finished.
THEOREM TallyNotAhead == Spec => []TallyNeverAhead
<1>1. OutreachInit => TallyInv
  <2> SUFFICES ASSUME OutreachInit, NEW a \in Accounts
               PROVE  processed[a] + Uncounted(a) <= Cardinality(Finished(a))
    BY DEF TallyInv
  <2>1. Finished(a) = {}
    BY DEF OutreachInit, RunInit, QueueInit, Finished
  <2> QED
    BY <2>1, FS_EmptySet DEF OutreachInit, Uncounted
<1>2. DeliveryInv /\ TallyInv => TallyNeverAhead
  <2> SUFFICES ASSUME DeliveryInv, TallyInv, NEW a \in Accounts
               PROVE  processed[a] <= Cardinality(Finished(a))
    BY DEF TallyNeverAhead, Finished
  <2>1. IsFiniteSet(Finished(a))
    <3>1. Finished(a) \in SUBSET Items
      BY DEF Finished
    <3> QED
      BY <3>1, FS_Subset, QueueAssumption
  <2>2. processed[a] \in Nat /\ Uncounted(a) \in Nat /\ Cardinality(Finished(a)) \in Nat
    BY <2>1, FS_CardinalityType DEF DeliveryInv, OutreachTypeOK, Uncounted
  <2> QED
    BY <2>2 DEF TallyInv
<1> QED
  BY <1>1, <1>2, TallyNext, DeliveryHolds, PTL DEF Spec

-----------------------------------------------------------------------------
(* What the run service promises of the rows, in the whole program. *)

\* No worker, operator, crash or restart reopens a finished group, nor claims
\* an unresolved one.
THEOREM OutreachReopensNothing == Spec => NoReopening
BY OutreachImplementsRunService, NeverReopened, PTL
=============================================================================
