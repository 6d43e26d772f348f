-------------------------- MODULE RunServiceProofs --------------------------
(***************************************************************************)
(* Proofs of the safety properties of RunService, for every set of         *)
(* accounts and items and every value of the delays and limits.            *)
(***************************************************************************)
EXTENDS RunService, FiniteSetTheorems, TLAPS

USE WindowAssumption, QueueAssumption, RunAssumption

\* The quota operators stay within the type of a row.
LEMMA QuotaRows ==
    /\ NoRow \in Row
    /\ \A row \in Row : Charge(row) \in Row /\ Elapse(row) \in Row
BY DEF NoRow, Row, Charge, Elapse

\* A recount gives the run a state it may have.
LEMMA VerdictIsState ==
    ASSUME NEW rows, runState \in RunState
    PROVE  ReconcileVerdict(rows, runState) \in RunState
BY DEF ReconcileVerdict, RunState

\* The initial states are well typed.
LEMMA TypeInit == RunInit => RunTypeOK
BY QuotaRows DEF RunInit, QueueInit, RunTypeOK, QueueTypeOK, WorkItemState, RunState

\* Every transaction keeps the database well typed.
LEMMA TypeNext == RunTypeOK /\ [RunNext]_dbVars => RunTypeOK'
<1> SUFFICES ASSUME RunTypeOK, [RunNext]_dbVars PROVE RunTypeOK'
    OBVIOUS
<1> USE DEF RunTypeOK, QueueTypeOK, WorkItemState, RunState, itemVars, quotaVars, accountVars
<1>1. ASSUME NEW a \in Accounts, NEW i \in Items, NEW limit \in Limits,
             ClaimWithin(a, i, limit), UNCHANGED accountVars
      PROVE  RunTypeOK'
  BY <1>1, QuotaRows DEF ClaimWithin
<1>2. ASSUME NEW i \in Items, ScheduleRetry(i), UNCHANGED accountVars
      PROVE  RunTypeOK'
  BY <1>2 DEF ScheduleRetry, EndLease
<1>3. ASSUME NEW i \in Items, MarkReconcile(i) \/ MarkPaused(i), UNCHANGED accountVars
      PROVE  RunTypeOK'
  BY <1>3 DEF MarkReconcile, MarkPaused, EndLease
<1>4. ASSUME NEW i \in Items, NEW s, Finalize(i, s), UNCHANGED accountVars
      PROVE  RunTypeOK'
  BY <1>4 DEF Finalize, EndLease
<1>5. ASSUME NEW ig, Start(ig)
      PROVE  RunTypeOK'
  BY <1>5, QuotaRows DEF Start, ResumeRows, ResetQuota, ResetQuotaOf
<1>6. CASE ResetWhileRunning
  BY <1>6, QuotaRows DEF ResetWhileRunning, ResetQuota, ResetQuotaOf
<1>7. CASE Pause \/ Stop
  BY <1>7 DEF Pause, Stop, SetAsideRows
<1>8. ASSUME NEW a \in Accounts, Disable(a)
      PROVE  RunTypeOK'
  BY <1>8 DEF Disable, ReleaseUnstarted
<1>9. ASSUME NEW a \in Accounts, Enable(a) \/ LogIn(a) \/ LoseLogin(a)
      PROVE  RunTypeOK'
  BY <1>9 DEF Enable, LogIn, LoseLogin, queueVars
<1>10. ASSUME NEW n \in Limits, SetLimit(n)
       PROVE  RunTypeOK'
  BY <1>10 DEF SetLimit
<1>11. CASE FinishIfIdle
  BY <1>11 DEF FinishIfIdle, IdleVerdict, Busy, RestVerdict
<1>12. CASE Startup
  BY <1>12 DEF Startup, SuspendedRun, Recovered
<1>13. CASE ClockTick /\ UNCHANGED accountVars
  <2>1. \A t \in Nat : Elapsed(t) \in 0 .. t
    BY DEF Elapsed
  <2> QED
    BY <1>13, <2>1, QuotaRows DEF ClockTick
<1>14. ASSUME NEW Ids \in SUBSET Items, RemoveGroups(Ids)
       PROVE  RunTypeOK'
  BY <1>14, VerdictIsState DEF RemoveGroups, WithoutRows
<1>15. CASE UNCHANGED dbVars
  BY <1>15 DEF dbVars, queueVars
<1> QED
  BY <1>1, <1>2, <1>3, <1>4, <1>5, <1>6, <1>7, <1>8, <1>9, <1>10, <1>11, <1>12,
     <1>13, <1>14, <1>15 DEF RunNext, Work, Operate, CommandRun, Configure, ChangeLogin

\* Type correctness of the run and its queue.
THEOREM TypeCorrect == RunSpec => []RunTypeOK
BY TypeInit, TypeNext, PTL DEF RunSpec

-----------------------------------------------------------------------------
(* The rows of the queue: who answers for them. *)

\* A fresh list is consistent with its accounts.
LEMMA PoolInit == RunInit => PoolConsistent
BY DEF RunInit, QueueInit, PoolConsistent, Started

\* Every transaction keeps the rows consistent with their accounts.
LEMMA PoolNext ==
    RunTypeOK /\ RunTypeOK' /\ PoolConsistent /\ [RunNext]_dbVars => PoolConsistent'
<1> SUFFICES ASSUME RunTypeOK, RunTypeOK', PoolConsistent, [RunNext]_dbVars
             PROVE  PoolConsistent'
    OBVIOUS
<1> USE DEF RunTypeOK, QueueTypeOK, WorkItemState, PoolConsistent, Started, itemVars,
            quotaVars, accountVars
<1>1. ASSUME NEW a \in Accounts, NEW i \in Items, NEW limit \in Limits,
             ClaimWithin(a, i, limit), UNCHANGED accountVars
      PROVE  PoolConsistent'
  BY <1>1 DEF ClaimWithin
<1>2. ASSUME NEW i \in Items, ScheduleRetry(i) \/ MarkReconcile(i) \/ MarkPaused(i)
      PROVE  PoolConsistent'
  BY <1>2 DEF ScheduleRetry, MarkReconcile, MarkPaused
<1>3. ASSUME NEW i \in Items, NEW s, Finalize(i, s)
      PROVE  PoolConsistent'
  BY <1>3 DEF Finalize
<1>4. ASSUME NEW ig, Start(ig)
      PROVE  PoolConsistent'
  BY <1>4 DEF Start, ResumeRows, BackToPool, BackToOwner, Active
<1>5. CASE Stop
  BY <1>5 DEF Stop, SetAsideRows
<1>6. ASSUME NEW a \in Accounts, Disable(a)
      PROVE  PoolConsistent'
  BY <1>6 DEF Disable, ReleaseUnstarted, ReleasedRows
<1>7. CASE Startup
  BY <1>7 DEF Startup, Recovered, ExpiredLeases
<1>8. CASE \/ ResetWhileRunning \/ Pause \/ FinishIfIdle
           \/ \E a \in Accounts : Enable(a) \/ LogIn(a) \/ LoseLogin(a)
           \/ \E n \in Limits : SetLimit(n)
           \/ UNCHANGED dbVars
  BY <1>8 DEF ResetWhileRunning, Pause, FinishIfIdle, Enable, LogIn, LoseLogin,
              SetLimit, dbVars, queueVars
<1>9. CASE ClockTick
  BY <1>9 DEF ClockTick
<1>10. ASSUME NEW Ids \in SUBSET Items, RemoveGroups(Ids)
      PROVE  PoolConsistent'
  BY <1>10 DEF RemoveGroups, WithoutRows
<1> QED
  BY <1>1, <1>2, <1>3, <1>4, <1>5, <1>6, <1>7, <1>8, <1>9, <1>10 DEF RunNext, Work, Operate,
     CommandRun, Configure, ChangeLogin

\* A started group is counted and has an account; a shared one has neither.
THEOREM PoolAlwaysConsistent == RunSpec => []PoolConsistent
BY TypeCorrect, PoolInit, PoolNext, PTL DEF RunSpec

\* One step never moves a started group to another account or to the pool.
LEMMA StepKeepsAccount ==
    ASSUME RunTypeOK, PoolConsistent, [RunNext]_dbVars, NEW i \in Items, Started(i)
    PROVE  itemAccount'[i] = itemAccount[i] /\ itemState'[i] # "waiting"
<1> DEFINE Goal == itemAccount'[i] = itemAccount[i] /\ itemState'[i] # "waiting"
<1> USE DEF RunTypeOK, QueueTypeOK, PoolConsistent, Started, itemVars, quotaVars
<1>1. ASSUME NEW a \in Accounts, NEW j \in Items, NEW limit \in Limits, ClaimWithin(a, j, limit)
      PROVE  Goal
  <2>1. i = j => itemAccount[i] = a
    BY <1>1 DEF ClaimWithin, IsNext, Candidates, OwnRows, SharedRows
  <2> QED
    BY <1>1, <2>1 DEF ClaimWithin
<1>2. ASSUME NEW j \in Items, ScheduleRetry(j) \/ MarkReconcile(j) \/ MarkPaused(j)
      PROVE  Goal
  BY <1>2 DEF ScheduleRetry, MarkReconcile, MarkPaused
<1>3. ASSUME NEW j \in Items, NEW s, Finalize(j, s)
      PROVE  Goal
  BY <1>3 DEF Finalize
<1>4. ASSUME NEW ig, Start(ig)
      PROVE  Goal
  BY <1>4 DEF Start, ResumeRows, BackToPool
<1>5. CASE Stop
  BY <1>5 DEF Stop, SetAsideRows
<1>6. ASSUME NEW a \in Accounts, Disable(a)
      PROVE  Goal
  BY <1>6 DEF Disable, ReleaseUnstarted, ReleasedRows
<1>7. CASE Startup
  BY <1>7 DEF Startup, Recovered
<1>8. CASE \/ ResetWhileRunning \/ Pause \/ FinishIfIdle \/ ClockTick
           \/ \E a \in Accounts : Enable(a) \/ LogIn(a) \/ LoseLogin(a)
           \/ \E n \in Limits : SetLimit(n)
           \/ UNCHANGED dbVars
  BY <1>8 DEF ResetWhileRunning, Pause, FinishIfIdle, ClockTick, Enable, LogIn, LoseLogin,
              SetLimit, dbVars, queueVars
<1>9. ASSUME NEW Ids \in SUBSET Items, RemoveGroups(Ids)
      PROVE  Goal
  BY <1>9 DEF RemoveGroups, WithoutRows
<1> QED
  BY <1>1, <1>2, <1>3, <1>4, <1>5, <1>6, <1>7, <1>8, <1>9 DEF RunNext, Work, Operate,
     CommandRun, Configure, ChangeLogin

\* A group is written to from one account for ever.
THEOREM AccountKept == RunSpec => OneAccountPerGroup
<1>1. RunTypeOK /\ PoolConsistent /\ [RunNext]_dbVars
        => [\A i \in Items : Started(i) =>
              /\ itemAccount'[i] = itemAccount[i]
              /\ itemState'[i] # "waiting"]_dbVars
  BY StepKeepsAccount
<1> QED
  BY <1>1, TypeCorrect, PoolAlwaysConsistent, PTL DEF RunSpec, OneAccountPerGroup

-----------------------------------------------------------------------------
(* Final and unresolved rows. *)

\* One step never reopens a group.
LEMMA StepReopensNothing ==
    ASSUME RunTypeOK, [RunNext]_dbVars, NEW i \in Items
    PROVE  /\ itemState[i] \in {"success", "failed"} => itemState'[i] = itemState[i]
           /\ itemState[i] = "reconcile_required"
                => itemState'[i] \in {"reconcile_required", "success", "failed", "absent"}
<1> DEFINE Goal ==
      /\ itemState[i] \in {"success", "failed"} => itemState'[i] = itemState[i]
      /\ itemState[i] = "reconcile_required"
            => itemState'[i] \in {"reconcile_required", "success", "failed", "absent"}
<1> USE DEF RunTypeOK, QueueTypeOK, itemVars
<1>1. ASSUME NEW a \in Accounts, NEW j \in Items, NEW limit \in Limits, ClaimWithin(a, j, limit)
      PROVE  Goal
  <2>1. itemState[j] \in {"assigned", "retry_wait", "waiting"}
    BY <1>1 DEF ClaimWithin, IsNext, Candidates, OwnRows, SharedRows
  <2> QED
    BY <1>1, <2>1 DEF ClaimWithin
<1>2. ASSUME NEW j \in Items, ScheduleRetry(j) \/ MarkReconcile(j) \/ MarkPaused(j)
      PROVE  Goal
  BY <1>2 DEF ScheduleRetry, MarkReconcile, MarkPaused
<1>3. ASSUME NEW j \in Items, NEW s, Finalize(j, s)
      PROVE  Goal
  BY <1>3 DEF Finalize
<1>4. ASSUME NEW ig, Start(ig)
      PROVE  Goal
  BY <1>4 DEF Start, ResumeRows, BackToPool, BackToOwner
<1>5. CASE Stop
  BY <1>5 DEF Stop, SetAsideRows
<1>6. ASSUME NEW a \in Accounts, Disable(a)
      PROVE  Goal
  BY <1>6 DEF Disable, ReleaseUnstarted, ReleasedRows
<1>7. CASE Startup
  BY <1>7 DEF Startup, Recovered, ExpiredLeases
<1>8. CASE \/ ResetWhileRunning \/ Pause \/ FinishIfIdle \/ ClockTick
           \/ \E a \in Accounts : Enable(a) \/ LogIn(a) \/ LoseLogin(a)
           \/ \E n \in Limits : SetLimit(n)
           \/ UNCHANGED dbVars
  BY <1>8 DEF ResetWhileRunning, Pause, FinishIfIdle, ClockTick, Enable, LogIn, LoseLogin,
              SetLimit, dbVars, queueVars
<1>9. ASSUME NEW Ids \in SUBSET Items, RemoveGroups(Ids)
      PROVE  Goal
  BY <1>9 DEF RemoveGroups, WithoutRows, Removable, Unbegun, InState
<1> QED
  BY <1>1, <1>2, <1>3, <1>4, <1>5, <1>6, <1>7, <1>8, <1>9 DEF RunNext, Work, Operate,
     CommandRun, Configure, ChangeLogin

\* Finished groups stay finished; unresolved ones are never claimed.
THEOREM NeverReopened == RunSpec => NoReopening
<1>1. RunTypeOK /\ [RunNext]_dbVars
        => [\A i \in Items :
              /\ itemState[i] \in {"success", "failed"} => itemState'[i] = itemState[i]
              /\ itemState[i] = "reconcile_required"
                    => itemState'[i] \in {"reconcile_required", "success", "failed", "absent"}]_dbVars
  BY StepReopensNothing
<1> QED
  BY <1>1, TypeCorrect, PTL DEF RunSpec, NoReopening

-----------------------------------------------------------------------------
(* The quota ledger. *)

\* The groups charged to an account can be counted.
LEMMA ChargedFinite == RunTypeOK => \A a \in Accounts : IsFiniteSet(charged[a])
BY FS_Subset DEF RunTypeOK, QueueTypeOK

\* A claim that charges the account adds its group to the account's window.
LEMMA ClaimLedger ==
    ASSUME RunTypeOK, PoolConsistent, QuotaLedger,
           NEW a \in Accounts, NEW i \in Items, NEW limit \in Nat,
           ClaimWithin(a, i, limit), NeedsQuota(i)
    PROVE  /\ quota'[a].left > 0 /\ quota'[a].consumed = Cardinality(charged'[a])
           /\ Cardinality(charged'[a]) <= limit
<1> USE DEF RunTypeOK, QueueTypeOK, quotaVars
<1>1. quota[a] \in Row /\ limit \in Nat
  OBVIOUS
<1>2. i \notin charged[a]
  BY DEF NeedsQuota, QuotaLedger, PoolConsistent
<1>3. /\ quota'[a] = Charge(quota[a])
      /\ charged'[a] = IF quota[a].left = 0 THEN {i} ELSE charged[a] \cup {i}
  BY DEF ClaimWithin
<1>4. Available(limit, quota[a]) > 0
  BY DEF ClaimWithin, HasQuota
<1>5. CASE quota[a].left = 0
  <2>1. Cardinality(charged'[a]) = 1
    BY <1>3, <1>5, FS_Singleton
  <2>2. quota'[a] = [left |-> Window, consumed |-> 1]
    BY <1>3, <1>5 DEF Charge
  <2>3. limit > 0
    BY <1>1, <1>4, <1>5 DEF Available, Consumed
  <2> QED
    BY <1>1, <2>1, <2>2, <2>3
<1>6. CASE quota[a].left # 0
  <2>1. IsFiniteSet(charged[a])
    BY ChargedFinite
  <2>2. Cardinality(charged'[a]) = Cardinality(charged[a]) + 1
    BY <1>2, <1>3, <1>6, <2>1, FS_AddElement
  <2>3. /\ quota'[a].left = quota[a].left
        /\ quota'[a].consumed = quota[a].consumed + 1
    BY <1>1, <1>3, <1>6 DEF Charge, Row
  <2>4. quota[a].left > 0 /\ quota[a].consumed = Cardinality(charged[a])
    BY <1>1, <1>6 DEF Row, QuotaLedger
  <2>5. limit > quota[a].consumed
    BY <1>1, <1>4, <1>6 DEF Available, Consumed, Row
  <2> QED
    BY <1>1, <2>2, <2>3, <2>4, <2>5 DEF Row
<1> QED
  BY <1>5, <1>6

\* No quota row is open in the initial states.
LEMMA LedgerInit == RunInit => QuotaLedger
BY DEF RunInit, QueueInit, NoRow, QuotaLedger

\* Every transaction keeps the ledger.
LEMMA LedgerNext ==
    RunTypeOK /\ PoolConsistent /\ QuotaLedger /\ [RunNext]_dbVars => QuotaLedger'
<1> SUFFICES ASSUME RunTypeOK, PoolConsistent, QuotaLedger, [RunNext]_dbVars
             PROVE  QuotaLedger'
    OBVIOUS
<1> USE DEF RunTypeOK, QueueTypeOK
<1>1. ASSUME NEW a \in Accounts, NEW i \in Items, NEW limit \in Limits, ClaimWithin(a, i, limit)
      PROVE  QuotaLedger'
  <2>1. ASSUME NEW b \in Accounts, NEW j \in charged'[b]
        PROVE  counted'[j]
    <3>1. counted' = [counted EXCEPT ![i] = TRUE]
      BY <1>1 DEF ClaimWithin
    <3>2. j \in charged[b] \/ j = i
      BY <1>1 DEF ClaimWithin, quotaVars
    <3> QED
      BY <3>1, <3>2 DEF QuotaLedger
  <2>2. ASSUME NEW b \in Accounts, quota'[b].left > 0
        PROVE  quota'[b].consumed = Cardinality(charged'[b])
    <3>1. CASE a = b /\ NeedsQuota(i)
      BY <1>1, <3>1, ClaimLedger
    <3>2. CASE ~(a = b /\ NeedsQuota(i))
      <4>1. quota'[b] = quota[b] /\ charged'[b] = charged[b]
        BY <1>1, <3>2 DEF ClaimWithin, quotaVars
      <4> QED
        BY <2>2, <4>1 DEF QuotaLedger
    <3> QED
      BY <3>1, <3>2
  <2> QED
    BY <2>1, <2>2 DEF QuotaLedger
<1>2. CASE ResetQuota /\ UNCHANGED counted
  <2>1. ASSUME NEW a \in Accounts
        PROVE  \/ quota'[a] = NoRow /\ charged'[a] = {}
               \/ quota'[a] = quota[a] /\ charged'[a] = charged[a]
    BY <1>2 DEF ResetQuota, ResetQuotaOf
  <2>2. ~ (NoRow.left > 0)
    BY DEF NoRow
  <2> QED
    BY <1>2, <2>1, <2>2 DEF QuotaLedger
<1>3. CASE UNCHANGED <<quota, charged, counted>>
  BY <1>3 DEF QuotaLedger
<1>4. CASE ClockTick
  <2>1. \A row \in Row : Elapse(row).left > 0 => row.left > 0 /\ Elapse(row).consumed = row.consumed
    BY DEF Row, Elapse
  <2> QED
    BY <1>4, <2>1 DEF ClockTick, QuotaLedger
<1>5. ASSUME NEW i \in Items, NEW s, \/ ScheduleRetry(i) \/ MarkReconcile(i)
                                     \/ MarkPaused(i) \/ Finalize(i, s)
      PROVE  QuotaLedger'
  BY <1>5, <1>3 DEF ScheduleRetry, MarkReconcile, MarkPaused, Finalize, quotaVars
<1>6. ASSUME NEW ig, Start(ig)
      PROVE  QuotaLedger'
  BY <1>2, <1>3, <1>6 DEF Start, ResumeRows, quotaVars
<1>7. CASE ResetWhileRunning
  BY <1>2, <1>7 DEF ResetWhileRunning, itemVars
<1>8. CASE Pause \/ Stop \/ FinishIfIdle \/ Startup
  BY <1>3, <1>8 DEF Pause, Stop, SetAsideRows, FinishIfIdle, Startup, itemVars, quotaVars
<1>9. CASE \/ \E a \in Accounts : Disable(a) \/ Enable(a) \/ LogIn(a) \/ LoseLogin(a)
           \/ \E n \in Limits : SetLimit(n)
           \/ UNCHANGED dbVars
  BY <1>3, <1>9 DEF Disable, ReleaseUnstarted, Enable, LogIn, LoseLogin, SetLimit,
                    dbVars, queueVars, itemVars, quotaVars
<1>10. ASSUME NEW Ids \in SUBSET Items, RemoveGroups(Ids)
      PROVE  QuotaLedger'
  BY <1>3, <1>10 DEF RemoveGroups, quotaVars
<1> QED
  BY <1>1, <1>4, <1>5, <1>6, <1>7, <1>8, <1>9, <1>10 DEF RunNext, Work, Operate,
     CommandRun, Configure, ChangeLogin

\* The quota rows count the groups begun in the window, each once.
THEOREM LedgerKept == RunSpec => []QuotaLedger
BY LedgerInit, LedgerNext, TypeCorrect, PoolAlwaysConsistent, PTL DEF RunSpec
=============================================================================
