----------------------------- MODULE RunService ----------------------------
(***************************************************************************)
(* The life of a run (services/runs.py) over the persistent queue, with    *)
(* the operator's commands on runs, groups and accounts.  Its              *)
(* specification, RunSpec, is also the abstract view of the whole program: *)
(* the database as it changes from one transaction to the next, with       *)
(* workers that claim rows and settle them in any way the queue allows.    *)
(* Module Outreach implements it with the processor, the supervisor and    *)
(* crashes.                                                                *)
(***************************************************************************)
EXTENDS WorkQueue

CONSTANT Limits     \* values of max_groups_per_account the operator may set

ASSUME RunAssumption == Limits \subseteq Nat

VARIABLES
    enabled,        \* accounts.enabled
    authOk          \* accounts.auth_status = "ok"

accountVars == <<enabled, authOk>>
dbVars == <<queueVars, accountVars>>

RunTypeOK ==
    /\ QueueTypeOK
    /\ dailyLimit \in Limits
    /\ enabled \in [Accounts -> BOOLEAN]
    /\ authOk \in [Accounts -> BOOLEAN]

RunInit ==
    /\ QueueInit
    /\ dailyLimit \in Limits
    /\ enabled = [a \in Accounts |-> TRUE]
    /\ authOk = [a \in Accounts |-> TRUE]

Active == {a \in Accounts : enabled[a] /\ authOk[a]}
AnyAvailable == \E a \in Active : HasQuota(a, dailyLimit)
InState(S) == {i \in Items : itemState[i] \in S}

-----------------------------------------------------------------------------
(* start, resume, pause, stop *)

Resumable == {"draft", "paused", "stopped", "waiting_limit",
              "needs_attention", "requires_login"}

\* quota.reset of the participating accounts deletes their rows.
ResetQuotaOf(S) ==
    /\ quota' = [a \in Accounts |-> IF a \in S THEN NoRow ELSE quota[a]]
    /\ charged' = [a \in Accounts |-> IF a \in S THEN {} ELSE charged[a]]
ResetQuota == ResetQuotaOf(Active)

\* Start with "ignore limits" while the run is already running: only the
\* quota of the active accounts is reset.
ResetWhileRunning ==
    /\ runState = "running"
    /\ ResetQuota
    /\ UNCHANGED <<itemVars, runState, dailyLimit, accountVars>>

\* Mutant: a stopped group goes back to the pool although it has begun.
BackToPoolBegun(i, state) ==
    \/ ~Started(i) /\ itemState[i] = "assigned"
    \/ state = "stopped" /\ itemState[i] = "paused"
\* Mutant: a start leaves the groups set aside by a stop where they are.
BackToPoolAssigned(i, state) == ~Started(i) /\ itemState[i] = "assigned"
BackToPool(i, state) ==         \* assigned in advance, or stopped before it began
    /\ ~Started(i)
    /\ \/ itemState[i] = "assigned"
       \/ state = "stopped" /\ itemState[i] = "paused"
BackToOwner(i, state, S) ==     \* begun before the stop: stays with the same account
    /\ Started(i) /\ state = "stopped" /\ itemState[i] = "paused"
    /\ itemAccount[i] \in S

\* What start does to the rows of a run it found in a state, with the accounts S.
ResumeRows(state, S) ==
    /\ itemState' = [i \in Items |->
            IF BackToPool(i, state) THEN "waiting"
            ELSE IF BackToOwner(i, state, S) THEN "assigned" ELSE itemState[i]]
    /\ itemAccount' = [i \in Items |->
            IF BackToPool(i, state) THEN NoAccount ELSE itemAccount[i]]
    /\ UNCHANGED <<counted, attempts, leaseLeft, retryIn>>

Start(ignoreLimits) ==
    /\ runState \in Resumable
    /\ Active # {}
    /\ ignoreLimits \/ runState # "waiting_limit" \/ AnyAvailable
    /\ IF ignoreLimits THEN ResetQuota ELSE UNCHANGED quotaVars
    /\ ResumeRows(runState, Active)
    /\ runState' = "running"
    /\ UNCHANGED <<dailyLimit, accountVars>>

Pause ==
    /\ runState \in {"running", "waiting_limit"}
    /\ runState' = "paused"
    /\ UNCHANGED <<itemVars, quotaVars, dailyLimit, accountVars>>

Stoppable == {"running", "paused", "waiting_limit", "needs_attention", "requires_login"}

SetAsideRows ==
    /\ itemState' = [i \in Items |->
            IF ~Started(i) /\ itemState[i] \in {"waiting", "assigned", "paused"}
            THEN "paused" ELSE itemState[i]]
    /\ UNCHANGED <<itemAccount, counted, attempts, leaseLeft, retryIn>>

Stop ==
    /\ runState \in Stoppable
    /\ runState' = "stopped"
    /\ SetAsideRows
    /\ UNCHANGED <<quotaVars, dailyLimit, accountVars>>

-----------------------------------------------------------------------------
(* What the program does to the run on its own. *)

\* Mutant: an unresolved group counts as work in progress.
IdleVerdictUnresolved ==
    IF InState({"assigned", "processing", "retry_wait", "reconcile_required"}) # {} THEN "running"
    ELSE IF InState({"waiting"}) # {} THEN "waiting_limit"
    ELSE IF InState({"paused"}) # {} THEN "needs_attention" ELSE "completed"

\* The state finish_if_idle gives a running run: whether its workers are busy,
\* and the rest of its reads.
Busy == InState({"assigned", "processing", "retry_wait"}) # {}
RestVerdict ==
    IF InState({"waiting"}) # {}
      THEN IF Active = {} THEN "requires_login"
           ELSE IF AnyAvailable THEN "running" ELSE "waiting_limit"
    ELSE IF InState({"reconcile_required", "paused"}) # {} THEN "needs_attention"
    ELSE "completed"
IdleVerdict == IF Busy THEN "running" ELSE RestVerdict

FinishIfIdle ==
    /\ runState = "running"
    /\ runState' = IdleVerdict
    /\ UNCHANGED <<itemVars, quotaVars, dailyLimit, accountVars>>

\* Mutants: the run goes on after a restart; an interrupted group is tried again.
RunKept == runState
TriedAgain(i) == IF i \in ExpiredLeases THEN "retry_wait" ELSE itemState[i]

\* Application start: suspend_unconfirmed_on_startup, then recover_expired.
SuspendedRun == IF RunClaimable THEN "paused" ELSE runState
Recovered(i) == IF i \in ExpiredLeases THEN "reconcile_required" ELSE itemState[i]

Startup ==
    /\ runState' = SuspendedRun
    /\ itemState' = [i \in Items |-> Recovered(i)]
    /\ UNCHANGED <<itemAccount, counted, attempts, leaseLeft, retryIn,
                   quotaVars, dailyLimit, accountVars>>

-----------------------------------------------------------------------------
(* The operator's changes of accounts and settings. *)

Disable(a) ==
    /\ enabled[a]
    /\ enabled' = [enabled EXCEPT ![a] = FALSE]
    /\ ReleaseUnstarted(a)
    /\ UNCHANGED authOk

Enable(a) ==
    /\ ~enabled[a]
    /\ enabled' = [enabled EXCEPT ![a] = TRUE]
    /\ UNCHANGED <<queueVars, authOk>>

LogIn(a) ==         \* a completed authorization is persisted
    /\ authOk' = [authOk EXCEPT ![a] = TRUE]
    /\ UNCHANGED <<queueVars, enabled>>

LoseLogin(a) ==     \* auth_status becomes requires_login
    /\ authOk' = [authOk EXCEPT ![a] = FALSE]
    /\ UNCHANGED <<queueVars, enabled>>

SetLimit(n) ==
    /\ dailyLimit' = n
    /\ UNCHANGED <<itemVars, runState, quotaVars, accountVars>>

-----------------------------------------------------------------------------
(* remove_groups: rows are deleted and the run is counted again. *)

OpenStates == {"waiting", "assigned", "processing", "retry_wait",
               "reconcile_required", "paused"}
Open == InState(OpenStates)
Unbegun == {i \in InState({"waiting", "assigned", "paused"}) : ~Started(i)}
Removable == Unbegun \cup InState({"reconcile_required"})

\* Mutant: paused groups are not counted as remaining.
VerdictWithoutPaused(rows, state) ==
    IF \A i \in Items : rows[i] \notin OpenStates \ {"paused"} THEN "completed" ELSE state

\* The state reconcile_state gives a run with such rows that it has loaded in a
\* state: waiting groups make it run, whatever it was, a paused or stopped run too.
ReconcileVerdict(rows, state) ==
    LET some(S) == \E i \in Items : rows[i] \in S
    IN  IF ~some(OpenStates) THEN "completed"
        ELSE IF some({"waiting"})
          THEN IF Active = {} THEN "requires_login"
               ELSE IF AnyAvailable THEN "running" ELSE "waiting_limit"
        ELSE IF some({"reconcile_required", "paused"}) THEN "needs_attention"
        ELSE state

\* The rows of a request whose Removable ones are deleted.
WithoutRows(Ids) == [i \in Items |-> IF i \in Ids \cap Removable THEN "absent" ELSE itemState[i]]

\* The request when nothing comes between its steps (ListEditing and RunControl
\* let things come between them).  The quota keeps what it counted for a row.
RemoveGroups(Ids) ==
    /\ Ids \cap Removable # {}
    /\ itemState' = WithoutRows(Ids)
    /\ runState' = ReconcileVerdict(WithoutRows(Ids), runState)
    /\ UNCHANGED <<itemAccount, counted, attempts, leaseLeft, retryIn,
                   quotaVars, dailyLimit, accountVars>>

-----------------------------------------------------------------------------
\* A worker claims a row with the limit it has read at some time, or settles a
\* row it holds.
Work ==
    /\ \/ \E a \in Accounts, i \in Items, limit \in Limits : ClaimWithin(a, i, limit)
       \/ \E i \in Items : \/ ScheduleRetry(i) \/ MarkReconcile(i) \/ MarkPaused(i)
                           \/ \E s \in {"success", "failed"} : Finalize(i, s)
    /\ UNCHANGED accountVars

\* The operator's commands on the run, the settings and accounts he changes, and
\* what becomes of a login.
CommandRun ==
    \/ \E ig \in BOOLEAN : Start(ig)
    \/ ResetWhileRunning
    \/ Pause
    \/ Stop
Configure ==
    \/ \E a \in Accounts : Disable(a) \/ Enable(a)
    \/ \E n \in Limits : SetLimit(n)
ChangeLogin == \E a \in Accounts : LogIn(a) \/ LoseLogin(a)

Operate ==
    \/ CommandRun \/ Configure \/ ChangeLogin
    \/ \E Ids \in SUBSET Items : RemoveGroups(Ids)

RunNext ==
    \/ Work
    \/ Operate
    \/ FinishIfIdle
    \/ Startup
    \/ ClockTick /\ UNCHANGED accountVars

RunSpec == RunInit /\ [][RunNext]_dbVars

-----------------------------------------------------------------------------
\* Every account is charged exactly one unit for each group it began in its
\* open window, and the group remembers it: a retry, a stop and a restart never
\* charge it again (claim_next with reserve_quota_on_connection).
QuotaLedger ==
    \A a \in Accounts :
        /\ \A i \in charged[a] : counted[i]
        /\ quota[a].left > 0 => quota[a].consumed = Cardinality(charged[a])

\* A group that an account has begun is never handed to another account, nor
\* back to the shared pool, whatever sequence of retries, stops, starts,
\* account changes and restarts follows (runs.py: already-started work remains
\* bound to the same account).
OneAccountPerGroup ==
    [][\A i \in Items : Started(i) =>
          /\ itemAccount'[i] = itemAccount[i]
          /\ itemState'[i] # "waiting"]_dbVars

\* A group that is not shared has an account that answers for it, a started
\* one is counted against a quota, and a shared one has neither.
PoolConsistent ==
    \A i \in Items :
        /\ itemState[i] = "waiting" => itemAccount[i] = NoAccount /\ ~Started(i)
        /\ itemState[i] \in {"assigned", "processing", "retry_wait",
                             "reconcile_required", "success", "failed"}
              => itemAccount[i] \in Accounts
        /\ Started(i) <=> counted[i]

\* A finished or unresolved group is never claimed again: success and failed
\* are final, and reconcile_required is left only by a finalization or by the
\* removal of the group.
NoReopening ==
    [][\A i \in Items :
          /\ itemState[i] \in {"success", "failed"} => itemState'[i] = itemState[i]
          /\ itemState[i] = "reconcile_required"
                => itemState'[i] \in {"reconcile_required", "success", "failed", "absent"}]_dbVars
=============================================================================
