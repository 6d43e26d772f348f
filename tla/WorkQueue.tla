----------------------------- MODULE WorkQueue -----------------------------
(***************************************************************************)
(* The persistent outreach queue (services/queue.py) of one run: the rows  *)
(* of work_items, the account quotas, and every transaction that           *)
(* QueueRepository runs on them.  Each action below is one SQLite write    *)
(* transaction.  Timestamps are kept as the time left until they pass;     *)
(* started_at is set by the statement that makes attempts_count positive   *)
(* and by no other, so "started" is attempts > 0.                          *)
(***************************************************************************)
EXTENDS Quota, FiniteSets

CONSTANTS Accounts,     \* ids of the VK accounts
          Items,        \* ids of the work items of the run, in insertion order
          NoAccount,    \* assigned_account_id IS NULL
          LeaseTime,    \* lease_seconds of a claim
          RetryDelay,   \* delay until a scheduled retry is due
          ClaimBound    \* model bound: claims of one item that are explored

ASSUME QueueAssumption ==
    /\ Items \subseteq Nat \ {0} /\ IsFiniteSet(Items)
    /\ NoAccount \notin Accounts
    /\ LeaseTime \in Nat \ {0} /\ RetryDelay \in Nat \ {0}
    /\ ClaimBound \in Nat

VARIABLES
    itemState,      \* work_items.state
    itemAccount,    \* work_items.assigned_account_id
    counted,        \* work_items.quota_counted_at IS NOT NULL
    attempts,       \* work_items.attempts_count
    leaseLeft,      \* time until lease_expires_at, 0 when passed or NULL
    retryIn,        \* time until next_retry_at, 0 when passed or NULL
    runState,       \* runs.state of the run the items belong to
    quota,          \* the account_quotas rows
    dailyLimit,     \* setting max_groups_per_account
    charged         \* history: the items charged in the account's last window

itemVars  == <<itemState, itemAccount, counted, attempts, leaseLeft, retryIn>>
quotaVars == <<quota, charged>>
queueVars == <<itemVars, runState, quotaVars, dailyLimit>>

\* "absent": there is no such row.
WorkItemState == {"waiting", "assigned", "processing", "retry_wait",
                  "reconcile_required", "paused", "success", "failed", "absent"}
RunState == {"draft", "running", "paused", "stopped", "waiting_limit",
             "needs_attention", "requires_login", "completed"}

QueueTypeOK ==
    /\ itemState \in [Items -> WorkItemState]
    /\ itemAccount \in [Items -> Accounts \cup {NoAccount}]
    /\ counted \in [Items -> BOOLEAN]
    /\ attempts \in [Items -> Nat]
    /\ leaseLeft \in [Items -> 0 .. LeaseTime]
    /\ retryIn \in [Items -> 0 .. RetryDelay]
    /\ runState \in RunState
    /\ quota \in [Accounts -> Row]
    /\ dailyLimit \in Nat
    /\ charged \in [Accounts -> SUBSET Items]

Started(i) == attempts[i] > 0

\* Freshly imported rows; an item of a database that v0.4.0 left behind may be
\* assigned in advance, unstarted and uncounted.
QueueInit ==
    /\ itemAccount \in [Items -> Accounts \cup {NoAccount}]
    /\ itemState = [i \in Items |->
            IF itemAccount[i] = NoAccount THEN "waiting" ELSE "assigned"]
    /\ counted = [i \in Items |-> FALSE]
    /\ attempts = [i \in Items |-> 0]
    /\ leaseLeft = [i \in Items |-> 0]
    /\ retryIn = [i \in Items |-> 0]
    /\ runState = "draft"
    /\ quota = [a \in Accounts |-> NoRow]
    /\ charged = [a \in Accounts |-> {}]

-----------------------------------------------------------------------------
(* claim_next *)

\* Mutant: an unresolved row is claimed like a retry.
OwnRowsAndUnresolved(a, isCounted) ==
    {i \in Items : /\ itemAccount[i] = a /\ counted[i] = isCounted
                   /\ itemState[i] \in {"assigned", "retry_wait", "reconcile_required"}
                   /\ retryIn[i] = 0}
\* Mutant: a retry that is due is looked up with the unstarted rows only.
OwnRowsWithoutRetries(a, isCounted) ==
    {i \in Items : itemAccount[i] = a /\ counted[i] = isCounted /\ itemState[i] = "assigned"}

\* The three SELECTs of claim_next, in the order the code tries them.
OwnRows(a, isCounted) ==
    {i \in Items : /\ itemAccount[i] = a /\ counted[i] = isCounted
                   /\ itemState[i] \in {"assigned", "retry_wait"}
                   /\ retryIn[i] = 0}

\* Mutant: the claim does not look whether another worker is at work on the row.
SharedRowsInWork == {i \in Items : itemState[i] \in {"waiting", "processing"}}

SharedRows == {i \in Items : itemState[i] = "waiting" /\ itemAccount[i] = NoAccount}

RunClaimable == runState \in {"running", "waiting_limit"}

Candidates(a) ==
    IF ~RunClaimable THEN {}
    ELSE IF OwnRows(a, TRUE) # {} THEN OwnRows(a, TRUE)
    ELSE IF OwnRows(a, FALSE) # {} THEN OwnRows(a, FALSE)
    ELSE SharedRows

\* The row ORDER BY id LIMIT 1 picks.
IsNext(a, i) == i \in Candidates(a) /\ \A j \in Candidates(a) : i <= j

\* Mutant: every claim costs a unit, a retry too.
NeedsQuotaAlways(i) == TRUE
\* Mutant: one group more than the limit.
HasQuotaAtLimit(a, limit) == Consumed(quota[a]) <= limit

NeedsQuota(i) == ~counted[i] \/ itemState[i] = "waiting"
HasQuota(a, limit) == Available(limit, quota[a]) > 0

\* The claim that returns item i to a worker of account a.  The worker has read
\* the limit before, in a transaction of its own; it may have been changed since.
ClaimWithin(a, i, limit) ==
    /\ IsNext(a, i)
    /\ attempts[i] < ClaimBound
    /\ NeedsQuota(i) => HasQuota(a, limit)
    /\ IF NeedsQuota(i)
         THEN /\ quota' = [quota EXCEPT ![a] = Charge(@)]
              /\ charged' = [charged EXCEPT ![a] =
                                IF quota[a].left = 0 THEN {i} ELSE @ \cup {i}]
         ELSE UNCHANGED quotaVars
    /\ itemState' = [itemState EXCEPT ![i] = "processing"]
    /\ itemAccount' = [itemAccount EXCEPT ![i] = a]
    /\ counted' = [counted EXCEPT ![i] = TRUE]
    /\ attempts' = [attempts EXCEPT ![i] = @ + 1]
    /\ leaseLeft' = [leaseLeft EXCEPT ![i] = LeaseTime]
    /\ runState' = IF runState = "waiting_limit" THEN "running" ELSE runState
    /\ UNCHANGED <<retryIn, dailyLimit>>

\* claim_next returns None: no row, or the first row needs a unit there is not.
NothingWithin(a, limit) ==
    \A i \in Items : IsNext(a, i) => NeedsQuota(i) /\ ~HasQuota(a, limit)

-----------------------------------------------------------------------------
(* The transactions that end a claim, and the two bulk updates. *)

EndLease(i) == leaseLeft' = [leaseLeft EXCEPT ![i] = 0]

ScheduleRetry(i) ==
    /\ itemState[i] = "processing"
    /\ itemState' = [itemState EXCEPT ![i] = "retry_wait"]
    /\ retryIn' = [retryIn EXCEPT ![i] = RetryDelay]
    /\ EndLease(i)
    /\ UNCHANGED <<itemAccount, counted, attempts, runState, quotaVars, dailyLimit>>

MarkReconcile(i) ==
    /\ itemState[i] = "processing"
    /\ itemState' = [itemState EXCEPT ![i] = "reconcile_required"]
    /\ EndLease(i)
    /\ UNCHANGED <<itemAccount, counted, attempts, retryIn, runState, quotaVars, dailyLimit>>

MarkPaused(i) ==
    /\ itemState[i] = "processing"
    /\ itemState' = [itemState EXCEPT ![i] = "paused"]
    /\ EndLease(i)
    /\ UNCHANGED <<itemAccount, counted, attempts, retryIn, runState, quotaVars, dailyLimit>>

Finalize(i, final) ==
    /\ final \in {"success", "failed"}
    /\ itemState[i] \in {"processing", "reconcile_required"}
    /\ itemState' = [itemState EXCEPT ![i] = final]
    /\ retryIn' = [retryIn EXCEPT ![i] = 0]
    /\ EndLease(i)
    /\ UNCHANGED <<itemAccount, counted, attempts, runState, quotaVars, dailyLimit>>

\* recover_expired and release_unstarted, as the sets of rows they update.
ExpiredLeases == {i \in Items : itemState[i] = "processing" /\ leaseLeft[i] = 0}
ReleasedRows(a) ==
    {i \in Items : itemAccount[i] = a /\ itemState[i] = "assigned" /\ ~counted[i]}

ReleaseUnstarted(a) ==
    /\ itemState' = [i \in Items |-> IF i \in ReleasedRows(a) THEN "waiting" ELSE itemState[i]]
    /\ itemAccount' = [i \in Items |-> IF i \in ReleasedRows(a) THEN NoAccount ELSE itemAccount[i]]
    /\ leaseLeft' = [i \in Items |-> IF i \in ReleasedRows(a) THEN 0 ELSE leaseLeft[i]]
    /\ UNCHANGED <<counted, attempts, retryIn, runState, quotaVars, dailyLimit>>

\* Time passes for the leases, the retry delays and the quota windows.
Elapsed(t) == IF t = 0 THEN 0 ELSE t - 1
ClockTick ==
    /\ leaseLeft' = [i \in Items |-> Elapsed(leaseLeft[i])]
    /\ retryIn' = [i \in Items |-> Elapsed(retryIn[i])]
    /\ quota' = [a \in Accounts |-> Elapse(quota[a])]
    /\ UNCHANGED <<itemState, itemAccount, counted, attempts, runState, dailyLimit, charged>>
=============================================================================
