------------------------------ MODULE Outreach -----------------------------
(***************************************************************************)
(* The running program: the processor that sends one group's message       *)
(* (services/processor.py), one worker task per account and the supervisor *)
(* that spawns and cancels them (workers/supervisor.py), VK's answers      *)
(* (vk/client.py), the operator, and the death and restart of the process. *)
(*                                                                         *)
(* Workers and the supervisor are tasks of one event loop: a task keeps    *)
(* the loop from one await to the next.  Operator requests run on other    *)
(* threads, and a crash can come anywhere, so each transaction between     *)
(* two awaits is a step of its own.                                        *)
(***************************************************************************)
EXTENDS RunService

CONSTANTS NoItem,
          MaxAttempts,  \* setting retry_max_attempts
          Replies,      \* the kinds of answer VK gives
          Events        \* the operator's and environment's events explored

\* How an answer of VK counts for the processor:
\*   sent       the id of the message or post came back
\*   denied     a final refusal (codes 15, 18, 100, 214, 900 .. 902)
\*   temporary  VK refused for now (6, 9, 10, or a code nobody classified)
\*   timeout    no usable answer, classed as retryable: a timeout, HTTP 5xx,
\*              or a reply without the id; VK may have acted
\*   network    no usable answer, classed as ambiguous: a network error or an
\*              invalid response; VK may have acted
\*   auth       the token was refused, or VK asked for a captcha
VkReply == {"sent", "denied", "temporary", "timeout", "network", "auth"}
AllEvents == {"pause", "stop", "reset", "remove", "disable", "limit", "login",
              "health", "crash", "error"}

ASSUME OutreachAssumption ==
    /\ NoItem \notin Items
    /\ MaxAttempts \in Nat \ {0}
    /\ Replies \subseteq VkReply
    /\ Events \subseteq AllEvents

VARIABLES
    up,             \* the core process runs
    pc,             \* where each account's worker task is
    limitRead,      \* the daily limit it read before its last claim
    cur,            \* the item it has claimed
    reply,          \* the answer it received and has not yet saved
    retried,        \* run_vk already repeated this call with a fresh token
    resMsg,         \* results.message_state
    resSug,         \* results.suggested_state
    outcome,        \* results.outcome
    seen,           \* kinds of answer in the item's send_attempts
    processed,      \* accounts.processed_count
    delivered,      \* history: messages and posts of the item VK published
    inDoubt,        \* history: an answer for the item was or may have been lost
    setGoing        \* history: no pause, stop or restart came since a Start, a
                    \* Resume or the recount after a removal set the run going

workerVars == <<pc, limitRead, cur, reply, retried>>
resultVars == <<resMsg, resSug, outcome, seen, processed>>
historyVars == <<delivered, inDoubt, setGoing>>
vars == <<dbVars, up, workerVars, resultVars, historyVars>>

\* "loop" and "wait" are awaits: the sleep between groups and the VK call.
Parked == {"off", "loop", "wait"}
BeforeClaim == {"off", "loop", "limit", "claim"}
PC == Parked \cup BeforeClaim \cup {"finish", "save", "decide", "finalize", "count", "park"}
AttemptState == {"not_attempted", "sent", "failed_final", "temporary_error", "auth_required"}
Outcomes == {"pending", "success", "failed"}

OutreachTypeOK ==
    /\ RunTypeOK
    /\ up \in BOOLEAN
    /\ pc \in [Accounts -> PC]
    /\ limitRead \in [Accounts -> Limits]
    /\ cur \in [Accounts -> Items \cup {NoItem}]
    /\ reply \in [Accounts -> VkReply \cup {"none"}]
    /\ retried \in [Accounts -> BOOLEAN]
    /\ resMsg \in [Items -> AttemptState]
    /\ resSug \in [Items -> AttemptState]
    /\ outcome \in [Items -> Outcomes]
    /\ seen \in [Items -> SUBSET VkReply]
    /\ processed \in [Accounts -> Nat]
    /\ delivered \in [Items -> Nat]
    /\ inDoubt \in [Items -> BOOLEAN]
    /\ setGoing \in BOOLEAN

OutreachInit ==
    /\ RunInit
    /\ up = TRUE
    /\ pc = [a \in Accounts |-> "off"]
    /\ limitRead = [a \in Accounts |-> dailyLimit]
    /\ cur = [a \in Accounts |-> NoItem]
    /\ reply = [a \in Accounts |-> "none"]
    /\ retried = [a \in Accounts |-> FALSE]
    /\ resMsg = [i \in Items |-> "not_attempted"]
    /\ resSug = [i \in Items |-> "not_attempted"]
    /\ outcome = [i \in Items |-> "pending"]
    /\ seen = [i \in Items |-> {}]
    /\ processed = [a \in Accounts |-> 0]
    /\ delivered = [i \in Items |-> 0]
    /\ inDoubt = [i \in Items |-> FALSE]
    /\ setGoing = FALSE

-----------------------------------------------------------------------------
(* Pure rules of the processor. *)

\* Mutant: a temporary answer is final.
StateFinal(kind) == IF kind = "sent" THEN "sent" ELSE "failed_final"

StateOf(kind) == CASE kind = "sent" -> "sent"
                   [] kind = "denied" -> "failed_final"
                   [] kind = "auth" -> "auth_required"
                   [] OTHER -> "temporary_error"

Final == {"sent", "failed_final"}

\* Mutant: one final failure decides, whatever the other direction did.
OutcomeFailsFirst(msg, sug) ==
    IF "failed_final" \in {msg, sug} THEN "failed"
    ELSE IF "sent" \in {msg, sug} THEN "success" ELSE "pending"

\* calculate_outcome
OutcomeOf(msg, sug) ==
    IF "sent" \in {msg, sug} THEN "success"
    ELSE IF {msg, sug} = {"failed_final"} THEN "failed" ELSE "pending"

\* The direction tried next: the suggested post only once LS is finally denied.
Direction(i) == IF resMsg[i] = "failed_final" THEN "suggested" ELSE "message"

\* Whether VK may have published something when the call of item i ended so.
MayPublish(i, kind) ==
    \/ kind \in {"sent", "timeout", "network"}
         /\ delivered' = [delivered EXCEPT ![i] = @ + 1]
    \/ kind # "sent" /\ UNCHANGED delivered

LoopFree(a) == \A b \in Accounts \ {a} : pc[b] \in Parked

-----------------------------------------------------------------------------
(* One worker: _account_loop around process_next. *)

LoopCheck(a) ==
    /\ up /\ pc[a] = "loop" /\ LoopFree(a)
    /\ pc' = [pc EXCEPT ![a] =
                IF a \in Active /\ runState = "running" THEN "limit" ELSE "off"]
    /\ UNCHANGED <<dbVars, up, limitRead, cur, reply, retried, resultVars, historyVars>>

\* process_next reads the settings in a transaction of its own.
ReadLimit(a) ==
    /\ up /\ pc[a] = "limit"
    /\ limitRead' = [limitRead EXCEPT ![a] = dailyLimit]
    /\ pc' = [pc EXCEPT ![a] = "claim"]
    /\ UNCHANGED <<dbVars, up, cur, reply, retried, resultVars, historyVars>>

\* claim_next, then the branch on the saved Result: nothing is sent again in a
\* direction that already has a final state.
Claim(a) ==
    /\ up /\ pc[a] = "claim"
    /\ \E i \in Items :
         /\ ClaimWithin(a, i, limitRead[a])
         /\ cur' = [cur EXCEPT ![a] = i]
         /\ pc' = [pc EXCEPT ![a] =
                IF OutcomeOf(resMsg[i], resSug[i]) = "pending" THEN "wait" ELSE "decide"]
    /\ retried' = [retried EXCEPT ![a] = FALSE]
    /\ UNCHANGED <<accountVars, up, limitRead, reply, resultVars, historyVars>>

ClaimNothing(a) ==
    /\ up /\ pc[a] = "claim"
    /\ NothingWithin(a, limitRead[a])
    /\ pc' = [pc EXCEPT ![a] = "loop"]
    /\ UNCHANGED <<dbVars, up, limitRead, cur, reply, retried, resultVars, historyVars>>

\* run_vk, first answer auth_required: the same call is made once more, with the
\* token of a refresh, which marks the account ok, or with the one that is stored
\* when another call has replaced it meanwhile.
TokenRefreshed(a) ==
    /\ up /\ pc[a] = "wait" /\ LoopFree(a)
    /\ "auth" \in Replies /\ ~retried[a]
    /\ retried' = [retried EXCEPT ![a] = TRUE]
    /\ LogIn(a) \/ UNCHANGED dbVars
    /\ UNCHANGED <<up, pc, limitRead, cur, reply, resultVars, historyVars>>

\* The VK call returns its result.  An auth result of the first call means the
\* refresh failed, which marks the account unless the refresh was refused
\* before it began (the browser profile is in use).
VkAnswer(a, kind) ==
    /\ up /\ pc[a] = "wait" /\ LoopFree(a)
    /\ reply' = [reply EXCEPT ![a] = kind]
    /\ MayPublish(cur[a], kind)
    /\ inDoubt' = [inDoubt EXCEPT ![cur[a]] = @ \/ kind = "network"]
    /\ pc' = [pc EXCEPT ![a] = "finish"]
    /\ \/ kind = "auth" /\ ~retried[a] /\ LoseLogin(a)
       \/ UNCHANGED dbVars
    /\ UNCHANGED <<up, limitRead, cur, retried, resultVars, setGoing>>

FinishAttempt(a) ==
    /\ up /\ pc[a] = "finish"
    /\ seen' = [seen EXCEPT ![cur[a]] = @ \cup {reply[a]}]
    /\ pc' = [pc EXCEPT ![a] = "save"]
    /\ UNCHANGED <<dbVars, up, limitRead, cur, reply, retried, resMsg, resSug, outcome,
                   processed, historyVars>>

\* _save_direction; a final LS denial leads straight to the suggested post.
SaveDirection(a) ==
    LET i == cur[a]
        trySuggested == Direction(i) = "message" /\ reply[a] = "denied" /\ resSug[i] \notin Final
    IN  /\ up /\ pc[a] = "save"
        /\ IF Direction(i) = "message"
             THEN resMsg' = [resMsg EXCEPT ![i] = StateOf(reply[a])] /\ UNCHANGED resSug
             ELSE resSug' = [resSug EXCEPT ![i] = StateOf(reply[a])] /\ UNCHANGED resMsg
        /\ reply' = [reply EXCEPT ![a] = "none"]
        /\ retried' = [retried EXCEPT ![a] = FALSE]
        /\ pc' = [pc EXCEPT ![a] = IF trySuggested THEN "wait" ELSE "decide"]
        /\ UNCHANGED <<dbVars, up, limitRead, cur, outcome, seen, processed, historyVars>>

-----------------------------------------------------------------------------
(* The decision after the directions tried, and the writes it leads to. *)

Verdict(a) == OutcomeOf(resMsg[cur[a]], resSug[cur[a]])

\* _set_final_result of a decided group.
SetFinalResult(a) ==
    /\ up /\ pc[a] = "decide"
    /\ Verdict(a) # "pending"
    /\ outcome' = [outcome EXCEPT ![cur[a]] = Verdict(a)]
    /\ pc' = [pc EXCEPT ![a] = "finalize"]
    /\ UNCHANGED <<dbVars, up, limitRead, cur, reply, retried, resMsg, resSug, seen,
                   processed, historyVars>>

\* An undecided group: any attempt of its history may ask for a login, then
\* any attempt may ask for a reconciliation, then come the retries.
RequireLogin(a) ==
    /\ up /\ pc[a] = "decide"
    /\ Verdict(a) = "pending" /\ "auth" \in seen[cur[a]]
    /\ LoseLogin(a)
    /\ pc' = [pc EXCEPT ![a] = "park"]
    /\ UNCHANGED <<up, limitRead, cur, reply, retried, resultVars, historyVars>>

Leave(a) ==         \* process_next returns to the loop
    /\ pc' = [pc EXCEPT ![a] = "loop"]
    /\ cur' = [cur EXCEPT ![a] = NoItem]
    /\ UNCHANGED limitRead

Park(a) ==
    /\ up /\ pc[a] = "park"
    /\ MarkPaused(cur[a])
    /\ Leave(a)
    /\ UNCHANGED <<accountVars, up, reply, retried, resultVars, historyVars>>

Reconcile(a) ==
    /\ up /\ pc[a] = "decide"
    /\ Verdict(a) = "pending" /\ "auth" \notin seen[cur[a]]
    /\ "network" \in seen[cur[a]]
    /\ MarkReconcile(cur[a])
    /\ Leave(a)
    /\ UNCHANGED <<accountVars, up, reply, retried, resultVars, historyVars>>

\* Mutants: a lost answer is retried; the last attempt leaves the directions as
\* they were.
RetryableWhenLost(a) == Verdict(a) = "pending" /\ "auth" \notin seen[cur[a]]
Unchanged(state) == state

Retryable(a) ==
    Verdict(a) = "pending" /\ seen[cur[a]] \cap {"auth", "network"} = {}
RetriesLeft(a) == attempts[cur[a]] <= MaxAttempts
Exhausted(state) == IF state \in Final THEN state ELSE "failed_final"

\* Mutant: a retry is counted like a group.
RetryCounted(a) ==
    /\ up /\ pc[a] = "decide" /\ Retryable(a) /\ RetriesLeft(a)
    /\ ScheduleRetry(cur[a])
    /\ processed' = [processed EXCEPT ![a] = @ + 1]
    /\ Leave(a)
    /\ UNCHANGED <<accountVars, up, reply, retried, resMsg, resSug, outcome, seen, historyVars>>

Retry(a) ==
    /\ up /\ pc[a] = "decide" /\ Retryable(a) /\ RetriesLeft(a)
    /\ ScheduleRetry(cur[a])
    /\ Leave(a)
    /\ UNCHANGED <<accountVars, up, reply, retried, resultVars, historyVars>>

FinalizeExhausted(a) ==
    /\ up /\ pc[a] = "decide" /\ Retryable(a) /\ ~RetriesLeft(a)
    /\ resMsg' = [resMsg EXCEPT ![cur[a]] = Exhausted(@)]
    /\ resSug' = [resSug EXCEPT ![cur[a]] = Exhausted(@)]
    /\ outcome' = [outcome EXCEPT ![cur[a]] = "failed"]
    /\ pc' = [pc EXCEPT ![a] = "finalize"]
    /\ UNCHANGED <<dbVars, up, limitRead, cur, reply, retried, seen, processed, historyVars>>

FinalizeItem(a) ==
    /\ up /\ pc[a] = "finalize"
    /\ Finalize(cur[a], outcome[cur[a]])
    /\ pc' = [pc EXCEPT ![a] = "count"]
    /\ UNCHANGED <<accountVars, up, limitRead, cur, reply, retried, resultVars, historyVars>>

IncrementAccount(a) ==
    /\ up /\ pc[a] = "count"
    /\ processed' = [processed EXCEPT ![a] = @ + 1]
    /\ Leave(a)
    /\ UNCHANGED <<dbVars, up, reply, retried, resMsg, resSug, outcome, seen, historyVars>>

-----------------------------------------------------------------------------
(* Tasks that end in the middle: cancelled, failed, or killed. *)

\* The workers of S vanish or fall back to the loop.  Of those that waited for
\* VK, the ones in hit had their message published; their items stay as they
\* are in the database.
Abandon(S) ==
    /\ \E hit \in SUBSET {a \in S : pc[a] = "wait"} :
         delivered' = [i \in Items |->
            IF \E a \in hit : cur[a] = i THEN delivered[i] + 1 ELSE delivered[i]]
    /\ inDoubt' = [i \in Items |-> inDoubt[i] \/ \E a \in S : cur[a] = i]
    /\ cur' = [a \in Accounts |-> IF a \in S THEN NoItem ELSE cur[a]]
    /\ reply' = [a \in Accounts |-> IF a \in S THEN "none" ELSE reply[a]]
    /\ retried' = [a \in Accounts |-> IF a \in S THEN FALSE ELSE retried[a]]
    /\ UNCHANGED limitRead

\* One turn of _supervise: the workers of accounts that may work are spawned,
\* the others cancelled at their await, and an idle run is finished.
SupervisorTick ==
    LET alive  == IF runState = "running" THEN Active ELSE {}
        doomed == {a \in Accounts \ alive : pc[a] # "off"}
    IN  /\ up /\ \A a \in Accounts : pc[a] \in Parked
        /\ Abandon(doomed)
        /\ pc' = [a \in Accounts |->
                IF a \in doomed THEN "off"
                ELSE IF a \in alive /\ pc[a] = "off" THEN "loop" ELSE pc[a]]
        /\ IF runState = "running" THEN FinishIfIdle ELSE UNCHANGED dbVars
        /\ UNCHANGED <<up, resultVars, setGoing>>

\* An exception leaves process_next: the loop logs it, sleeps and goes on.
WorkerError(a) ==
    /\ "error" \in Events
    /\ up /\ pc[a] \notin {"off", "loop"} /\ LoopFree(a)
    /\ Abandon({a})
    /\ pc' = [pc EXCEPT ![a] = "loop"]
    /\ UNCHANGED <<dbVars, up, resultVars, setGoing>>

Crash ==
    /\ "crash" \in Events
    /\ up /\ up' = FALSE
    /\ Abandon(Accounts)
    /\ pc' = [a \in Accounts |-> "off"]
    /\ UNCHANGED <<dbVars, resultVars, setGoing>>

\* Mutant: a restart reclaims rows whose lease still runs.
RestartReclaimsAll ==
    /\ ~up /\ up' = TRUE
    /\ runState' = SuspendedRun
    /\ itemState' = [i \in Items |->
            IF itemState[i] = "processing" THEN "reconcile_required" ELSE itemState[i]]
    /\ setGoing' = FALSE
    /\ UNCHANGED <<itemAccount, counted, attempts, leaseLeft, retryIn, quotaVars, dailyLimit,
                   accountVars, workerVars, resultVars, delivered, inDoubt>>

Restart ==
    /\ ~up /\ up' = TRUE
    /\ Startup
    /\ setGoing' = FALSE
    /\ UNCHANGED <<workerVars, resultVars, delivered, inDoubt>>

-----------------------------------------------------------------------------
(* Requests of the operator, served on threads beside the event loop. *)

OperatorStart ==
    /\ up
    /\ \E ig \in BOOLEAN : (ig => "reset" \in Events) /\ Start(ig)
    /\ setGoing' = TRUE
    /\ UNCHANGED <<up, workerVars, resultVars, delivered, inDoubt>>

OperatorHalt ==
    /\ up
    /\ \/ "pause" \in Events /\ Pause
       \/ "stop" \in Events /\ Stop
    /\ setGoing' = FALSE
    /\ UNCHANGED <<up, workerVars, resultVars, delivered, inDoubt>>

\* The recount after a removal may set a run going that was paused, stopped or
\* never started, or let it wait for quota.
OperatorRemove ==
    /\ up /\ "remove" \in Events
    /\ \E Ids \in SUBSET Items : RemoveGroups(Ids)
    /\ setGoing' = (setGoing \/ RunClaimable')
    /\ UNCHANGED <<up, workerVars, resultVars, delivered, inDoubt>>

OperatorAccount ==
    /\ up
    /\ \/ "reset" \in Events /\ ResetWhileRunning
       \/ "disable" \in Events /\ \E a \in Accounts : Disable(a) \/ Enable(a)
       \/ "limit" \in Events /\ \E n \in Limits : SetLimit(n)
       \/ "login" \in Events /\ \E a \in Accounts : ~authOk[a] /\ LogIn(a)
       \/ "health" \in Events /\ \E a \in Accounts : authOk[a] /\ LoseLogin(a)
    /\ UNCHANGED <<up, workerVars, resultVars, historyVars>>

Clock ==
    /\ ClockTick
    /\ UNCHANGED <<accountVars, up, workerVars, resultVars, historyVars>>

-----------------------------------------------------------------------------
\* What a worker does between two awaits, once the loop has resumed it.
Section(a) ==
    \/ ReadLimit(a) \/ Claim(a) \/ ClaimNothing(a)
    \/ FinishAttempt(a) \/ SaveDirection(a)
    \/ SetFinalResult(a) \/ FinalizeExhausted(a)
    \/ FinalizeItem(a) \/ IncrementAccount(a)
    \/ RequireLogin(a) \/ Park(a) \/ Reconcile(a) \/ Retry(a)

Answer(a) == \E kind \in Replies : VkAnswer(a, kind)

Worker(a) == LoopCheck(a) \/ Section(a) \/ TokenRefreshed(a) \/ Answer(a) \/ WorkerError(a)

Operator == OperatorStart \/ OperatorHalt \/ OperatorRemove \/ OperatorAccount

OutreachNext ==
    \/ \E a \in Accounts : Worker(a)
    \/ SupervisorTick
    \/ Operator
    \/ Crash \/ Restart
    \/ Clock

Spec == OutreachInit /\ [][OutreachNext]_vars

\* The event loop serves its ready tasks in turn, so a task whose await is over
\* gets the loop although others take it in between (strong fairness); a
\* section that holds the loop is never preempted by another task (weak); every
\* VK call ends by its timeout; the supervisor wakes every 0.75 s; time passes;
\* the operator may never come back, and the process may stay dead.
Fairness ==
    /\ \A a \in Accounts : /\ SF_vars(LoopCheck(a))
                           /\ WF_vars(Section(a))
                           /\ SF_vars(Answer(a))
    /\ SF_vars(SupervisorTick)
    /\ WF_vars(Clock)

FairSpec == Spec /\ Fairness

-----------------------------------------------------------------------------
\* A worker past its claim holds a row that is still processing for its own
\* account (until it has finalized it), and no two workers hold the same row:
\* what the BEGIN IMMEDIATE of claim_next and the event loop are for.
HolderOwnsItem ==
    \A a \in Accounts :
        /\ pc[a] \in BeforeClaim <=> cur[a] = NoItem
        /\ cur[a] # NoItem =>
              /\ itemAccount[cur[a]] = a
              /\ pc[a] # "count" => itemState[cur[a]] = "processing"
              /\ \A b \in Accounts \ {a} : cur[b] # cur[a]

\* The two histories after which the code may write to a group once more
\* although something may have been published: an answer classed as retryable,
\* and a lost answer taken for a login problem because the history had one.
RepeatedBlindly(i) ==
    "timeout" \in seen[i] \/ {"auth", "network"} \subseteq seen[i]

\* A second message or post to the same group happens in those two ways only.
\* Crashes, cancellations, retries, stops and account changes never cause one.
DuplicateOnlyAfterBlindRetry ==
    \A i \in Items : delivered[i] > 1 => RepeatedBlindly(i)

\* Once the answer of a group's call was lost, or its call was cut off by a
\* crash, a cancellation or an error, the group is not written to again (the
\* groups that also met a login problem excepted).
NoResendInDoubt ==
    [][\A i \in Items :
          inDoubt[i] /\ "auth" \notin seen[i] => delivered'[i] = delivered[i]]_vars

\* A finished row always has its final Result saved before, with the attempts
\* that justify it, whatever step a crash falls on.
FinishedMeansRecorded ==
    \A i \in Items :
        /\ itemState[i] = "success" =>
              /\ outcome[i] = "success" /\ "sent" \in seen[i] /\ delivered[i] > 0
              /\ "sent" \in {resMsg[i], resSug[i]}
        /\ itemState[i] = "failed" =>
              outcome[i] = "failed" /\ resMsg[i] = "failed_final" /\ resSug[i] = "failed_final"

\* A group reported as failed received nothing, unless it was written to again
\* blindly.
FailedMeansNothingSent ==
    \A i \in Items :
        itemState[i] = "failed" => delivered[i] = 0 \/ RepeatedBlindly(i)

\* Whenever a post is being suggested to a group, its LS was finally denied by
\* VK in some attempt, and nothing was published to it before unless it is
\* being written to again blindly.
SuggestedOnlyAfterDenial ==
    \A a \in Accounts : pc[a] = "wait" /\ Direction(cur[a]) = "suggested" =>
        /\ "denied" \in seen[cur[a]]
        /\ delivered[cur[a]] = 0 \/ RepeatedBlindly(cur[a])

\* The per-account counter never runs ahead of the rows that are finished.
TallyNeverAhead ==
    \A a \in Accounts : processed[a] <=
        Cardinality({i \in Items : itemAccount[i] = a /\ itemState[i] \in {"success", "failed"}})

\* After a pause, a stop or a restart no group is begun or retried until a Start,
\* a Resume or the recount after a removal has set the run going again, even when
\* the command falls between a worker's look at the run and its claim.
NoClaimUnlessSetGoing ==
    [][\A i \in Items :
          itemState[i] # "processing" /\ itemState'[i] = "processing" => setGoing]_vars

\* A running run does not stay running for ever: its groups are all finished or
\* set aside, or the quotas run out, or an account drops out.  (Of an
\* uninterrupted program: a cancelled or failed task leaves its row behind.)
RunDrains == runState = "running" ~> runState # "running" \/ Active # Accounts

\* A scheduled retry is served as long as its run is running and its account
\* active, even when the account has no quota left (queue.py: otherwise one
\* temporary VK error could deadlock an already-counted item).
RetryServed ==
    \A i \in Items : itemState[i] = "retry_wait" ~>
        itemState[i] # "retry_wait" \/ runState # "running" \/ itemAccount[i] \notin Active

-----------------------------------------------------------------------------
(* What the documents and comments of the repository say, and the code does  *)
(* not keep.                                                                 *)

\* supervisor.py:47-48: only an explicit Start or Resume may transition a run to
\* running (a claim that ends a wait for quota continues a run).
OnlyStartRuns ==
    [][runState # "running" /\ runState' = "running" =>
          OperatorStart \/ runState = "waiting_limit"]_vars

\* processor.py:86-88 and README.md: temporary and ambiguous failures are
\* handled without risking a duplicate message.
NoDuplicateMessage == \A i \in Items : delivered[i] <= 1

\* processor.py:124 and README.md: after a lost answer the repetition is blocked
\* until the operator has reconciled the group.
LostAnswerNotRepeated ==
    [][\A i \in Items : inDoubt[i] => delivered'[i] = delivered[i]]_vars

\* The design document: expired leases are returned to reconcile_required.
ExpiredLeaseReconciled ==
    \A i \in Items :
        i \in ExpiredLeases ~> itemState[i] # "processing"

\* README.md and REQUIREMENTS_COVERAGE.md: both directions are tried for every
\* group, LS first and then the suggested post.
BothDirectionsTried ==
    \A i \in Items : itemState[i] \in {"success", "failed"} =>
        resMsg[i] # "not_attempted" /\ resSug[i] # "not_attempted"
=============================================================================
