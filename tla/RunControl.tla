----------------------------- MODULE RunControl ----------------------------
(***************************************************************************)
(* The three writers of runs.state as they run: Start, Resume, Pause and   *)
(* Stop on request threads, each reading the run (and the accounts) before *)
(* it writes; the recount after a removal of groups, on a request thread   *)
(* too; and finish_if_idle on the event loop, which reads twice and then   *)
(* writes its verdict.  A SELECT takes no lock, so whatever one of them    *)
(* has read may be out of date when it writes.  A worker checks the run    *)
(* and reads the daily limit, and then claims, without leaving the loop.   *)
(***************************************************************************)
EXTENDS RunService

CONSTANT Requests       \* the request threads that serve commands at one time

VARIABLES
    req,        \* what each request thread is about to do, what it has read,
                \* and the state it is going to write
    checked,    \* the account whose worker holds the loop, about to claim
    limitRead,  \* the limit it has read
    verdict,    \* what finish_if_idle is about to write
    halted,     \* history: a halt came, and since then neither a Start nor a
                \* recount that sets the run going has been under way
    overtaken   \* history: a write of runs.state went over another one, or a
                \* recount over a stop

controlVars == <<req, checked, limitRead, verdict, halted, overtaken>>
allVars == <<dbVars, controlVars>>

NoRequest == [at |-> "idle", state |-> "draft", accounts |-> {}, next |-> "draft"]
Request == [at: {"idle", "reset", "reset_running", "start", "pause", "stop",
                 "removed", "recount"},
            state: RunState, accounts: SUBSET Accounts, next: RunState]
Claimable == {"running", "waiting_limit"}

ControlTypeOK ==
    /\ RunTypeOK
    /\ req \in [Requests -> Request]
    /\ checked \in Accounts \cup {NoAccount}
    /\ limitRead \in Limits
    /\ verdict \in RunState \cup {"none", "counting"}
    /\ halted \in BOOLEAN /\ overtaken \in BOOLEAN

ControlInit ==
    /\ RunInit
    /\ req = [r \in Requests |-> NoRequest]
    /\ checked = NoAccount /\ limitRead = dailyLimit
    /\ verdict = "none"
    /\ halted = TRUE /\ overtaken = FALSE

LoopFree == checked = NoAccount /\ verdict = "none"
GoUnderWay ==
    \E r \in Requests : \/ req[r].at \in {"reset", "start"}
                        \/ req[r].at = "recount" /\ req[r].next \in Claimable

-----------------------------------------------------------------------------
(* Commands.  The row of the run is written by its id, whatever it is now.   *)

Begin(r, at, S, next) ==
    /\ req[r].at = "idle"
    /\ req' = [req EXCEPT ![r] = [at |-> at, state |-> runState, accounts |-> S, next |-> next]]
    /\ UNCHANGED <<dbVars, checked, limitRead, verdict, overtaken>>

End(r) == req' = [req EXCEPT ![r] = NoRequest]

\* The row is written whatever it is now.
WriteRun(r) ==
    /\ runState' = req[r].next
    /\ overtaken' = (overtaken \/ runState # req[r].state)
    /\ End(r)
    /\ UNCHANGED <<quotaVars, dailyLimit, accountVars, checked, limitRead, verdict>>

StartRead(r, ignoreLimits) ==
    \/ /\ runState = "running" /\ ignoreLimits
       /\ Begin(r, "reset_running", Active, "running")
       /\ UNCHANGED halted
    \/ /\ runState \in Resumable /\ Active # {}
       /\ ignoreLimits \/ runState # "waiting_limit" \/ AnyAvailable
       /\ Begin(r, IF ignoreLimits THEN "reset" ELSE "start", Active, "running")
       /\ halted' = FALSE

\* quota.reset commits on a connection of its own.
StartReset(r) ==
    /\ req[r].at \in {"reset", "reset_running"}
    /\ ResetQuotaOf(req[r].accounts)
    /\ IF req[r].at = "reset" THEN req' = [req EXCEPT ![r].at = "start"] ELSE End(r)
    /\ UNCHANGED <<itemVars, runState, dailyLimit, accountVars,
                   checked, limitRead, verdict, halted, overtaken>>

StartWrite(r) ==
    /\ req[r].at = "start"
    /\ ResumeRows(req[r].state, req[r].accounts)
    /\ WriteRun(r)
    /\ UNCHANGED halted

HaltRead(r) ==
    /\ \/ runState \in {"running", "waiting_limit"} /\ Begin(r, "pause", {}, "paused")
       \/ runState \in Stoppable /\ Begin(r, "stop", {}, "stopped")
    /\ UNCHANGED halted

PauseWrite(r) ==
    /\ req[r].at = "pause"
    /\ WriteRun(r)
    /\ halted' = (halted \/ ~GoUnderWay)
    /\ UNCHANGED itemVars

\* The new state of the run is flushed first, so the rows are read under the
\* write lock.
StopWrite(r) ==
    /\ req[r].at = "stop"
    /\ SetAsideRows
    /\ WriteRun(r)
    /\ halted' = (halted \/ ~GoUnderWay)

-----------------------------------------------------------------------------
(* remove_groups.  The rows are looked up and deleted in one step here, and   *)
(* in two in ListEditing.                                                     *)

Remove(r, Ids) ==
    /\ req[r].at = "idle"
    /\ Ids \cap Removable # {}
    /\ itemState' = WithoutRows(Ids)
    /\ req' = [req EXCEPT ![r].at = "removed"]
    /\ UNCHANGED <<itemAccount, counted, attempts, leaseLeft, retryIn, runState, quotaVars,
                   dailyLimit, accountVars, checked, limitRead, verdict, halted, overtaken>>

\* reconcile_state loads the run and counts; a verdict that is the state it has
\* loaded is not written.
RecountRead(r) ==
    LET next == ReconcileVerdict(itemState, runState)
    IN  /\ req[r].at = "removed"
        /\ IF next = runState THEN End(r)
           ELSE req' = [req EXCEPT ![r] = [NoRequest EXCEPT
                            !.at = "recount", !.state = runState, !.next = next]]
        /\ halted' = (halted /\ (next = runState \/ next \notin Claimable))
        /\ UNCHANGED <<dbVars, checked, limitRead, verdict, overtaken>>

RecountWrite(r) ==
    /\ req[r].at = "recount"
    /\ runState' = req[r].next
    /\ overtaken' = (overtaken \/ runState # req[r].state \/ runState = "stopped")
    /\ End(r)
    /\ UNCHANGED <<itemVars, quotaVars, dailyLimit, accountVars, checked, limitRead, verdict, halted>>

Command(r) ==
    \/ \E ig \in BOOLEAN : StartRead(r, ig)
    \/ StartReset(r) \/ StartWrite(r)
    \/ HaltRead(r) \/ PauseWrite(r) \/ StopWrite(r)
    \/ \E Ids \in SUBSET Items : Remove(r, Ids)
    \/ RecountRead(r) \/ RecountWrite(r)

-----------------------------------------------------------------------------
(* The event loop. *)

\* Mutant: a worker goes on when the run waits for quota.
WorkerCheckClaimable(a) ==
    /\ LoopFree
    /\ a \in Active /\ RunClaimable
    /\ checked' = a /\ limitRead' = dailyLimit
    /\ UNCHANGED <<dbVars, req, verdict, halted, overtaken>>

WorkerCheck(a) ==
    /\ LoopFree
    /\ a \in Active /\ runState = "running"
    /\ checked' = a /\ limitRead' = dailyLimit
    /\ UNCHANGED <<dbVars, req, verdict, halted, overtaken>>

WorkerClaim ==
    /\ checked # NoAccount
    /\ \/ /\ \E i \in Items : ClaimWithin(checked, i, limitRead)
          /\ UNCHANGED accountVars
       \/ NothingWithin(checked, limitRead) /\ UNCHANGED dbVars
    /\ checked' = NoAccount
    /\ UNCHANGED <<req, limitRead, verdict, halted, overtaken>>

\* The first read of finish_if_idle finds a running run without busy workers,
\* the others make up its verdict.
IdleRead ==
    /\ LoopFree
    /\ runState = "running" /\ ~Busy
    /\ verdict' = "counting"
    /\ UNCHANGED <<dbVars, req, checked, limitRead, halted, overtaken>>

IdleCount ==
    /\ verdict = "counting"
    /\ verdict' = IF RestVerdict = "running" THEN "none" ELSE RestVerdict
    /\ UNCHANGED <<dbVars, req, checked, limitRead, halted, overtaken>>

IdleWrite ==
    /\ verdict \notin {"none", "counting"}
    /\ runState' = verdict /\ verdict' = "none"
    /\ overtaken' = (overtaken \/ runState # "running")
    /\ UNCHANGED <<itemVars, quotaVars, dailyLimit, accountVars, req, checked, limitRead, halted>>

\* A worker settles its row; a login is lost or found.
Settle ==
    /\ LoopFree
    /\ \/ /\ \E i \in Items : \/ ScheduleRetry(i) \/ MarkReconcile(i) \/ MarkPaused(i)
                              \/ \E s \in {"success", "failed"} : Finalize(i, s)
          /\ UNCHANGED accountVars
       \/ \E a \in Accounts : (~authOk[a] /\ LogIn(a)) \/ (authOk[a] /\ LoseLogin(a))
    /\ UNCHANGED controlVars

-----------------------------------------------------------------------------
\* The settings route, on a thread.  The account routes are left out: a command
\* takes a disabled account for one whose login is lost, which Settle has.
Change ==
    /\ \E n \in Limits : n # dailyLimit /\ SetLimit(n)
    /\ UNCHANGED controlVars

Reborn ==       \* the process dies, with its requests, and starts again
    /\ Startup
    /\ req' = [r \in Requests |-> NoRequest]
    /\ checked' = NoAccount
    /\ verdict' = "none"
    /\ halted' = TRUE
    /\ UNCHANGED <<limitRead, overtaken>>

ControlNext ==
    \/ \E r \in Requests : Command(r)
    \/ \E a \in Accounts : WorkerCheck(a)
    \/ WorkerClaim
    \/ IdleRead \/ IdleCount \/ IdleWrite
    \/ Settle
    \/ Change
    \/ Reborn
    \/ ClockTick /\ UNCHANGED <<accountVars, controlVars>>

ControlSpec == ControlInit /\ [][ControlNext]_allVars

-----------------------------------------------------------------------------
\* After a pause, a stop or a restart no group is begun or retried until a new
\* Start, or the recount of a removal that sets the run going, is under way,
\* although finish_if_idle may write its own verdict, even waiting_limit, over the
\* halt, and a recount any other.
HaltedRunRests ==
    [][\A i \in Items :
          itemState[i] # "processing" /\ itemState'[i] = "processing" => ~halted]_allVars

\* Groups that a stop has set aside are waiting again in every run that can go
\* on, as long as no request has written over the state another one wrote, and no
\* recount over a stop: then the next Start does not know of the stop, and leaves
\* the groups where they are.
SetAsideRowsReturn ==
    ~overtaken /\ RunClaimable =>
        \A i \in Items : itemState[i] = "paused" => Started(i)

\* A charge keeps the account within the limit its worker has read, although the
\* limit may have been changed since.
LimitAsRead ==
    [][\A a \in Accounts :
          charged'[a] # charged[a] => charged'[a] = {}
                                      \/ Cardinality(charged'[a]) <= limitRead]_allVars
=============================================================================
