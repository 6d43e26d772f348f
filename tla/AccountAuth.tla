---------------------------- MODULE AccountAuth ----------------------------
(***************************************************************************)
(* Logging accounts in: AccountService and BrowserTokenAuthService.        *)
(*                                                                         *)
(* A job is an authorization the user asked for, or a VK call that finds   *)
(* its token rejected and refreshes it.  Beside the jobs there are message *)
(* windows, the health check and deletions; all but the last (a route on a *)
(* thread of its own) run on the event loop and are atomic between two     *)
(* awaits.  Two sets in memory keep them apart: authMark (_auth_accounts)  *)
(* and openMark (_open_accounts); a third one, active, is authorize's own. *)
(*                                                                         *)
(* A token is a number, new ones are larger; alive holds those VK accepts. *)
(***************************************************************************)
EXTENDS Integers, FiniteSets

CONSTANTS Accounts,   \* account ids, positive numbers
          Users,      \* VK users
          NoUser,
          Jobs,       \* names of the jobs that run at one time
          NoJob,
          MaxToken    \* bound on the tokens VK issues

ASSUME AccountsAssumption == Accounts \subseteq Nat \ {0} /\ IsFiniteSet(Accounts)
ASSUME NamesAssumption == NoUser \notin Users /\ NoJob \notin Jobs
ASSUME TokenAssumption == MaxToken \in Nat

VARIABLES
    account,   \* the accounts and account_secrets tables
    authMark,  \* AccountService._auth_accounts
    openMark,  \* AccountService._open_accounts
    lock,      \* lock[a]: the job inside AccountService._refresh_locks[a]
    active,    \* BrowserTokenAuthService._active
    job,       \* what each job is doing
    deleting,  \* the accounts a deletion has checked and not yet committed
    health,    \* what check_health is doing
    missing,   \* history: marks of authorizations of a missing account
    issued,    \* the last token VK issued
    alive      \* the tokens VK accepts

service == <<authMark, openMark, lock, active>>
vk == <<issued, alive>>
vars == <<account, service, job, deleting, health, missing, vk>>

NoAccount == 0
Tokens == 1..MaxToken
Rows == {a \in Accounts : account[a].user # NoUser}
NoRow == [user |-> NoUser, ok |-> FALSE, token |-> 0]

(***************************************************************************)
(* The steps of a job; each ends at an await (or, on a thread, anywhere):  *)
(*  created     an authorization the loop has not started yet              *)
(*  browser     authorize has the profile and its browser is open          *)
(*  validating  users.get with the captured token                          *)
(*  calling     a VK call with the stored token                            *)
(*  queued      at the account's refresh lock                              *)
(***************************************************************************)
Kinds == {"none", "authorize", "refresh"}
Steps == {"idle", "created", "browser", "validating", "calling", "queued"}

JobRecords ==
    [kind: Kinds, step: Steps, acct: Accounts \union {NoAccount},
     who: Users \union {NoUser},  \* the VK user authorize expects
     tok: 0..MaxToken,            \* the token it read or captured
     again: BOOLEAN,              \* authorize's second attempt
     beside: BOOLEAN,             \* history: overlapped another login of acct
     late: BOOLEAN]               \* history: began during a deletion of acct

IdleJob ==
    [kind |-> "none", step |-> "idle", acct |-> NoAccount, who |-> NoUser,
     tok |-> 0, again |-> FALSE, beside |-> FALSE, late |-> FALSE]

(***************************************************************************)
(* The health check waits for VK's answer about asks, an account it read   *)
(* with the token tok; todo are the accounts after it, seen those that     *)
(* were logged in when it started.                                         *)
(***************************************************************************)
HealthRecords ==
    [asks: Accounts \union {NoAccount}, tok: 0..MaxToken,
     todo: SUBSET Accounts, seen: SUBSET Accounts]

NoHealth == [asks |-> NoAccount, tok |-> 0, todo |-> {}, seen |-> {}]

Idle(j) == job[j].step = "idle"
Authorizing(j) == job[j].step \in {"browser", "validating"}
LoginOf(j, a) == /\ job[j].kind \in {"authorize", "refresh"}
                 /\ job[j].acct = a
                 /\ job[j].step \in {"created", "browser", "validating"}

(***************************************************************************)
(* j enters a login of account a in the state begun.  What it overlaps is  *)
(* noted in the history fields of both.                                    *)
(***************************************************************************)
JoinLogin(j, a, begun) ==
    LET others == {i \in Jobs \ {j} : a # NoAccount /\ LoginOf(i, a)} IN
    job' = [i \in Jobs |->
              IF i = j THEN [begun EXCEPT !.beside = others # {},
                                          !.late = a \in deleting]
              ELSE IF i \in others THEN [job[i] EXCEPT !.beside = TRUE]
              ELSE job[i]]

KeyFor(j, a) == IF a = NoAccount THEN <<"job", j>> ELSE <<"account", a>>
Key(j) == KeyFor(j, job[j].acct)
Keys == {KeyFor(j, a) : j \in Jobs, a \in Accounts \union {NoAccount}}

AuthTypeOK ==
    /\ account \in [Accounts -> [user: Users \union {NoUser}, ok: BOOLEAN,
                                 token: 0..MaxToken]]
    /\ authMark \subseteq Accounts
    /\ openMark \subseteq Accounts
    /\ lock \in [Accounts -> Jobs \union {NoJob}]
    /\ active \subseteq Keys
    /\ job \in [Jobs -> JobRecords]
    /\ deleting \subseteq Accounts
    /\ health \in HealthRecords
    /\ missing \subseteq Accounts
    /\ issued \in 0..MaxToken
    /\ alive \subseteq Tokens

Init ==
    /\ account = [a \in Accounts |-> NoRow]
    /\ authMark = {} /\ openMark = {} /\ active = {}
    /\ lock = [a \in Accounts |-> NoJob]
    /\ job = [j \in Jobs |-> IdleJob]
    /\ deleting = {} /\ health = NoHealth
    /\ missing = {}
    /\ issued = 0 /\ alive = {}

-----------------------------------------------------------------------------
(***************************************************************************)
(* The except and finally blocks of an authorization and of a refresh: the *)
(* account's mark goes, whoever else may still rely on it; a failed        *)
(* refresh also writes requires_login and gives its lock back.             *)
(***************************************************************************)
LoggedOut(table, a) ==
    IF table[a].user = NoUser THEN table ELSE [table EXCEPT ![a].ok = FALSE]

\* Mutants: the mark is left; the refresh lock is.
UnmarkNothing(j) ==
    /\ lock' = [a \in Accounts |-> IF lock[a] = j THEN NoJob ELSE lock[a]]
    /\ UNCHANGED <<authMark, missing>>
UnmarkKeepsLock(j) ==
    /\ authMark' = authMark \ {job[j].acct}
    /\ missing' = missing \ {job[j].acct}
    /\ UNCHANGED lock

Unmark(j) == /\ authMark' = authMark \ {job[j].acct}
             /\ missing' = missing \ {job[j].acct}
             /\ lock' = [a \in Accounts |-> IF lock[a] = j THEN NoJob ELSE lock[a]]

Fail(j) ==
    /\ account' = IF job[j].kind = "refresh"
                     THEN LoggedOut(account, job[j].acct) ELSE account
    /\ job' = [job EXCEPT ![j] = IdleJob]
    /\ Unmark(j)

(***************************************************************************)
(* POST /accounts/authorize: refused while the message window is open; the *)
(* mark is set before the task exists and nothing looks whether it was.    *)
(***************************************************************************)
StartAuthorization(j, a) ==
    /\ Idle(j)
    /\ a \notin openMark
    /\ JoinLogin(j, a, [IdleJob EXCEPT !.kind = "authorize", !.step = "created",
                                       !.acct = a])
    /\ authMark' = authMark \union ({a} \ {NoAccount})
    /\ UNCHANGED <<deleting, health, account, openMark, lock, active, missing, vk>>

\* Mutant: the refusal of a busy profile frees its key.
BeginFreesKey(j) ==
    LET a == job[j].acct IN
    /\ job[j].step = "created"
    /\ a \in Rows \union {NoAccount}
    /\ IF Key(j) \in active
          THEN Fail(j) /\ active' = active \ {Key(j)}
          ELSE /\ active' = active \union {Key(j)}
               /\ job' = [job EXCEPT ![j].step = "browser",
                                     ![j].who = IF a = NoAccount THEN NoUser
                                                ELSE account[a].user]
               /\ UNCHANGED <<account, authMark, lock, missing>>
    /\ UNCHANGED <<deleting, health, openMark, vk>>

(***************************************************************************)
(* The task's first steps, up to the opening of the browser.  An account   *)
(* that is gone ends it before its try block; a key in use, inside it.     *)
(***************************************************************************)
AuthorizationOfNoAccount(j) ==
    /\ job[j].step = "created"
    /\ job[j].acct \in Accounts \ Rows
    /\ job' = [job EXCEPT ![j] = IdleJob]
    /\ missing' = missing \union ({job[j].acct} \intersect authMark)
    /\ UNCHANGED <<deleting, health, account, service, vk>>

BeginAuthorization(j) ==
    LET a == job[j].acct IN
    /\ job[j].step = "created"
    /\ a \in Rows \union {NoAccount}
    /\ IF Key(j) \in active
          THEN Fail(j) /\ UNCHANGED active
          ELSE /\ active' = active \union {Key(j)}
               /\ job' = [job EXCEPT ![j].step = "browser",
                                     ![j].who = IF a = NoAccount THEN NoUser
                                                ELSE account[a].user]
               /\ UNCHANGED <<account, authMark, lock, missing>>
    /\ UNCHANGED <<deleting, health, openMark, vk>>

(***************************************************************************)
(* acquire_token: the user (or the saved session) logs in and VK issues a  *)
(* token.  Otherwise the browser does not start, the user never confirms,  *)
(* the flow or the refresh runs into its timeout.                          *)
(***************************************************************************)
AcquireToken(j) ==
    /\ job[j].step = "browser"
    /\ issued < MaxToken
    /\ issued' = issued + 1
    /\ alive' = alive \union {issued + 1}
    /\ job' = [job EXCEPT ![j].step = "validating", ![j].tok = issued + 1]
    /\ UNCHANGED <<deleting, health, account, service, missing>>

AuthorizeFails(j) ==
    /\ Authorizing(j)
    /\ active' = active \ {Key(j)}
    /\ Fail(j)
    /\ UNCHANGED <<deleting, health, openMark, vk>>

(***************************************************************************)
(* VK rejects the captured token: one more round through the browser.      *)
(***************************************************************************)
TokenRejected(j) ==
    /\ job[j].step = "validating"
    /\ job[j].tok \notin alive
    /\ ~job[j].again
    /\ job' = [job EXCEPT ![j].step = "browser", ![j].again = TRUE]
    /\ UNCHANGED <<deleting, health, account, service, missing, vk>>

(***************************************************************************)
(* The row a login of user u belongs to: the one it was started for, else  *)
(* u's, else a new one (SQLite numbers it one above the largest id).       *)
(***************************************************************************)
NewId == IF Rows = {} THEN 1 ELSE 1 + CHOOSE a \in Rows : \A b \in Rows : b <= a

Target(j, u) ==
    LET own == {a \in Rows : account[a].user = u} IN
    IF job[j].acct \in Rows THEN job[j].acct
    ELSE IF own # {} THEN CHOOSE a \in own : TRUE ELSE NewId

(***************************************************************************)
(* users.get names user u: the expected one, or none was expected; the row *)
(* and the token are stored before anything else runs on the loop.         *)
(***************************************************************************)
StoreLogin(j, u) ==
    LET a == Target(j, u) IN
    /\ job[j].step = "validating"
    /\ job[j].tok \in alive
    /\ job[j].who \in {u, NoUser}
    /\ a \in Accounts
    /\ IF a \in Rows /\ account[a].user # u
          THEN Fail(j)
          ELSE /\ account' = [account EXCEPT
                                ![a] = [user |-> u, ok |-> TRUE, token |-> job[j].tok]]
               /\ job' = [job EXCEPT ![j] = IdleJob]
               /\ Unmark(j)
    /\ active' = active \ {Key(j)}
    /\ UNCHANGED <<deleting, health, openMark, vk>>

-----------------------------------------------------------------------------
(***************************************************************************)
(* run_vk: a call with the stored token.  If VK rejects the token the call *)
(* joins the queue of those that want it refreshed.                        *)
(***************************************************************************)
StartCall(j, a) ==
    /\ Idle(j)
    /\ a \in Rows
    /\ job' = [job EXCEPT ![j] = [IdleJob EXCEPT !.kind = "refresh", !.step = "calling",
                                                 !.acct = a, !.tok = account[a].token]]
    /\ UNCHANGED <<deleting, health, account, service, missing, vk>>

CallAnswered(j) ==
    /\ job[j].step = "calling"
    /\ \/ job' = [job EXCEPT ![j] = IdleJob]
       \/ /\ job[j].tok \notin alive
          /\ job' = [job EXCEPT ![j].step = "queued"]
    /\ UNCHANGED <<deleting, health, account, service, missing, vk>>

(***************************************************************************)
(* refresh_token once its lock is free.  The account is gone, or has a     *)
(* fresh token already, or its profile is in use: no browser.              *)
(***************************************************************************)
\* Mutant: the token found under the lock is not compared.
SparedByMarks(j) ==
    job[j].acct \notin Rows \/ job[j].acct \in openMark \union authMark

Spared(j) ==
    LET a == job[j].acct IN
    \/ a \notin Rows
    \/ account[a].token # job[j].tok
    \/ a \in openMark \union authMark

EnterRefresh(j) ==
    LET a == job[j].acct IN
    /\ job[j].step = "queued"
    /\ lock[a] = NoJob
    /\ IF Spared(j)
          THEN /\ job' = [job EXCEPT ![j] = IdleJob]
               /\ UNCHANGED <<account, authMark, lock, active, missing>>
          ELSE IF Key(j) \in active
          THEN Fail(j) /\ UNCHANGED active
          ELSE /\ lock' = [lock EXCEPT ![a] = j]
               /\ authMark' = authMark \union {a}
               /\ active' = active \union {Key(j)}
               /\ JoinLogin(j, a, [job[j] EXCEPT !.step = "browser",
                                                 !.who = account[a].user])
               /\ UNCHANGED <<account, missing>>
    /\ UNCHANGED <<deleting, health, openMark, vk>>

-----------------------------------------------------------------------------
(***************************************************************************)
(* The message window: a browser on the same profile until it is closed.   *)
(***************************************************************************)
\* Mutant: the window looks at no authorization.
OpenBesideLogin(a) ==
    /\ a \in Rows \ openMark
    /\ openMark' = openMark \union {a}
    /\ UNCHANGED <<deleting, health, account, authMark, lock, active, job, missing, vk>>

OpenMessages(a) ==
    /\ a \in Rows \ (openMark \union authMark)
    /\ openMark' = openMark \union {a}
    /\ UNCHANGED <<deleting, health, account, authMark, lock, active, job, missing, vk>>

CloseMessages(a) ==
    /\ a \in openMark
    /\ openMark' = openMark \ {a}
    /\ UNCHANGED <<deleting, health, account, authMark, lock, active, job, missing, vk>>

(***************************************************************************)
(* DELETE /accounts/{id} runs on a thread: the loop may run between its    *)
(* checks and its commit.                                                  *)
(***************************************************************************)
\* Mutant: the deletion looks at no authorization.
DeleteBesideLogin(a) ==
    /\ a \notin openMark
    /\ deleting' = deleting \union {a}
    /\ UNCHANGED <<account, service, job, health, missing, vk>>

StartDelete(a) ==
    /\ a \notin openMark \union authMark
    /\ deleting' = deleting \union {a}
    /\ UNCHANGED <<account, service, job, health, missing, vk>>

CommitDelete(a) ==
    /\ a \in deleting
    /\ account' = [account EXCEPT ![a] = NoRow]
    /\ deleting' = deleting \ {a}
    /\ UNCHANGED <<service, job, health, missing, vk>>

-----------------------------------------------------------------------------
(***************************************************************************)
(* check_health goes through the accounts in the order of their ids with   *)
(* the auth_status it read at its start.  Advance does everything up to    *)
(* the next call to VK: accounts read as logged out are written so again,  *)
(* those that are gone are passed over.                                    *)
(***************************************************************************)
Advance(table, todo, seen) ==
    LET asks == {a \in todo \intersect seen : table[a].user # NoUser}
        passed == {a \in todo : \A b \in asks : a < b}
        first == CHOOSE a \in asks : \A b \in asks : a <= b IN
    /\ account' = [a \in Accounts |->
                     IF a \in passed \ seen THEN LoggedOut(table, a)[a] ELSE table[a]]
    /\ health' = IF asks = {} THEN NoHealth
                 ELSE [asks |-> first, tok |-> table[first].token,
                       todo |-> todo \ (passed \union {first}), seen |-> seen]
    /\ UNCHANGED <<service, job, deleting, missing, vk>>

StartHealth ==
    /\ health.asks = NoAccount
    /\ Advance(account, Rows, {a \in Rows : account[a].ok})

(***************************************************************************)
(* VK's verdict on the token it was asked with; or no verdict at all, when *)
(* the call failed some other way.                                         *)
(***************************************************************************)
\* Mutant: a call that failed some other way counts as a rejection.
VerdictsAllBad ==
    {"requires_login", IF health.tok \in alive THEN "alive" ELSE "requires_login"}

Verdicts == {"unknown"} \union
    {IF health.tok \in alive THEN "alive" ELSE "requires_login"}

HealthAnswer ==
    /\ health.asks # NoAccount
    /\ \E verdict \in Verdicts :
          Advance(IF verdict = "requires_login" THEN LoggedOut(account, health.asks)
                  ELSE account, health.todo, health.seen)

-----------------------------------------------------------------------------
(***************************************************************************)
(* VK stops accepting a token.                                             *)
(***************************************************************************)
Revoke ==
    /\ \E t \in alive : alive' = alive \ {t}
    /\ UNCHANGED <<deleting, health, account, service, job, missing, issued>>

(***************************************************************************)
(* The program stops and starts again: only the tables survive.            *)
(***************************************************************************)
Restart ==
    /\ authMark' = {} /\ openMark' = {} /\ active' = {}
    /\ lock' = [a \in Accounts |-> NoJob]
    /\ job' = [j \in Jobs |-> IdleJob]
    /\ deleting' = {} /\ health' = NoHealth
    /\ missing' = {}
    /\ UNCHANGED <<account, vk>>

Requests(j) ==
    \/ \E a \in Accounts \union {NoAccount} : StartAuthorization(j, a)
    \/ \E a \in Accounts : StartCall(j, a)

JobStep(j) ==
    \/ AuthorizationOfNoAccount(j) \/ BeginAuthorization(j)
    \/ AcquireToken(j) \/ AuthorizeFails(j) \/ TokenRejected(j)
    \/ \E u \in Users : StoreLogin(j, u)
    \/ CallAnswered(j) \/ EnterRefresh(j)

Next ==
    \/ \E j \in Jobs : Requests(j) \/ JobStep(j)
    \/ \E a \in Accounts : \/ OpenMessages(a) \/ CloseMessages(a)
                           \/ StartDelete(a) \/ CommitDelete(a)
    \/ StartHealth \/ HealthAnswer
    \/ Revoke
    \/ Restart

(***************************************************************************)
(* The loop runs every task; browser, VK call and confirmation all have    *)
(* timeouts.  asyncio.Lock serves its waiters in order, hence the strong   *)
(* fairness.  Nobody need ever close a message window.                     *)
(***************************************************************************)
Fairness ==
    \A j \in Jobs : WF_vars(JobStep(j)) /\ SF_vars(EnterRefresh(j))

Spec == Init /\ [][Next]_vars
FairSpec == Spec /\ Fairness

-----------------------------------------------------------------------------
(***************************************************************************)
(* Properties.                                                             *)
(***************************************************************************)

(***************************************************************************)
(* Single flight: seen through who works on which profile, authorizations  *)
(* and refreshes implement the lock authorize promises, whatever happens   *)
(* to the marks (BrowserTokenAuthService.authorize).                       *)
(***************************************************************************)
ProfileHolder ==
    [p \in Keys |->
       IF \E j \in Jobs : Authorizing(j) /\ Key(j) = p
          THEN CHOOSE j \in Jobs : Authorizing(j) /\ Key(j) = p
          ELSE NoJob]

Profile == INSTANCE ProfileLock WITH
    Profiles <- Keys, Callers <- Jobs, Nobody <- NoJob, holder <- ProfileHolder

SingleFlight == Profile!LockSpec

(***************************************************************************)
(* A message window and a login use one profile at a time, unless the      *)
(* login overlapped another one of the same account: the first of the two  *)
(* to end takes the mark of both (start_authorization, start_open_messages,*)
(* refresh_token).                                                         *)
(***************************************************************************)
WindowAlone ==
    \A j \in Jobs :
        Authorizing(j) /\ job[j].acct \in openMark => job[j].beside

(***************************************************************************)
(* No account stays "in authorization" with nobody working on it, but for  *)
(* the authorization of an account deleted after the request was accepted  *)
(* (start_authorization, _run_authorization, refresh_token).               *)
(***************************************************************************)
MarksHaveOwners ==
    \A a \in authMark : a \in missing \/ \E j \in Jobs : LoginOf(j, a)

(***************************************************************************)
(* A login that VK accepts is marked requires_login only on the word of a  *)
(* job whose evidence is older: a token that was replaced since, or an     *)
(* auth_status read before (check_health, refresh_token).                  *)
(***************************************************************************)
OldToken(j, a) ==
    job'[j] # job[j] /\ job[j].acct = a /\ job[j].tok # account[a].token

OldHealth(a) ==
    \/ health.asks = a /\ health.tok # account[a].token
    \/ a \in health.todo \ health.seen

LoginsLostToStaleEvidence ==
    [][\A a \in Rows :
         /\ account[a].ok
         /\ account[a].token \in alive
         /\ account'[a].user # NoUser
         /\ ~account'[a].ok
         => OldHealth(a) \/ \E j \in Jobs : OldToken(j, a)]_vars

(***************************************************************************)
(* Coalescing: a refresh opens a browser only for a stored token that VK   *)
(* rejects; calls that queued behind another refresh find its token        *)
(* (refresh_token's docstring).                                            *)
(***************************************************************************)
RefreshesCoalesce ==
    [][\A j \in Jobs :
         job[j].step = "queued" /\ job'[j].step = "browser"
         => account[job[j].acct].token \notin alive]_vars

(***************************************************************************)
(* A deleted account comes back only by a login nobody tied to it, or by   *)
(* one that overlapped its deletion or another login (delete_account,      *)
(* _persist_authorization).                                                *)
(***************************************************************************)
DeletedStaysDeleted ==
    [][\A a \in Accounts :
         account[a].user = NoUser /\ account'[a].user # NoUser
         => \E j \in Jobs : /\ Authorizing(j) /\ job'[j] # job[j]
                            /\ \/ job[j].acct = NoAccount
                               \/ job[j].beside \/ job[j].late]_vars

(***************************************************************************)
(* Every login and every VK call ends, however it ends: none waits for a   *)
(* lock or a mark for good (_run_authorization, refresh_token, run_vk).    *)
(***************************************************************************)
JobsEnd == \A j \in Jobs : ~Idle(j) ~> Idle(j)
=============================================================================
