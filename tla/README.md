# TLA+ verification of VK Search

VK Search (`src/v047_source`) is a desktop program that writes to a list of VK
communities from several VK accounts and collects the answers in one inbox. A
FastAPI core keeps everything in one SQLite database; a React frontend is shown in
a WebView window. The modules here model four parts of it: the outreach core,
which decides *who is written to, how often, from which account and when*; the
account service and the browser logins; the inbox; and the start of the program as
a desktop process. Sections 1 to 3 are the inventory, 4 and 5 the modules and
their runs, 6 the proofs, 7 what the code does not keep, 8 the limits of the
models, 9 the plan.

Paths are relative to `src/v047_source/backend/app` unless they start with another
name.

## 1. Threads, tasks and transactions

* The core is one process with one asyncio event loop. On the loop run: the
  supervisor task, one worker task per active account, the inbox synchronization
  task, the authorization tasks, and the `async` routes (import, inbox). A task
  keeps the loop from one `await` to the next; database calls are synchronous and
  do not yield.
* Routes declared with plain `def` (start, pause, stop, update and delete of
  accounts, removal of groups, settings) run on a thread pool beside the loop.
* Every change is a SQLite transaction. `claim_next` takes the write lock first
  (`BEGIN IMMEDIATE`). The ORM sessions read first and take the lock when they
  write, so what they read may be out of date by then.
* The process may die anywhere. At its next start the lifespan (`main.py:83`)
  suspends runs, recovers expired leases and starts the tasks, and only then does
  the server take its port.
* The user may launch the program more than once. On Windows a mutex keeps the
  second process from starting a core; the macOS build has none.

So a model step is one transaction together with the in-memory changes that follow
it before the next transaction or `await`.

## 2. Inventory

| Component | State | Operations | Hard behaviour | Correct means |
|---|---|---|---|---|
| Daily quota (`services/quota.py`) | `account_quotas`: window, consumed | snapshot, reserve, reset, any_available | window boundary, limit changed while in use | a unit per begun group, within the limit the worker has read |
| Persistent queue (`services/queue.py`) | `work_items`: state, account, lease, retry time, attempts | claim_next, schedule_retry, mark_reconcile, mark_paused, finalize, recover_expired, release_unstarted | concurrent claims, crash with a claim out | one holder per row; begun rows keep their account; unresolved rows are not claimed |
| Run service (`services/runs.py`) | `runs.state` | start, resume, pause, stop, finish_if_idle, reconcile_state, suspend on start-up, delete_history | request threads against the supervisor, stale verdicts | works only after the operator's request; ends when drained; loses no work |
| Outreach processor (`services/processor.py`) | `send_attempts`, `results`, account counters | process_next in about ten transactions around one or two VK calls | crash, cancellation or lost answer anywhere | no repetition unless VK's answer allows it; a final row is backed by a final result |
| Account supervisor (`workers/supervisor.py`) | worker tasks | spawn, cancel, idle verdict, loop per account | cancels at an await; may itself die | workers only for active accounts of a running run |
| Work list (`services/worklist.py`) | rows of the open run | import (append, replace), remove, list | read before write, beside the workers | begun groups stay; no row stranded in a completed run |
| Accounts (`services/accounts.py`, `accounts_v049.py`) | `accounts`, `account_secrets`, sets of accounts in authorization or with an open window, refresh locks | authorize, refresh, run_vk, check_health, open messages, update, delete | two browsers on one profile, writes after awaits, deletion on a thread | one user of a profile; a fresh token is found, not fetched again; marks are given back; a deleted account stays deleted |
| Browser authorization (`vk/auth.py`) | active profiles, queue of observed addresses, browser profiles | lock a profile, drive the login pages, capture a token, blank its tab | events while a run awaits, context ids that return, tabs that are restored | a run takes the token issued in its own browser, during its own run, and keeps none |
| VK client (`vk/client.py`, `vk/errors.py`) | none | send, post, read calls with classified answers | lost answers | every answer has a class; ambiguous ones are recognised |
| Inbox (`services/inbox.py`, `inbox_v049*.py`) | `dialogs`, `messages`, read markers, folders, archive flag, the account's unread counter | synchronize the list, load a history, mark_read, archive, restore, delete, send, pin, folders | await between read and write, answers older than the row they are written to | the counter is exact; a card shows its own message; the list converges; paging reaches the whole history |
| Inbox worker (`workers/inbox_sync.py`) | last error per account | poll every account that is logged in | overlaps with operator requests | goes on whatever a round brings |
| Settings (`services/settings.py`) | `settings` | validated update | read once per step by workers | values always valid |
| Quick replies, backup, distribution, message variants | small tables, files, none | CRUD; copy and retention; pure functions | boundaries | order of insertion; newest copies stay; balanced within capacity |
| Results, dashboard, logs, export | log table | queries, formatting | none | agree with the tables |
| Secrets | keys | encrypt, decrypt | none | |
| Desktop shell (`desktop/main.py`) | mutex (Windows), fixed port, core thread, window | single instance, start-up, window, exit after at most ten seconds | start-up order, a core thread that outlives its process's mutex | one core at a time; a launch does not disturb the run of an open window |
| Frontend (`frontend/src/pages/InboxPage.tsx`) | open dialog, its remote offset | page back through a history | the offset decides what is fetched | no gap in what it shows |
| HTTP API, migrations, packaging | none | wiring | none | |

How they interact in one sentence each: the **operator** calls routes, which call
RunService, AccountService and WorkListService on threads; the **supervisor**
polls `runs` and `accounts` and keeps one worker per active account; the **inbox
worker** and the inbox routes ask VK and store its answers beside one another; a
**worker** claims through the queue (which charges the quota in the same
transaction), calls VK through `AccountService.run_vk` (which may refresh the
token and log the account out), and settles the row; components share nothing but
the database and the event loop.

## 3. Hazards

`PROJECT.json` lists each hazard at its line with the properties that cover it.
They fall into these groups: VK's lost answers and retries
(`processor.py:75-137`); death or cancellation between two transactions of one
group; commands that meet a worker between its check and its claim; bookkeeping
over long histories (quota, account of a group, final states); read-then-write
races of the list and the run services; logins, refreshes, windows and deletions
of one account; one queue of observed addresses for all logins; answers of VK that
are applied late, or out of order, to dialogs and histories; and several processes
on one database. Where the code falls to a hazard, the note names the case that
the property exempts. A hazard without a property says why: the models let every
database transaction succeed, so no task dies of one, and a retry whose account
leaves service does keep the run running.

## 4. Modules

    Quota <- WorkQueue <- RunService <- Outreach     <- MCOutreach
                              ^  ^      Outreach, RunServiceProofs <- OutreachProofs
                              |  +----- ListEditing  <- MCListEditing
                              |  +----- RunControl   <- MCRunControl
                              |         RunControl, ListEditing, RunServiceProofs <- RequestProofs
                              +-------- RunServiceProofs

    ProfileLock <~ AccountAuth <- MCAccountAuth, AccountAuthProofs
    TokenCapture <- TokenCaptureProofs
    Preview <- DialogList    <- DialogListProofs
            <- DialogHistory <- DialogHistoryProofs
    Desktop <- DesktopProofs

`<-` reads "is extended by", `<~` "is instantiated by".

* **Quota** -- pure operators on one quota row. Instants are kept as time left.
* **WorkQueue** -- the rows, quotas and run state as variables; one action per
  transaction of QueueRepository. `ClaimWithin` is the whole `claim_next`: the
  three SELECTs in their order, the quota reservation, the UPDATE and the wake-up
  of a run that waits for quota. The limit is its parameter, as it is in the code:
  `process_next` has read it in a transaction of its own, and a settings request
  may have changed it since. `charged` is a history variable: the groups an
  account was charged for in its last window.
* **RunService** -- start, pause, stop, the idle verdict, start-up, the removal of
  groups with the recount that follows it (`RemoveGroups`: `remove_unstarted`,
  then `reconcile_state`, which writes `runs.state` as well), and changes of
  accounts and of the limit. `RunSpec` is also the **abstract specification** of
  the program: a database whose transactions come in any order that their own
  guards allow, with workers that settle rows as they like.
* **Outreach** -- the program that implements it. `pc` says between which two
  transactions of `process_next` a worker is; `loop` and `wait` are its awaits,
  and `LoopFree` says that no other task holds the event loop. `ReadLimit` and
  `Claim` are the two transactions with which `process_next` begins. Operator
  requests, a removal among them (`OperatorRemove`), and crashes need no free
  loop. `delivered` (what VK published), `inDoubt` (an answer was or may have been
  lost) and `setGoing` (a Start, a Resume or a recount that set the run going came
  since the last halt or restart) are history variables and guard nothing.
* **RunControl** -- the three writers of `runs.state` as they run: commands and
  recounts on request threads, `finish_if_idle` on the loop. `req` holds what a
  thread has read and what it writes next, `verdict` what finish_if_idle is about
  to write, `checked` and `limitRead` what a worker has read before its claim.
  `halted` (a halt came, and since then neither a Start nor a recount that sets
  the run going has been under way) and `overtaken` (a write of `runs.state` went
  over another, or a recount over a stop) are history variables.
* **ListEditing** -- import and removal beside the program of RunService. An
  import is two steps, as `import_text` looks for its run and its rows before it
  takes the write lock (`ImportRead`, `ImportWrite`). Its route is `async` and
  does not await in between, so workers, the idle verdict and logins wait for it
  (`LoopLetGo`), while commands, settings and a removal on other threads do not. A
  removal is four steps (select, delete, read, write); the read and the write of
  `reconcile_state` carry the value the ORM loaded, because it writes `runs.state`
  only if its verdict differs from it.

* **ProfileLock** -- the **abstract specification** of `authorize`: a profile has
  one holder at a time, and who finds it taken is refused.
* **AccountAuth** -- the account service. A `job` is an authorization (a task) or
  a VK call whose token is rejected and refreshed; its `step` is the await it is
  at. `authMark`, `openMark` and `active` are the three sets in memory, `lock` the
  refresh locks. Everything but `delete_account` runs on the loop; the deletion is
  two steps. `check_health` keeps what it read before each of its calls. A job's
  `beside` and `late`, and `missing`, are history variables: they name the
  overlaps in which a mark does not say what it should.
* **TokenCapture** -- what AccountAuth's `AcquireToken` does in the browser: tabs
  that hold a token in their address, navigation events that observe it, and the
  one queue they go to, whose entries carry `id(context)`, a number Python uses
  again.
* **Preview** -- the preview of a dialog's last message, shared by list and
  history.
* **DialogList** -- `sync_account` (by the worker and by hand), `mark_read`,
  archive and restore. A call is asked, answered and applied in three steps, so an
  answer may be older than the list it is applied to. VK's side is part of the
  model: new messages, reading elsewhere, deletions.
* **DialogHistory** -- `sync_dialog` and its pages, `delete_message` and the
  window that pages back. Its card is written by pages, by the list's sync and by
  deletions. `owed` is history: the messages VK had when the window opened.
* **Desktop** -- processes with a main thread and a core thread, the mutex, the
  port, the window, and the run of the shared database. Whether the platform is
  Windows is chosen initially.

VK's answers to the outreach calls are six kinds: `sent`; `denied` (final codes);
`temporary`; `auth`; and two kinds of missing answer that the code treats
differently, `timeout` (timeout, HTTP 5xx, reply without an id: retried) and
`network` (network error, invalid response: sent to reconciliation). For both,
whether VK published is a free choice. The attempt state `unknown` has the
treatment of `temporary_error` everywhere in the processor, and the two are one
value here.

Operators whose comment begins with "Mutant" are not part of any specification:
each is a plausible wrong version of the definition that follows it, with which a
property listed in `PROJECT.json` is violated.

## 5. Runs

| Run | Instance | Question |
|---|---|---|
| `one_account` | 1 account, 1 group, 6 answers, all 10 events, 3 claims | duplicates, results; refinement of RunSpec |
| `two_accounts` | 2 accounts, 2 groups, sent/temporary/auth, pause, stop, removal, login, crash, 2 claims | exclusive holding, counters, quota ledger, account of a group; nothing is taken up before something sets the run going |
| `run_drains` | 2 accounts, 2 groups, no interruption, fair | a run ends; a retry is served |
| `control_requests` | 1 account, 2 groups, 2 requests at a time, limit 1, 1 claim each | halts hold although reads are stale; a stop's groups return |
| `quota_and_limit` | 1 account, 2 groups, 1 request at a time, limit 1 or 2, window 2 ticks, 2 claims each | quota ledger, also when a reset comes late; no reopening; the limit when it changes between read and claim |
| `list_editing` | 1 account, 2 groups, import and removal of any subset, 1 claim each | no stranded work, imports keep begun groups |
| `account_auth` | 1 account, 2 VK users, 2 jobs, 2 tokens, fair | one user of a profile (refinement of ProfileLock), marks, fresh logins, coalesced refreshes, deletion; every job ends |
| `token_capture` | 2 logins, 2 context ids, 3 tokens, 4 observed addresses | a login takes its own and a fresh token, and leaves none |
| `dialog_list` | 2 dialogs, 2 messages, the worker and 1 user call, VK returns 1 conversation, fair | texts on cards; convergence |
| `dialog_history` | 3 messages (the second is ours), 1 deletion, pages of 1, 2 older messages at a time | the whole history, known texts, deletions |
| `desktop` | 3 processes, both platforms | one core; the run of an open window |
| `duplicate_message` | 1 account, 1 group, sent or timeout | refutes "no duplicates" (section 7) |

The deep properties, in words:

* `DuplicateOnlyAfterBlindRetry`: a second message reaches a group only after an
  answer classed as retryable, or after a lost answer hidden behind an old login
  problem. Crashes, cancellations, stops and account changes never cause one.
* `NoResendInDoubt`: once a call was cut off or its answer lost, the group is not
  written to again (unless its history has a login problem).
* `FinishedMeansRecorded`, `FailedMeansNothingSent`, `SuggestedOnlyAfterDenial`,
  `TallyNeverAhead`: what a final row, a suggested post and a counter prove,
  whatever transaction a crash falls on.
* `QuotaLedger`: one unit per begun group of the open window, whatever retries,
  stops, resets and restarts come in between.
* `LimitAsRead`: a claim keeps to the limit its worker has read. It may pass the
  limit in force, which a settings request can lower between the worker's read
  (`processor.py:37`) and its claim (`:39`).
* `OneAccountPerGroup`, `NoReopening`: the life of a row.
* `NoClaimUnlessSetGoing`: after a pause, a stop or a restart no group is taken up
  until a Start, a Resume or the recount after a removal sets the run going. The
  last is no command to send, but the code lets it act as one (section 7).
* `HaltedRunRests`: the same with every command, and the recount, split into its
  reads and its write. `finish_if_idle` may write `waiting_limit` over a pause, a
  state in which `claim_next` claims; no group is taken up all the same.
* `SetAsideRowsReturn`: a start that sees the stop brings every group back that
  the stop set aside.
* `RunDrains`, `RetryServed`: work ends, and retries do not starve.
* `NoStrandedWork`: a completed run has nothing left to do, unless an import and
  the verdict of a removal crossed. They cross in two ways: the import writes
  between the read and the write of a verdict "completed", or that verdict is
  written between the import's look for an open run and its rows. In both the
  groups are in a run that no command can start again.
* `ImportKeepsBegunGroups`: an import that replaces the list deletes rows it has
  looked up before; none of them has been begun by then. This is so because
  workers cannot claim while it holds the loop, and would not be if its route ran
  on a thread or awaited in between.
* `SingleFlight` (the refinement of ProfileLock): whatever becomes of the marks,
  two logins never work on one profile. `WindowAlone`: nor does a message window
  beside a login, unless that login overlapped another one of the account, where
  the first to end takes the mark of both.
* `MarksHaveOwners`: no account stays "in authorization" with nobody working on
  it, but for the one leak of section 7.
* `LoginsLostToStaleEvidence`: a login VK accepts is marked lost only by a job or
  a health check whose evidence is older than it. `RefreshesCoalesce`: a refresh
  opens a browser only for a stored token that VK rejects, so calls that queued
  behind another refresh find its token. `DeletedStaysDeleted`: a deleted account
  returns only by a login nobody tied to it or one that overlapped the deletion or
  another login.
* `OwnToken`, `FreshToken`, `NoTokenKept`: the token a login takes was issued in
  its own browser and since it began, and no observed address outlives its login,
  with the exceptions the code has (an observation without owner, a tab that could
  not be blanked, a token issued while the browser closes).
* `OwnText`, `KnownTextShown`: no card shows another message's text, and an
  incoming text that is stored stays shown after its deletion, whatever order
  pages, list and deletions are applied in.
* `Converges`: if the account stays logged in, the list comes to agree with VK on
  what one call returns, whatever was answered out of order before.
* `WholeHistory`: scrolled back to the end, a window has every message it is owed,
  although offsets move while messages arrive.
* `DeletionsAnswered`: a lost answer never marks a message deleted.
* `OneCore`, `RunKeptByLaunch`: on Windows one core works at a time, unless one
  has outlived its ten seconds, and no launch suspends the run behind an open
  window.
* `JobsEnd`: no login waits for a lock or a mark for good.

**Bounds.** `ClaimBound` limits the claims of a group; with `MaxAttempts` 1, three
claims are enough for a first try, a retry, a last try that exhausts the policy
and a claim after a stop. `Window`, `LeaseTime`, `RetryDelay` are one or two
ticks: only "passed" or "not yet" is ever asked of them, and two ticks let the
window end before, between and after retries. Two accounts and two groups are the
least that show a shared pool, the row ORDER BY chooses, and a charge that belongs
to somebody else. `Limits` with two values gives a limit lowered below what was
consumed. Two requests are the least for a command that another one overtakes, and
each can be a reset, a start, a pause, a stop or a removal; `control_requests`
needs no second claim, and no second limit, which `quota_and_limit` has instead.
In `two_accounts` two groups are enough for a removal to set a paused run going
with the other one, and login problems, which set begun groups aside, for a stop
and a start that must bring them back to the same account. Counters need no bound
of their own: they grow with claims. Accounts are symmetric in the safety runs of
two accounts. `CHECK_DEADLOCK FALSE` is set in the outreach runs because a
completed run really stops.

One account is enough for `account_auth`, as marks, locks and profiles are per
account; two jobs are the least for a login beside a login or a refresh beside
another, with one token they lose and one they gain. Three tokens let a token of
an earlier login, one of this login and one of the other meet in the queue, and
two context ids let one of them return. In `dialog_list` VK returns fewer
conversations than there are, so one dialog is always beyond the page. In
`dialog_history` pages of one message make every sync of older messages run over
two requests, between which the history moves. Three processes let a second and a
third launch come while the first one's core is outliving it. None of these has
states without successors.

**Fairness** (`Outreach!Fairness`). The event loop serves ready tasks in turn, so
a task whose await is over gets the loop though others take it in between: strong
fairness of `LoopCheck`, `Answer` and `SupervisorTick` (every VK call ends by its
timeout; the supervisor sleeps 0.75 s). A section that holds the loop is not
preempted by tasks: weak fairness of `Section`. Time passes: weak fairness of
`Clock`. Nothing is assumed of the operator, of restarts, or of which answer VK
gives. `RunDrains` is about an uninterrupted program: a cancelled task leaves its
row behind (section 7).

`AccountAuth!FairSpec`: every task gets the loop and every browser, VK call and
confirmation has a timeout, hence weak fairness of a job's steps; `asyncio.Lock`
serves its waiters in order, hence strong fairness of entering a refresh.
`DialogList`: the worker's loop goes on after every error (weak fairness of its
asking), calls end by their timeouts (weak fairness of applying and ending), and
VK is not out of reach for good (strong fairness of the worker's answer). The
other runs state safety only and assume no fairness.

## 6. Proofs

TLAPS proves, for every value of the constants that the named assumptions of the
modules allow (any number of accounts, groups, requests, jobs, dialogs, messages
and processes, any page sizes):

* `RunServiceProofs`: `TypeCorrect`, `PoolAlwaysConsistent`, `AccountKept`,
  `NeverReopened`, `LedgerKept`. The inductive invariant is `RunTypeOK /\
  PoolConsistent /\ QuotaLedger`. The ledger needs the pool: that an uncounted row
  is charged to nobody makes a claim add a *new* group to `charged`, and hence one
  to its cardinality. One lemma per fact about a step (`StepKeepsAccount`,
  `StepReopensNothing`), with a case per transaction.
* `RequestProofs`, about RunControl: `ControlTypeCorrect`, `LedgerKeptByCommands`,
  `ChargesWithinLimitRead`, `SetAsideReturn`, `HaltHolds`. A step of RunControl is
  a step of `RunNext` or one of the late ones, which write what was read before (a
  reset of its own, the rows of a Start, a removal whose recount is still to come,
  and a bare write of `runs.state`), so most of `RunServiceProofs` carries over,
  and the ledger holds although commands overtake one another.
  `ChargesWithinLimitRead` follows from the ledger: the reservation looks at
  `consumed`, and the property at the groups. `SetAsideReturn` rests on
  `AsideInv`: as long as no command has written over another, groups are set aside
  only while the run is stopped. For `HaltHolds`, that the run is not running
  after a halt is not inductive: a verdict read before may be written after.
  `HaltInv` says what saves it: a worker and finish_if_idle never hold the loop at
  once (`checked` and `verdict`), so a worker that checked before the halt finds
  the run paused or stopped, and one that checks after it does not find it
  running; a recount about to write a claimable state is under way and ends
  `halted` at its read.
* `RequestProofs`, about ListEditing: `ListTypeCorrect`, `NoWorkIsStranded`,
  `ImportsSpareBegunGroups`. `ListInv` adds to the type that groups outside the
  list are unbegun (`AbsentUnbegun`), that the rows an import is about to delete
  still are (`ReplacedUnbegun`, which is where the held loop comes in), and that a
  run which is completed, or is about to be, has nothing left to do unless the two
  crossed (`NothingLeft`).
* `AccountAuthProofs`: `AuthTypeCorrect`, `AuthImplementsLock`, `MarksKeepOwners`,
  `WindowsStayAlone`, `DeletedAccountsStayDeleted`, `RefreshesAreNeeded`,
  `LoginsSurviveFreshEvidence`. The refinement needs `KeysHeld`: whoever works on
  a profile has its key in `active`, and no two work on one, so every step
  acquires a free profile, releases one, forgets all, or stutters (`LockStep`).
  The properties about marks rest on `MarkInv`: a login alone on its account holds
  its mark (`LonelyMarked`), two logins of one account know of each other
  (`PairsBeside`), and so does a login beside a window (`WindowsBeside`). `Effect`
  says what a step may do to rows and marks, so each action is examined once for
  all of them. `TokenInv` says that a rejected token stays rejected, and that a
  captured one is stored nowhere and held by no other job.
* `DesktopProofs`: `DesktopTypeCorrect`, `PortStaysServed`, `OneCoreAtATime`,
  `WindowsOpenOnOwnCore`, `LaunchesKeepTheRun`. `DesktopInv` adds that on Windows
  a process past its launch holds the mutex until it gives it back (`MutexHeld`).
* `DialogListProofs`: `ListTypeCorrect`, `CounterStaysExact`, `TextStaysOwn`,
  `IncomingTextStays`, from one invariant: the type, the exact counter and the
  texts together.
* `DialogHistoryProofs`: `HistoryTypeCorrect`, `WindowsGetTheHistory`,
  `KnownTextIsShown`, `DeletionsHaveAnswers`. A message's place is the number of
  newer ones in VK's history. Places differ (`PlacesDiffer`), only grow while
  nothing leaves the history (`PlacesGrow`), and a page is an interval of them
  (`PageFits`), so what lies before a window's offset is stored (`OwedStored`), or
  is in the answer on its way (`OwedFetched`). `CardRight` is the part about the
  card: if it lacks the stored text of its last message, it says that the message
  is deleted, which is when the list looks the text up in the row.
* `OutreachProofs`: `OutreachTypeCorrect`, with `Holds` (a worker past its claim
  has a row, and an answer after its call) as the strengthening;
  `OutreachImplementsRunService`, by `StepRefines`: every step of the program is a
  step of `RunNext` or leaves the database as it is. The two specifications share
  their variables, so the refinement mapping is the identity and the theorems of
  `RunServiceProofs` hold of the program: `OutreachKeepsLedger`,
  `OutreachKeepsAccounts` and `OutreachReopensNothing` state three of them.
  `WorkOnlyWhenSetGoing` rests on `GoingInv`: a claimable run has been set going.
  A worker or the idle verdict makes no run claimable that was not
  (`WorkerSetsNothingGoing`), and a halt or a restart, which end `setGoing`, leave
  the run unclaimable.
* `OutreachProofs`, about what is written to whom: `HolderAlone`,
  `DuplicateOnlyBlindly`, `FinishedIsRecorded`, `FailedGotNothing`,
  `SuggestedAfterDenial`, `NothingSentInDoubt`, all from `DeliveryInv`. None of
  these properties is inductive: whether a worker may call VK for its group was
  decided several transactions earlier, and a crash leaves only the rows behind.
  The invariant therefore has two halves. The *group's half* (`GroupInv`) needs no
  worker: results and history of the answers agree (`Answers`), a group that can
  be claimed again got nothing and is not in doubt, or was written to blindly
  (`RestIsClear`), and a final row has the result that made it final
  (`ResultSaved`). The *worker's half* says what a worker between two transactions
  knows of its row: it is processing for this worker's account, and so for no
  other's (`HolderRow`), and what its `pc` and its answer say of results and
  deliveries (`AtWork`: before a call nothing is in doubt, after a lost answer the
  row will not come to rest as if nothing had happened, and a result is saved
  before the row is final). A claim takes the second half from the first, a crash
  falls back to the first, and each transaction of `process_next` has a lemma that
  leads from one `AtWork` to the next. `RowsKept` and `StepOf` say once that a
  step of one worker leaves the others' rows alone, so that only the row of the
  step is looked at.
* `OutreachProofs`: `TallyNotAhead` rests on `TallyInv`, which counts the row that
  is finished and not yet counted: the counter and the rows of a worker at `count`
  move one after the other.
* `TokenCaptureProofs`: `CaptureTypeCorrect`, `TokensAreOwn`, `TokensAreFresh`,
  `NoTokenStays`, from `CaptureInv`. No two open browsers have the same id
  (`IdsDiffer`); what a run knows of tokens, in its tab, in the events to come or
  captured, was issued in its browser and since it began, unless a restored tab
  could not be blanked (`RunInv`). Of the shared queue it says that an observation
  which carries the id of an open browser was made in that browser (`Owned`),
  which is what the id's return would break if the queue were not cleared at the
  launch, and that somebody is there to take it or to drop it (`Awaited`), which
  is what clearing it at the end is for. The queue enters the proof as the set of
  what waits in it (`Dropped`, `Appended`, `Removed`).

`ClaimBound` is a guard of `ClaimWithin`, so the theorems speak of histories with
at most `ClaimBound` claims of each group, for every value of `ClaimBound`; a
history of the program has finitely many claims at any moment.

Proved and in no run, as they are what other properties rest on: `RunTypeOK`,
`PoolConsistent`, `OutreachTypeOK`, `ControlTypeOK`, the two `ListTypeOK`,
`AuthTypeOK`, `CounterExact`, `IncomingTextKept`, `DesktopTypeOK`, `PortServed`
and `OpensOnOwnCore`.

TLC checked the last inductive invariants on the instances of section 5 before
they were proved: `DeliveryInv` and `TallyInv` on those of `one_account` and
`two_accounts`, `CaptureInv` on that of `token_capture`.

Only model-checked: the liveness properties `RunDrains`, `RetryServed`, `JobsEnd`
and `Converges` (liveness under fairness is out of the prover's reach). Every
other property of the passing runs is the statement of a theorem.

## 7. What the code does not keep

One run checks a sentence of the repository and finds it violated.

| Run | Statement | What happens |
|---|---|---|
| `duplicate_message` | ambiguous failures risk no duplicate | `timeout` answers are retried with a new `random_id`; VK delivers twice |

Five more statements are definitions at the end of Outreach and ListEditing; they
do not hold of these models, and no run lists them:

* `LostAnswerNotRepeated`: after a lost answer the repetition is blocked. An older
  login problem is looked for first: the group is paused, and Stop and Start send
  it again.
* `ExpiredLeaseReconciled`: expired leases go to reconcile_required. They do only
  at the next start of the core; until then the row stays processing and the run
  busy.
* `BothDirectionsTried`: each group gets LS and a suggested post. A delivered LS
  ends the group (the newer comments in the code say so too).
* `RemovalSparesWorkInProgress`: a claim between a removal's read and its delete
  is deleted.
* `OnlyStartRuns`: only an explicit Start or Resume may transition a run to
  `running` (`supervisor.py:47-48`). Removing one of two groups of a fresh or
  paused run does it, too: `reconcile_state` finds the other one waiting and
  writes `running` (`runs.py:380`), and workers claim it. `NoClaimUnlessSetGoing`
  and `HaltedRunRests` allow for it.

Met while modelling, and kept in the models as the code has them:

* After a Stop every unbegun group is `paused`. Removing one of them makes
  `reconcile_state` write `needs_attention` over `stopped` (`runs.py:384`), and
  the next Start, which brings groups back from `stopped` only, leaves the others
  set aside until the operator stops and starts once more. `SetAsideRowsReturn`
  exempts it by `overtaken`.
* An import and the recount of a removal may cross and strand the imported groups
  in a completed run (`worklist.py:89`, `runs.py:373`; `NoStrandedWork` exempts it
  by `overlapped`).
* `docs/REQUIREMENTS_COVERAGE.md:12` names a single instance, for Windows. On
  macOS a second launch suspends the run of the first before it fails to take the
  port (`main.py:86`, `desktop/main.py`); `OneCore` and `RunKeptByLaunch` speak of
  Windows.
* The mark of a re-authorization whose account was deleted meanwhile is never
  given back (`accounts.py:284`), so that account id stays "in authorization"
  until a restart.
* Two logins of one account share one mark; the first to end frees the profile for
  a message window while the other works (`WindowAlone` exempts it).
* A token observed while a browser closes stays in the queue until its context id
  returns (`NoTokenKept` exempts it).
* `client.py:214` takes any response to a deletion for success;
  `DeletionsAnswered` says no more than that VK answered.
* The first local page counts rows of an earlier visit as if they were the newest:
  the offset then passes over messages that came in between (`InboxPage.tsx:196`),
  a gap that `owed` leaves out; `loadOlder` does not look again at `selected`
  after its await (`InboxPage.tsx:210`).
* Only the first 100 conversations are ever asked for; `Converges` is about these.
* Outside the models: an exception of `settings.all()` ends the inbox task for the
  session (`inbox_sync.py:104`); `try_resume_waiting` has no caller
  (`runs.py:177`); a new quick reply always gets position 0
  (`quick_replies.py:43`).
* No dialog is ever muted: archive asks the client for `set_peer_notifications`,
  and the client has no such call.

## 8. What the models leave out

* One run. `claim_next` prefers the newest run and the supervisor asks for the
  newest running one; with one run both are that run.
* RunService and Outreach keep `start`, `pause`, `stop`, `finish_if_idle` and the
  removal with its recount in one step each; RunControl lifts this, without VK's
  calls and the account routes. There the reads of one Start before its first
  write are one read, and the rows it changes are the ones it finds when it
  writes. finish_if_idle writes after the read of its counts; its first read and
  the counts are two steps. The reads of one recount are one step, and in
  RunControl the rows of a removal are looked up and deleted in one step;
  ListEditing separates these two.
* Where one write of `runs.state` overtakes another, the last one stays: a stop
  can be lost to a verdict, and its groups then stay `paused` until the operator
  stops and starts again. `SetAsideRowsReturn` exempts these histories by
  `overtaken`.
* Disabling an account and releasing its unstarted rows is one step. Deletion of
  an account is modelled with its login (AccountAuth), not with its work: there it
  leaves begun rows without an account.
* An import's own reads are one step, and it never opens a new run: with one run,
  an import that finds it completed is left out. Removals in Outreach take no
  group that a worker holds; that the code may delete a row which was claimed
  after the look is in ListEditing, without VK's calls.
* Texts, reasons, log rows, display names, delays between groups.
* The legacy claim without a limit, `QuotaService.reserve` and
  `try_resume_waiting`, which the program never calls.
* AccountAuth: the profile directories and their row ids, the store of pending
  tokens, the parts of a login page. One account per run, so a health check that
  holds the status of a second account over a first one's call is covered by the
  proof only.
* TokenCapture: which buttons the VKHost flow presses; a login may find its token
  or fail at every step instead.
* DialogList and DialogHistory: the read flag of single messages, folders, pins,
  replies, edits and reactions; attachments. The window's paging calls do not
  overlap one another (the page asks for one at a time); its refreshes do overlap
  them. A sync of the list replaces the card of a dialog in one step.
* Desktop: the self tests, the tray icon, the fallback to a browser; uvicorn is
  external and modelled by what the shell relies on (start-up, then the port, then
  serving until `should_exit`). The run is "running" or "paused" there.

## 9. Plan

Done in this order: Quota, WorkQueue, RunService, Outreach, ListEditing,
RunControl; then ProfileLock, AccountAuth, TokenCapture, Preview, DialogList,
DialogHistory and Desktop; then the proofs of all safety properties, those about
deliveries and about captured tokens last. Next, most important first:

1. **Runs** -- several runs, claim order, delete_history beside a worker.
2. **Supervisor** -- death and restart of the supervisor task, graceful stop.
3. **Messages** -- the read flags of single messages and the unread counter they
   imply.
4. **Distribution, MessageVariants, QuickReplies, Backup, Normalization** -- pure
   algorithms against reference definitions over bounded inputs.
