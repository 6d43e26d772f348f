---------------------------- MODULE ListEditing ----------------------------
(***************************************************************************)
(* Editing the list of groups while the program works on it: import        *)
(* (services/worklist.py import_text) and removal (routes.py               *)
(* remove_groups: WorkListService.remove_unstarted, then                   *)
(* RunService.reconcile_state).  Both read before they write, without the  *)
(* database lock.  The removal runs on a thread, so anything may come in   *)
(* between; the import keeps the event loop from its first read to its     *)
(* commit, so only other threads may.  Workers, the supervisor and the     *)
(* operator are those of RunService.                                       *)
(***************************************************************************)
EXTENDS RunService

VARIABLES
    importing,  \* an import has found its run and not yet written
    replaced,   \* the rows it has decided to delete
    phase,      \* where the removal request is
    doomed,     \* the rows it has decided to delete
    loaded,     \* runs.state as reconcile_state loaded it
    reconciled, \* the state it is going to write
    overlapped  \* history: a verdict "completed" and the rows of an import crossed

importVars == <<importing, replaced>>
removeVars == <<phase, doomed, loaded, reconciled>>
editVars == <<importVars, removeVars, overlapped>>
listVars == <<dbVars, editVars>>

ListTypeOK ==
    /\ RunTypeOK
    /\ importing \in BOOLEAN /\ replaced \subseteq Items
    /\ phase \in {"idle", "selected", "deleted", "read"}
    /\ doomed \subseteq Items
    /\ loaded \in RunState /\ reconciled \in RunState
    /\ overlapped \in BOOLEAN

Absent == InState({"absent"})

ListInit ==
    /\ RunInit
    /\ itemAccount = [i \in Items |-> NoAccount]
    /\ importing = FALSE /\ replaced = {}
    /\ phase = "idle" /\ doomed = {}
    /\ loaded = "draft" /\ reconciled = "draft"
    /\ overlapped = FALSE

-----------------------------------------------------------------------------
\* The rows of Removed disappear and fresh waiting rows of Added appear.
EditRows(Removed, Added) ==
    /\ itemState' = [i \in Items |-> IF i \in Added THEN "waiting"
                                     ELSE IF i \in Removed THEN "absent" ELSE itemState[i]]
    /\ itemAccount' = [i \in Items |-> IF i \in Removed \cup Added THEN NoAccount ELSE itemAccount[i]]
    /\ counted' = [i \in Items |-> counted[i] /\ i \notin Removed \cup Added]
    /\ attempts' = [i \in Items |-> IF i \in Removed \cup Added THEN 0 ELSE attempts[i]]
    /\ leaseLeft' = [i \in Items |-> IF i \in Removed \cup Added THEN 0 ELSE leaseLeft[i]]
    /\ retryIn' = [i \in Items |-> IF i \in Removed \cup Added THEN 0 ELSE retryIn[i]]
    /\ UNCHANGED <<quotaVars, dailyLimit, accountVars>>

\* Mutant: an import lets the loop go between its read and its write.
LoopNeverHeld == TRUE
LoopLetGo == ~importing

\* import_text into the open run: it looks for the run and, to replace the list,
\* for the rows that nobody has begun.
ImportRead(replace) ==
    /\ ~importing /\ runState # "completed"
    /\ importing' = TRUE
    /\ replaced' = IF replace THEN Unbegun ELSE {}
    /\ UNCHANGED <<dbVars, removeVars, overlapped>>

\* It deletes those rows and adds the groups of Refs that are not in the run.  (A
\* group found there before the first write is as good as not asked for.)
ImportWrite(Refs) ==
    /\ importing
    /\ EditRows(replaced, Refs \cap (Absent \cup replaced))
    /\ overlapped' = (overlapped \/ (phase = "read" /\ reconciled = "completed"))
    /\ importing' = FALSE /\ replaced' = {}
    /\ UNCHANGED <<runState, removeVars>>

-----------------------------------------------------------------------------
(* remove_groups, four database steps of one request. *)

RemoveSelect(Ids) ==
    /\ phase = "idle"
    /\ doomed' = Ids \cap Removable
    /\ doomed' # {}
    /\ phase' = "selected"
    /\ UNCHANGED <<dbVars, loaded, reconciled, importVars, overlapped>>

RemoveCommit ==
    /\ phase = "selected"
    /\ EditRows(doomed, {})
    /\ phase' = "deleted"
    /\ doomed' = {}
    /\ UNCHANGED <<runState, loaded, reconciled, importVars, overlapped>>

ReconcileRead ==
    /\ phase = "deleted"
    /\ loaded' = runState
    /\ reconciled' = ReconcileVerdict(itemState, runState)
    /\ phase' = "read"
    /\ UNCHANGED <<dbVars, doomed, importVars, overlapped>>

\* The ORM writes runs.state only when it differs from what it loaded.
ReconcileWrite ==
    /\ phase = "read"
    /\ runState' = IF reconciled # loaded THEN reconciled ELSE runState
    /\ overlapped' = (overlapped \/ (importing /\ reconciled = "completed"))
    /\ phase' = "idle"
    /\ loaded' = "draft" /\ reconciled' = "draft"
    /\ UNCHANGED <<itemVars, quotaVars, dailyLimit, accountVars, doomed, importVars>>

-----------------------------------------------------------------------------
Edit ==
    \/ \E replace \in BOOLEAN : ImportRead(replace)
    \/ \E Refs \in SUBSET Items : ImportWrite(Refs)
    \/ \E Ids \in SUBSET Items : RemoveSelect(Ids)
    \/ RemoveCommit \/ ReconcileRead \/ ReconcileWrite

\* The program of RunService: requests on threads, and the tasks of the loop.
Program ==
    \/ CommandRun \/ Configure \/ (ClockTick /\ UNCHANGED accountVars)
    \/ LoopLetGo /\ (Work \/ FinishIfIdle \/ ChangeLogin)

\* A restart forgets the requests.
ListNext ==
    \/ Edit
    \/ Program /\ UNCHANGED editVars
    \/ /\ Startup
       /\ importing' = FALSE /\ replaced' = {}
       /\ phase' = "idle" /\ doomed' = {} /\ loaded' = "draft" /\ reconciled' = "draft"
       /\ UNCHANGED overlapped

ListSpec == ListInit /\ [][ListNext]_listVars

-----------------------------------------------------------------------------
\* A run is completed only with nothing left to do in it, unless an import and a
\* removal crossed: the import wrote its rows between the read and the write of a
\* removal's verdict "completed", or that verdict was written between the import's
\* look at the run and its rows.  Then these are stranded in a run that no command
\* can start again.
NoStrandedWork == runState = "completed" /\ ~overlapped => Open = {}

\* Whatever an import has read before, it neither deletes a group that has been
\* begun nor makes it a fresh one: a begun group leaves the list only through a
\* removal that the operator asked for.
ImportKeepsBegunGroups ==
    [][\A i \in Items : Started(i) =>
          \/ itemState'[i] # "absent" /\ attempts'[i] >= attempts[i]
          \/ RemoveCommit]_listVars

-----------------------------------------------------------------------------
(* A statement of the repository that the code does not keep. *)

\* worklist.py:204-205: processing and retry-wait items are never deleted here.
RemovalSparesWorkInProgress ==
    [][\A i \in Items : itemState[i] \in {"processing", "retry_wait"}
          => itemState'[i] # "absent"]_listVars
=============================================================================
