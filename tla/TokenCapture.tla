---------------------------- MODULE TokenCapture ----------------------------
(***************************************************************************)
(* How a browser's address becomes a token: PlaywrightTokenProvider.       *)
(*                                                                         *)
(* One provider serves all authorizations, each a run with a browser       *)
(* context of its own (AccountAuth's AcquireToken is one run).  The runs   *)
(* share one queue of observed addresses; an entry carries the id() of the *)
(* context it was seen in, which Python gives to a later context again     *)
(* once the first one is gone, or no owner, when the page would not say.   *)
(* Every await lets the others, and the navigation events, in.             *)
(***************************************************************************)
EXTENDS Integers, Sequences, FiniteSets, SequencesExt

CONSTANTS Runs,      \* the authorizations (profiles) that may run at one time
          Ids,       \* the values id(context) takes
          NoId,      \* no context; as an owner: unknown
          MaxToken,  \* bound on the tokens VK issues
          MaxQueue   \* bound on the addresses observed at one time

ASSUME NamesAssumption == NoId \notin Ids
ASSUME BoundAssumption == MaxToken \in Nat /\ MaxQueue \in Nat

VARIABLES
    run,     \* what each run is doing
    tab,     \* tab[r]: the token in the address of a tab of r's profile, or 0
    queue,   \* _observed_token_urls
    origin   \* origin[t]: the run in whose browser VK issued token t

vars == <<run, tab, queue, origin>>

Tokens == 1..MaxToken
Issued == Len(origin)

(***************************************************************************)
(* The steps of a run; each ends at an await:                              *)
(*  opened    blanking tabs that were restored with a token                *)
(*  gate      waiting for the user to confirm the login                    *)
(*  driving   clicking through VKHost, looking for a token                 *)
(*  captured  has one, blanking its tab                                    *)
(*  closing   has dropped its observations, closing the browser            *)
(* events is the number of navigation events (a request, a framenavigated) *)
(* of token news still to be delivered.  since, stuck and loose are        *)
(* history: the tokens issued before the run, whether a restored tab could *)
(* not be blanked, whether the token came without an owner.                *)
(***************************************************************************)
Steps == {"idle", "opened", "gate", "driving", "captured", "closing"}
RunRecords ==
    [step: Steps, id: Ids \union {NoId}, tok: 0..MaxToken, news: 0..MaxToken,
     events: 0..2, since: 0..MaxToken, stuck: BOOLEAN, loose: BOOLEAN]
IdleRun ==
    [step |-> "idle", id |-> NoId, tok |-> 0, news |-> 0,
     events |-> 0, since |-> 0, stuck |-> FALSE, loose |-> FALSE]

(***************************************************************************)
(* late is history: observed after the run dropped its observations.       *)
(***************************************************************************)
Observations == [tok: Tokens, owner: Ids \union {NoId}, late: BOOLEAN]

CaptureTypeOK ==
    /\ run \in [Runs -> RunRecords]
    /\ tab \in [Runs -> 0..MaxToken]
    /\ queue \in Seq(Observations) /\ Len(queue) <= MaxQueue
    /\ origin \in Seq(Runs) /\ Issued <= MaxToken

Init ==
    /\ run = [r \in Runs |-> IdleRun]
    /\ tab = [r \in Runs |-> 0]
    /\ queue = <<>> /\ origin = <<>>

Running(r) == run[r].step # "idle"

-----------------------------------------------------------------------------
(***************************************************************************)
(* _drop_context_observations, which _discard_stale_token_pages begins     *)
(* with too: what has no owner goes with it.                               *)
(***************************************************************************)
\* Mutant: nothing goes.
DropNothing(id) == UNCHANGED queue

\* What stays keeps its order.
DropObservations(id) ==
    LET kept == {i \in 1..Len(queue) : queue[i].owner \notin {id, NoId}} IN
    \E place \in [1..Cardinality(kept) -> kept] :
        /\ \A m, n \in DOMAIN place : m < n => place[m] < place[n]
        /\ queue' = [n \in DOMAIN place |-> queue[place[n]]]

\* Mutant: the queue is taken over as it is.
LaunchOnOldQueue(r, id) ==
    /\ ~Running(r) /\ \A other \in Runs : run[other].id # id
    /\ run' = [run EXCEPT ![r] = [IdleRun EXCEPT !.step = "opened", !.id = id,
                                                 !.since = Issued]]
    /\ \E left \in {0, tab[r]} : tab' = [tab EXCEPT ![r] = left]
    /\ UNCHANGED <<queue, origin>>

(***************************************************************************)
(* acquire_token: the browser starts.  Its profile is scrubbed first, as   *)
(* far as the files can be deleted.                                        *)
(***************************************************************************)
Launch(r, id) ==
    /\ ~Running(r) /\ \A other \in Runs : run[other].id # id
    /\ run' = [run EXCEPT ![r] = [IdleRun EXCEPT !.step = "opened", !.id = id,
                                                 !.since = Issued]]
    /\ \E left \in {0, tab[r]} : tab' = [tab EXCEPT ![r] = left]
    /\ DropObservations(id)
    /\ UNCHANGED origin

(***************************************************************************)
(* A restored tab is blanked, or the navigation fails unnoticed; then the  *)
(* context is watched, and a token still there is observed.                *)
(***************************************************************************)
Observed(r, tok, owner) ==
    [tok |-> tok, owner |-> owner, late |-> run[r].step = "closing"]

\* Mutant: a tab's address is observed whatever it is.
WatchAnyAddress(r) ==
    /\ run[r].step = "opened"
    /\ \E left \in {0, tab[r]} :
          /\ tab' = [tab EXCEPT ![r] = left]
          /\ run' = [run EXCEPT ![r].step = "gate", ![r].stuck = left # 0]
          /\ queue' = Append(queue, Observed(r, left, run[r].id))
    /\ UNCHANGED origin

Watch(r) ==
    /\ run[r].step = "opened"
    /\ \E left \in {0, tab[r]} :
          /\ tab' = [tab EXCEPT ![r] = left]
          /\ run' = [run EXCEPT ![r].step = "gate", ![r].stuck = left # 0]
          /\ IF left = 0 THEN UNCHANGED queue
             ELSE /\ Len(queue) < MaxQueue
                  /\ queue' = Append(queue, Observed(r, left, run[r].id))
    /\ UNCHANGED origin

(***************************************************************************)
(* The user confirms (a refresh asks nobody), or does not in time.         *)
(***************************************************************************)
Confirmed(r) ==
    /\ run[r].step = "gate"
    /\ run' = [run EXCEPT ![r].step = "driving"]
    /\ UNCHANGED <<tab, queue, origin>>

(***************************************************************************)
(* VK issues a token: a tab goes to an address that carries it.  This may  *)
(* happen when the run has just given up.                                  *)
(***************************************************************************)
Issue(r) ==
    /\ run[r].step \in {"driving", "closing"} /\ run[r].tok = 0 /\ run[r].events = 0
    /\ Issued < MaxToken
    /\ origin' = Append(origin, r)
    /\ tab' = [tab EXCEPT ![r] = Issued + 1]
    /\ run' = [run EXCEPT ![r].news = Issued + 1, ![r].events = 2]
    /\ UNCHANGED queue

(***************************************************************************)
(* _record_navigation_url, called by the event of a page that may not say  *)
(* any more which context it is in.                                        *)
(***************************************************************************)
RecordNavigation(r) ==
    /\ run[r].events > 0
    /\ Len(queue) < MaxQueue
    /\ \E owner \in {run[r].id, NoId} :
          queue' = Append(queue, Observed(r, run[r].news, owner))
    /\ run' = [run EXCEPT ![r].events = @ - 1]
    /\ UNCHANGED <<tab, origin>>

(***************************************************************************)
(* _capture_token_url_from_context: the first observation of this context  *)
(* or of none, the others stay in their order; else a tab's address.       *)
(***************************************************************************)
\* Mutant: whoever looks first takes the first observation.
AllAreMine(r) == 1..Len(queue)


MineOrNone(r) == {i \in 1..Len(queue) : queue[i].owner \in {run[r].id, NoId}}

Capture(r) ==
    LET mine == MineOrNone(r)
        first == CHOOSE i \in mine : \A j \in mine : i <= j IN
    /\ run[r].step = "driving"
    /\ IF mine # {}
          THEN /\ run' = [run EXCEPT ![r].step = "captured", ![r].tok = queue[first].tok,
                                     ![r].loose = queue[first].owner = NoId]
               /\ queue' = RemoveAt(queue, first)
          ELSE /\ tab[r] # 0
               /\ run' = [run EXCEPT ![r].step = "captured", ![r].tok = tab[r]]
               /\ UNCHANGED queue
    /\ UNCHANGED <<tab, origin>>

(***************************************************************************)
(* The run is over, with a token or with an error (no confirmation, no     *)
(* token in time, a page that does not load): its finally block.  The tab  *)
(* of a captured token is blank now, unless that failed.                   *)
(***************************************************************************)
Drop(r) ==
    /\ run[r].step \in {"opened", "gate", "driving", "captured"}
    /\ run' = [run EXCEPT ![r].step = "closing"]
    /\ DropObservations(run[r].id)
    /\ \E left \in {0, tab[r]} :
          /\ run[r].step # "captured" => left = tab[r]
          /\ tab' = [tab EXCEPT ![r] = left]
    /\ UNCHANGED origin

Close(r) ==
    /\ run[r].step = "closing"
    /\ run' = [run EXCEPT ![r] = IdleRun]
    /\ \E left \in {0, tab[r]} : tab' = [tab EXCEPT ![r] = left]
    /\ UNCHANGED <<queue, origin>>

Next == \E r \in Runs :
    \/ \E id \in Ids : Launch(r, id)
    \/ Watch(r) \/ Confirmed(r) \/ Issue(r) \/ RecordNavigation(r)
    \/ Capture(r) \/ Drop(r) \/ Close(r)

Spec == Init /\ [][Next]_vars

-----------------------------------------------------------------------------
(***************************************************************************)
(* Properties.                                                             *)
(***************************************************************************)

(***************************************************************************)
(* A run gets no token that VK issued in another run's browser, though     *)
(* they share the queue and ids return; only an observation without owner  *)
(* is anybody's (_capture_token_url_from_context, _page_context_id).       *)
(***************************************************************************)
OwnToken ==
    \A r \in Runs : run[r].tok # 0 => origin[run[r].tok] = r \/ run[r].loose

(***************************************************************************)
(* A run gets no token from before it started: three things must fail for  *)
(* that, blanking the tab at the end of the earlier run, scrubbing the     *)
(* profile and blanking the restored tab (acquire_token,                   *)
(* _discard_stale_token_pages).                                            *)
(***************************************************************************)
FreshToken ==
    \A r \in Runs :
        run[r].tok # 0 => run[r].tok > run[r].since \/ run[r].stuck \/ run[r].loose

(***************************************************************************)
(* No token is kept in memory once its run is over, but for the one VK     *)
(* issued while the run was closing its browser (acquire_token's finally   *)
(* block).                                                                 *)
(***************************************************************************)
NoTokenKept ==
    \A i \in 1..Len(queue) :
        \/ queue[i].late
        \/ \E r \in Runs : Running(r) /\ queue[i].owner \in {run[r].id, NoId}

=============================================================================
