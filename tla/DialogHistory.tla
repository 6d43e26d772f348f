--------------------------- MODULE DialogHistory ---------------------------
(***************************************************************************)
(* The messages of one dialog: InboxService's sync_dialog and              *)
(* delete_message, and the window that pages back through the history.     *)
(*                                                                         *)
(* sync_dialog fetches pages by offset from the newest message on, while   *)
(* VK's history grows at its new end and loses messages anywhere; every    *)
(* answer may be older than the rows it is stored into.  The dialog's card *)
(* is written by history pages, by the list's sync (DialogList) and by     *)
(* deletions.                                                              *)
(***************************************************************************)
EXTENDS Preview, FiniteSets, FiniteSetsExt

CONSTANTS Outgoing,    \* the messages we sent, the others came in
          MaxDeleted,  \* bound on the messages deleted at VK
          Chunk,       \* what one request to VK asks for at most (200)
          FirstCount,  \* what the window asks for when it opens (50)
          OlderCount   \* and when it is scrolled back

ASSUME OutgoingAssumption == Outgoing \subseteq MsgIds
ASSUME DeletedAssumption == MaxDeleted \in Nat
ASSUME CountAssumption == {Chunk, FirstCount, OlderCount} \subseteq Nat \ {0}

VARIABLES
    vk,     \* the dialog at VK
    rows,   \* the messages table
    card,   \* the preview columns of the dialogs row
    call,   \* the calls in flight
    window  \* the open dialog in the frontend

vars == <<vk, rows, card, call, window>>

(***************************************************************************)
(* VK: the last id, which messages are deleted but still in the history,   *)
(* which have left it.                                                     *)
(***************************************************************************)
VkStates == [top: 0..MaxMsg, gone: SUBSET MsgIds, hidden: SUBSET MsgIds]

History == (1..vk.top) \ vk.hidden
Newer(m) == {k \in History : k > m}
PageAt(offset, n) == {m \in History : Cardinality(Newer(m)) \in offset..(offset + n - 1)}
Raw(answer, m) == [id |-> m, out |-> m \in Outgoing, gone |-> m \in answer.gone]

(***************************************************************************)
(* The rows: stored, incoming ones with a text, marked deleted.            *)
(***************************************************************************)
RowSets == [stored: SUBSET MsgIds, body: SUBSET MsgIds, deleted: SUBSET MsgIds]

(***************************************************************************)
(* The calls: paging is the window's sync when it opens and then of older  *)
(* pages, other anything else.  next is sync_dialog's current_offset, left *)
(* its remaining, msg the message to delete.                               *)
(***************************************************************************)
Callers == {"paging", "other"}
NoAnswer == [ids |-> {}, gone |-> {}, total |-> 0]
Answers == [ids: SUBSET MsgIds, gone: SUBSET MsgIds, total: 0..MaxMsg]
NoCall == [what |-> "sync", step |-> "idle", first |-> FALSE, next |-> 0, left |-> 0, msg |-> 0,
           answer |-> NoAnswer]
Calls == [what: {"sync", "list", "delete"}, step: {"idle", "asked", "answered"},
          first: BOOLEAN, next: 0..MaxMsg, left: 0..Max({FirstCount, OlderCount}), msg: 0..MaxMsg,
          answer: Answers]

(***************************************************************************)
(* The window: whether its first local page was read, remoteOffset and     *)
(* hasMoreRemote.  owed is history: the messages VK had when the window    *)
(* opened, less those it passes over (see ReadLocalPage and Shift).        *)
(***************************************************************************)
Windows == [open: BOOLEAN, seen: BOOLEAN, offset: 0..MaxMsg, more: BOOLEAN,
            owed: SUBSET MsgIds]
Closed == [open |-> FALSE, seen |-> FALSE, offset |-> 0, more |-> TRUE, owed |-> {}]

HistoryTypeOK ==
    /\ vk \in VkStates
    /\ rows \in RowSets
    /\ card \in Previews
    /\ call \in [Callers -> Calls]
    /\ window \in Windows

Init ==
    /\ vk = [top |-> 0, gone |-> {}, hidden |-> {}]
    /\ rows = [stored |-> {}, body |-> {}, deleted |-> {}]
    /\ card = NoPreview
    /\ call = [c \in Callers |-> NoCall]
    /\ window = Closed

-----------------------------------------------------------------------------
(***************************************************************************)
(* At VK: a message comes in or goes out; one is deleted and stays in the  *)
(* history as such or leaves it.                                           *)
(***************************************************************************)
Arrive ==
    /\ vk.top < MaxMsg
    /\ vk' = [vk EXCEPT !.top = @ + 1]
    /\ UNCHANGED <<rows, card, call, window>>

Flagged(m) == [vk EXCEPT !.gone = @ \union {m}]
Gone(m) == [vk EXCEPT !.gone = @ \ {m}, !.hidden = @ \union {m}]
Deletable == {m \in History : Cardinality(vk.gone \union vk.hidden \union {m}) <= MaxDeleted}

(***************************************************************************)
(* A message that leaves the history moves every older one up a place: the *)
(* window owes nothing any more.                                           *)
(***************************************************************************)
Shift == window' = [window EXCEPT !.owed = IF vk'.hidden = vk.hidden THEN @ ELSE {}]

DeletedElsewhere ==
    /\ \E m \in Deletable : vk' \in {Flagged(m), Gone(m)}
    /\ Shift
    /\ UNCHANGED <<rows, card, call>>

-----------------------------------------------------------------------------
(***************************************************************************)
(* The calls up to their first await.                                      *)
(***************************************************************************)
Ask(c, begun) ==
    /\ call[c].step = "idle"
    /\ call' = [call EXCEPT ![c] = begun]

Sync(offset, count, first) ==
    [NoCall EXCEPT !.step = "asked", !.next = offset, !.left = count, !.first = first]

(***************************************************************************)
(* The dialog is opened, or another one and then this one again.  A bound: *)
(* its earlier runs have ended.                                            *)
(***************************************************************************)
OpenWindow ==
    /\ Ask("paging", Sync(0, FirstCount, TRUE))
    /\ window' = [Closed EXCEPT !.open = TRUE, !.owed = History]
    /\ UNCHANGED <<vk, rows, card>>

(***************************************************************************)
(* The first page of local rows arrives, and with it local_total, which is *)
(* taken for a place in VK's history.                                      *)
(***************************************************************************)
ReadLocalPage ==
    LET total == Cardinality(rows.stored)
        offset == Max({window.offset, total}) IN
    /\ window.open /\ ~window.seen
    /\ window' = [window EXCEPT !.seen = TRUE, !.offset = offset,
                                !.owed = @ \ (PageAt(0, offset) \ rows.stored)]
    /\ UNCHANGED <<vk, rows, card, call>>

(***************************************************************************)
(* loadOlder, when every local row has been shown.                         *)
(***************************************************************************)
LoadOlder ==
    /\ window.seen /\ window.more /\ rows.stored # {}
    /\ Ask("paging", Sync(window.offset, OlderCount, FALSE))
    /\ UNCHANGED <<vk, rows, card, window>>

Refresh == /\ window.open
           /\ Ask("other", Sync(0, FirstCount, FALSE))
           /\ UNCHANGED <<vk, rows, card, window>>

AskOther(what, m) ==
    /\ what = "delete" <=> m # 0
    /\ m \in rows.stored \union {0}
    /\ Ask("other", [NoCall EXCEPT !.what = what, !.step = "asked", !.msg = m])
    /\ UNCHANGED <<vk, rows, card, window>>

-----------------------------------------------------------------------------
(***************************************************************************)
(* VK carries a call out.  A deletion leaves the message in the history or *)
(* not; delete_message asks VK for one message and takes any answer for    *)
(* success, the one that nothing was deleted too.                          *)
(***************************************************************************)
CarriedOut(c) ==
    IF call[c].msg \in Deletable THEN {vk, Flagged(call[c].msg), Gone(call[c].msg)}
    ELSE {vk}

AnswerTo(c) ==
    LET ids == CASE call[c].what = "sync" ->
                       PageAt(call[c].next, Min({call[c].left, Chunk}))
                 [] call[c].what = "list" -> PageAt(0, 1)
                 [] OTHER -> {}
    IN [ids |-> ids, gone |-> ids \intersect vk.gone,
        total |-> IF call[c].what = "sync" THEN Cardinality(History) ELSE 0]

Answer(c) ==
    /\ call[c].step = "asked"
    /\ vk' \in CarriedOut(c)
    /\ Shift
    /\ call' = [call EXCEPT ![c].step = "answered", ![c].answer = AnswerTo(c)]
    /\ UNCHANGED <<rows, card>>

\* Mutant: the row is marked whatever became of the call.
FailureMarksRow(c) ==
    /\ call[c].step = "asked"
    /\ vk' \in {vk} \union CarriedOut(c)
    /\ Shift
    /\ rows' = [rows EXCEPT !.deleted = @ \union ({call[c].msg} \ {0})]
    /\ call' = [call EXCEPT ![c] = NoCall]
    /\ UNCHANGED card

(***************************************************************************)
(* The call fails, or VK carries it out and its answer is lost.            *)
(***************************************************************************)
CallFails(c) ==
    /\ call[c].step = "asked"
    /\ vk' \in {vk} \union CarriedOut(c)
    /\ Shift
    /\ call' = [call EXCEPT ![c] = NoCall]
    /\ UNCHANGED <<rows, card>>

-----------------------------------------------------------------------------
(***************************************************************************)
(* _store_raw_message for every message of a page.  The text of a deleted  *)
(* incoming message is not in the answer and stays as it is known.         *)
(***************************************************************************)
BodiesAfter(a) == rows.body \union (a.ids \ (a.gone \union Outgoing))

StoredRows(a) ==
    [stored |-> rows.stored \union a.ids,
     body |-> BodiesAfter(a),
     deleted |-> (rows.deleted \ a.ids) \union a.gone]

(***************************************************************************)
(* _store_history_page moves the card only forward.                        *)
(***************************************************************************)
CardOfPage(a) ==
    IF a.ids = {} \/ Max(a.ids) < card.last THEN card
    ELSE PreviewFromRaw(card, Raw(a, Max(a.ids)))

(***************************************************************************)
(* list_dialogs: a deleted incoming message without text on its card is    *)
(* shown with the text of its row.                                         *)
(***************************************************************************)
\* Mutant: the card alone counts.
ShownOnCard == card.text

ShownText ==
    IF card.text = 0 /\ card.gone /\ ~card.out /\ card.last \in rows.body
       THEN card.last ELSE card.text

(***************************************************************************)
(* sync_dialog after an answer: the page is stored; the run goes on unless *)
(* the page was short or it has all it wants, and then tells the window    *)
(* how far it came.  (The outcome of the first run is dropped when another *)
(* one was started with the same button meanwhile.)                        *)
(***************************************************************************)
\* Mutants: the next page starts one message further on; a page counts for
\* one message more than it has.
OffsetPastNext(c) == call[c].next + Cardinality(call[c].answer.ids) + 1
LeftLess(c) == call[c].left - Cardinality(call[c].answer.ids) - 1

NextOffset(c) == call[c].next + Cardinality(call[c].answer.ids)
Left(c) == call[c].left - Cardinality(call[c].answer.ids)

RunEnds(c) ==
    \/ Cardinality(call[c].answer.ids) < Min({call[c].left, Chunk})
    \/ Left(c) = 0

Told(c) ==
    LET told(offset) == [window EXCEPT !.offset = offset,
                                       !.more = NextOffset(c) < call[c].answer.total]
    IN IF c = "other" THEN {window}
       ELSE IF call[c].first THEN {window, told(Max({window.offset, NextOffset(c)}))}
       ELSE {told(NextOffset(c))}

ApplyPage(c) ==
    /\ call[c].step = "answered" /\ call[c].what = "sync"
    /\ rows' = StoredRows(call[c].answer)
    /\ card' = CardOfPage(call[c].answer)
    /\ IF RunEnds(c)
          THEN /\ call' = [call EXCEPT ![c] = NoCall]
               /\ window' \in Told(c)
          ELSE /\ call' = [call EXCEPT
                             ![c] = Sync(NextOffset(c), Left(c), call[c].first)]
               /\ UNCHANGED window
    /\ UNCHANGED vk

(***************************************************************************)
(* The list's sync writes the card whatever it shows (DialogList).         *)
(***************************************************************************)
ApplyList(c) ==
    LET a == call[c].answer IN
    /\ call[c].step = "answered" /\ call[c].what = "list"
    /\ card' = IF a.ids = {} THEN card ELSE PreviewFromRaw(card, Raw(a, Max(a.ids)))
    /\ call' = [call EXCEPT ![c] = NoCall]
    /\ UNCHANGED <<vk, rows, window>>

(***************************************************************************)
(* delete_message: the row, and the card when it shows this message.       *)
(***************************************************************************)
ApplyDelete(c) ==
    LET m == call[c].msg  text == IF m \in rows.body THEN m ELSE 0 IN
    /\ call[c].step = "answered" /\ call[c].what = "delete"
    /\ rows' = [rows EXCEPT !.deleted = @ \union {m}]
    /\ card' = IF card.last # m THEN card
               ELSE [last |-> m, text |-> text, out |-> m \in Outgoing, gone |-> TRUE]
    /\ call' = [call EXCEPT ![c] = NoCall]
    /\ UNCHANGED <<vk, window>>

Next ==
    \/ Arrive \/ DeletedElsewhere
    \/ OpenWindow \/ ReadLocalPage \/ LoadOlder \/ Refresh
    \/ \E what \in {"list", "delete"}, m \in 0..MaxMsg : AskOther(what, m)
    \/ \E c \in Callers :
          Answer(c) \/ CallFails(c) \/ ApplyPage(c) \/ ApplyList(c) \/ ApplyDelete(c)

Spec == Init /\ [][Next]_vars

-----------------------------------------------------------------------------
(***************************************************************************)
(* Properties.                                                             *)
(***************************************************************************)

(***************************************************************************)
(* Scrolled back until VK has no more, the window has every message VK had *)
(* when it opened, whatever arrived and whichever calls failed meanwhile.  *)
(* Two things break this: a message that leaves VK's history while the     *)
(* window is open, and rows of an earlier visit, which local_total counts  *)
(* as if they were the newest (sync_dialog, list_messages, InboxPage).     *)
(***************************************************************************)
WholeHistory ==
    window.open /\ ~window.more /\ call["paging"].step = "idle" =>
        window.owed \subseteq rows.stored

(***************************************************************************)
(* The text of an incoming message that was stored is on the dialog's card *)
(* as long as that message is the last one there, deleted or not, whatever *)
(* wrote the card (list_dialogs, _store_history_page, delete_message).     *)
(***************************************************************************)
KnownTextShown ==
    card.last \in rows.body => ShownText = card.last

(***************************************************************************)
(* A message becomes deleted here only if VK deleted it, or answered a     *)
(* deletion without doing it (delete_message).                             *)
(***************************************************************************)
DeletionsAnswered ==
    [][\A m \in rows'.deleted \ rows.deleted :
         \/ m \in vk.gone \union vk.hidden
         \/ \E c \in Callers : call[c].msg = m /\ call[c].step = "answered"]_vars
=============================================================================
