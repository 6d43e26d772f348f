---------------------------- MODULE DialogList -----------------------------
(***************************************************************************)
(* The dialog list of one account: InboxService and InboxSyncWorker.       *)
(*                                                                         *)
(* The list is a local copy of VK's conversations, filled by sync_account, *)
(* which the worker calls in a loop and the user by hand, and changed by   *)
(* mark_read, archive_dialog and restore_dialog.  A call to VK is asked,   *)
(* then answered, then applied, and other calls run in between: an answer  *)
(* may be older than the list it is applied to.                            *)
(***************************************************************************)
EXTENDS Preview, FiniteSets

CONSTANTS Peers,      \* the other sides of the dialogs
          UserCalls,  \* calls the user may have in flight at one time
          Worker,     \* the worker's call
          Page        \* how many conversations VK returns to one call

ASSUME PeersAssumption == IsFiniteSet(Peers) /\ "sync" \notin Peers
ASSUME PageAssumption == Page \in Nat \ {0}
ASSUME CallersAssumption == Worker \notin UserCalls

VARIABLES
    conv,   \* VK: the conversations
    sent,   \* VK: the last message id
    card,   \* the dialogs table
    count,  \* Account.unread_count
    login,  \* Account.auth_status = "ok"
    call    \* the calls in flight

vars == <<conv, sent, card, count, login, call>>

Callers == UserCalls \union {Worker}
Conversations == [id: 0..MaxMsg, out: BOOLEAN, gone: BOOLEAN, unread: 0..MaxMsg]
Cards == [preview: Previews, unread: 0..MaxMsg, known: BOOLEAN, archived: BOOLEAN]
NoCard == [preview |-> NoPreview, unread |-> 0, known |-> FALSE, archived |-> FALSE]
NoConversation == [id |-> 0, out |-> FALSE, gone |-> FALSE, unread |-> 0]
Silence == [p \in Peers |-> NoConversation]

(***************************************************************************)
(* A call: what for ("sync", or the peer mark_read is about), how far it   *)
(* is and, of an answered sync, the conversations as VK had them then.     *)
(***************************************************************************)
NoCall == [what |-> "sync", step |-> "idle", answer |-> Silence]
Calls == [what: {"sync"} \union Peers, step: {"idle", "asked", "answered"},
          answer: [Peers -> Conversations]]

ListTypeOK ==
    /\ conv \in [Peers -> Conversations]
    /\ sent \in 0..MaxMsg
    /\ card \in [Peers -> Cards]
    /\ count \in 0..Cardinality(Peers)
    /\ login \in BOOLEAN
    /\ call \in [Callers -> Calls]

Init ==
    /\ conv = Silence /\ sent = 0
    /\ card = [p \in Peers |-> NoCard] /\ count = 0
    /\ login = TRUE
    /\ call = [c \in Callers |-> NoCall]

(***************************************************************************)
(* _account_unread_dialogs: dialogs, not messages, and no archived ones.   *)
(***************************************************************************)
Shown(cards) == {p \in Peers : cards[p].unread > 0 /\ ~cards[p].archived}
UnreadDialogs(cards) == Cardinality(Shown(cards))

-----------------------------------------------------------------------------
(***************************************************************************)
(* What happens at VK: a message comes in, one goes out (a reply from here *)
(* or from the user's phone), the dialog is read on the phone, its last    *)
(* message is deleted.                                                     *)
(***************************************************************************)
NewMessage(p, out) ==
    /\ sent < MaxMsg
    /\ sent' = sent + 1
    /\ conv' = [conv EXCEPT ![p] =
                  [id |-> sent + 1, out |-> out, gone |-> FALSE,
                   unread |-> IF out THEN conv[p].unread ELSE conv[p].unread + 1]]
    /\ UNCHANGED <<card, count, login, call>>

ReadElsewhere(p) ==
    /\ conv[p].unread > 0
    /\ conv' = [conv EXCEPT ![p].unread = 0]
    /\ UNCHANGED <<sent, card, count, login, call>>

LastMessageDeleted(p) ==
    /\ conv[p].id # 0 /\ ~conv[p].gone
    /\ conv' = [conv EXCEPT ![p].gone = TRUE]
    /\ UNCHANGED <<sent, card, count, login, call>>

(***************************************************************************)
(* getConversations returns the conversations with the latest messages.    *)
(***************************************************************************)
TopPage(cs) ==
    {p \in Peers : /\ cs[p].id # 0
                   /\ Cardinality({q \in Peers : cs[q].id > cs[p].id}) < Page}

-----------------------------------------------------------------------------
(***************************************************************************)
(* sync_account up to its await.  sync_once takes accounts that are logged *)
(* in; the route takes any.                                                *)
(***************************************************************************)
AskSync(c) ==
    /\ call[c].step = "idle"
    /\ c = Worker => login
    /\ call' = [call EXCEPT ![c] = [NoCall EXCEPT !.step = "asked"]]
    /\ UNCHANGED <<conv, sent, card, count, login>>

(***************************************************************************)
(* mark_read up to its await.                                              *)
(***************************************************************************)
AskRead(c, p) ==
    /\ call[c].step = "idle"
    /\ card[p].known
    /\ call' = [call EXCEPT ![c] = [NoCall EXCEPT !.what = p, !.step = "asked"]]
    /\ UNCHANGED <<conv, sent, card, count, login>>

(***************************************************************************)
(* VK carries the call out and answers.                                    *)
(***************************************************************************)
Read(p) == IF p \in Peers THEN [conv EXCEPT ![p].unread = 0] ELSE conv

Answer(c) ==
    /\ call[c].step = "asked"
    /\ call' = [call EXCEPT ![c].step = "answered",
                            ![c].answer = IF call[c].what = "sync" THEN conv ELSE @]
    /\ conv' = Read(call[c].what)
    /\ UNCHANGED <<sent, card, count, login>>

(***************************************************************************)
(* The call fails and leaves the list alone, though VK may have carried it *)
(* out and only its answer is lost.  A rejected token logs the account out *)
(* when it was a sync that met it, and after a mark_read when the refresh  *)
(* of the token has failed too and was not refused before it began.        *)
(***************************************************************************)
CallFails(c, rejected) ==
    /\ call[c].step = "asked"
    /\ IF rejected THEN UNCHANGED conv ELSE conv' \in {conv, Read(call[c].what)}
    /\ \/ rejected /\ login' = FALSE
       \/ (rejected => call[c].what # "sync") /\ UNCHANGED login
    /\ call' = [call EXCEPT ![c] = NoCall]
    /\ UNCHANGED <<sent, card, count>>

\* Mutant: the unread count only ever grows.
StoredUnreadUp(old, new) ==
    [old EXCEPT !.known = TRUE,
                !.unread = IF new.unread > old.unread THEN new.unread ELSE old.unread,
                !.preview = PreviewFromRaw(old.preview, new)]

(***************************************************************************)
(* What sync_account makes of one conversation of the answer.  The local   *)
(* flags stay.                                                             *)
(***************************************************************************)
Stored(old, new) ==
    [old EXCEPT !.known = TRUE, !.unread = new.unread,
                !.preview = PreviewFromRaw(old.preview, new)]

ApplySync(c) ==
    LET answer == call[c].answer IN
    /\ call[c].step = "answered" /\ call[c].what = "sync"
    /\ card' = [p \in Peers |-> IF p \in TopPage(answer)
                                   THEN Stored(card[p], answer[p]) ELSE card[p]]
    /\ count' = UnreadDialogs(card')
    /\ call' = [call EXCEPT ![c] = NoCall]
    /\ UNCHANGED <<conv, sent, login>>

(***************************************************************************)
(* mark_read after its await: the count becomes 0, whatever was stored     *)
(* meanwhile.                                                              *)
(***************************************************************************)
ApplyRead(c) ==
    /\ call[c].step = "answered" /\ call[c].what \in Peers
    /\ card' = [card EXCEPT ![call[c].what].unread = 0]
    /\ count' = UnreadDialogs(card')
    /\ call' = [call EXCEPT ![c] = NoCall]
    /\ UNCHANGED <<conv, sent, login>>

(***************************************************************************)
(* archive_dialog and restore_dialog.  What they read before their await   *)
(* only decides about VK's notifications, which VkApiClient cannot change. *)
(***************************************************************************)
SetArchived(p, archived) ==
    /\ card[p].known /\ card[p].archived # archived
    /\ card' = [card EXCEPT ![p].archived = archived]
    /\ count' = UnreadDialogs(card')
    /\ UNCHANGED <<conv, sent, login, call>>

(***************************************************************************)
(* The user logs the account in again (AccountAuth).                       *)
(***************************************************************************)
LogIn == ~login /\ login' = TRUE /\ UNCHANGED <<conv, sent, card, count, call>>

AtVk == \E p \in Peers :
    \/ \E out \in BOOLEAN : NewMessage(p, out)
    \/ ReadElsewhere(p)
    \/ LastMessageDeleted(p)

Next ==
    \/ AtVk
    \/ \E c \in Callers :
          \/ AskSync(c)
          \/ Answer(c) \/ \E rejected \in BOOLEAN : CallFails(c, rejected)
          \/ ApplySync(c) \/ ApplyRead(c)
    \/ \E c \in UserCalls, p \in Peers : AskRead(c, p)
    \/ \E p \in Peers, archived \in BOOLEAN : SetArchived(p, archived)
    \/ LogIn

(***************************************************************************)
(* The worker's loop goes on whatever a round brought; every call ends, as *)
(* it has a timeout; VK is not out of reach for good.                      *)
(***************************************************************************)
Fairness ==
    /\ WF_vars(AskSync(Worker))
    /\ SF_vars(Answer(Worker))
    /\ \A c \in Callers : WF_vars(ApplySync(c) \/ ApplyRead(c))
    /\ \A c \in UserCalls : WF_vars(Answer(c) \/ CallFails(c, FALSE))

Spec == Init /\ [][Next]_vars /\ Fairness

-----------------------------------------------------------------------------
(***************************************************************************)
(* Properties.                                                             *)
(***************************************************************************)

(***************************************************************************)
(* The account's unread counter is the number of unread dialogs outside    *)
(* the archive, in whatever order calls end (_account_unread_dialogs).     *)
(***************************************************************************)
CounterExact == count = UnreadDialogs(card)

(***************************************************************************)
(* A card shows the text of its own last message or none: an answer that   *)
(* comes late never leaves another message's text (_preview_from_raw).     *)
(***************************************************************************)
OwnText == \A p \in Peers : card[p].preview.text \in {0, card[p].preview.last}

(***************************************************************************)
(* The text of a message of the other side stays on its card while that    *)
(* message is the last one there, deleted or not (_preview_from_raw,       *)
(* sync_account).                                                          *)
(***************************************************************************)
IncomingTextKept ==
    [][\A p \in Peers :
         LET old == card[p].preview  new == card'[p].preview IN
         old.text # 0 /\ ~old.out /\ new.last = old.last => new.text = old.text]_vars

(***************************************************************************)
(* If the account stays logged in, the list comes to agree with VK on the  *)
(* conversations VK returns to one call, whatever was answered out of      *)
(* order or lost before (sync_account, mark_read, InboxSyncWorker).        *)
(***************************************************************************)
Agrees(p) ==
    /\ card[p].unread = conv[p].unread
    /\ card[p].preview.last = conv[p].id
    /\ card[p].preview.gone = conv[p].gone

Converges == <>[]login => <>[](\A p \in TopPage(conv) : Agrees(p))
=============================================================================
