-------------------------- MODULE DialogListProofs --------------------------
(***************************************************************************)
(* Proofs of the safety properties of DialogList, for any finite set of    *)
(* dialogs, any callers, messages and page size.                           *)
(***************************************************************************)
EXTENDS DialogList, FiniteSetTheorems, TLAPS

USE MaxMsgAssumption, PeersAssumption, PageAssumption, CallersAssumption

(***************************************************************************)
(* The helpers keep to their types.                                        *)
(***************************************************************************)
LEMMA PreviewType ==
    ASSUME NEW old \in Previews, NEW raw \in Conversations
    PROVE  PreviewFromRaw(old, raw) \in Previews
BY DEF PreviewFromRaw, TextAfter, Previews, Conversations

LEMMA PreviewFields ==
    ASSUME NEW old, NEW raw
    PROVE  /\ PreviewFromRaw(old, raw).last = raw.id
           /\ PreviewFromRaw(old, raw).out = raw.out
           /\ PreviewFromRaw(old, raw).text = TextAfter(old, raw)
           /\ old.text \in {0, old.last} => TextAfter(old, raw) \in {0, raw.id}
BY DEF PreviewFromRaw, TextAfter

LEMMA StoredType ==
    ASSUME NEW old \in Cards, NEW new \in Conversations
    PROVE  /\ Stored(old, new) \in Cards
           /\ Stored(old, new).preview = PreviewFromRaw(old.preview, new)
<1>1. old.preview \in Previews
  BY DEF Cards
<1>2. PreviewFromRaw(old.preview, new) \in Previews
  BY <1>1, PreviewType
<1> QED
  BY <1>2 DEF Stored, Cards, Conversations

LEMMA UnreadType == \A cards : UnreadDialogs(cards) \in 0..Cardinality(Peers)
<1> SUFFICES ASSUME NEW cards PROVE UnreadDialogs(cards) \in 0..Cardinality(Peers)
  OBVIOUS
<1>1. Shown(cards) \subseteq Peers
  BY DEF Shown
<1>2. /\ IsFiniteSet(Shown(cards)) /\ Cardinality(Shown(cards)) <= Cardinality(Peers)
      /\ Cardinality(Shown(cards)) \in Nat /\ Cardinality(Peers) \in Nat
  BY <1>1, FS_Subset, FS_CardinalityType
<1> QED
  BY <1>2 DEF UnreadDialogs

LEMMA NoCallType ==
    /\ NoCall \in Calls /\ NoCall.step = "idle" /\ NoCall.answer = Silence
    /\ Silence \in [Peers -> Conversations]
BY DEF NoCall, Calls, Silence, NoConversation, Conversations

(***************************************************************************)
(* The inductive invariant.  Named(p) are the last messages of dialog p    *)
(* that conversations, answers and the card know, each with whose it is:   *)
(* an id names one message, and none is newer than VK's last one.          *)
(***************************************************************************)
LastOf(a) == <<a.id, a.out>>
Named(p) ==
    {LastOf(conv[p]), <<card[p].preview.last, card[p].preview.out>>, <<0, FALSE>>}
    \union {LastOf(call[c].answer[p]) : c \in Callers}

OneMessagePerId ==
    \A p \in Peers : \A x, y \in Named(p) : x[1] <= sent /\ (x[1] = y[1] => x[2] = y[2])
UnreadSent == \A p \in Peers : conv[p].unread <= sent
ListInv == ListTypeOK /\ UnreadSent /\ OneMessagePerId /\ CounterExact /\ OwnText

LEMMA ListInit == Init => ListInv
<1> SUFFICES ASSUME Init PROVE ListInv
  OBVIOUS
<1>1. NoCard \in Cards
  BY DEF NoCard, NoPreview, Cards, Previews
<1>2. Shown(card) = {} /\ Cardinality({}) = 0
  BY FS_EmptySet DEF Init, Shown, NoCard
<1>3. count = UnreadDialogs(card)
  BY <1>2 DEF Init, UnreadDialogs
<1>4. ListTypeOK
  BY <1>1, <1>3, NoCallType, UnreadType DEF Init, ListTypeOK
<1>5. UnreadSent
  BY DEF Init, UnreadSent, Silence, NoConversation
<1>6. \A p \in Peers : \A x \in Named(p) : x = <<0, FALSE>>
  BY DEF Init, Named, LastOf, NoCall, Silence, NoConversation, NoCard, NoPreview
<1>7. OneMessagePerId
  <2>1. sent = 0
    BY DEF Init
  <2>2. ASSUME NEW p \in Peers, NEW x \in Named(p), NEW y \in Named(p)
        PROVE  x[1] <= sent /\ (x[1] = y[1] => x[2] = y[2])
    <3>1. x = <<0, FALSE>> /\ y = <<0, FALSE>>
      BY <1>6
    <3> QED
      BY <2>1, <3>1
  <2> QED
    BY <2>2 DEF OneMessagePerId
<1>8. OwnText
  BY DEF Init, OwnText, NoCard, NoPreview
<1> QED
  BY <1>3, <1>4, <1>5, <1>7, <1>8 DEF ListInv, CounterExact

\* No new message: whatever is known was known before.
LEMMA NothingNew ==
    ASSUME OneMessagePerId, sent' = sent, \A p \in Peers : Named(p)' \subseteq Named(p)
    PROVE  OneMessagePerId'
BY DEF OneMessagePerId

(***************************************************************************)
(* A step that leaves the list alone: VK names no new message, and an      *)
(* answer is one that was there, VK's conversations now, or none.          *)
(***************************************************************************)
LEMMA ListAlone ==
    ASSUME ListInv, ListTypeOK', UNCHANGED <<sent, card, count>>,
           \A p \in Peers : /\ conv'[p].id = conv[p].id /\ conv'[p].out = conv[p].out
                            /\ conv'[p].unread <= sent,
           \A c \in Callers : call'[c].answer \in {call[c].answer, conv, Silence}
    PROVE  ListInv'
<1>1. ASSUME NEW p \in Peers
      PROVE  Named(p)' \subseteq Named(p)
  <2>1. LastOf(Silence[p]) = <<0, FALSE>> /\ LastOf(conv'[p]) = LastOf(conv[p])
    BY DEF LastOf, Silence, NoConversation
  <2>2. ASSUME NEW c \in Callers
        PROVE  LastOf(call'[c].answer[p]) \in Named(p)
    BY <2>1 DEF Named
  <2> QED
    BY <2>1, <2>2 DEF Named, LastOf
<1>2. OneMessagePerId'
  BY <1>1, NothingNew DEF ListInv
<1>3. UnreadSent'
  BY DEF UnreadSent
<1>4. CounterExact' /\ OwnText'
  BY DEF ListInv, CounterExact, OwnText, UnreadDialogs, Shown
<1> QED
  BY <1>2, <1>3, <1>4 DEF ListInv

LEMMA ReadType ==
    ASSUME ListInv, NEW what
    PROVE  /\ Read(what) \in [Peers -> Conversations]
           /\ \A p \in Peers : /\ Read(what)[p].id = conv[p].id
                               /\ Read(what)[p].out = conv[p].out
                               /\ Read(what)[p].unread <= sent
<1>1. conv \in [Peers -> Conversations] /\ sent \in Nat
      /\ \A p \in Peers : conv[p].unread <= sent
  BY DEF ListInv, ListTypeOK, UnreadSent
<1>2. \A p \in Peers : [conv[p] EXCEPT !.unread = 0] \in Conversations
                       /\ [conv[p] EXCEPT !.unread = 0].id = conv[p].id
                       /\ [conv[p] EXCEPT !.unread = 0].out = conv[p].out
                       /\ [conv[p] EXCEPT !.unread = 0].unread = 0
  BY <1>1 DEF Conversations
<1>3. Read(what) = IF what \in Peers
                   THEN [conv EXCEPT ![what] = [conv[what] EXCEPT !.unread = 0]] ELSE conv
  BY DEF Read
<1> QED
  BY <1>1, <1>2, <1>3

LEMMA ListNext == ListInv /\ [Next]_vars => ListInv'
<1> SUFFICES ASSUME ListInv, [Next]_vars PROVE ListInv'
  OBVIOUS
<1>0. /\ conv \in [Peers -> Conversations] /\ sent \in 0..MaxMsg /\ sent \in Nat
      /\ card \in [Peers -> Cards] /\ count \in 0..Cardinality(Peers) /\ login \in BOOLEAN
      /\ call \in [Callers -> Calls] /\ \A p \in Peers : conv[p].unread <= sent
      /\ \A c \in Callers : call[c].answer \in [Peers -> Conversations]
  BY DEF ListInv, ListTypeOK, UnreadSent, Calls
<1>1. ASSUME NEW p \in Peers, NEW out \in BOOLEAN, NewMessage(p, out)
      PROVE  ListInv'
  <2> DEFINE new == [id |-> sent + 1, out |-> out, gone |-> FALSE,
                     unread |-> IF out THEN conv[p].unread ELSE conv[p].unread + 1]
  <2>1. sent' = sent + 1 /\ sent' \in 0..MaxMsg /\ conv' = [conv EXCEPT ![p] = new]
        /\ UNCHANGED <<card, count, login, call>>
    BY <1>0, <1>1 DEF NewMessage
  <2>2. conv[p].unread \in 0..MaxMsg
    BY <1>0 DEF Conversations
  <2>3. new \in Conversations /\ new.id = sent + 1 /\ new.out = out /\ new.unread <= sent + 1
    BY <1>0, <2>1, <2>2 DEF Conversations
  <2> HIDE DEF new
  <2>4. ListTypeOK'
    BY <1>0, <2>1, <2>3 DEF ListTypeOK
  <2>a. UnreadSent'
    <3>1. \A q \in Peers : conv[q].unread \in Nat
      BY <1>0 DEF Conversations
    <3>2. \A q \in Peers : conv'[q] = IF q = p THEN new ELSE conv[q]
      BY <1>0, <2>1
    <3> QED
      BY <1>0, <2>1, <2>3, <3>1, <3>2 DEF UnreadSent
  <2>5. \A q \in Peers : Named(q)' \subseteq Named(q) \union {<<sent + 1, out>>}
    BY <1>0, <2>1, <2>3 DEF Named, LastOf
  <2>6. OneMessagePerId'
    <3>1. ASSUME NEW q \in Peers, NEW x \in Named(q)
          PROVE  x[1] \in Nat
      <4>1. conv[q].id \in Nat /\ card[q].preview.last \in Nat
        BY <1>0 DEF Conversations, Cards, Previews
      <4>2. \A c \in Callers : call[c].answer[q].id \in Nat
        BY <1>0 DEF Conversations
      <4>3. \E n \in Nat : \E b : x = <<n, b>>
        BY <4>1, <4>2 DEF Named, LastOf
      <4> QED
        BY <4>3
    <3>2. ASSUME NEW q \in Peers, NEW x \in Named(q)', NEW y \in Named(q)'
          PROVE  x[1] <= sent' /\ (x[1] = y[1] => x[2] = y[2])
      <4>1. \A z \in Named(q) : z[1] <= sent
        BY DEF ListInv, OneMessagePerId
      <4>2. CASE x \in Named(q) /\ y \in Named(q)
        BY <1>0, <2>1, <3>1, <4>1, <4>2 DEF ListInv, OneMessagePerId
      <4>3. CASE x = <<sent + 1, out>> \/ y = <<sent + 1, out>>
        BY <1>0, <2>1, <2>5, <3>1, <4>1, <4>3
      <4> QED
        BY <2>5, <4>2, <4>3
    <3> QED
      BY <3>2 DEF OneMessagePerId
  <2>7. CounterExact' /\ OwnText'
    BY <2>1 DEF ListInv, CounterExact, OwnText, UnreadDialogs, Shown
  <2> QED
    BY <2>4, <2>a, <2>6, <2>7 DEF ListInv
<1>2. ASSUME NEW p \in Peers, ReadElsewhere(p)
      PROVE  ListInv'
  <2>1. conv' = Read(p) /\ UNCHANGED <<sent, card, count, login, call>>
    BY <1>2 DEF ReadElsewhere, Read
  <2>2. ListTypeOK'
    BY <1>0, <2>1, ReadType DEF ListTypeOK
  <2> QED
    BY <1>0, <2>1, <2>2, ReadType, ListAlone
<1>3. ASSUME NEW p \in Peers, LastMessageDeleted(p)
      PROVE  ListInv'
  <2>a. conv[p] \in Conversations
    BY <1>0
  <2>1. [conv[p] EXCEPT !.gone = TRUE] \in Conversations
        /\ [conv[p] EXCEPT !.gone = TRUE].id = conv[p].id
        /\ [conv[p] EXCEPT !.gone = TRUE].out = conv[p].out
        /\ [conv[p] EXCEPT !.gone = TRUE].unread = conv[p].unread
    BY <2>a DEF Conversations
  <2>2. conv' = [conv EXCEPT ![p] = [conv[p] EXCEPT !.gone = TRUE]]
        /\ UNCHANGED <<sent, card, count, login, call>>
    BY <1>3 DEF LastMessageDeleted
  <2>3. ListTypeOK'
    BY <1>0, <2>1, <2>2 DEF ListTypeOK
  <2> QED
    BY <1>0, <2>1, <2>2, <2>3, ListAlone
<1>4. ASSUME NEW c \in Callers, AskSync(c) \/ \E p \in Peers : AskRead(c, p)
      PROVE  ListInv'
  <2>1. PICK r : /\ call' = [call EXCEPT ![c] = r] /\ r \in Calls /\ r.answer = Silence
                 /\ UNCHANGED <<conv, sent, card, count, login>>
    <3>1. [NoCall EXCEPT !.step = "asked"] \in Calls
          /\ [NoCall EXCEPT !.step = "asked"].answer = Silence
      BY NoCallType DEF NoCall, Calls
    <3>2. \A p \in Peers : [NoCall EXCEPT !.what = p, !.step = "asked"] \in Calls
                           /\ [NoCall EXCEPT !.what = p, !.step = "asked"].answer = Silence
      BY NoCallType DEF NoCall, Calls
    <3> QED
      BY <1>4, <3>1, <3>2 DEF AskSync, AskRead
  <2>2. ListTypeOK'
    BY <1>0, <2>1 DEF ListTypeOK
  <2>3. \A d \in Callers : call'[d].answer \in {call[d].answer, conv, Silence}
    BY <1>0, <2>1
  <2> QED
    BY <1>0, <2>1, <2>2, <2>3, ListAlone
<1>5. ASSUME NEW c \in Callers, Answer(c)
      PROVE  ListInv'
  <2> DEFINE r == [call[c] EXCEPT !.step = "answered",
                                  !.answer = IF call[c].what = "sync" THEN conv ELSE @]
  <2>1. r \in Calls /\ r.answer \in {call[c].answer, conv}
    BY <1>0 DEF Calls
  <2>2. call' = [call EXCEPT ![c] = r] /\ conv' = Read(call[c].what)
        /\ UNCHANGED <<sent, card, count, login>>
    BY <1>5 DEF Answer
  <2> HIDE DEF r
  <2>3. ListTypeOK'
    BY <1>0, <2>1, <2>2, ReadType DEF ListTypeOK
  <2>4. \A d \in Callers : call'[d].answer \in {call[d].answer, conv, Silence}
    BY <1>0, <2>1, <2>2
  <2>5. \A p \in Peers : /\ conv'[p].id = conv[p].id /\ conv'[p].out = conv[p].out
                         /\ conv'[p].unread <= sent
    BY <2>2, ReadType
  <2> QED
    BY <2>2, <2>3, <2>4, <2>5, ListAlone
<1>6. ASSUME NEW c \in Callers, NEW rejected \in BOOLEAN, CallFails(c, rejected)
      PROVE  ListInv'
  <2>1. conv' \in {conv, Read(call[c].what)} /\ call' = [call EXCEPT ![c] = NoCall]
        /\ login' \in BOOLEAN /\ UNCHANGED <<sent, card, count>>
    BY <1>0, <1>6 DEF CallFails
  <2>2. conv' \in [Peers -> Conversations]
        /\ \A p \in Peers : /\ conv'[p].id = conv[p].id /\ conv'[p].out = conv[p].out
                            /\ conv'[p].unread <= sent
    BY <1>0, <2>1, ReadType
  <2>3. ListTypeOK'
    BY <1>0, <2>1, <2>2, NoCallType DEF ListTypeOK
  <2>4. \A d \in Callers : call'[d].answer \in {call[d].answer, conv, Silence}
    BY <1>0, <2>1, NoCallType
  <2> QED
    BY <2>1, <2>2, <2>3, <2>4, ListAlone
<1>7. ASSUME NEW c \in Callers, ApplySync(c)
      PROVE  ListInv'
  <2> DEFINE a == call[c].answer
  <2>1. /\ card' = [p \in Peers |-> IF p \in TopPage(a) THEN Stored(card[p], a[p]) ELSE card[p]]
        /\ count' = UnreadDialogs(card') /\ call' = [call EXCEPT ![c] = NoCall]
        /\ UNCHANGED <<conv, sent, login>>
    BY <1>7 DEF ApplySync
  <2>2. a \in [Peers -> Conversations]
    BY <1>0
  <2> HIDE DEF a
  <2>3. \A p \in Peers : /\ Stored(card[p], a[p]) \in Cards
                         /\ Stored(card[p], a[p]).preview = PreviewFromRaw(card[p].preview, a[p])
    BY <1>0, <2>2, StoredType
  <2>4. card' \in [Peers -> Cards]
    BY <1>0, <2>1, <2>3
  <2>5. ListTypeOK'
    BY <1>0, <2>1, <2>4, NoCallType, UnreadType DEF ListTypeOK
  <2>6. \A p \in Peers : \/ card'[p] = card[p]
                         \/ card'[p].preview = PreviewFromRaw(card[p].preview, a[p])
    BY <2>1, <2>3
  <2>7. OwnText'
    <3>1. ASSUME NEW p \in Peers
          PROVE  card'[p].preview.text \in {0, card'[p].preview.last}
      <4>1. card[p].preview.text \in {0, card[p].preview.last}
        BY DEF ListInv, OwnText
      <4>2. CASE card'[p].preview = PreviewFromRaw(card[p].preview, a[p])
        BY <4>1, <4>2, PreviewFields
      <4> QED
        BY <2>6, <4>1, <4>2
    <3> QED
      BY <3>1 DEF OwnText
  <2>8. ASSUME NEW p \in Peers
        PROVE  Named(p)' \subseteq Named(p)
    <3>1. LastOf(Silence[p]) = <<0, FALSE>> /\ LastOf(a[p]) \in Named(p)
      BY DEF LastOf, Silence, NoConversation, Named, a
    <3>2. \/ card'[p] = card[p]
          \/ <<card'[p].preview.last, card'[p].preview.out>> = LastOf(a[p])
      BY <2>6, PreviewFields DEF LastOf
    <3>3. \A d \in Callers : call'[d].answer \in {call[d].answer, Silence}
      BY <1>0, <2>1, NoCallType
    <3> QED
      BY <2>1, <3>1, <3>2, <3>3 DEF Named
  <2>9. OneMessagePerId'
    BY <2>1, <2>8, NothingNew DEF ListInv
  <2> QED
    BY <1>0, <2>1, <2>5, <2>7, <2>9 DEF ListInv, CounterExact, UnreadSent
<1>8. ASSUME NEW p \in Peers, NEW r \in Cards, r.preview = card[p].preview,
             card' = [card EXCEPT ![p] = r], count' = UnreadDialogs(card'),
             UNCHANGED <<conv, sent, login>>,
             call' \in [Callers -> Calls],
             \A c \in Callers : call'[c].answer \in {call[c].answer, Silence}
      PROVE  ListInv'
  <2>1. ListTypeOK'
    BY <1>0, <1>8, UnreadType DEF ListTypeOK
  <2>2. \A q \in Peers : card'[q].preview = card[q].preview
    BY <1>0, <1>8
  <2>3. ASSUME NEW q \in Peers
        PROVE  Named(q)' \subseteq Named(q)
    <3>1. LastOf(Silence[q]) = <<0, FALSE>>
      BY DEF LastOf, Silence, NoConversation
    <3> QED
      BY <1>8, <2>2, <3>1 DEF Named
  <2>4. OneMessagePerId'
    BY <1>8, <2>3, NothingNew DEF ListInv
  <2>5. OwnText'
    BY <2>2 DEF ListInv, OwnText
  <2> QED
    BY <1>0, <1>8, <2>1, <2>4, <2>5 DEF ListInv, CounterExact, UnreadSent
<1>9. ASSUME NEW c \in Callers, ApplyRead(c)
      PROVE  ListInv'
  <2> DEFINE p == call[c].what
             r == [card[p] EXCEPT !.unread = 0]
  <2>1. p \in Peers
    BY <1>9 DEF ApplyRead
  <2>2. r \in Cards /\ r.preview = card[p].preview
    BY <1>0, <2>1 DEF Cards
  <2>3. card' = [card EXCEPT ![p] = r] /\ count' = UnreadDialogs(card')
        /\ call' = [call EXCEPT ![c] = NoCall] /\ UNCHANGED <<conv, sent, login>>
    BY <1>9 DEF ApplyRead
  <2> HIDE DEF p, r
  <2>4. call' \in [Callers -> Calls]
        /\ \A d \in Callers : call'[d].answer \in {call[d].answer, Silence}
    BY <1>0, <2>3, NoCallType
  <2> QED
    BY <1>8, <2>1, <2>2, <2>3, <2>4
<1>10. ASSUME NEW p \in Peers, NEW archived \in BOOLEAN, SetArchived(p, archived)
       PROVE  ListInv'
  <2> DEFINE r == [card[p] EXCEPT !.archived = archived]
  <2>1. r \in Cards /\ r.preview = card[p].preview
    BY <1>0 DEF Cards
  <2>2. card' = [card EXCEPT ![p] = r] /\ count' = UnreadDialogs(card')
        /\ UNCHANGED <<conv, sent, login, call>>
    BY <1>10 DEF SetArchived
  <2> HIDE DEF r
  <2> QED
    BY <1>0, <1>8, <2>1, <2>2
<1>11. CASE LogIn \/ UNCHANGED vars
  <2>1. UNCHANGED <<conv, sent, card, count, call>> /\ login' \in BOOLEAN
    BY <1>0, <1>11 DEF LogIn, vars
  <2>2. ListTypeOK'
    BY <1>0, <2>1 DEF ListTypeOK
  <2> QED
    BY <1>0, <2>1, <2>2, ListAlone
<1> QED
  BY <1>1, <1>2, <1>3, <1>4, <1>5, <1>6, <1>7, <1>9, <1>10, <1>11
     DEF Next, AtVk, Callers

LEMMA ListHolds == Spec => []ListInv
BY ListInit, ListNext, PTL DEF Spec

\* The list, the counter and the calls stay well typed.
THEOREM ListTypeCorrect == Spec => []ListTypeOK
BY ListHolds, PTL DEF ListInv

\* The unread counter is always the number of unread dialogs outside the archive.
THEOREM CounterStaysExact == Spec => []CounterExact
BY ListHolds, PTL DEF ListInv

\* No card ever shows the text of another message than its last one.
THEOREM TextStaysOwn == Spec => []OwnText
BY ListHolds, PTL DEF ListInv

(***************************************************************************)
(* The text of a message of the other side stays on its card while that    *)
(* message is the last one there, deleted or not, though answers may come  *)
(* out of order: an id names one message, so the flag `out' that decides   *)
(* whether a deleted message keeps its text is the same in all of them.    *)
(***************************************************************************)
THEOREM IncomingTextStays == Spec => IncomingTextKept
<1>1. ASSUME ListInv, [Next]_vars, NEW p \in Peers, card[p].preview.text # 0,
             ~card[p].preview.out, card'[p].preview.last = card[p].preview.last
      PROVE  card'[p].preview.text = card[p].preview.text
  <2>0. /\ card \in [Peers -> Cards] /\ call \in [Callers -> Calls]
        /\ \A c \in Callers : call[c].answer \in [Peers -> Conversations]
    BY <1>1 DEF ListInv, ListTypeOK, Calls
  <2>1. ASSUME NEW c \in Callers, ApplySync(c)
        PROVE  card'[p].preview.text = card[p].preview.text
    <3> DEFINE a == call[c].answer[p]
    <3>1. a \in Conversations
      BY <2>0
    <3>2. card'[p] = card[p] \/ card'[p] = Stored(card[p], a)
      BY <2>1 DEF ApplySync
    <3>3. LastOf(a) \in Named(p)
          /\ <<card[p].preview.last, card[p].preview.out>> \in Named(p)
      BY DEF Named
    <3>4. a.id = card[p].preview.last => a.out = card[p].preview.out
      BY <1>1, <3>3 DEF ListInv, OneMessagePerId, LastOf
    <3> HIDE DEF a
    <3>5. CASE card'[p] = Stored(card[p], a)
      <4>1. card'[p].preview = PreviewFromRaw(card[p].preview, a)
        BY <2>0, <3>1, <3>5, StoredType
      <4>2. card[p].preview.text = card[p].preview.last
        BY <1>1 DEF ListInv, OwnText
      <4>3. a.id = card[p].preview.last
        BY <1>1, <4>1 DEF PreviewFromRaw
      <4> QED
        BY <1>1, <3>4, <4>1, <4>2, <4>3 DEF PreviewFromRaw, TextAfter
    <3> QED
      BY <3>2, <3>5
  <2>2. ASSUME NEW c \in Callers, ApplyRead(c)
        PROVE  card'[p].preview.text = card[p].preview.text
    BY <2>0, <2>2 DEF ApplyRead, Cards
  <2>3. ASSUME NEW q \in Peers, NEW archived \in BOOLEAN, SetArchived(q, archived)
        PROVE  card'[p].preview.text = card[p].preview.text
    BY <2>0, <2>3 DEF SetArchived, Cards
  <2> QED
    BY <1>1, <2>1, <2>2, <2>3 DEF Next, AtVk, NewMessage, ReadElsewhere, LastMessageDeleted,
       AskSync, AskRead, Answer, CallFails, LogIn, vars
<1>2. ListInv /\ [Next]_vars =>
        [\A p \in Peers :
           LET old == card[p].preview  new == card'[p].preview IN
           old.text # 0 /\ ~old.out /\ new.last = old.last => new.text = old.text]_vars
  BY <1>1
<1> QED
  BY <1>2, ListHolds, PTL DEF Spec, IncomingTextKept
=============================================================================
