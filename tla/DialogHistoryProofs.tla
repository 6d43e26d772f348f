------------------------- MODULE DialogHistoryProofs -------------------------
(***************************************************************************)
(* Proofs of the safety properties of DialogHistory, for any number of     *)
(* messages and deletions and any page sizes.                              *)
(***************************************************************************)
EXTENDS DialogHistory, FiniteSetTheorems, WellFoundedInduction, TLAPS

USE MaxMsgAssumption, OutgoingAssumption, DeletedAssumption, CountAssumption

(***************************************************************************)
(* Sets of numbers.                                                        *)
(***************************************************************************)
LEMMA Smallest ==
    ASSUME NEW S \in SUBSET Nat, S # {}
    PROVE  \E m \in S : \A n \in S : m <= n
<1> DEFINE Less == {p \in Nat \X Nat : p[1] < p[2]}
<1>1. IsWellFoundedOn(Less, Nat)
  BY NatLessThanWellFounded DEF OpToRel
<1>2. \E m \in S : \A n \in S : ~ (<<n, m>> \in Less)
  BY <1>1, WFMin
<1>3. \A m, n \in S : ~ (<<n, m>> \in Less) => m <= n
  OBVIOUS
<1> QED
  BY <1>2, <1>3

\* The newest message of a page is one of its messages.
LEMMA MaxOfIds ==
    ASSUME NEW S \in SUBSET MsgIds, S # {}
    PROVE  Max(S) \in S /\ \A y \in S : y <= Max(S)
<1> DEFINE Gaps == {MaxMsg - x : x \in S}
<1>1. Gaps \in SUBSET Nat /\ Gaps # {}
  BY DEF MsgIds
<1>2. PICK g \in Gaps : \A n \in Gaps : g <= n
  BY <1>1, Smallest
<1>3. PICK x \in S : g = MaxMsg - x
  BY <1>2
<1>4. \A y \in S : x >= y
  <2>1. \A y \in S : MaxMsg - y \in Gaps
    OBVIOUS
  <2>2. \A y \in S : MaxMsg - x <= MaxMsg - y
    BY <1>2, <1>3, <2>1
  <2> QED
    BY <2>2 DEF MsgIds
<1>5. S \subseteq Int
  BY DEF MsgIds
<1> QED
  BY <1>4, <1>5 DEF Max

LEMMA MaxOfTwo ==
    ASSUME NEW a \in Nat, NEW b \in Nat
    PROVE  Max({a, b}) \in {a, b} /\ a <= Max({a, b}) /\ b <= Max({a, b})
<1>1. \E x \in {a, b} : \A y \in {a, b} : x >= y
  OBVIOUS
<1> QED
  BY <1>1 DEF Max

LEMMA MinOfTwo ==
    ASSUME NEW a \in Nat, NEW b \in Nat
    PROVE  Min({a, b}) \in {a, b} /\ Min({a, b}) <= a /\ Min({a, b}) <= b
<1>1. \E x \in {a, b} : \A y \in {a, b} : x =< y
  OBVIOUS
<1> QED
  BY <1>1 DEF Min

LEMMA Intervals ==
    ASSUME NEW a \in Nat, NEW b \in Int, a <= b + 1
    PROVE  IsFiniteSet(a..b) /\ Cardinality(a..b) = b - a + 1
<1>1. IsFiniteSet(a..b) /\ Cardinality(a..b) = IF a > b THEN 0 ELSE b - a + 1
  BY FS_Interval, a \in Int
<1> QED
  BY <1>1

LEMMA SubsetsOfIds ==
    ASSUME NEW S \in SUBSET MsgIds
    PROVE  IsFiniteSet(S) /\ Cardinality(S) \in 0..MaxMsg
<1>1. IsFiniteSet(MsgIds) /\ Cardinality(MsgIds) = MaxMsg
  <2>1. 1 \in Nat /\ MaxMsg \in Int /\ 1 <= MaxMsg + 1
    OBVIOUS
  <2>2. IsFiniteSet(1..MaxMsg) /\ Cardinality(1..MaxMsg) = MaxMsg - 1 + 1
    BY <2>1, Intervals, Zenon
  <2> QED
    BY <2>2 DEF MsgIds
<1> QED
  BY <1>1, FS_Subset, FS_CardinalityType

(***************************************************************************)
(* Places in the history.  The place of a message is the number of newer   *)
(* ones; messages have different places, so a page has at most as many     *)
(* messages as were asked for and ends within the history.                 *)
(***************************************************************************)
Place(m) == Cardinality(Newer(m))

LEMMA HistoryIds ==
    HistoryTypeOK => /\ History \in SUBSET MsgIds
                     /\ \A m : Newer(m) \in SUBSET MsgIds /\ Place(m) \in 0..MaxMsg
<1> SUFFICES ASSUME HistoryTypeOK
             PROVE  /\ History \in SUBSET MsgIds
                    /\ \A m : Newer(m) \in SUBSET MsgIds /\ Place(m) \in 0..MaxMsg
  OBVIOUS
<1>1. History \in SUBSET MsgIds
  BY DEF HistoryTypeOK, VkStates, History, MsgIds
<1>2. \A m : Newer(m) \in SUBSET MsgIds
  BY <1>1 DEF Newer
<1> QED
  BY <1>1, <1>2, SubsetsOfIds DEF Place

LEMMA NewerIds == HistoryTypeOK => \A m : Newer(m) \in SUBSET MsgIds
BY HistoryIds

LEMMA NewerIdsNext == HistoryTypeOK' => (\A m : Newer(m) \in SUBSET MsgIds)'
BY NewerIds, PTL

LEMMA PlacesDiffer ==
    ASSUME HistoryTypeOK, NEW m \in History, NEW k \in History, m # k
    PROVE  Place(m) # Place(k)
<1>1. History \in SUBSET MsgIds
  BY HistoryIds
<1>2. ASSUME NEW x \in History, NEW y \in History, x < y
      PROVE  Place(x) # Place(y)
  <2>1. Newer(y) \in SUBSET Newer(x) /\ y \in Newer(x) /\ y \notin Newer(y)
    <3>1. \A h \in History : h \in Int
      BY <1>1 DEF MsgIds
    <3> QED
      BY <1>2, <3>1 DEF Newer
  <2>2. IsFiniteSet(Newer(x))
    BY HistoryIds, SubsetsOfIds
  <2> QED
    BY <2>1, <2>2, FS_Subset DEF Place
<1> QED
  BY <1>1, <1>2 DEF MsgIds

LEMMA PlaceInHistory ==
    ASSUME HistoryTypeOK, NEW m \in History
    PROVE  Place(m) < Cardinality(History) /\ Place(m) < MaxMsg
<1>1. History \in SUBSET MsgIds
  BY HistoryIds
<1>2. IsFiniteSet(History) /\ Cardinality(History) \in 0..MaxMsg
  BY <1>1, SubsetsOfIds
<1>3. Newer(m) \in SUBSET History /\ m \notin Newer(m)
  BY <1>1 DEF Newer, MsgIds
<1>4. Cardinality(Newer(m)) <= Cardinality(History)
      /\ Cardinality(History) # Cardinality(Newer(m))
  BY <1>2, <1>3, FS_Subset
<1>5. Place(m) \in Nat
  BY HistoryIds
<1> QED
  BY <1>2, <1>4, <1>5 DEF Place

LEMMA PageFits ==
    ASSUME HistoryTypeOK, NEW o \in 0..MaxMsg, NEW n \in Nat
    PROVE  /\ PageAt(o, n) \in SUBSET MsgIds /\ Cardinality(PageAt(o, n)) \in Nat
           /\ Cardinality(PageAt(o, n)) <= n
           /\ o + Cardinality(PageAt(o, n)) <= MaxMsg
<1> DEFINE S == PageAt(o, n)
           f == [m \in S |-> Place(m)]
<1>1. S \in SUBSET History /\ S \in SUBSET MsgIds
  BY HistoryIds DEF PageAt
<1>2. IsFiniteSet(S) /\ Cardinality(S) \in Nat
  BY <1>1, SubsetsOfIds
<1>3. \A m \in S : Place(m) \in o..(o + n - 1) /\ Place(m) \in o..(MaxMsg - 1)
  <2>1. \A m \in S : Place(m) \in o..(o + n - 1)
    BY DEF PageAt, Place
  <2> QED
    BY <1>1, <2>1, PlaceInHistory
<1>4. \A m, k \in S : f[m] = f[k] => m = k
  BY <1>1, PlacesDiffer
<1>5. f \in Injection(S, o..(o + n - 1)) /\ f \in Injection(S, o..(MaxMsg - 1))
  <2> HIDE DEF S
  <2>1. f \in [S -> o..(o + n - 1)] /\ f \in [S -> o..(MaxMsg - 1)]
    BY <1>3
  <2> HIDE DEF f
  <2> QED
    BY <1>4, <2>1 DEF Injection, IsInjective
<1>6. /\ IsFiniteSet(o..(o + n - 1)) /\ Cardinality(o..(o + n - 1)) = n
      /\ IsFiniteSet(o..(MaxMsg - 1)) /\ Cardinality(o..(MaxMsg - 1)) = MaxMsg - o
  <2>1. o \in Nat /\ o + n - 1 \in Int /\ MaxMsg - 1 \in Int
    OBVIOUS
  <2>2. o <= (o + n - 1) + 1 /\ o <= (MaxMsg - 1) + 1
    OBVIOUS
  <2>3. /\ IsFiniteSet(o..(o + n - 1)) /\ Cardinality(o..(o + n - 1)) = (o + n - 1) - o + 1
        /\ IsFiniteSet(o..(MaxMsg - 1)) /\ Cardinality(o..(MaxMsg - 1)) = (MaxMsg - 1) - o + 1
    BY <2>1, <2>2, Intervals
  <2> QED
    BY <2>3
<1>7. Cardinality(S) <= n /\ Cardinality(S) <= MaxMsg - o
  <2> HIDE DEF S, f
  <2> QED
    BY <1>5, <1>6, FS_Injection
<1> QED
  BY <1>1, <1>2, <1>7

\* As long as nothing leaves the history, messages only move to higher places.
LEMMA PlacesGrow ==
    ASSUME HistoryTypeOK, HistoryTypeOK', vk'.hidden = vk.hidden, vk.top <= vk'.top
    PROVE  /\ History \subseteq History'
           /\ \A m : Place(m) <= Place(m)'
<1>1. History \subseteq History'
  BY DEF HistoryTypeOK, VkStates, History
<1>2. ASSUME NEW m
      PROVE  Place(m) <= Place(m)'
  <2>1. Newer(m) \in SUBSET Newer(m)'
    <3>1. \A k \in Newer(m) : k \in History' /\ k > m
      BY <1>1 DEF Newer
    <3> QED
      BY <3>1 DEF Newer
  <2>2. Newer(m)' \in SUBSET MsgIds
    BY NewerIdsNext
  <2>3. IsFiniteSet(Newer(m)')
    BY <2>2, SubsetsOfIds
  <2> QED
    BY <2>1, <2>3, FS_Subset DEF Place
<1> QED
  BY <1>1, <1>2

-----------------------------------------------------------------------------
(***************************************************************************)
(* The inductive invariant.                                                *)
(*                                                                         *)
(* An answered page has at most as many messages as are left to fetch and  *)
(* ends within the history; what an answer calls deleted VK has deleted;   *)
(* a deletion is of a message.                                             *)
(***************************************************************************)
PagesFit ==
    \A c \in Callers : call[c].step = "answered" /\ call[c].what = "sync" =>
        /\ Cardinality(call[c].answer.ids) <= call[c].left
        /\ call[c].next + Cardinality(call[c].answer.ids) <= MaxMsg
DeletesName == \A c \in Callers : call[c].what = "delete" => call[c].msg # 0
DeletionsKnown == \A c \in Callers : call[c].answer.gone \subseteq vk.gone \union vk.hidden

(***************************************************************************)
(* The card: it is right about whose its message is, and a card without    *)
(* the text of a stored incoming message says that the message is deleted. *)
(***************************************************************************)
CardRight ==
    /\ rows.body \intersect Outgoing = {}
    /\ card.last # 0 => card.out = (card.last \in Outgoing)
    /\ card.text \in {0, card.last}
    /\ card.last \in rows.body /\ card.text = 0 => card.gone

(***************************************************************************)
(* The window: of the messages it owes, those in places below its offset,  *)
(* below the next place of its sync, or below the end of the page that was *)
(* answered, are stored, or will be with that page; all are, when there is *)
(* no more.                                                                *)
(***************************************************************************)
Paging == call["paging"]
Owed(n) == {m \in window.owed : Place(m) < n}
PageEnd == Paging.next + Cardinality(Paging.answer.ids)

OwedStored ==
    /\ window.owed \subseteq History
    /\ Owed(window.offset) \subseteq rows.stored
    /\ ~window.more => window.owed \subseteq rows.stored
OwedFetched ==
    /\ Paging.what = "sync"
    /\ Paging.step = "asked" => Owed(Paging.next) \subseteq rows.stored
    /\ Paging.step = "answered" =>
          /\ Owed(PageEnd) \subseteq rows.stored \union Paging.answer.ids
          /\ Paging.answer.total <= PageEnd =>
                window.owed \subseteq rows.stored \union Paging.answer.ids

HistoryInv ==
    /\ HistoryTypeOK /\ PagesFit /\ DeletesName /\ DeletionsKnown
    /\ CardRight /\ OwedStored /\ OwedFetched

LEMMA LeftRange ==
    /\ FirstCount \in 0..Max({FirstCount, OlderCount})
    /\ OlderCount \in 0..Max({FirstCount, OlderCount})
    /\ 0 \in 0..Max({FirstCount, OlderCount})
<1>1. FirstCount \in Nat /\ OlderCount \in Nat
  OBVIOUS
<1> QED
  BY <1>1, MaxOfTwo

LEMMA NoCallType ==
    /\ NoCall \in Calls /\ NoCall.step = "idle" /\ NoCall.what = "sync"
    /\ NoCall.answer = NoAnswer /\ NoAnswer.gone = {} /\ NoAnswer.ids = {}
<1>1. NoAnswer \in Answers
  BY DEF NoAnswer, Answers
<1> QED
  BY <1>1, LeftRange DEF NoCall, Calls, NoAnswer

LEMMA SyncType ==
    ASSUME NEW o \in 0..MaxMsg, NEW n \in 0..Max({FirstCount, OlderCount}), NEW first \in BOOLEAN
    PROVE  /\ Sync(o, n, first) \in Calls /\ Sync(o, n, first).step = "asked"
           /\ Sync(o, n, first).what = "sync" /\ Sync(o, n, first).next = o
           /\ Sync(o, n, first).answer = NoAnswer
<1>1. NoCall \in Calls /\ NoCall.what = "sync" /\ NoCall.answer = NoAnswer
  BY NoCallType
<1> QED
  BY <1>1 DEF Sync, Calls

LEMMA HistoryInit == Init => HistoryInv
<1> SUFFICES ASSUME Init PROVE HistoryInv
  OBVIOUS
<1>0. call["paging"] = NoCall
  BY DEF Init, Callers
<1>1. HistoryTypeOK
  BY NoCallType DEF Init, HistoryTypeOK, VkStates, RowSets, Previews, NoPreview, Closed, Windows
<1>2. PagesFit /\ DeletesName /\ DeletionsKnown
  BY NoCallType DEF Init, PagesFit, DeletesName, DeletionsKnown
<1>3. CardRight
  BY DEF Init, CardRight, NoPreview
<1>4. OwedStored /\ OwedFetched
  BY <1>0, NoCallType DEF Init, OwedStored, OwedFetched, Owed, Paging, Closed
<1> QED
  BY <1>1, <1>2, <1>3, <1>4 DEF HistoryInv

(***************************************************************************)
(* VK's steps.  Nothing it deleted comes back; what the window still owes  *)
(* stays in the history and moves only to higher places.                   *)
(***************************************************************************)
Moves(v) ==
    /\ v \in VkStates /\ vk.top <= v.top
    /\ vk.gone \union vk.hidden \subseteq v.gone \union v.hidden

LEMMA DeletionMoves ==
    ASSUME HistoryTypeOK, NEW m \in Deletable
    PROVE  Moves(Flagged(m)) /\ Moves(Gone(m))
<1>1. m \in MsgIds
  BY HistoryIds DEF Deletable
<1>2. vk \in VkStates /\ vk.top \in 0..MaxMsg
  BY DEF HistoryTypeOK, VkStates
<1>3. /\ Flagged(m) \in VkStates /\ Flagged(m).top = vk.top
      /\ Flagged(m).gone = vk.gone \union {m} /\ Flagged(m).hidden = vk.hidden
  BY <1>1, <1>2 DEF Flagged, VkStates
<1>4. /\ Gone(m) \in VkStates /\ Gone(m).top = vk.top
      /\ Gone(m).gone = vk.gone \ {m} /\ Gone(m).hidden = vk.hidden \union {m}
  BY <1>1, <1>2 DEF Gone, VkStates
<1>5. Moves(Flagged(m))
  BY <1>2, <1>3 DEF Moves
<1>6. Moves(Gone(m))
  BY <1>2, <1>4 DEF Moves
<1> QED
  BY <1>5, <1>6

LEMMA CarryingOutMoves ==
    ASSUME HistoryTypeOK, NEW c, NEW v \in {vk} \union CarriedOut(c)
    PROVE  Moves(v)
<1>1. Moves(vk)
  BY DEF HistoryTypeOK, VkStates, Moves
<1> QED
  BY <1>1, DeletionMoves DEF CarriedOut

LEMMA OwedAges ==
    ASSUME HistoryInv, Moves(vk'), Shift
    PROVE  /\ window' \in Windows
           /\ window'.offset = window.offset /\ window'.more = window.more
           /\ window'.owed \subseteq window.owed
           /\ window'.owed # {} => vk'.hidden = vk.hidden
<1>1. window \in Windows
  BY DEF HistoryInv, HistoryTypeOK
<1>2. window' = [window EXCEPT !.owed = IF vk'.hidden = vk.hidden THEN window.owed ELSE {}]
  BY DEF Shift
<1> QED
  BY <1>1, <1>2 DEF Windows

LEMMA OwedPlaces ==
    ASSUME HistoryInv, HistoryTypeOK', Moves(vk'), Shift, NEW m \in window'.owed
    PROVE  m \in History' /\ Place(m) <= Place(m)' /\ Place(m) \in Nat /\ Place(m)' \in Nat
<1>1. vk'.hidden = vk.hidden /\ m \in History
  BY OwedAges DEF HistoryInv, OwedStored
<1>2. m \in History' /\ Place(m) <= Place(m)'
  BY <1>1, PlacesGrow DEF HistoryInv, Moves
<1>3. Place(m) \in Nat
  BY HistoryIds DEF HistoryInv
<1>4. Newer(m)' \in SUBSET MsgIds
  BY NewerIdsNext
<1>5. Place(m)' \in Nat
  BY <1>4, SubsetsOfIds DEF Place
<1> QED
  BY <1>2, <1>3, <1>5

LEMMA OwedFewer ==
    ASSUME HistoryInv, HistoryTypeOK', Moves(vk'), Shift, NEW n \in Nat
    PROVE  {m \in window'.owed : Place(m)' < n} \subseteq Owed(n)
<1> SUFFICES ASSUME NEW m \in window'.owed, Place(m)' < n
             PROVE  m \in Owed(n)
  OBVIOUS
<1>1. m \in window.owed
  BY OwedAges
<1>2. Place(m) <= Place(m)' /\ Place(m) \in Nat /\ Place(m)' \in Nat
  BY OwedPlaces
<1> QED
  BY <1>1, <1>2 DEF Owed

(***************************************************************************)
(* A step of VK that leaves rows, card and calls alone, or ends a call.    *)
(***************************************************************************)
LEMMA VkStep ==
    ASSUME HistoryInv, Moves(vk'), Shift, UNCHANGED <<rows, card>>,
           \/ call' = call
           \/ \E c \in Callers : call' = [call EXCEPT ![c] = NoCall]
    PROVE  HistoryInv'
<1>0. /\ call \in [Callers -> Calls] /\ "paging" \in Callers
      /\ \A c \in Callers : call'[c] \in {call[c], NoCall}
      /\ call' \in [Callers -> Calls]
  BY NoCallType DEF HistoryInv, HistoryTypeOK, Callers
<1>1. HistoryTypeOK'
  BY <1>0, OwedAges DEF HistoryInv, HistoryTypeOK, Moves
<1>2. PagesFit' /\ DeletesName'
  BY <1>0, NoCallType DEF HistoryInv, PagesFit, DeletesName
<1>3. DeletionsKnown'
  BY <1>0, NoCallType DEF HistoryInv, DeletionsKnown, Moves
<1>4. CardRight'
  BY DEF HistoryInv, CardRight
<1>5. window.offset \in Nat /\ call["paging"].next \in Nat
      /\ Cardinality(call["paging"].answer.ids) \in Nat
  BY <1>0, SubsetsOfIds DEF HistoryInv, HistoryTypeOK, Windows, Calls, Answers
<1>6. OwedStored'
  <2>1. window'.owed \subseteq History'
    BY <1>1, OwedPlaces
  <2>2. Owed(window.offset)' \subseteq Owed(window.offset)
    BY <1>1, <1>5, OwedFewer, OwedAges DEF Owed
  <2>3. ~window'.more => window'.owed \subseteq rows'.stored
    BY OwedAges DEF HistoryInv, OwedStored
  <2> QED
    BY <2>1, <2>2, <2>3 DEF HistoryInv, OwedStored
<1>7. OwedFetched'
  <2>1. CASE call'["paging"] = NoCall
    BY <2>1, NoCallType DEF OwedFetched, Paging
  <2>2. CASE call'["paging"] = call["paging"]
    <3>1. Owed(Paging.next)' \subseteq Owed(Paging.next)
      BY <1>1, <1>5, <2>2, OwedFewer DEF Owed, Paging
    <3>2. Owed(PageEnd)' \subseteq Owed(PageEnd)
      BY <1>1, <1>5, <2>2, OwedFewer DEF Owed, Paging, PageEnd
    <3>3. window'.owed \subseteq window.owed
      BY OwedAges
    <3> QED
      BY <2>2, <3>1, <3>2, <3>3 DEF HistoryInv, OwedFetched, Paging, PageEnd
  <2> QED
    BY <1>0, <2>1, <2>2
<1> QED
  BY <1>1, <1>2, <1>3, <1>4, <1>6, <1>7 DEF HistoryInv

(***************************************************************************)
(* A call begins: a list or a deletion, or a sync at a place below which   *)
(* the window's messages are stored.                                       *)
(***************************************************************************)
OwedNow(n) == {m \in window'.owed : Place(m)' < n}

LEMMA AskStep ==
    ASSUME HistoryInv, NEW c \in Callers, NEW begun \in Calls, Ask(c, begun),
           begun.step = "asked", begun.answer = NoAnswer,
           begun.what = "delete" => begun.msg # 0, UNCHANGED <<vk, rows, card>>,
           window' \in Windows, OwedStored',
           c = "paging" => begun.what = "sync" /\ OwedNow(begun.next) \subseteq rows.stored,
           c # "paging" => window' = window
    PROVE  HistoryInv'
<1>0. /\ call \in [Callers -> Calls] /\ "paging" \in Callers
      /\ call' = [call EXCEPT ![c] = begun] /\ call' \in [Callers -> Calls]
  BY DEF HistoryInv, HistoryTypeOK, Callers, Ask
<1>1. HistoryTypeOK'
  BY <1>0 DEF HistoryInv, HistoryTypeOK
<1>2. PagesFit' /\ DeletesName'
  BY <1>0 DEF HistoryInv, PagesFit, DeletesName
<1>3. DeletionsKnown'
  BY <1>0, NoCallType DEF HistoryInv, DeletionsKnown
<1>4. CardRight'
  BY DEF HistoryInv, CardRight
<1>5. OwedFetched'
  <2>1. CASE c = "paging"
    <3>1. Paging' = begun
      BY <1>0, <2>1 DEF Paging
    <3>2. Owed(Paging.next)' = OwedNow(begun.next)
      BY <3>1 DEF Owed, OwedNow
    <3> QED
      BY <2>1, <3>1, <3>2 DEF OwedFetched
  <2>2. CASE c # "paging"
    <3>1. Paging' = Paging
      BY <1>0, <2>2 DEF Paging
    <3>2. \A n : Owed(n)' = Owed(n)
      BY <2>2 DEF Owed, Place, Newer, History
    <3> QED
      BY <2>2, <3>1, <3>2 DEF HistoryInv, OwedFetched, PageEnd, Paging, Owed, Place, Newer, History
  <2> QED
    BY <2>1, <2>2
<1> QED
  BY <1>1, <1>2, <1>3, <1>4, <1>5 DEF HistoryInv

\* A call begins and the window stays as it is.
LEMMA OwedStoredKept ==
    ASSUME HistoryInv, UNCHANGED <<vk, window>>, rows.stored \subseteq rows'.stored
    PROVE  OwedStored' /\ window' \in Windows /\ \A n : Owed(n)' = Owed(n)
<1>1. \A n : Owed(n)' = Owed(n)
  BY DEF Owed, Place, Newer, History
<1>2. Owed(window.offset)' = Owed(window.offset)
  BY DEF Owed, Place, Newer, History
<1> QED
  BY <1>1, <1>2 DEF HistoryInv, HistoryTypeOK, OwedStored, History

LEMMA OpenWindowKeeps == ASSUME HistoryInv, OpenWindow PROVE HistoryInv'
<1> DEFINE begun == Sync(0, FirstCount, TRUE)
<1>1. begun \in Calls /\ begun.step = "asked" /\ begun.what = "sync" /\ begun.next = 0
      /\ begun.answer = NoAnswer
  <2>1. 0 \in 0..MaxMsg /\ FirstCount \in 0..Max({FirstCount, OlderCount}) /\ TRUE \in BOOLEAN
    BY LeftRange
  <2> QED
    BY <2>1, SyncType
<1> HIDE DEF begun
<1>2. /\ Ask("paging", begun) /\ UNCHANGED <<vk, rows, card>>
      /\ window' = [Closed EXCEPT !.open = TRUE, !.owed = History]
  BY DEF OpenWindow, begun
<1>3. window' \in Windows /\ window'.owed = History /\ window'.offset = 0 /\ window'.more
  <2>1. History \in SUBSET MsgIds
    BY HistoryIds DEF HistoryInv
  <2>2. window' = [open |-> TRUE, seen |-> FALSE, offset |-> 0, more |-> TRUE,
                   owed |-> History]
    BY <1>2 DEF Closed
  <2> QED
    BY <2>1, <2>2 DEF Windows
<1>4. \A m : Place(m) \in Nat
  BY HistoryIds DEF HistoryInv
<1>5. \A m : Place(m)' = Place(m)
  BY <1>2 DEF Place, Newer, History
<1>6. OwedNow(0) = {}
  BY <1>4, <1>5 DEF OwedNow
<1>7. Owed(window.offset)' = {}
  BY <1>3, <1>6 DEF Owed, OwedNow
<1>8. OwedStored'
  BY <1>2, <1>3, <1>7 DEF OwedStored, History
<1>9. OwedNow(begun.next) \subseteq rows.stored
  BY <1>1, <1>6
<1> QED
  BY <1>1, <1>2, <1>3, <1>8, <1>9, AskStep DEF Callers

LEMMA LoadOlderKeeps == ASSUME HistoryInv, LoadOlder PROVE HistoryInv'
<1> DEFINE begun == Sync(window.offset, OlderCount, FALSE)
<1>1. begun \in Calls /\ begun.step = "asked" /\ begun.what = "sync"
      /\ begun.next = window.offset /\ begun.answer = NoAnswer
  <2>1. window.offset \in 0..MaxMsg /\ OlderCount \in 0..Max({FirstCount, OlderCount})
        /\ FALSE \in BOOLEAN
    BY LeftRange DEF HistoryInv, HistoryTypeOK, Windows
  <2> QED
    BY <2>1, SyncType
<1> HIDE DEF begun
<1>2. Ask("paging", begun) /\ UNCHANGED <<vk, rows, card, window>>
  BY DEF LoadOlder, begun
<1>3. OwedStored' /\ window' \in Windows
  BY <1>2, OwedStoredKept
<1>4. OwedNow(begun.next) \subseteq rows.stored
  BY <1>1, <1>2 DEF HistoryInv, OwedStored, OwedNow, Owed, Place, Newer, History
<1> QED
  BY <1>1, <1>2, <1>3, <1>4, AskStep DEF Callers

LEMMA OtherCallsKeep ==
    ASSUME HistoryInv, \/ Refresh
                       \/ \E what \in {"list", "delete"}, m \in 0..MaxMsg : AskOther(what, m)
    PROVE  HistoryInv'
<1>1. PICK begun \in Calls : /\ Ask("other", begun) /\ UNCHANGED <<vk, rows, card, window>>
                             /\ begun.step = "asked" /\ begun.answer = NoAnswer
                             /\ begun.what = "delete" => begun.msg # 0
  <2>1. CASE Refresh
    <3>1. 0 \in 0..MaxMsg /\ FirstCount \in 0..Max({FirstCount, OlderCount})
          /\ FALSE \in BOOLEAN
      BY LeftRange
    <3>2. Sync(0, FirstCount, FALSE) \in Calls /\ Sync(0, FirstCount, FALSE).step = "asked"
          /\ Sync(0, FirstCount, FALSE).answer = NoAnswer
          /\ Sync(0, FirstCount, FALSE).what = "sync"
      BY <3>1, SyncType
    <3> QED
      BY <2>1, <3>2 DEF Refresh
  <2>2. ASSUME NEW what \in {"list", "delete"}, NEW m \in 0..MaxMsg, AskOther(what, m)
        PROVE  \E begun \in Calls : /\ Ask("other", begun)
                                    /\ UNCHANGED <<vk, rows, card, window>>
                                    /\ begun.step = "asked" /\ begun.answer = NoAnswer
                                    /\ begun.what = "delete" => begun.msg # 0
    <3> DEFINE begun == [NoCall EXCEPT !.what = what, !.step = "asked", !.msg = m]
    <3>1. /\ begun \in Calls /\ begun.step = "asked" /\ begun.answer = NoAnswer
          /\ begun.what = what /\ begun.msg = m
      BY NoCallType DEF Calls
    <3>2. /\ Ask("other", begun) /\ UNCHANGED <<vk, rows, card, window>>
          /\ what = "delete" => m # 0
      BY <2>2 DEF AskOther
    <3> HIDE DEF begun
    <3> QED
      BY <3>1, <3>2
  <2> QED
    BY <2>1, <2>2
<1>2. OwedStored' /\ window' \in Windows
  BY <1>1, OwedStoredKept
<1> QED
  BY <1>1, <1>2, AskStep DEF Callers

(***************************************************************************)
(* The first local page: what it passes over the window owes no more.      *)
(***************************************************************************)
LEMMA ReadLocalPageKeeps == ASSUME HistoryInv, ReadLocalPage PROVE HistoryInv'
<1> DEFINE total == Cardinality(rows.stored)
           offset == Max({window.offset, total})
           owed == window.owed \ (PageAt(0, offset) \ rows.stored)
<1>1. window \in Windows /\ window.offset \in 0..MaxMsg /\ window.owed \in SUBSET MsgIds
  BY DEF HistoryInv, HistoryTypeOK, Windows
<1>2. total \in 0..MaxMsg
  BY SubsetsOfIds DEF HistoryInv, HistoryTypeOK, RowSets
<1>3. offset \in 0..MaxMsg
  BY <1>1, <1>2, MaxOfTwo
<1>4. /\ window' = [window EXCEPT !.seen = TRUE, !.offset = offset, !.owed = owed]
      /\ UNCHANGED <<vk, rows, card, call>>
  BY DEF ReadLocalPage
<1>5. \A m \in owed : m \in window.owed /\ (m \in PageAt(0, offset) => m \in rows.stored)
  OBVIOUS
<1> HIDE DEF total, offset, owed
<1>6. owed \in SUBSET MsgIds
  BY <1>1, <1>5
<1>7. window' \in Windows /\ window'.offset = offset /\ window'.owed = owed
      /\ window'.more = window.more
  BY <1>1, <1>3, <1>4, <1>6 DEF Windows
<1>8. \A m : Place(m)' = Place(m) /\ Place(m) \in Nat
  BY <1>4, HistoryIds DEF Place, Newer, History, HistoryInv
<1>9. OwedStored'
  <2>1. History' = History /\ owed \subseteq window.owed /\ window.owed \subseteq History
    BY <1>4, <1>5 DEF History, HistoryInv, OwedStored
  <2>2. ASSUME NEW m \in owed, Place(m) < offset
        PROVE  m \in rows.stored
    <3>1. m \in History /\ Place(m) \in 0..(0 + offset - 1)
      BY <1>3, <1>8, <2>1, <2>2
    <3>2. m \in PageAt(0, offset)
      BY <3>1 DEF PageAt, Place
    <3> QED
      BY <1>5, <3>2
  <2>3. Owed(window.offset)' \subseteq rows.stored
    BY <1>7, <1>8, <2>2 DEF Owed
  <2>4. rows' = rows
    BY <1>4
  <2> QED
    BY <1>7, <2>1, <2>3, <2>4 DEF HistoryInv, OwedStored
<1>10. OwedFetched'
  <2>1. owed \subseteq window.owed /\ UNCHANGED <<call, rows>>
    BY <1>4, <1>5
  <2>2. Owed(Paging.next)' \subseteq Owed(Paging.next) /\ Owed(PageEnd)' \subseteq Owed(PageEnd)
    BY <1>7, <1>8, <2>1 DEF Owed, Paging, PageEnd
  <2> QED
    BY <1>7, <2>1, <2>2 DEF HistoryInv, OwedFetched, Paging, PageEnd
<1>11. HistoryTypeOK'
  BY <1>4, <1>7 DEF HistoryInv, HistoryTypeOK
<1>12. PagesFit' /\ DeletesName' /\ DeletionsKnown' /\ CardRight'
  BY <1>4 DEF HistoryInv, PagesFit, DeletesName, DeletionsKnown, CardRight
<1> QED
  BY <1>9, <1>10, <1>11, <1>12 DEF HistoryInv

(***************************************************************************)
(* VK answers.  The page of a sync of the window holds every message it    *)
(* owes between the sync's place and the page's end.                       *)
(***************************************************************************)
LEMMA AnswerType ==
    ASSUME HistoryInv, NEW c \in Callers
    PROVE  /\ AnswerTo(c) \in Answers
           /\ AnswerTo(c).gone \subseteq vk.gone
           /\ call[c].what = "sync" =>
                 LET n == Min({call[c].left, Chunk}) IN
                 /\ n \in Nat /\ n <= call[c].left
                 /\ AnswerTo(c).ids = PageAt(call[c].next, n)
                 /\ AnswerTo(c).total = Cardinality(History)
<1> DEFINE n == Min({call[c].left, Chunk})
<1>1. call[c] \in Calls /\ call[c].left \in Nat /\ call[c].next \in 0..MaxMsg
  <2>1. call[c] \in Calls
    BY DEF HistoryInv, HistoryTypeOK
  <2>2. call[c].left \in 0..Max({FirstCount, OlderCount}) /\ call[c].next \in 0..MaxMsg
    BY <2>1 DEF Calls
  <2> QED
    BY <2>1, <2>2
<1>2. Chunk \in Nat
  OBVIOUS
<1>3. n \in Nat /\ n <= call[c].left
  BY <1>1, <1>2, MinOfTwo
<1>4. PageAt(call[c].next, n) \in SUBSET MsgIds /\ PageAt(0, 1) \in SUBSET MsgIds
  BY HistoryIds DEF PageAt, HistoryInv
<1>5. Cardinality(History) \in 0..MaxMsg
  BY HistoryIds, SubsetsOfIds DEF HistoryInv
<1> HIDE DEF n
<1> DEFINE ids == CASE call[c].what = "sync" -> PageAt(call[c].next, n)
                    [] call[c].what = "list" -> PageAt(0, 1)
                    [] OTHER -> {}
           total == IF call[c].what = "sync" THEN Cardinality(History) ELSE 0
<1>6. AnswerTo(c) = [ids |-> ids, gone |-> ids \intersect vk.gone, total |-> total]
  BY DEF AnswerTo, n
<1>7. ids \in SUBSET MsgIds /\ (call[c].what = "sync" => ids = PageAt(call[c].next, n))
  BY <1>4
<1>8. total \in 0..MaxMsg /\ (call[c].what = "sync" => total = Cardinality(History))
  BY <1>5
<1>9. vk.gone \in SUBSET MsgIds
  BY DEF HistoryInv, HistoryTypeOK, VkStates
<1> HIDE DEF ids, total
<1>10. AnswerTo(c) \in Answers /\ AnswerTo(c).gone \subseteq vk.gone
       /\ AnswerTo(c).ids = ids /\ AnswerTo(c).total = total
  BY <1>6, <1>7, <1>8, <1>9 DEF Answers
<1> QED
  BY <1>3, <1>7, <1>8, <1>10 DEF n

LEMMA AnswerKeeps == ASSUME HistoryInv, NEW c \in Callers, Answer(c) PROVE HistoryInv'
<1> DEFINE a == AnswerTo(c)
           r == [call[c] EXCEPT !.step = "answered", !.answer = a]
<1>1. /\ call \in [Callers -> Calls] /\ "paging" \in Callers /\ call[c].step = "asked"
      /\ call' = [call EXCEPT ![c] = r] /\ vk' \in CarriedOut(c) /\ Shift
      /\ UNCHANGED <<rows, card>>
  BY DEF Answer, HistoryInv, HistoryTypeOK, Callers
<1>2. a \in Answers /\ a.gone \subseteq vk.gone
  BY AnswerType
<1> HIDE DEF a
<1>3. /\ r \in Calls /\ r.step = "answered" /\ r.answer = a /\ r.what = call[c].what
      /\ r.next = call[c].next /\ r.left = call[c].left /\ r.msg = call[c].msg
  <2>1. call[c] \in Calls
    BY <1>1
  <2> QED
    BY <1>2, <2>1 DEF Calls
<1> HIDE DEF r
<1>4. Moves(vk')
  BY <1>1, CarryingOutMoves DEF HistoryInv
<1>5. call'[c] = r /\ \A d \in Callers \ {c} : call'[d] = call[d]
  BY <1>1
<1>6. HistoryTypeOK'
  BY <1>1, <1>3, <1>4, OwedAges DEF HistoryInv, HistoryTypeOK, Moves
<1>7. call[c].next \in 0..MaxMsg /\ call[c].left \in Nat
  <2>1. call[c] \in Calls
    BY <1>1
  <2> QED
    BY <2>1 DEF Calls
<1>8. call[c].what = "sync" =>
         /\ Cardinality(a.ids) \in Nat /\ Cardinality(a.ids) <= call[c].left
         /\ call[c].next + Cardinality(a.ids) <= MaxMsg
         /\ \A m \in History : /\ Place(m) >= call[c].next
                               /\ Place(m) < call[c].next + Cardinality(a.ids)
                               => m \in a.ids
         /\ a.total = Cardinality(History)
  <2> SUFFICES ASSUME call[c].what = "sync"
               PROVE  /\ Cardinality(a.ids) \in Nat /\ Cardinality(a.ids) <= call[c].left
                      /\ call[c].next + Cardinality(a.ids) <= MaxMsg
                      /\ \A m \in History : /\ Place(m) >= call[c].next
                                            /\ Place(m) < call[c].next + Cardinality(a.ids)
                                            => m \in a.ids
                      /\ a.total = Cardinality(History)
    OBVIOUS
  <2>1. PICK n \in Nat : /\ n <= call[c].left /\ a.ids = PageAt(call[c].next, n)
                         /\ a.total = Cardinality(History)
    BY AnswerType DEF a
  <2>2. /\ Cardinality(a.ids) \in Nat /\ Cardinality(a.ids) <= n
        /\ call[c].next + Cardinality(a.ids) <= MaxMsg
    BY <1>7, <2>1, PageFits DEF HistoryInv
  <2>3. ASSUME NEW m \in History, Place(m) >= call[c].next,
               Place(m) < call[c].next + Cardinality(a.ids)
        PROVE  m \in a.ids
    <3>1. Place(m) \in Nat
      BY HistoryIds DEF HistoryInv
    <3>2. Place(m) \in call[c].next..(call[c].next + n - 1)
      BY <1>7, <2>2, <2>3, <3>1
    <3> QED
      BY <2>1, <3>2 DEF PageAt, Place
  <2> QED
    BY <1>7, <2>1, <2>2, <2>3
<1>9. PagesFit'
  <2>1. ASSUME NEW d \in Callers, call'[d].step = "answered", call'[d].what = "sync"
        PROVE  /\ Cardinality(call'[d].answer.ids) <= call'[d].left
               /\ call'[d].next + Cardinality(call'[d].answer.ids) <= MaxMsg
    <3>1. CASE d = c
      BY <1>3, <1>5, <1>8, <2>1, <3>1
    <3>2. CASE d # c
      BY <1>5, <2>1, <3>2 DEF HistoryInv, PagesFit
    <3> QED
      BY <3>1, <3>2
  <2> QED
    BY <2>1 DEF PagesFit
<1>10. DeletesName' /\ DeletionsKnown'
  BY <1>2, <1>3, <1>4, <1>5 DEF HistoryInv, DeletesName, DeletionsKnown, Moves
<1>11. CardRight'
  BY <1>1 DEF HistoryInv, CardRight
<1>12. OwedStored'
  <2>1. window'.owed \subseteq History'
    BY <1>1, <1>4, <1>6, OwedPlaces
  <2>2. window.offset \in Nat
    BY DEF HistoryInv, HistoryTypeOK, Windows
  <2>3. Owed(window.offset)' \subseteq Owed(window.offset)
    BY <1>1, <1>4, <1>6, <2>2, OwedFewer, OwedAges DEF Owed
  <2>4. ~window'.more => window'.owed \subseteq rows'.stored
    BY <1>1, <1>4, OwedAges DEF HistoryInv, OwedStored
  <2> QED
    BY <1>1, <2>1, <2>3, <2>4 DEF HistoryInv, OwedStored
<1>13. OwedFetched'
  <2>0. window'.owed \subseteq window.owed /\ window.owed \subseteq History
    BY <1>1, <1>4, OwedAges DEF HistoryInv, OwedStored
  <2>1. CASE c = "paging"
    <3>1. Paging' = r /\ call[c] = Paging /\ Paging.what = "sync"
      BY <1>5, <2>1 DEF Paging, HistoryInv, OwedFetched
    <3>2. PageEnd' = call[c].next + Cardinality(a.ids) /\ PageEnd' \in Nat
      BY <1>3, <1>7, <1>8, <3>1 DEF PageEnd
    <3>3. Owed(call[c].next) \subseteq rows.stored
      BY <1>1, <3>1 DEF HistoryInv, OwedFetched
    <3>4. ASSUME NEW m \in window'.owed, Place(m) < PageEnd'
          PROVE  m \in rows.stored \union a.ids
      <4>1. m \in window.owed /\ m \in History /\ Place(m) \in Nat
        BY <2>0, HistoryIds DEF HistoryInv
      <4>2. CASE Place(m) < call[c].next
        BY <3>3, <4>1, <4>2 DEF Owed
      <4>3. CASE Place(m) >= call[c].next
        BY <1>8, <3>1, <3>2, <3>4, <4>1, <4>3
      <4> QED
        BY <1>7, <4>1, <4>2, <4>3
    <3>5. Owed(PageEnd)' \subseteq rows.stored \union a.ids
      <4>1. \A m \in window'.owed : Place(m) <= Place(m)' /\ Place(m) \in Nat /\ Place(m)' \in Nat
        BY <1>1, <1>4, <1>6, OwedPlaces
      <4> QED
        BY <3>2, <3>4, <4>1 DEF Owed
    <3>6. a.total <= PageEnd' => window'.owed \subseteq rows.stored \union a.ids
      <4>1. ASSUME a.total <= PageEnd', NEW m \in window'.owed
            PROVE  m \in rows.stored \union a.ids
        <5>1. Place(m) < Cardinality(History) /\ Place(m) \in Nat
              /\ Cardinality(History) \in Nat
          BY <2>0, PlaceInHistory, HistoryIds, SubsetsOfIds DEF HistoryInv
        <5>2. Place(m) < PageEnd'
          BY <1>8, <3>1, <3>2, <4>1, <5>1
        <5> QED
          BY <3>4, <5>2
      <4> QED
        BY <4>1
    <3> QED
      BY <1>1, <1>3, <3>1, <3>5, <3>6 DEF OwedFetched
  <2>2. CASE c # "paging"
    <3>1. Paging' = Paging /\ PageEnd' = PageEnd
      BY <1>1, <1>5, <2>2 DEF Paging, PageEnd
    <3>2. Paging.next \in Nat /\ PageEnd \in Nat
      <4>1. Paging \in Calls
        BY <1>1 DEF Paging
      <4>2. Paging.next \in Nat /\ Paging.answer.ids \in SUBSET MsgIds
        BY <4>1 DEF Calls, Answers
      <4> QED
        BY <4>2, SubsetsOfIds DEF PageEnd
    <3>3. Owed(Paging.next)' \subseteq Owed(Paging.next)
      BY <1>1, <1>4, <1>6, <3>1, <3>2, OwedFewer DEF Owed
    <3>4. Owed(PageEnd)' \subseteq Owed(PageEnd)
      BY <1>1, <1>4, <1>6, <3>1, <3>2, OwedFewer DEF Owed
    <3> QED
      BY <1>1, <2>0, <3>1, <3>3, <3>4 DEF HistoryInv, OwedFetched
  <2> QED
    BY <2>1, <2>2
<1> QED
  BY <1>6, <1>9, <1>10, <1>11, <1>12, <1>13 DEF HistoryInv

(***************************************************************************)
(* The card after a page, a list or a deletion.                            *)
(***************************************************************************)
LEMMA PreviewRight ==
    ASSUME HistoryInv, NEW ids \in SUBSET MsgIds, ids # {}, NEW gone \in SUBSET MsgIds
    PROVE  LET m == Max(ids)  p == PreviewFromRaw(card, [id |-> m, out |-> m \in Outgoing,
                                                         gone |-> m \in gone]) IN
           /\ p \in Previews /\ p.last = m /\ p.out = (m \in Outgoing)
           /\ p.text \in {0, m} /\ (p.text = 0 => p.gone)
<1> DEFINE m == Max(ids)
<1>1. m \in MsgIds
  BY MaxOfIds
<1>2. card \in Previews /\ card.text \in {0, card.last}
  BY DEF HistoryInv, HistoryTypeOK, CardRight
<1> HIDE DEF m
<1>3. m # 0 /\ m \in 0..MaxMsg
  BY <1>1 DEF MsgIds
<1> DEFINE raw == [id |-> m, out |-> m \in Outgoing, gone |-> m \in gone]
           t == TextAfter(card, raw)
<1>4. t \in {0, m} /\ (t = 0 => raw.gone)
  BY <1>2, <1>3 DEF TextAfter
<1>5. PreviewFromRaw(card, raw) = [last |-> m, text |-> t, out |-> m \in Outgoing,
                                   gone |-> m \in gone]
  BY DEF PreviewFromRaw
<1>6. t \in 0..MaxMsg /\ (m \in Outgoing) \in BOOLEAN /\ (m \in gone) \in BOOLEAN
  BY <1>3, <1>4
<1>7. raw.gone = (m \in gone)
  OBVIOUS
<1> HIDE DEF t, raw
<1>8. PreviewFromRaw(card, raw) \in Previews
  BY <1>3, <1>5, <1>6 DEF Previews
<1> QED
  BY <1>4, <1>5, <1>7, <1>8 DEF m, raw

\* The rows after a page.
LEMMA RowsType ==
    ASSUME HistoryInv, NEW a \in Answers
    PROVE  /\ StoredRows(a) \in RowSets
           /\ StoredRows(a).stored = rows.stored \union a.ids
           /\ StoredRows(a).body \intersect Outgoing = {}
           /\ \A m : m \notin a.ids => (m \in StoredRows(a).body <=> m \in rows.body)
<1>1. rows \in RowSets /\ a.ids \in SUBSET MsgIds /\ a.gone \in SUBSET MsgIds
      /\ rows.body \intersect Outgoing = {}
  BY DEF HistoryInv, HistoryTypeOK, Answers, CardRight
<1> QED
  BY <1>1 DEF StoredRows, BodiesAfter, RowSets

(***************************************************************************)
(* The calls after one of them ends, or asks for its next page.            *)
(***************************************************************************)
LEMMA CallEnds ==
    ASSUME HistoryInv, NEW c \in Callers, NEW r \in Calls, call' = [call EXCEPT ![c] = r],
           r.step # "answered", r.what = "sync", r.answer = NoAnswer, UNCHANGED vk
    PROVE  call' \in [Callers -> Calls] /\ PagesFit' /\ DeletesName' /\ DeletionsKnown'
<1>1. call \in [Callers -> Calls]
  BY DEF HistoryInv, HistoryTypeOK
<1>2. PagesFit' /\ DeletesName'
  BY <1>1 DEF HistoryInv, PagesFit, DeletesName
<1>3. DeletionsKnown'
  BY <1>1, NoCallType DEF HistoryInv, DeletionsKnown
<1> QED
  BY <1>1, <1>2, <1>3

(***************************************************************************)
(* A page is stored.  At the end of its run the window is told a place up  *)
(* to which its messages are stored, and that there is no more only when   *)
(* the page reached the end of the history.                                *)
(***************************************************************************)
LEMMA CardAfterPage ==
    ASSUME HistoryInv, NEW a \in Answers, rows' = StoredRows(a), card' = CardOfPage(a)
    PROVE  card' \in Previews /\ CardRight'
<1>1. a.ids \in SUBSET MsgIds /\ a.gone \in SUBSET MsgIds
  BY DEF Answers
<1>2. card \in Previews /\ CardRight
  BY DEF HistoryInv, HistoryTypeOK
<1>3. rows'.body \intersect Outgoing = {}
  BY RowsType
<1>4. CASE a.ids = {} \/ Max(a.ids) < card.last
  <2>1. card' = card
    BY <1>4 DEF CardOfPage
  <2>2. card.last \notin a.ids
    <3>1. card.last \in Int
      BY <1>2 DEF Previews
    <3>2. CASE a.ids = {}
      BY <3>2
    <3>3. CASE a.ids # {} /\ Max(a.ids) < card.last
      <4>1. Max(a.ids) \in Int /\ \A y \in a.ids : y <= Max(a.ids)
        BY <1>1, <3>3, MaxOfIds DEF MsgIds
      <4> QED
        BY <3>1, <3>3, <4>1
    <3> QED
      BY <1>4, <3>2, <3>3
  <2>3. card.last \in rows'.body <=> card.last \in rows.body
    BY <2>2, RowsType
  <2> QED
    BY <1>2, <1>3, <2>1, <2>3 DEF CardRight
<1>5. CASE ~ (a.ids = {} \/ Max(a.ids) < card.last)
  <2>1. card' = PreviewFromRaw(card, [id |-> Max(a.ids), out |-> Max(a.ids) \in Outgoing,
                                      gone |-> Max(a.ids) \in a.gone])
    BY <1>5 DEF CardOfPage, Raw
  <2>2. /\ card' \in Previews /\ card'.last = Max(a.ids)
        /\ card'.out = (Max(a.ids) \in Outgoing)
        /\ card'.text \in {0, Max(a.ids)} /\ (card'.text = 0 => card'.gone)
    BY <1>1, <1>5, <2>1, PreviewRight
  <2> QED
    BY <1>3, <2>2 DEF CardRight
<1> QED
  BY <1>4, <1>5

LEMMA ToldType ==
    ASSUME HistoryInv, NEW c \in Callers, call[c].step = "answered", call[c].what = "sync",
           NEW w \in Told(c)
    PROVE  /\ NextOffset(c) \in 0..MaxMsg
           /\ Left(c) \in 0..Max({FirstCount, OlderCount})
           /\ w \in Windows /\ w.owed = window.owed
           /\ \/ w = window
              \/ /\ c = "paging" /\ w.offset \in {window.offset, NextOffset(c)}
                 /\ ~w.more => call[c].answer.total <= NextOffset(c)
<1>1. /\ call[c] \in Calls /\ Cardinality(call[c].answer.ids) <= call[c].left
      /\ call[c].next + Cardinality(call[c].answer.ids) <= MaxMsg
  BY DEF HistoryInv, HistoryTypeOK, PagesFit
<1>2. /\ call[c].left \in 0..Max({FirstCount, OlderCount}) /\ call[c].next \in 0..MaxMsg
      /\ call[c].answer.ids \in SUBSET MsgIds /\ call[c].answer.total \in 0..MaxMsg
      /\ call[c].first \in BOOLEAN
  BY <1>1 DEF Calls, Answers
<1>3. Cardinality(call[c].answer.ids) \in Nat
  BY <1>2, SubsetsOfIds
<1>4. NextOffset(c) \in 0..MaxMsg
  BY <1>1, <1>2, <1>3 DEF NextOffset
<1>5. Left(c) \in 0..Max({FirstCount, OlderCount})
  <2>1. FirstCount \in Nat /\ OlderCount \in Nat
    OBVIOUS
  <2>2. Max({FirstCount, OlderCount}) \in Nat
    BY <2>1, MaxOfTwo
  <2> QED
    BY <1>1, <1>2, <1>3, <2>2 DEF Left
<1>6. window \in Windows /\ window.offset \in 0..MaxMsg
  BY DEF HistoryInv, HistoryTypeOK, Windows
<1>7. CASE c = "other"
  <2>1. Told(c) = {window}
    BY <1>7 DEF Told
  <2>2. w = window
    BY <2>1
  <2> QED
    BY <1>4, <1>5, <1>6, <2>2
<1>8. CASE c = "paging"
  <2> DEFINE more == NextOffset(c) < call[c].answer.total
  <2>1. w = window \/ \E offset \in {Max({window.offset, NextOffset(c)}), NextOffset(c)} :
                          w = [window EXCEPT !.offset = offset, !.more = more]
    BY <1>8 DEF Told
  <2>2. Max({window.offset, NextOffset(c)}) \in {window.offset, NextOffset(c)}
    BY <1>4, <1>6, MaxOfTwo
  <2>3. CASE w = window
    BY <1>4, <1>5, <1>6, <2>3
  <2>4. ASSUME NEW offset \in {window.offset, NextOffset(c)},
               w = [window EXCEPT !.offset = offset, !.more = more]
        PROVE  /\ w \in Windows /\ w.owed = window.owed
               /\ w.offset = offset /\ (~w.more => call[c].answer.total <= NextOffset(c))
    <3>1. more \in BOOLEAN /\ offset \in 0..MaxMsg
          /\ (~more => call[c].answer.total <= NextOffset(c))
      BY <1>2, <1>4, <1>6
    <3> HIDE DEF more
    <3>2. w \in Windows /\ w.owed = window.owed /\ w.offset = offset /\ w.more = more
      BY <1>6, <2>4, <3>1 DEF Windows
    <3> QED
      BY <3>1, <3>2
  <2> QED
    BY <1>4, <1>5, <1>8, <2>1, <2>2, <2>3, <2>4
<1> QED
  BY <1>7, <1>8 DEF Callers

LEMMA ApplyPageKeeps == ASSUME HistoryInv, NEW c \in Callers, ApplyPage(c) PROVE HistoryInv'
<1> DEFINE a == call[c].answer
<1>1. /\ call[c].step = "answered" /\ call[c].what = "sync" /\ vk' = vk
      /\ rows' = StoredRows(a) /\ card' = CardOfPage(a)
  BY DEF ApplyPage
<1>2. \/ RunEnds(c) /\ call' = [call EXCEPT ![c] = NoCall] /\ window' \in Told(c)
      \/ /\ call' = [call EXCEPT ![c] = Sync(NextOffset(c), Left(c), call[c].first)]
         /\ window' = window
  BY DEF ApplyPage
<1>3. call \in [Callers -> Calls] /\ call[c] \in Calls /\ a \in Answers
      /\ call[c].first \in BOOLEAN
  <2>1. call \in [Callers -> Calls] /\ call[c] \in Calls
    BY DEF HistoryInv, HistoryTypeOK
  <2> QED
    BY <2>1 DEF Calls
<1> HIDE DEF a
<1>4. /\ rows' \in RowSets /\ rows'.stored = rows.stored \union a.ids
  BY <1>1, <1>3, RowsType
<1>5. card' \in Previews /\ CardRight'
  BY <1>1, <1>3, CardAfterPage
<1>6. NextOffset(c) \in 0..MaxMsg /\ Left(c) \in 0..Max({FirstCount, OlderCount})
  <2>1. \E w : w \in Told(c)
    BY DEF Told
  <2> QED
    BY <1>1, <2>1, ToldType
<1>7. PICK r \in Calls : /\ call' = [call EXCEPT ![c] = r]
                         /\ r.step # "answered" /\ r.what = "sync" /\ r.answer = NoAnswer
                         /\ r.step = "asked" => r.next = NextOffset(c)
                         /\ r.step = "idle" \/ window' = window
  <2>1. CASE call' = [call EXCEPT ![c] = NoCall]
    BY <2>1, NoCallType
  <2>2. CASE /\ call' = [call EXCEPT ![c] = Sync(NextOffset(c), Left(c), call[c].first)]
             /\ window' = window
    <3> DEFINE sync == Sync(NextOffset(c), Left(c), call[c].first)
    <3>1. /\ sync \in Calls /\ sync.step = "asked" /\ sync.what = "sync"
          /\ sync.next = NextOffset(c) /\ sync.answer = NoAnswer
      BY <1>3, <1>6, SyncType
    <3>2. call' = [call EXCEPT ![c] = sync]
      BY <2>2
    <3> HIDE DEF sync
    <3> QED
      BY <2>2, <3>1, <3>2
  <2> QED
    BY <1>2, <2>1, <2>2
<1>8. call' \in [Callers -> Calls] /\ PagesFit' /\ DeletesName' /\ DeletionsKnown'
  BY <1>1, <1>7, CallEnds
<1>9. /\ window' \in Windows /\ window'.owed = window.owed
      /\ \/ window' = window
         \/ /\ c = "paging" /\ window'.offset \in {window.offset, NextOffset(c)}
            /\ ~window'.more => a.total <= NextOffset(c)
  <2>1. CASE window' = window
    BY <2>1 DEF HistoryInv, HistoryTypeOK
  <2>2. CASE window' \in Told(c)
    BY <1>1, <2>2, ToldType DEF a
  <2> QED
    BY <1>2, <2>1, <2>2
<1>10. HistoryTypeOK'
  BY <1>1, <1>4, <1>5, <1>8, <1>9 DEF HistoryInv, HistoryTypeOK
<1>11. \A m : Place(m)' = Place(m)
  BY <1>1 DEF Place, Newer, History
<1>12. \A n : OwedNow(n) = Owed(n)
  BY <1>9, <1>11 DEF OwedNow, Owed
<1>13. c = "paging" => /\ Owed(NextOffset(c)) \subseteq rows'.stored
                       /\ a.total <= NextOffset(c) => window.owed \subseteq rows'.stored
  <2>1. c = "paging" => NextOffset(c) = PageEnd /\ a = Paging.answer
    BY DEF NextOffset, PageEnd, Paging, a
  <2> QED
    BY <1>1, <1>4, <2>1 DEF HistoryInv, OwedFetched, Paging
<1>14. OwedStored'
  <2>1. window'.owed \subseteq History'
    BY <1>1, <1>9 DEF HistoryInv, OwedStored, History
  <2>2. OwedNow(window'.offset) \subseteq rows'.stored
    <3>1. Owed(window.offset) \subseteq rows'.stored
      BY <1>4 DEF HistoryInv, OwedStored
    <3> QED
      BY <1>9, <1>12, <1>13, <3>1
  <2>3. Owed(window.offset)' = OwedNow(window'.offset)
    BY DEF Owed, OwedNow
  <2>4. ~window'.more => window'.owed \subseteq rows'.stored
    BY <1>4, <1>9, <1>13 DEF HistoryInv, OwedStored
  <2> QED
    BY <2>1, <2>2, <2>3, <2>4 DEF OwedStored
<1>15. OwedFetched'
  <2>1. CASE c = "paging"
    <3>1. Paging' = r
      BY <1>3, <1>7, <2>1 DEF Paging
    <3>2. r.step = "asked" => Owed(Paging.next)' \subseteq rows'.stored
      <4>1. r.step = "asked" => Owed(Paging.next)' = OwedNow(NextOffset(c))
        BY <1>7, <3>1 DEF Owed, OwedNow
      <4> QED
        BY <1>12, <1>13, <2>1, <4>1
    <3> QED
      BY <1>7, <3>1, <3>2 DEF OwedFetched
  <2>2. CASE c # "paging"
    <3>1. Paging' = Paging /\ PageEnd' = PageEnd
      BY <1>3, <1>7, <2>2 DEF Paging, PageEnd, Callers
    <3>2. Owed(Paging.next)' = Owed(Paging.next) /\ Owed(PageEnd)' = Owed(PageEnd)
      <4>1. OwedNow(Paging.next') = Owed(Paging.next)' /\ OwedNow(PageEnd') = Owed(PageEnd)'
        BY DEF Owed, OwedNow
      <4> QED
        BY <1>12, <3>1, <4>1
    <3> QED
      BY <1>4, <1>9, <3>1, <3>2 DEF HistoryInv, OwedFetched
  <2> QED
    BY <2>1, <2>2
<1> QED
  BY <1>5, <1>8, <1>10, <1>14, <1>15 DEF HistoryInv

(***************************************************************************)
(* A list or a deletion ends: only the card and the deleted rows change.   *)
(***************************************************************************)
LEMMA CardStep ==
    ASSUME HistoryInv, NEW c \in Callers, call' = [call EXCEPT ![c] = NoCall],
           call[c].what # "sync", UNCHANGED <<vk, window>>,
           rows' \in RowSets, rows'.stored = rows.stored, card' \in Previews, CardRight'
    PROVE  HistoryInv'
<1>1. call' \in [Callers -> Calls] /\ PagesFit' /\ DeletesName' /\ DeletionsKnown'
  BY NoCallType, CallEnds
<1>2. OwedStored' /\ window' \in Windows
  BY OwedStoredKept
<1>3. HistoryTypeOK'
  BY <1>1, <1>2 DEF HistoryInv, HistoryTypeOK
<1>4. Paging' = Paging
  BY DEF HistoryInv, HistoryTypeOK, OwedFetched, Paging, Callers
<1>5. OwedFetched'
  BY <1>4 DEF HistoryInv, OwedFetched, PageEnd, Paging, Owed, Place, Newer, History
<1> QED
  BY <1>1, <1>2, <1>3, <1>5 DEF HistoryInv

LEMMA ApplyListKeeps == ASSUME HistoryInv, NEW c \in Callers, ApplyList(c) PROVE HistoryInv'
<1> DEFINE a == call[c].answer
<1>1. /\ call' = [call EXCEPT ![c] = NoCall] /\ call[c].what # "sync"
      /\ UNCHANGED <<vk, rows, window>>
      /\ card' = IF a.ids = {} THEN card ELSE PreviewFromRaw(card, Raw(a, Max(a.ids)))
  BY DEF ApplyList
<1>2. a.ids \in SUBSET MsgIds /\ a.gone \in SUBSET MsgIds
  BY DEF HistoryInv, HistoryTypeOK, Calls, Answers
<1> HIDE DEF a
<1>3. rows' \in RowSets /\ card \in Previews /\ CardRight
  BY <1>1 DEF HistoryInv, HistoryTypeOK
<1>4. CASE a.ids = {}
  BY <1>1, <1>3, <1>4, CardStep DEF CardRight
<1>5. CASE a.ids # {}
  <2>1. card' = PreviewFromRaw(card, [id |-> Max(a.ids), out |-> Max(a.ids) \in Outgoing,
                                      gone |-> Max(a.ids) \in a.gone])
    BY <1>1, <1>5 DEF Raw
  <2>2. /\ card' \in Previews /\ card'.last = Max(a.ids)
        /\ card'.out = (Max(a.ids) \in Outgoing)
        /\ card'.text \in {0, Max(a.ids)} /\ (card'.text = 0 => card'.gone)
    BY <1>2, <1>5, <2>1, PreviewRight
  <2>3. CardRight'
    BY <1>1, <1>3, <2>2 DEF CardRight
  <2> QED
    BY <1>1, <1>3, <2>2, <2>3, CardStep
<1> QED
  BY <1>4, <1>5

LEMMA ApplyDeleteKeeps ==
    ASSUME HistoryInv, NEW c \in Callers, ApplyDelete(c)
    PROVE  HistoryInv'
<1> DEFINE m == call[c].msg
           text == IF m \in rows.body THEN m ELSE 0
<1>1. /\ call' = [call EXCEPT ![c] = NoCall] /\ call[c].what # "sync"
      /\ UNCHANGED <<vk, window>>
      /\ rows' = [rows EXCEPT !.deleted = @ \union {m}]
      /\ card' = IF card.last # m THEN card
                 ELSE [last |-> m, text |-> text, out |-> m \in Outgoing, gone |-> TRUE]
  BY DEF ApplyDelete
<1>2. m \in 0..MaxMsg /\ m \in MsgIds /\ text \in {0, m} /\ text \in 0..MaxMsg
  <2>1. call[c] \in Calls /\ m # 0
    BY DEF ApplyDelete, HistoryInv, HistoryTypeOK, DeletesName
  <2>2. m \in 0..MaxMsg
    BY <2>1 DEF Calls
  <2> QED
    BY <2>1, <2>2 DEF MsgIds
<1>3. rows \in RowSets /\ card \in Previews /\ CardRight
  BY DEF HistoryInv, HistoryTypeOK
<1> HIDE DEF m, text
<1>4. rows' \in RowSets /\ rows'.stored = rows.stored /\ rows'.body = rows.body
  BY <1>1, <1>2, <1>3 DEF RowSets
<1>5. card' \in Previews /\ CardRight'
  <2>1. CASE card.last # m
    BY <1>1, <1>3, <1>4, <2>1 DEF CardRight
  <2>2. CASE card.last = m
    <3>1. (m \in Outgoing) \in BOOLEAN
      OBVIOUS
    <3>2. card' = [last |-> m, text |-> text, out |-> m \in Outgoing, gone |-> TRUE]
      BY <1>1, <2>2
    <3>3. card' \in Previews
      BY <1>2, <3>1, <3>2 DEF Previews
    <3>4. CardRight'
      BY <1>2, <1>3, <1>4, <3>2 DEF CardRight
    <3> QED
      BY <3>3, <3>4
  <2> QED
    BY <2>1, <2>2
<1> QED
  BY <1>1, <1>4, <1>5, CardStep

LEMMA HistoryNext == HistoryInv /\ [Next]_vars => HistoryInv'
<1> SUFFICES ASSUME HistoryInv, [Next]_vars PROVE HistoryInv'
  OBVIOUS
<1>1. CASE Arrive
  <2>1. vk \in VkStates /\ window \in Windows
    BY DEF HistoryInv, HistoryTypeOK
  <2>2. Moves(vk') /\ vk'.hidden = vk.hidden
    BY <1>1, <2>1 DEF Arrive, Moves, VkStates
  <2>3. window' = window
    BY <1>1 DEF Arrive
  <2>4. Shift
    BY <2>1, <2>2, <2>3 DEF Shift, Windows
  <2> QED
    BY <1>1, <2>2, <2>4, VkStep DEF Arrive
<1>2. CASE DeletedElsewhere
  <2>1. Moves(vk')
    BY <1>2, DeletionMoves DEF DeletedElsewhere, HistoryInv
  <2> QED
    BY <1>2, <2>1, VkStep DEF DeletedElsewhere
<1>3. CASE OpenWindow
  BY <1>3, OpenWindowKeeps
<1>4. CASE ReadLocalPage
  BY <1>4, ReadLocalPageKeeps
<1>5. CASE LoadOlder
  BY <1>5, LoadOlderKeeps
<1>6. CASE \/ Refresh
           \/ \E what \in {"list", "delete"}, m \in 0..MaxMsg : AskOther(what, m)
  BY <1>6, OtherCallsKeep
<1>7. ASSUME NEW c \in Callers, Answer(c)
      PROVE  HistoryInv'
  BY <1>7, AnswerKeeps
<1>8. ASSUME NEW c \in Callers, CallFails(c)
      PROVE  HistoryInv'
  <2>1. Moves(vk')
    BY <1>8, CarryingOutMoves DEF CallFails, HistoryInv
  <2> QED
    BY <1>8, <2>1, VkStep DEF CallFails
<1>9. ASSUME NEW c \in Callers, ApplyPage(c)
      PROVE  HistoryInv'
  BY <1>9, ApplyPageKeeps
<1>10. ASSUME NEW c \in Callers, ApplyList(c)
       PROVE  HistoryInv'
  BY <1>10, ApplyListKeeps
<1>11. ASSUME NEW c \in Callers, ApplyDelete(c)
       PROVE  HistoryInv'
  BY <1>11, ApplyDeleteKeeps
<1>12. CASE UNCHANGED vars
  <2>1. UNCHANGED <<vk, rows, card, call, window>>
    BY <1>12 DEF vars
  <2>2. HistoryTypeOK' /\ PagesFit' /\ DeletesName' /\ DeletionsKnown' /\ CardRight'
    BY <2>1 DEF HistoryInv, HistoryTypeOK, PagesFit, DeletesName, DeletionsKnown, CardRight
  <2>3. OwedStored' /\ OwedFetched'
    BY <2>1 DEF HistoryInv, OwedStored, OwedFetched, Owed, Paging, PageEnd, Place, Newer,
                History
  <2> QED
    BY <2>2, <2>3 DEF HistoryInv
<1> QED
  BY <1>1, <1>2, <1>3, <1>4, <1>5, <1>6, <1>7, <1>8, <1>9, <1>10, <1>11, <1>12 DEF Next

LEMMA HistoryHolds == Spec => []HistoryInv
<1> QED
  BY HistoryInit, HistoryNext, PTL DEF Spec

(***************************************************************************)
(* Every state has its type.                                               *)
(***************************************************************************)
THEOREM HistoryTypeCorrect == Spec => []HistoryTypeOK
<1>1. HistoryInv => HistoryTypeOK
  BY DEF HistoryInv
<1> QED
  BY <1>1, HistoryHolds, PTL

(***************************************************************************)
(* A window scrolled back to the end has the whole history it opened on    *)
(* (sync_dialog and the window's paging), however many messages there are  *)
(* and whatever the page sizes: its places below the offset are stored,    *)
(* and places only grow while nothing leaves the history.                  *)
(***************************************************************************)
THEOREM WindowsGetTheHistory == Spec => []WholeHistory
<1>1. HistoryInv => WholeHistory
  BY DEF HistoryInv, OwedStored, WholeHistory
<1> QED
  BY <1>1, HistoryHolds, PTL

(***************************************************************************)
(* The known text of the last message is shown, deleted or not             *)
(* (list_dialogs): a card that misses it says that the message is deleted  *)
(* and came in, and the row has the text.                                  *)
(***************************************************************************)
THEOREM KnownTextIsShown == Spec => []KnownTextShown
<1>1. HistoryInv => KnownTextShown
  <2> SUFFICES ASSUME HistoryInv, card.last \in rows.body
               PROVE  ShownText = card.last
    BY DEF KnownTextShown
  <2>1. /\ card.last \notin Outgoing /\ card.last # 0
        /\ card.text \in {0, card.last} /\ (card.text = 0 => card.gone)
    BY DEF HistoryInv, HistoryTypeOK, CardRight, RowSets, MsgIds
  <2>2. ~card.out
    BY <2>1 DEF HistoryInv, CardRight
  <2> QED
    BY <2>1, <2>2 DEF ShownText
<1> QED
  BY <1>1, HistoryHolds, PTL

(***************************************************************************)
(* No row is marked deleted unless VK deleted the message or answered its  *)
(* deletion (delete_message, _store_raw_message).                          *)
(***************************************************************************)
THEOREM DeletionsHaveAnswers == Spec => DeletionsAnswered
<1> DEFINE Marked == \A m \in rows'.deleted \ rows.deleted :
                        \/ m \in vk.gone \union vk.hidden
                        \/ \E c \in Callers : call[c].msg = m /\ call[c].step = "answered"
<1>1. HistoryInv /\ [Next]_vars => [Marked]_vars
  <2> SUFFICES ASSUME HistoryInv, Next, NEW m \in rows'.deleted \ rows.deleted
               PROVE  \/ m \in vk.gone \union vk.hidden
                      \/ \E c \in Callers : call[c].msg = m /\ call[c].step = "answered"
    OBVIOUS
  <2>0. rows \in RowSets
    BY DEF HistoryInv, HistoryTypeOK
  <2>1. PICK c \in Callers : ApplyPage(c) \/ ApplyDelete(c)
    BY DEF Next, Arrive, DeletedElsewhere, OpenWindow, ReadLocalPage, LoadOlder, Refresh,
           AskOther, Answer, CallFails, ApplyList
  <2>2. CASE ApplyPage(c)
    <3>1. rows' = StoredRows(call[c].answer)
      BY <2>2 DEF ApplyPage
    <3>2. m \in call[c].answer.gone
      BY <3>1 DEF StoredRows
    <3> QED
      BY <3>2 DEF HistoryInv, DeletionsKnown
  <2>3. CASE ApplyDelete(c)
    <3>1. rows'.deleted = rows.deleted \union {call[c].msg} /\ call[c].step = "answered"
      BY <2>0, <2>3 DEF ApplyDelete, RowSets
    <3> QED
      BY <3>1
  <2> QED
    BY <2>1, <2>2, <2>3
<1>2. Spec => [][Marked]_vars
  BY <1>1, HistoryHolds, PTL DEF Spec
<1> QED
  BY <1>2 DEF DeletionsAnswered
=============================================================================
