------------------------------ MODULE Preview ------------------------------
(***************************************************************************)
(* The preview of a dialog's last message as the dialog list shows it.     *)
(* A preview is the id of the last message, the id of the message whose    *)
(* text is shown (0: no text), and whether the message is outgoing and     *)
(* deleted.  VK describes a message by a record [id, out, gone]; it gives  *)
(* no text of a deleted one.                                               *)
(***************************************************************************)
EXTENDS Integers

CONSTANT MaxMsg   \* bound on the messages

ASSUME MaxMsgAssumption == MaxMsg \in Nat

MsgIds == 1..MaxMsg
Previews == [last: 0..MaxMsg, text: 0..MaxMsg, out: BOOLEAN, gone: BOOLEAN]
NoPreview == [last |-> 0, text |-> 0, out |-> FALSE, gone |-> FALSE]

\* Mutant: the previous text is taken for whatever message is the last one now.
TextOfAny(old, raw) ==
    IF ~raw.gone THEN raw.id ELSE IF raw.out THEN 0 ELSE old.text

(***************************************************************************)
(* A deleted message of the other side keeps the text that is already      *)
(* shown for it; a deleted message of ours does not.                       *)
(***************************************************************************)
TextAfter(old, raw) ==
    IF ~raw.gone THEN raw.id
    ELSE IF ~raw.out /\ raw.id = old.last THEN old.text ELSE 0

PreviewFromRaw(old, raw) ==
    [last |-> raw.id, text |-> TextAfter(old, raw), out |-> raw.out, gone |-> raw.gone]
=============================================================================
