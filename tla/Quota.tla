------------------------------- MODULE Quota -------------------------------
(***************************************************************************)
(* The daily quota of one account (services/quota.py): a row of the table  *)
(* account_quotas that opens a window of fixed length at the first counted *)
(* group and counts the groups begun inside it.  This module has the pure  *)
(* part, used inside the write transaction of WorkQueue!ClaimWithin.       *)
(*                                                                         *)
(* A row keeps the time left until window_ends_at instead of the instant   *)
(* itself.  "ends <= now" is left = 0.  An absent row and a row whose      *)
(* window is over mean the same to every reader, so NoRow stands for both. *)
(***************************************************************************)
EXTENDS Integers

CONSTANT Window        \* WINDOW, 24 hours, in the model's time units

ASSUME WindowAssumption == Window \in Nat \ {0}

Row   == [left: 0 .. Window, consumed: Nat]
NoRow == [left |-> 0, consumed |-> 0]

\* What _logical_snapshot reports as consumed: nothing once the window is over.
Consumed(row) == IF row.left = 0 THEN 0 ELSE row.consumed

\* max(limit - consumed, 0): a limit lowered below what was consumed leaves 0.
Available(limit, row) ==
    IF limit > Consumed(row) THEN limit - Consumed(row) ELSE 0

\* Mutant: a fresh window goes on counting where the last one ended.
ChargeOnTop(row) ==
    [left |-> IF row.left = 0 THEN Window ELSE row.left, consumed |-> row.consumed + 1]

\* reserve_quota_on_connection when a unit is available: one more unit in the
\* open window, or the first unit of a fresh window that starts now.
Charge(row) ==
    IF row.left = 0 THEN [left |-> Window, consumed |-> 1]
                    ELSE [row EXCEPT !.consumed = @ + 1]

Elapse(row) == [row EXCEPT !.left = IF @ = 0 THEN 0 ELSE @ - 1]
=============================================================================
