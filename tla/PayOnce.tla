------------------------------ MODULE PayOnce ------------------------------
(***************************************************************************)
(* What unlocks and medals have in common, without requests, transactions  *)
(* or codes.  A debt is owed once something the user did justifies it,     *)
(* and from then on.  Of the debts with one key one is paid, when it is    *)
(* owed, with all the rows that belong to it, once and for good.           *)
(*                                                                         *)
(* QrRedeem.tla and BarMissions.tla implement it.                          *)
(***************************************************************************)
CONSTANTS
  Debt,     \* what users may be paid for
  KeyOf     \* KeyOf[c] : of the debts with one key one is paid

VARIABLES
  owed,     \* debts that are justified
  paid,     \* debts with the row of the unlock or the medal
  receipts  \* debts with the rows that go with it

vars == <<owed, paid, receipts>>

Init == owed \subseteq Debt /\ paid = {} /\ receipts = {}

\* Deeds are not taken back.
Owe == owed \subseteq owed' /\ owed' \subseteq Debt

\* The deed that justifies c may be committed together with the payment.
Pay(c) ==
  /\ c \in owed'
  /\ \A p \in paid : KeyOf[p] # KeyOf[c]
  /\ paid' = paid \cup {c}
  /\ receipts' = receipts \cup {c}

Next == Owe /\ (UNCHANGED <<paid, receipts>> \/ \E c \in Debt : Pay(c))

Spec == Init /\ [][Next]_vars
=============================================================================
