--------------------------- MODULE CommissionBook ---------------------------
(***************************************************************************)
(* What the commission ledger promises, without rows, requests or           *)
(* transactions: an order earns only after its money is collected, each     *)
(* beneficiary's account on it is credited at most once, and debited at     *)
(* most once and by no more than the credit.                                *)
(***************************************************************************)
EXTENDS Integers

CONSTANTS Orders, Accounts     \* an account is a beneficiary in a generation

VARIABLES collected,           \* the orders whose money has come in
          earned, reverted     \* [Orders -> [Accounts -> Nat]]

vars == <<collected, earned, reverted>>

Empty == [o \in Orders |-> [a \in Accounts |-> 0]]

Init == collected = {} /\ earned = Empty /\ reverted = Empty

Collect ==
  /\ \E o \in Orders \ collected : collected' = collected \cup {o}
  /\ UNCHANGED <<earned, reverted>>

Earn(o) ==
  /\ o \in collected
  /\ earned' = [earned EXCEPT ![o] = earned'[o]]
  /\ \A a \in Accounts :
       earned'[o][a] # earned[o][a] => earned[o][a] = 0 /\ earned'[o][a] > 0
  /\ UNCHANGED <<collected, reverted>>

Revert(o) ==
  /\ reverted' = [reverted EXCEPT ![o] = reverted'[o]]
  /\ \A a \in Accounts :
       reverted'[o][a] # reverted[o][a] =>
         reverted[o][a] = 0 /\ reverted'[o][a] \in 1..earned[o][a]
  /\ UNCHANGED <<collected, earned>>

Next == Collect \/ \E o \in Orders : Earn(o) \/ Revert(o)

Spec == Init /\ [][Next]_vars

=============================================================================
