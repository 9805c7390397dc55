---------------------------- MODULE UploadPromise ----------------------------
(***************************************************************************)
(* What Client.upload and Client.change_keys promise their caller, without *)
(* segments, answers or recovery. The call ends in one of three ways:      *)
(*                                                                         *)
(*   confirmed    it returned: the bank took the order;                    *)
(*   failed       it raised anything else: the bank has not taken the      *)
(*                order and never will;                                    *)
(*   unconfirmed  it raised UploadUnconfirmedError (for a key change,      *)
(*                KeyChangeUnconfirmedError): the bank may have it, now or *)
(*                later.                                                   *)
(*                                                                         *)
(* The bank takes the order at most once.                                  *)
(***************************************************************************)
EXTENDS Naturals

VARIABLES outcome,  \* "pending" until the call ends
          orders    \* how often the bank has taken the order

vars == <<outcome, orders>>

Init == /\ outcome = "pending"
        /\ orders = 0

\* The bank takes the order while the call runs, or after it ended in doubt.
TakeOrder == /\ outcome \in {"pending", "unconfirmed"}
             /\ orders = 0
             /\ orders' = 1
             /\ UNCHANGED outcome

Confirm == /\ outcome = "pending"
           /\ orders = 1
           /\ outcome' = "confirmed"
           /\ UNCHANGED orders

Fail == /\ outcome = "pending"
        /\ orders = 0
        /\ outcome' = "failed"
        /\ UNCHANGED orders

Doubt == /\ outcome = "pending"
         /\ outcome' = "unconfirmed"
         /\ UNCHANGED orders

Next == TakeOrder \/ Confirm \/ Fail \/ Doubt

Spec == Init /\ [][Next]_vars
=============================================================================
