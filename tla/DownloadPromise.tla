--------------------------- MODULE DownloadPromise ---------------------------
(***************************************************************************)
(* What Client.download promises its caller, without segments, answers or  *)
(* recovery. The bank may consume the data only of a call that has it,     *)
(* decrypted and validated, and whose ReceiptPolicy is ACKNOWLEDGE. Such a *)
(* call returns only once the bank has consumed the data; one that raises  *)
(* leaves it at the bank, or, when the answer to its receipt was lost, may *)
(* have it consumed later.                                                 *)
(***************************************************************************)
VARIABLES policy,   \* receipt_policy
          outcome,  \* "pending", then "returned" or "raised"
          landed,   \* the data was decrypted and passed the validation
          consumed  \* the bank will not deliver the data again

vars == <<policy, outcome, landed, consumed>>

Init == /\ policy \in {"ACKNOWLEDGE", "KEEP"}
        /\ outcome = "pending"
        /\ landed = FALSE
        /\ consumed = FALSE

Land == /\ outcome = "pending"
        /\ ~landed
        /\ landed' = TRUE
        /\ UNCHANGED <<policy, outcome, consumed>>

Consume == /\ landed
           /\ policy = "ACKNOWLEDGE"
           /\ ~consumed
           /\ consumed' = TRUE
           /\ UNCHANGED <<policy, outcome, landed>>

Return == /\ outcome = "pending"
          /\ landed
          /\ policy = "ACKNOWLEDGE" => consumed
          /\ outcome' = "returned"
          /\ UNCHANGED <<policy, landed, consumed>>

Raise == /\ outcome = "pending"
         /\ outcome' = "raised"
         /\ UNCHANGED <<policy, landed, consumed>>

Next == Land \/ Consume \/ Return \/ Raise

Spec == Init /\ [][Next]_vars
=============================================================================
