--------------------------- MODULE MCPaymentRound ---------------------------
(***************************************************************************)
(* Instances of PaymentRound for TLC, with one payment or two.             *)
(***************************************************************************)
EXTENDS PaymentRound, TLC

CONSTANTS b1, b2

BlockSymmetry == Permutations(Blocks)

\* Bound: what follows once a file was sent again too early is not explored. From there on
\* the invariant only says that variables have their types and reports are not lost.
UntilEarly == ~early
=============================================================================
