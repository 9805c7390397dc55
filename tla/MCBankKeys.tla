----------------------------- MODULE MCBankKeys -----------------------------
(***************************************************************************)
(* An instance of BankKeys for TLC: a key that comes bare or under one of  *)
(* two certificates, and another that comes bare.                          *)
(***************************************************************************)
EXTENDS BankKeys, TLC

CONSTANTS k1, k2, c1, c2

MCCertified == (c1 :> k1) @@ (c2 :> k1)
=============================================================================
