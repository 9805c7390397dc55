--------------------------- MODULE MCKeyRotation ---------------------------
(***************************************************************************)
(* Instance of KeyRotation for TLC.                                        *)
(***************************************************************************)
EXTENDS KeyRotation

\* A fault for each class of error that the transfer loop tells apart.
LossyNetwork == {"timeout", "http_4xx", "not_xml", "dropped"}
=============================================================================
