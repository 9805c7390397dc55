-------------------------- MODULE MCUploadTransfer --------------------------
(***************************************************************************)
(* Instance of UploadTransfer for TLC.                                     *)
(***************************************************************************)
EXTENDS UploadTransfer

AllFaults == TransportFaults \cup AnswerFaults
=============================================================================
