------------------------- MODULE MCDownloadTransfer -------------------------
(***************************************************************************)
(* Instance of DownloadTransfer for TLC.                                   *)
(***************************************************************************)
EXTENDS DownloadTransfer

\* One fault per error class the handlers tell apart, and one no handler names.
LossyNetwork == {"timeout", "http_4xx", "unsigned", "dropped"}
=============================================================================
