------------------------------ MODULE Exchange ------------------------------
(***************************************************************************)
(* One HTTP exchange with the bank as the transaction code sees it: what   *)
(* Client._post_verified (client.py) raises for each way the exchange can  *)
(* go wrong, and which of those errors the recovery code takes for a lost  *)
(* answer.                                                                 *)
(*                                                                         *)
(* A fault says what happened on the wire or to the answer. An error is    *)
(* the exception class the code above the transport gets to see.           *)
(***************************************************************************)

CONSTANT Faults  \* the faults the modelled network and bank may produce

\* Failures of Transport.post. "dropped" is a connection that ends, resets or
\* truncates while the answer is being read (http.client raises
\* RemoteDisconnected, ConnectionResetError, IncompleteRead or BadStatusLine).
TransportFaults ==
    {"timeout", "unreachable", "http_408", "http_429", "http_5xx",
     "http_3xx", "http_4xx", "dropped"}

\* Answers that arrive but fail verify_response_signature: no XML, no or a wrong
\* AuthSignature, and one whose digest or signature value is not base64.
AnswerFaults == {"not_xml", "unsigned", "not_base64"}

ASSUME FaultsAssumption == Faults \subseteq TransportFaults \cup AnswerFaults

-----------------------------------------------------------------------------
\* The errors are the classes the transfer loops tell apart. "Raw" stands for every
\* exception that is not an EbicsError.

\* Transport.post: HTTPError by status, then TimeoutError and URLError. The
\* exceptions of a connection dropped while reading the answer are neither.
PostError(fault) ==
    CASE fault \in {"http_408", "http_429", "http_5xx"} -> "TransientTransportError"
      [] fault \in {"http_3xx", "http_4xx"}             -> "PermanentTransportError"
      [] fault \in {"timeout", "unreachable"}           -> "TransientTransportError"
      [] OTHER                                          -> "Raw"

\* verify_response_signature: ProtocolError from the parser, its subclass
\* ResponseAuthenticationError for a missing or wrong signature; the ValueError
\* of base64.b64decode in crypto.verify_auth_signature passes through.
VerificationError(fault) ==
    IF fault = "not_base64" THEN "Raw" ELSE "ProtocolError"

\* Client._post_verified: post, then verify.
PostVerifiedError(fault) ==
    IF fault \in TransportFaults THEN PostError(fault) ELSE VerificationError(fault)

\* client._answer_lost: the failed step may be repeated.
AnswerLost(error) ==
    \/ error = "TransientTransportError"
    \/ error = "ProtocolError"
=============================================================================
