-------------------------- MODULE MCStatementSync --------------------------
(***************************************************************************)
(* Instance of StatementSync for TLC: the calls of the examples, and       *)
(* deliveries that differ in their root and in what the parser makes of    *)
(* them.                                                                   *)
(***************************************************************************)
EXTENDS StatementSync

CONSTANTS good, old, cut, garbled

\* Client.download with no hook under STRICT.
Archive == [books |-> FALSE, parses |-> FALSE, dated |-> FALSE, strict |-> TRUE,
            policy |-> "ACKNOWLEDGE"]

AllCalls == {Nightly(FALSE), Nightly(TRUE), Archive, Backfill, Peek, StrictRead}

\* The one of another version is also outside of the period; the one that is cut off has
\* the right root.
Vintages    == {"version 08", "version 04"}
AllKinds    == {good, old, cut, garbled}
Roots       == [d \in AllKinds |-> IF d = old THEN "version 04"
                                   ELSE IF d = garbled THEN "garbled" ELSE "version 08"]
Unparseable == {cut, garbled}
OnlyOld     == {old}
=============================================================================
