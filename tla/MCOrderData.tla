---------------------------- MODULE MCOrderData ----------------------------
(***************************************************************************)
(* An instance of OrderData for TLC: streams of up to three codes on both  *)
(* sides of the ceiling, archives with names out of order, listed twice,   *)
(* too many or too large.                                                  *)
(***************************************************************************)
EXTENDS OrderData

CONSTANT MaxCodes

Increasing(s) == \A i \in 1..Len(s) : s[i] - Start(s, i) \in 1..MaxRun
MCStreams == {s \in BoundedSeq(1..(MaxCodes * MaxRun), MaxCodes) : Increasing(s)}

Entry(name, document, bytes) == [name |-> name, document |-> document, bytes |-> bytes]
Xml == [zip |-> FALSE, entries |-> <<Entry(1, "a", 1)>>]
Archive(entries) == [zip |-> TRUE, entries |-> entries]
MCContents == {Xml,
               Archive(<<Entry(2, "a", 1), Entry(1, "b", 1)>>),
               Archive(<<Entry(1, "a", 1), Entry(2, "b", 1), Entry(1, "c", 1)>>),
               Archive(<<Entry(1, "a", MaxEntryBytes + 1)>>),
               Archive(<<Entry(1, "a", 1), Entry(2, "b", 1), Entry(3, "c", 1), Entry(4, "d", 1)>>)}
=============================================================================
