--------------------------- MODULE UploadTransfer ---------------------------
(***************************************************************************)
(* One upload transaction: the initialisation exchange of Client.upload    *)
(* (or Client.change_keys) and Client._transfer_segments with its recovery *)
(* (client.py), against a bank that answers as docs/09 and docs/12 record  *)
(* and a network that loses answers and delivers requests late.            *)
(*                                                                         *)
(* The client is one thread that blocks in each exchange. What runs beside *)
(* it is the bank, and the requests of exchanges the client gave up on:    *)
(* they may still reach the bank, at any later time and more than once.    *)
(***************************************************************************)
EXTENDS Naturals, Exchange

CONSTANTS NumSegments,       \* segments of the payload (_split_segments: at least one)
          RecoveryAttempts,  \* Client(recovery_attempts=...)
          BankDefects        \* irregularities the modelled bank shows, see below

\* "unsent_point": the bank names a recovery point nobody sent it.
\* "no_return_code": a signed answer carries no, or an empty, ReturnCode.
ASSUME UploadAssumption ==
    /\ NumSegments \in Nat \ {0}
    /\ RecoveryAttempts \in Nat
    /\ BankDefects \subseteq {"unsent_point", "no_return_code"}

VARIABLES
    \* Locals of _transfer_segments
    status,           \* where the call is: see Statuses
    number,           \* the segment the loop is at
    highestSent,      \* highest_sent
    finalUnanswered,  \* final_segment_unanswered
    budget,           \* _RecoveryBudget._remaining
    \* The network
    reply,            \* the bank's answer to the exchange the client waits in
    late,             \* segments of abandoned exchanges, still on their way
    \* The bank's side of the transaction
    tx,               \* its state
    held,             \* the bank holds segments 1..held
    orders            \* how often it took the order

clientVars == <<status, number, highestSent, finalUnanswered, budget>>
bankVars   == <<tx, held, orders>>
vars       == <<clientVars, reply, late, bankVars>>

Segments == 1..NumSegments

\* "unconfirmed" is the Unconfirmed error and "raised" any other that the loop raises
\* knowing of it; "escaped" is an exception no handler of the loop catches.
Running  == {"opening", "sending", "waiting"}
Statuses == Running \cup {"confirmed", "raised", "unconfirmed", "escaped"}

\* An answer, reduced to what the transfer loop reads from it: its return code
\* ("known" and "unknown" are codes in and outside _KNOWN_RETURN_CODES, "sync" is
\* 061101, "none" no code at all) and, for "sync", the recovery point.
Codes   == {"ok", "sync", "known", "unknown", "none"}
Replies == [code : Codes, point : 0..NumSegments + 1]
NoReply == [code |-> "no_reply", point |-> 0]
Reply(code) == [code |-> code, point |-> 0]
SyncAt(point) == [code |-> "sync", point |-> point]

TypeOK == /\ status \in Statuses
          /\ number \in 1..NumSegments + 1
          /\ highestSent \in 0..NumSegments
          /\ finalUnanswered \in BOOLEAN
          /\ budget \in 0..RecoveryAttempts
          /\ reply \in Replies \cup {NoReply}
          /\ late \subseteq Segments
          /\ tx \in {"none", "open", "taken", "closed"}
          /\ held \in 0..NumSegments
          /\ orders \in Nat

Init == /\ status = "opening"
        /\ number = 1
        /\ highestSent = 0
        /\ finalUnanswered = FALSE
        /\ budget = RecoveryAttempts
        /\ reply = NoReply
        /\ late = {}
        /\ tx = "none"
        /\ held = 0
        /\ orders = 0

-----------------------------------------------------------------------------
\* Client: the initialisation exchange. It is not recovered; whatever fails in it
\* is raised as it is, and the bank may have opened a transaction all the same.

OpenTransaction == /\ status = "opening"
                   /\ status' = "sending"
                   /\ tx' = "open"
                   /\ UNCHANGED <<number, highestSent, finalUnanswered, budget,
                                  reply, late, held, orders>>

OpeningFails == /\ status = "opening"
                /\ status' = "raised"
                /\ tx' \in {"none", "open"}
                /\ UNCHANGED <<number, highestSent, finalUnanswered, budget,
                               reply, late, held, orders>>

-----------------------------------------------------------------------------
\* Client: the transfer loop.

Last == number = NumSegments

\* Mutant: a repetition costs nothing.
SpendNothing == UNCHANGED budget
\* _RecoveryBudget.spend
Spend == /\ budget > 0
         /\ budget' = budget - 1

SendSegment == /\ status = "sending"
               /\ status' = "waiting"
               /\ highestSent' = IF number > highestSent THEN number ELSE highestSent
               /\ reply' = NoReply
               /\ UNCHANGED <<number, finalUnanswered, budget, late, bankVars>>

\* First line of the except clause: the segment went out without a usable answer.
NoteUnanswered(error) == finalUnanswered' = (finalUnanswered \/ Last)

\* The except clause around the exchange: send the segment again, or raise.
StepFailed(error) ==
    /\ UNCHANGED <<number, highestSent>>
    /\ \/ /\ error = "Raw"
          /\ status' = "escaped"
          /\ UNCHANGED <<finalUnanswered, budget>>
       \/ /\ error # "Raw"
          /\ NoteUnanswered(error)
          /\ \/ /\ AnswerLost(error)
                /\ Spend
                /\ status' = "sending"
             \/ /\ ~(AnswerLost(error) /\ budget > 0)
                /\ status' = IF finalUnanswered' THEN "unconfirmed" ELSE "raised"
                /\ UNCHANGED budget

\* The exchange ends with no usable answer. A request the bank has not handled yet
\* is lost for good or stays on its way.
ExchangeFails ==
    /\ status = "waiting"
    /\ \E fault \in Faults : StepFailed(PostVerifiedError(fault))
    /\ \/ late' = late
       \/ reply = NoReply /\ late' = late \cup {number}
    /\ reply' = NoReply
    /\ UNCHANGED bankVars

Answered == status = "waiting" /\ reply # NoReply

\* Mutant: a point beyond what was sent is taken at its word.
AnyPointInUpload(point) == point <= NumSegments
\* upload_recovery_point's range check, then the one against highest_sent.
PossiblePoint(point) == /\ point <= NumSegments
                        /\ point <= highestSent

\* A recovery point the bank cannot have: a ProtocolError inside the try.
RejectPoint == /\ Answered
               /\ reply.code = "sync"
               /\ ~PossiblePoint(reply.point)
               /\ StepFailed("ProtocolError")
               /\ reply' = NoReply
               /\ UNCHANGED <<late, bankVars>>

\* The bank holds every segment: return.
BankHoldsAll == /\ Answered
                /\ reply.code = "sync"
                /\ PossiblePoint(reply.point)
                /\ reply.point = NumSegments
                /\ status' = "confirmed"
                /\ reply' = NoReply
                /\ UNCHANGED <<number, highestSent, finalUnanswered, budget, late, bankVars>>

\* Continue with the segment after the bank's recovery point.
ResumeAfterPoint == /\ Answered
                    /\ reply.code = "sync"
                    /\ PossiblePoint(reply.point)
                    /\ reply.point < NumSegments
                    /\ Spend
                    /\ number' = reply.point + 1
                    /\ status' = "sending"
                    /\ reply' = NoReply
                    /\ UNCHANGED <<highestSent, finalUnanswered, late, bankVars>>

SegmentAccepted == /\ Answered
                   /\ reply.code = "ok"
                   /\ number' = number + 1
                   /\ status' = IF Last THEN "confirmed" ELSE "sending"
                   /\ reply' = NoReply
                   /\ UNCHANGED <<highestSent, finalUnanswered, budget, late, bankVars>>

\* Mutants: an unknown code on the final segment is a rejection; a rejection is
\* final although an earlier answer to the final segment was lost.
DoubtOnlyUnanswered(code) == finalUnanswered
DoubtOnlyUnknown(code) == Last /\ code = "unknown"
\* A return code does not settle the order: except ReturnCodeError.
OutcomeOpen(code) == finalUnanswered \/ (Last /\ code = "unknown")

\* parse_upload_transfer_response raises: a known or unknown code, or a recovery
\* point once no attempt is left.
SegmentRefused ==
    /\ Answered
    /\ \/ reply.code \in {"known", "unknown"}
       \/ /\ reply.code = "sync"
          /\ PossiblePoint(reply.point)
          /\ reply.point < NumSegments
          /\ budget = 0
    /\ status' = IF OutcomeOpen(reply.code) THEN "unconfirmed" ELSE "raised"
    /\ reply' = NoReply
    /\ UNCHANGED <<number, highestSent, finalUnanswered, budget, late, bankVars>>

\* parse_upload_transfer_response raises a ProtocolError, which is no
\* ReturnCodeError and leaves the loop as it is.
NoReturnCode == /\ Answered
                /\ reply.code = "none"
                /\ status' = "escaped"
                /\ reply' = NoReply
                /\ UNCHANGED <<number, highestSent, finalUnanswered, budget, late, bankVars>>

ClientNext == \/ OpenTransaction \/ OpeningFails
              \/ SendSegment \/ ExchangeFails
              \/ RejectPoint \/ BankHoldsAll \/ ResumeAfterPoint
              \/ SegmentAccepted \/ SegmentRefused \/ NoReturnCode

-----------------------------------------------------------------------------
\* Bank (external): how it treats segment n, and its answer r.

\* An answer to a request the bank carried out; the return code may be missing.
Done(r) == \/ r = Reply("ok")
           \/ "no_return_code" \in BankDefects /\ r = Reply("none")

StoreSegment(n, r) == /\ tx = "open"
                      /\ n = held + 1
                      /\ n < NumSegments
                      /\ held' = n
                      /\ Done(r)
                      /\ UNCHANGED <<tx, orders>>

\* The bank takes the order with the last segment; it may say so with a code that
\* is not in the client's table.
TakeOrder(n, r) == /\ tx = "open"
                   /\ n = held + 1
                   /\ n = NumSegments
                   /\ held' = n
                   /\ tx' = "taken"
                   /\ orders' = orders + 1
                   /\ Done(r) \/ r = Reply("unknown")

\* A segment out of turn, or for an order already taken: the bank names its recovery
\* point, or confirms a resent final segment again.
NameRecoveryPoint(n, r) == /\ \/ tx = "open" /\ n # held + 1
                              \/ tx = "taken"
                           /\ r = SyncAt(held)
                           /\ UNCHANGED bankVars

ConfirmAgain(n, r) == /\ tx = "taken"
                      /\ n = NumSegments
                      /\ r = Reply("ok")
                      /\ UNCHANGED bankVars

NameUnsentPoint(r) == /\ "unsent_point" \in BankDefects
                      /\ \E point \in highestSent + 1..NumSegments + 1 : r = SyncAt(point)
                      /\ UNCHANGED bankVars

\* A refusal takes no order and may end the transaction; so is the answer to any
\* request in a transaction that has ended.
Refuse(r) == /\ r \in {Reply("known"), Reply("unknown")}
             /\ tx' \in {tx} \cup IF tx = "open" THEN {"closed"} ELSE {}
             /\ UNCHANGED <<held, orders>>

BankHandles(n, r) == \/ StoreSegment(n, r)
                     \/ TakeOrder(n, r)
                     \/ NameRecoveryPoint(n, r)
                     \/ ConfirmAgain(n, r)
                     \/ NameUnsentPoint(r)
                     \/ Refuse(r)

BankAnswers == /\ status = "waiting"
               /\ reply = NoReply
               /\ \E r \in Replies : BankHandles(number, r) /\ reply' = r
               /\ UNCHANGED <<clientVars, late>>

\* A request of an abandoned exchange arrives; nobody reads the answer. It may be one
\* of several copies.
LateRequestArrives == /\ \E n \in late :
                           /\ \E r \in Replies : BankHandles(n, r)
                           /\ late' \in {late, late \ {n}}
                      /\ UNCHANGED <<clientVars, reply>>

\* The bank goes back to an earlier recovery point, at worst the initialisation.
BankFallsBack == /\ tx = "open"
                 /\ \E point \in 0..held : point < held /\ held' = point
                 /\ UNCHANGED <<clientVars, reply, late, tx, orders>>

BankEndsTransaction == /\ tx = "open"
                       /\ tx' = "closed"
                       /\ UNCHANGED <<clientVars, reply, late, held, orders>>

BankNext == BankAnswers \/ LateRequestArrives \/ BankFallsBack \/ BankEndsTransaction

-----------------------------------------------------------------------------
Next == ClientNext \/ BankNext

Spec == Init /\ [][Next]_vars

\* The client's thread runs on, and every exchange it waits in ends: Transport has a
\* timeout (default 30 seconds). Nothing is assumed of the bank.
FairSpec == Spec /\ WF_vars(ClientNext)

-----------------------------------------------------------------------------
(***************************************************************************)
(* Properties                                                              *)
(***************************************************************************)

\* An error that _transfer_segments raises in place of the Unconfirmed one means that the
\* bank has not taken the order, and no request still on its way makes it take the order
\* later.
DefiniteFailureMeansNoOrder == status = "raised" => orders = 0

\* A call that returns has its order at the bank, exactly once, whichever way the
\* answer came: 000000, a repeated 000000 or a recovery point.
ReturnMeansOrderTaken == status = "confirmed" => orders = 1

\* The client raises the Unconfirmed error only if the final segment was sent.
DoubtOnlyAfterFinalSegment == status = "unconfirmed" => highestSent = NumSegments

\* Every transaction ends: lost answers and recovery points share one budget.
CallEnds == <>(status \notin Running)

\* The abstract outcome of the call. After an exception that escaped the bank may have
\* the order, as after the Unconfirmed error; the documentation does not say so.
Outcome == CASE status \in Running   -> "pending"
             [] status = "raised"    -> "failed"
             [] status = "confirmed" -> "confirmed"
             [] OTHER                -> "unconfirmed"

Promise == INSTANCE UploadPromise WITH outcome <- Outcome

\* The transfer implements the promise of UploadPromise.
KeepsPromise == Promise!Spec

-----------------------------------------------------------------------------
(***************************************************************************)
(* Why it holds: the inductive invariant                                   *)
(***************************************************************************)

\* The bank's side: it holds the last segment exactly when it has taken the order.
BankConsistent == /\ orders = IF tx = "taken" THEN 1 ELSE 0
                  /\ tx = "taken" <=> held = NumSegments

\* The loop's locals.
LoopConsistent == /\ status = "opening" => /\ tx = "none" /\ late = {}
                                           /\ number = 1 /\ highestSent = 0
                  /\ status \in {"sending", "waiting"} => number \in Segments
                  /\ status = "waiting" => number <= highestSent
                  /\ reply # NoReply => status = "waiting"
                  /\ finalUnanswered => highestSent = NumSegments

\* While the call runs, an order the bank took shows: the client knows that its final
\* segment is unanswered, or the answer it is about to read is not a rejection.
OrderAccountedFor ==
    tx = "taken" =>
        \/ finalUnanswered
        \/ status \notin Running
        \/ /\ status = "waiting"
           /\ Last
           /\ reply.code \in {"ok", "unknown", "none"} \/ reply = SyncAt(NumSegments)

\* While the call runs, only a final segment the client knows to be unanswered can
\* still arrive.
LateFinalKnown == NumSegments \in late => finalUnanswered \/ status = "escaped"

\* The answers that confirm the order are true.
AnswersTrue == /\ Last /\ reply.code = "ok" => tx = "taken"
               /\ /\ reply = SyncAt(NumSegments)
                  /\ NumSegments <= highestSent
                  => tx = "taken"

\* What the end of the call says.
OutcomeTrue == /\ status = "confirmed" => tx = "taken"
               /\ status = "unconfirmed" => highestSent = NumSegments
               /\ status = "raised" => tx # "taken" /\ NumSegments \notin late

\* The reason DefiniteFailureMeansNoOrder, ReturnMeansOrderTaken and
\* DoubtOnlyAfterFinalSegment hold: final_segment_unanswered records every way the
\* order can exist, or come to exist, without the client having read so.
TransferInvariant == /\ TypeOK
                     /\ BankConsistent
                     /\ LoopConsistent
                     /\ OrderAccountedFor
                     /\ LateFinalKnown
                     /\ AnswersTrue
                     /\ OutcomeTrue
=============================================================================
