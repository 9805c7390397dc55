-------------------------- MODULE DownloadTransfer --------------------------
(***************************************************************************)
(* One download transaction: Client._run_download_transaction with         *)
(* _fetch_segments, _acknowledge and _send_receipt (client.py), against a  *)
(* bank that answers as docs/09 and docs/12 record and a network that      *)
(* loses answers and delivers requests late.                               *)
(*                                                                         *)
(* The receipt is what lets the bank consume the data. Late requests for   *)
(* segments change nothing at the bank; a late receipt does.               *)
(***************************************************************************)
EXTENDS Naturals, Exchange

CONSTANTS NumSegments,       \* NumSegments of the initialisation response
          RecoveryAttempts,  \* Client(recovery_attempts=...)
          BankDefects        \* irregularities the modelled bank shows, see below

\* "bad_point": a recovery point outside the download. "wrong_segment": another
\* segment than the one requested. "other_data": a segment's data differs from one
\* answer to the next. "opposite": the bank does, and says that it did, the opposite
\* of what the receipt asks.
ASSUME DownloadAssumption ==
    /\ NumSegments \in Nat \ {0}
    /\ RecoveryAttempts \in Nat
    /\ BankDefects \subseteq {"bad_point", "wrong_segment", "other_data", "opposite"}

VARIABLES
    \* The call
    policy,    \* receipt_policy
    status,    \* where it is: see Statuses
    number,    \* the segment _fetch_segments is at
    segments,  \* segments: the data held for each, "none" before it arrived
    budget,    \* _RecoveryBudget._remaining
    landing,   \* decrypting and validating: "pending", then "good" or "bad"
    told,      \* a ReceiptMismatchError was raised, or noted on the failure
    \* What the call did, for the properties
    receipts,  \* "none", "sent", or "unanswered" once the answer to one was lost
    \* The network
    reply,     \* the bank's answer to the exchange the client waits in
    late,      \* a receipt of an abandoned exchange is still on its way
    \* The bank's side
    tx,        \* the transaction: "none", "open", "ended", or "disobeyed" if the bank
               \* ended it with the opposite of what the receipt asked
    consumed   \* it will not deliver the data again

callVars == <<policy, status, number, segments, budget, landing, told>>
vars     == <<callVars, receipts, reply, late, tx, consumed>>

Segments == 1..NumSegments
Versions == {"data", "other"}

\* "died" is a process that ended, or an exception no handler catches
\* (KeyboardInterrupt), between two steps.
Running  == {"opening", "requesting", "awaiting_segment", "landing",
             "acknowledging", "awaiting_receipt"}
Statuses == Running \cup {"returned", "raised", "died"}

\* An answer, reduced to what the client reads from it: its return code ("done" is
\* 011000, "skipped" 011001, "sync" 061101, "known" and "unknown" any other code in
\* and outside _KNOWN_RETURN_CODES, "none" no code at all), the segment number, the
\* data.
Codes   == {"ok", "done", "skipped", "sync", "known", "unknown", "none"}
Replies == [code : Codes, number : 0..NumSegments + 1, data : Versions \cup {"none"}]
NoReply == [code |-> "no_reply", number |-> 0, data |-> "none"]
Answer(code)      == [code |-> code, number |-> 0, data |-> "none"]
SyncAt(point)     == [code |-> "sync", number |-> point, data |-> "none"]
Segment(n, data)  == [code |-> "ok", number |-> n, data |-> data]

TypeOK == /\ policy \in {"ACKNOWLEDGE", "KEEP"}
          /\ status \in Statuses
          /\ number \in 1..NumSegments + 1
          /\ segments \in [Segments -> Versions \cup {"none"}]
          /\ budget \in 0..RecoveryAttempts
          /\ landing \in {"pending", "good", "bad"}
          /\ told \in BOOLEAN
          /\ receipts \in {"none", "sent", "unanswered"}
          /\ reply \in Replies \cup {NoReply}
          /\ late \in BOOLEAN
          /\ tx \in {"none", "open", "ended", "disobeyed"}
          /\ consumed \in BOOLEAN

Init == /\ policy \in {"ACKNOWLEDGE", "KEEP"}
        /\ status = "opening"
        /\ number = 1
        /\ segments = [n \in Segments |-> "none"]
        /\ budget = RecoveryAttempts
        /\ landing = "pending"
        /\ told = FALSE
        /\ receipts = "none"
        /\ reply = NoReply
        /\ late = FALSE
        /\ tx = "none"
        /\ consumed = FALSE

-----------------------------------------------------------------------------
\* Mutant: the receipt of a failed landing is positive too.
AlwaysPositive == policy = "ACKNOWLEDGE"

\* The receipt's polarity: positive only for data that landed, under ACKNOWLEDGE.
Positive == landing = "good" /\ policy = "ACKNOWLEDGE"

\* _acknowledge, except Exception: no confirmation. A positive receipt's error is
\* raised, a negative one's swallowed: a KEEP read returns, a failure goes on.
Unconfirmed == IF Positive \/ landing = "bad" THEN "raised" ELSE "returned"

\* _fetch_segments raises: into the call itself before the landing, into _acknowledge
\* when a receipt was answered with a recovery point.
FetchFailed == IF landing = "pending" THEN "raised" ELSE Unconfirmed

\* The loop of _fetch_segments goes to segment n, or ends after the last one.
FetchFrom(n) == IF n <= NumSegments THEN "requesting"
                ELSE IF landing = "pending" THEN "landing" ELSE "acknowledging"

\* Mutant: continue after the point, whatever is missing before it.
AfterPoint(n, point) == n = point + 1

Missing == {n \in Segments : segments[n] = "none"}
\* _next_download_segment: the segment after the point, or the first one missing.
NextSegment(n, point) == /\ n \in Missing \cup {point + 1}
                         /\ \A m \in Missing \cup {point + 1} : n <= m
\* download_recovery_point's range check.
ValidPoint(point) == point \in Segments

SpendNothing == UNCHANGED budget  \* mutant: a repetition costs nothing
\* _RecoveryBudget.spend
Spend == /\ budget > 0
         /\ budget' = budget - 1

-----------------------------------------------------------------------------
\* The initialisation, which is not recovered, brings the first segment.

OpenTransaction == /\ status = "opening"
                   /\ segments' = [segments EXCEPT ![1] = "data"]
                   /\ number' = 2
                   /\ status' = FetchFrom(2)
                   /\ tx' = "open"
                   /\ UNCHANGED <<policy, budget, landing, told, receipts, reply,
                                  late, consumed>>

OpeningFails == /\ status = "opening"
                /\ status' = "raised"
                /\ tx' \in {"none", "open"}
                /\ UNCHANGED <<policy, number, segments, budget, landing, told, receipts,
                               reply, late, consumed>>

-----------------------------------------------------------------------------
\* _fetch_segments

RequestSegment == /\ status = "requesting"
                  /\ status' = "awaiting_segment"
                  /\ reply' = NoReply
                  /\ UNCHANGED <<policy, number, segments, budget, landing, told, receipts,
                                 late, tx, consumed>>

SegmentExchangeFails ==
    /\ status = "awaiting_segment"
    /\ \E fault \in Faults :
         LET error == PostVerifiedError(fault)
         IN  \/ /\ AnswerLost(error)
                /\ Spend
                /\ status' = "requesting"
             \/ /\ ~(AnswerLost(error) /\ budget > 0)
                /\ status' = FetchFailed
                /\ UNCHANGED budget
    /\ reply' = NoReply
    /\ UNCHANGED <<policy, number, segments, landing, told, receipts, late, tx, consumed>>

SegmentAnswered == status = "awaiting_segment" /\ reply # NoReply

FollowPoint == /\ SegmentAnswered
               /\ reply.code = "sync"
               /\ ValidPoint(reply.number)
               /\ Spend
               /\ NextSegment(number', reply.number)
               /\ status' = FetchFrom(number')
               /\ reply' = NoReply
               /\ UNCHANGED <<policy, segments, landing, told, receipts, late, tx, consumed>>

\* Mutant: a segment held already is taken again without a look.
AnyDataUsable == reply.code = "ok" /\ reply.number = number
\* The segment asked for, with the data it had if it was held already.
UsableSegment == /\ reply.code = "ok"
                 /\ reply.number = number
                 /\ segments[number] \in {"none", reply.data}

TakeSegment == /\ SegmentAnswered
               /\ UsableSegment
               /\ segments' = [segments EXCEPT ![number] = reply.data]
               /\ number' = number + 1
               /\ status' = FetchFrom(number + 1)
               /\ reply' = NoReply
               /\ UNCHANGED <<policy, budget, landing, told, receipts, late, tx, consumed>>

\* Any other answer: a return code, none at all, another segment or other data, a
\* recovery point outside the download or with no attempt left.
RejectSegment == /\ SegmentAnswered
                 /\ ~UsableSegment
                 /\ ~(reply.code = "sync" /\ ValidPoint(reply.number) /\ budget > 0)
                 /\ status' = FetchFailed
                 /\ reply' = NoReply
                 /\ UNCHANGED <<policy, number, segments, budget, landing, told, receipts,
                                late, tx, consumed>>

-----------------------------------------------------------------------------
\* Decrypting and validating, then _acknowledge and _send_receipt

Land == /\ status = "landing"
        /\ landing' \in {"good", "bad"}
        /\ status' = "acknowledging"
        /\ UNCHANGED <<policy, number, segments, budget, told, receipts, reply, late, tx,
                       consumed>>

SendReceipt == /\ status = "acknowledging"
               /\ status' = "awaiting_receipt"
               /\ receipts' = IF receipts = "none" THEN "sent" ELSE receipts
               /\ reply' = NoReply
               /\ UNCHANGED <<policy, number, segments, budget, landing, told, late, tx,
                              consumed>>

ReceiptExchangeFails ==
    /\ status = "awaiting_receipt"
    /\ \E fault \in Faults :
         LET error == PostVerifiedError(fault)
         IN  \/ /\ AnswerLost(error)
                /\ Spend
                /\ status' = "acknowledging"
             \/ /\ ~(AnswerLost(error) /\ budget > 0)
                /\ status' = Unconfirmed
                /\ UNCHANGED budget
    /\ \/ late' = late
       \/ reply = NoReply /\ late' = TRUE
    /\ receipts' = "unanswered"
    /\ reply' = NoReply
    /\ UNCHANGED <<policy, number, segments, landing, told, tx, consumed>>

ReceiptAnswered == status = "awaiting_receipt" /\ reply # NoReply

\* The bank expects segments first.
FetchBeforeReceipt == /\ ReceiptAnswered
                      /\ reply.code = "sync"
                      /\ ValidPoint(reply.number)
                      /\ Spend
                      /\ NextSegment(number', reply.number)
                      /\ status' = FetchFrom(number')
                      /\ reply' = NoReply
                      /\ UNCHANGED <<policy, segments, landing, told, receipts, late, tx,
                                     consumed>>

Confirmation(positive) == IF positive THEN "done" ELSE "skipped"
\* Mutant: both confirmations are good for either receipt.
EitherConfirmation(positive) == {"ok", "done", "skipped"}
\* _POSITIVE_RECEIPT_OK_CODES and _NEGATIVE_RECEIPT_OK_CODES.
OkCodes(positive) == {"ok", Confirmation(positive)}

ReceiptConfirmed == /\ ReceiptAnswered
                    /\ reply.code \in OkCodes(Positive)
                    /\ status' = IF landing = "good" THEN "returned" ELSE "raised"
                    /\ reply' = NoReply
                    /\ UNCHANGED <<policy, number, segments, budget, landing, told, receipts,
                                   late, tx, consumed>>

\* ReceiptMismatchError: raised, or added as a note to the failure that is raised.
ReceiptMismatch == /\ ReceiptAnswered
                   /\ reply.code = Confirmation(~Positive)
                   /\ told' = TRUE
                   /\ status' = "raised"
                   /\ reply' = NoReply
                   /\ UNCHANGED <<policy, number, segments, budget, landing, receipts, late,
                                  tx, consumed>>

ReceiptRefused == /\ ReceiptAnswered
                  /\ \/ reply.code \in {"known", "unknown", "none"}
                     \/ /\ reply.code = "sync"
                        /\ ~(ValidPoint(reply.number) /\ budget > 0)
                  /\ status' = Unconfirmed
                  /\ reply' = NoReply
                  /\ UNCHANGED <<policy, number, segments, budget, landing, told, receipts,
                                 late, tx, consumed>>

ClientNext == \/ OpenTransaction \/ OpeningFails
              \/ RequestSegment \/ SegmentExchangeFails
              \/ FollowPoint \/ TakeSegment \/ RejectSegment
              \/ Land
              \/ SendReceipt \/ ReceiptExchangeFails
              \/ FetchBeforeReceipt
              \/ ReceiptConfirmed \/ ReceiptMismatch \/ ReceiptRefused

\* The process ends; a receipt it waits with may still arrive.
ProcessDies == /\ status \in Running
               /\ status' = "died"
               /\ \/ late' = late
                  \/ status = "awaiting_receipt" /\ reply = NoReply /\ late' = TRUE
               /\ reply' = NoReply
               /\ UNCHANGED <<policy, number, segments, budget, landing, told, receipts, tx,
                              consumed>>

-----------------------------------------------------------------------------
\* Bank (external)

\* The segment asked for, as often as it is asked for, or any irregular one.
ServeSegment(r) ==
    \E n \in Segments, data \in Versions :
        /\ n # number => "wrong_segment" \in BankDefects
        /\ data # "data" => "other_data" \in BankDefects
        /\ r = Segment(n, data)

NamePoint(r) == \E point \in 0..NumSegments + 1 :
                    /\ ~ValidPoint(point) => "bad_point" \in BankDefects
                    /\ r = SyncAt(point)

Refuse(r) == r \in {Answer("known"), Answer("unknown"), Answer("none")}

BankAnswersSegment == /\ status = "awaiting_segment"
                      /\ reply = NoReply
                      /\ reply' \in Replies
                      /\ \/ tx = "open" /\ (ServeSegment(reply') \/ NamePoint(reply'))
                         \/ Refuse(reply')
                      /\ UNCHANGED <<callVars, receipts, late, tx, consumed>>

\* A receipt ends the transaction: a positive one consumes the data. The bank
\* confirms it with the code of its polarity or with 000000, or says nothing of use.
EndWithReceipt(r) ==
    /\ tx = "open"
    /\ \/ /\ tx' = "ended"
          /\ consumed' = (consumed \/ Positive)
          /\ r \in {Answer(Confirmation(Positive)), Answer("ok"), Answer("unknown"),
                    Answer("none")}
       \/ /\ "opposite" \in BankDefects
          /\ tx' = "disobeyed"
          /\ consumed' = (consumed \/ ~Positive)
          /\ r = Answer(Confirmation(~Positive))

\* Any other answer leaves the transaction open, or closed as it was: a second
\* receipt is answered 091101.
DeclineReceipt(r) == /\ \/ tx = "open" /\ NamePoint(r)
                        \/ Refuse(r)
                     /\ UNCHANGED <<tx, consumed>>

BankHandlesReceipt(r) == EndWithReceipt(r) \/ DeclineReceipt(r)

BankAnswersReceipt == /\ status = "awaiting_receipt"
                      /\ reply = NoReply
                      /\ reply' \in Replies
                      /\ BankHandlesReceipt(reply')
                      /\ UNCHANGED <<callVars, receipts, late>>

LateReceiptArrives == /\ late
                      /\ \E r \in Replies : BankHandlesReceipt(r)
                      /\ late' \in BOOLEAN
                      /\ UNCHANGED <<callVars, receipts, reply>>

BankEndsTransaction == /\ tx = "open"
                       /\ tx' = "ended"
                       /\ UNCHANGED <<callVars, receipts, reply, late, consumed>>

BankNext == BankAnswersSegment \/ BankAnswersReceipt \/ LateReceiptArrives \/ BankEndsTransaction

-----------------------------------------------------------------------------
Next == ClientNext \/ ProcessDies \/ BankNext

Spec == Init /\ [][Next]_vars

\* As for an upload: the client's thread runs on and Transport has a timeout.
FairSpec == Spec /\ WF_vars(ClientNext)

-----------------------------------------------------------------------------
(***************************************************************************)
(* Properties                                                              *)
(***************************************************************************)

\* The abstract outcome of the call; whoever starts it sees a dead process as failed.
Outcome == CASE status \in Running -> "pending"
             [] status = "returned" -> "returned"
             [] OTHER -> "raised"

\* What the bank consumed because the receipt said so.
ConsumedAsTold == consumed /\ tx # "disobeyed"

Promise == INSTANCE DownloadPromise WITH outcome  <- Outcome,
                                         landed   <- landing = "good",
                                         consumed <- ConsumedAsTold

\* A bank that follows the receipt consumes the data only of a call that has landed it and
\* wants it consumed, and a call with ACKNOWLEDGE returns only if it did, whatever the bank
\* does: DownloadPromise.
KeepsPromise == Promise!Spec

\* Data a call holds never changes under it, although recovery fetches segments again,
\* even after the data was validated.
HeldDataStays == [][\A n \in Segments : segments[n] # "none" => segments'[n] = segments[n]]_vars

\* The caller learns of a bank that consumed data against its negative receipt, unless
\* the answer that says so was lost (ReceiptMismatchError; docs/13, "the bank's answer
\* checked against the receipt sent").
ConsumptionShows ==
    consumed /\ ~Positive /\ status \in {"returned", "raised"} =>
        told \/ receipts = "unanswered"

\* A call with ACKNOWLEDGE that returns has had its data consumed, at any bank that
\* reports truly what it did.
ReturnMeansConsumed == status = "returned" /\ policy = "ACKNOWLEDGE" => consumed

\* Every download ends.
CallEnds == <>(status \notin Running)

-----------------------------------------------------------------------------
(***************************************************************************)
(* Why it holds: the inductive invariant                                   *)
(***************************************************************************)

\* The loop has everything before the segment it is at, the landing and the receipt have
\* everything, the opening has nothing.
SegmentsComplete ==
    /\ status = "opening" => \A n \in Segments : segments[n] = "none"
    /\ status \in {"requesting", "awaiting_segment"} =>
           number \in Segments /\ \A n \in Segments : n < number => segments[n] # "none"
    /\ status \in {"landing", "acknowledging", "awaiting_receipt"} \/ landing # "pending" =>
           \A n \in Segments : segments[n] # "none"

\* An answer with a segment has its data.
AnswersCarryData == status = "awaiting_segment" /\ reply.code = "ok" => reply.data \in Versions

\* A receipt is under way only after the landing, and an answer only while it is read.
ReceiptAfterLanding ==
    /\ status \in {"opening", "landing"} => landing = "pending"
    /\ status \in {"acknowledging", "awaiting_receipt", "returned"} \/ late \/ consumed =>
           landing # "pending"
    /\ reply # NoReply => status \in {"awaiting_segment", "awaiting_receipt"}

\* A positive answer to a receipt is true.
ConfirmationTrue ==
    status = "awaiting_receipt" /\ Positive /\ reply.code \in {"ok", "done"} => ConsumedAsTold

\* The bank consumes data with a receipt, and unless it disobeys with a positive one.
ConsumedByReceipt == /\ consumed => tx \in {"ended", "disobeyed"}
                     /\ ConsumedAsTold => Positive

ReturnTrue == status = "returned" => landing = "good" /\ (Positive => ConsumedAsTold)

\* The reason KeepsPromise and HeldDataStays hold: no receipt, in time or late, is
\* sent before every segment is held and the landing is decided.
DownloadInvariant == /\ TypeOK
                     /\ SegmentsComplete
                     /\ AnswersCarryData
                     /\ ReceiptAfterLanding
                     /\ ConfirmationTrue
                     /\ ConsumedByReceipt
                     /\ ReturnTrue
=============================================================================
