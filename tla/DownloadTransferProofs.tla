----------------------- MODULE DownloadTransferProofs -----------------------
(***************************************************************************)
(* DownloadTransfer keeps its promise for every number of segments, every  *)
(* recovery budget, every set of faults and every irregularity of the bank.*)
(* The proof rests on DownloadInvariant: no receipt, in time or late, is   *)
(* under way before every segment is held and the landing is decided.      *)
(***************************************************************************)
EXTENDS DownloadTransfer, TLAPS

\* The segment a recovery point sends the loop to is in the download or follows it, and
\* nothing before it is missing (_next_download_segment).
LEMMA NextSegmentFacts ==
    ASSUME NEW n, NEW point, TypeOK, ValidPoint(point), NextSegment(n, point)
    PROVE  /\ n \in 1..NumSegments + 1
           /\ \A m \in Segments : m < n => segments[m] # "none"
  <1> USE DownloadAssumption
  <1>1. point \in Nat /\ 1 <= point /\ point <= NumSegments
    BY DEF ValidPoint, Segments
  <1>2. n \in 1..NumSegments + 1
    BY <1>1 DEF NextSegment, Missing, Segments
  <1>3. ASSUME NEW m \in Segments, m < n PROVE segments[m] # "none"
    <2> SUFFICES ASSUME segments[m] = "none" PROVE FALSE
      OBVIOUS
    <2>1. n <= m
      BY DEF NextSegment, Missing
    <2> QED
      BY <1>2, <1>3, <2>1 DEF Segments
  <1> QED
    BY <1>2, <1>3

\* FetchFrom enters a state whose needs the held segments meet.
LEMMA FetchFromFacts ==
    ASSUME NEW n \in 1..NumSegments + 1
    PROVE  \/ FetchFrom(n) = "requesting" /\ n \in Segments
           \/ n = NumSegments + 1 /\ FetchFrom(n) = "landing" /\ landing = "pending"
           \/ n = NumSegments + 1 /\ FetchFrom(n) = "acknowledging" /\ landing # "pending"
  BY DownloadAssumption DEF FetchFrom, Segments

\* The client holds nothing, and nothing was sent, before the transaction opens.
LEMMA InitInvariant == Init => DownloadInvariant
  <1> SUFFICES ASSUME Init PROVE DownloadInvariant
    OBVIOUS
  <1>1. TypeOK
    <2>1. /\ number \in 1..NumSegments + 1
          /\ budget \in 0..RecoveryAttempts
          /\ segments \in [Segments -> Versions \cup {"none"}]
      BY DownloadAssumption DEF Init
    <2>2. status \in Statuses /\ reply \in Replies \cup {NoReply}
      BY DEF Init, Statuses, Running
    <2> QED
      BY <2>1, <2>2 DEF Init, TypeOK
  <1>2. SegmentsComplete /\ ReceiptAfterLanding
    BY DEF Init, SegmentsComplete, ReceiptAfterLanding
  <1>3. ConfirmationTrue /\ ConsumedByReceipt /\ ReturnTrue /\ AnswersCarryData
    BY DEF Init, ConfirmationTrue, ConsumedAsTold, ConsumedByReceipt, ReturnTrue,
           AnswersCarryData
  <1> QED
    BY <1>1, <1>2, <1>3 DEF DownloadInvariant

-----------------------------------------------------------------------------
\* Steps of the client

\* The initialisation either brings the first segment or ends the call.
LEMMA OpeningInvariant ==
    ASSUME DownloadInvariant, OpenTransaction \/ OpeningFails
    PROVE  DownloadInvariant'
  <1>1. /\ status = "opening" /\ landing = "pending" /\ reply = NoReply
        /\ late = FALSE /\ consumed = FALSE
    BY DEF DownloadInvariant, ReceiptAfterLanding, TypeOK, OpenTransaction, OpeningFails
  <1>2. CASE OpenTransaction
    <2>1. /\ segments' = [segments EXCEPT ![1] = "data"]
          /\ number' = 2
          /\ status' = FetchFrom(2)
          /\ tx' = "open"
          /\ UNCHANGED <<policy, budget, landing, told, receipts, reply, late, consumed>>
      BY <1>2 DEF OpenTransaction
    <2>2. 1 \in Segments /\ 2 \in 1..NumSegments + 1
      BY DownloadAssumption DEF Segments
    <2>3. \/ status' = "requesting" /\ number' \in Segments
          \/ number' = NumSegments + 1 /\ status' = "landing"
      BY <1>1, <2>1, <2>2, FetchFromFacts
    <2>4. segments' \in [Segments -> Versions \cup {"none"}]
      BY <2>1, <2>2 DEF DownloadInvariant, TypeOK, Versions
    <2>5. TypeOK'
      BY <2>1, <2>2, <2>3, <2>4 DEF DownloadInvariant, TypeOK, Statuses, Running
    <2>6. \A n \in Segments : n < number' => segments'[n] # "none"
      <3> SUFFICES ASSUME NEW n \in Segments, n < 2 PROVE segments'[n] # "none"
        BY <2>1
      <3>1. n = 1
        BY DownloadAssumption DEF Segments
      <3> QED
        BY <2>1, <2>2, <3>1 DEF DownloadInvariant, TypeOK
    <2>7. SegmentsComplete'
      <3>1. status' = "landing" => \A n \in Segments : segments'[n] # "none"
        BY <2>3, <2>6, DownloadAssumption DEF Segments
      <3> QED
        BY <1>1, <2>1, <2>3, <2>6, <3>1 DEF SegmentsComplete
    <2>8. ReceiptAfterLanding'
      BY <1>1, <2>1, <2>3 DEF ReceiptAfterLanding
    <2>9. ConfirmationTrue' /\ ConsumedByReceipt' /\ ReturnTrue' /\ AnswersCarryData'
      BY <1>1, <2>1, <2>3 DEF ConfirmationTrue, ConsumedAsTold, ConsumedByReceipt,
                  ReturnTrue, AnswersCarryData
    <2> QED
      BY <2>5, <2>7, <2>8, <2>9 DEF DownloadInvariant
  <1>3. CASE OpeningFails
    <2>1. /\ status' = "raised"
          /\ tx' \in {"none", "open"}
          /\ UNCHANGED <<policy, number, segments, budget, landing, told, receipts,
                         reply, late, consumed>>
      BY <1>3 DEF OpeningFails
    <2> QED
      BY <1>1, <2>1 DEF DownloadInvariant, TypeOK, Statuses, SegmentsComplete,
                  ReceiptAfterLanding, ConfirmationTrue, ConsumedAsTold, ConsumedByReceipt,
                  ReturnTrue, AnswersCarryData
  <1> QED
    BY <1>2, <1>3

\* The loop goes on with a segment nothing is missing before, with the landing where it
\* was and no answer to read.
LEMMA FetchOnInvariant ==
    ASSUME DownloadInvariant,
           status \in {"awaiting_segment", "awaiting_receipt"},
           reply' = NoReply,
           number' \in 1..NumSegments + 1,
           status' = FetchFrom(number'),
           segments' \in [Segments -> Versions \cup {"none"}],
           \A n \in Segments : n < number' => segments'[n] # "none",
           landing # "pending" => \A n \in Segments : segments'[n] # "none",
           budget' \in 0..RecoveryAttempts,
           UNCHANGED <<policy, landing, told, receipts, late, tx, consumed>>
    PROVE  DownloadInvariant'
  <1>1. \/ status' = "requesting" /\ number' \in Segments
        \/ number' = NumSegments + 1 /\ status' = "landing" /\ landing = "pending"
        \/ number' = NumSegments + 1 /\ status' = "acknowledging" /\ landing # "pending"
    BY FetchFromFacts
  <1>2. TypeOK'
    BY <1>1 DEF DownloadInvariant, TypeOK, Statuses, Running
  <1>3. status' # "requesting" => \A n \in Segments : segments'[n] # "none"
    BY <1>1, DownloadAssumption DEF Segments
  <1>4. SegmentsComplete'
    BY <1>1, <1>3 DEF SegmentsComplete
  <1>5. ReceiptAfterLanding'
    BY <1>1 DEF DownloadInvariant, ReceiptAfterLanding
  <1>6. ConfirmationTrue' /\ ConsumedByReceipt' /\ ReturnTrue' /\ AnswersCarryData'
    BY <1>1 DEF DownloadInvariant, ConfirmationTrue, ConsumedAsTold, ConsumedByReceipt,
                ReturnTrue, Positive, AnswersCarryData
  <1> QED
    BY <1>2, <1>4, <1>5, <1>6 DEF DownloadInvariant

\* The call ends or repeats a request, with all it holds as it was.
LEMMA MoveInvariant ==
    ASSUME DownloadInvariant,
           \/ status \in {"requesting", "awaiting_segment"} /\ UNCHANGED late
                /\ status' \in {"requesting", "awaiting_segment", FetchFailed}
           \/ status \in {"acknowledging", "awaiting_receipt"} /\ late' \in BOOLEAN
                /\ status' \in {"acknowledging", "awaiting_receipt", Unconfirmed},
           reply' = NoReply,
           budget' \in 0..RecoveryAttempts,
           receipts' \in {"none", "sent", "unanswered"},
           UNCHANGED <<policy, number, segments, landing, told, tx, consumed>>
    PROVE  DownloadInvariant'
  <1>1. /\ status' \in {"requesting", "awaiting_segment", "acknowledging",
                        "awaiting_receipt", "raised", "returned"}
        /\ status' = "returned" => landing = "good" /\ ~Positive
    <2>1. landing \in {"pending", "good", "bad"} /\ policy \in {"ACKNOWLEDGE", "KEEP"}
      BY DEF DownloadInvariant, TypeOK
    <2>2. status \in {"acknowledging", "awaiting_receipt"} => landing # "pending"
      BY DEF DownloadInvariant, ReceiptAfterLanding
    <2>3. landing # "pending" /\ Unconfirmed = "returned" => landing = "good" /\ ~Positive
      BY <2>1 DEF Unconfirmed
    <2> QED
      BY <2>1, <2>2, <2>3 DEF FetchFailed, Unconfirmed
  <1>2. TypeOK'
    BY <1>1 DEF DownloadInvariant, TypeOK, Statuses, Running
  <1>3. /\ status' \in {"requesting", "awaiting_segment"} =>
              status \in {"requesting", "awaiting_segment"}
        /\ status' \in {"acknowledging", "awaiting_receipt"} =>
              status \in {"acknowledging", "awaiting_receipt"}
    BY <1>1 DEF FetchFailed, Unconfirmed
  <1>4. SegmentsComplete'
    BY <1>1, <1>3 DEF DownloadInvariant, SegmentsComplete
  <1>5. ReceiptAfterLanding'
    BY <1>1, <1>3 DEF DownloadInvariant, ReceiptAfterLanding
  <1>6. ConfirmationTrue' /\ ConsumedByReceipt' /\ ReturnTrue' /\ AnswersCarryData'
    BY <1>1 DEF DownloadInvariant, ConfirmationTrue, ConsumedAsTold, ConsumedByReceipt,
                ReturnTrue, AnswersCarryData, Positive, NoReply
  <1> QED
    BY <1>2, <1>4, <1>5, <1>6 DEF DownloadInvariant

\* A repetition is granted only while the budget lasts.
LEMMA SpendFacts ==
    ASSUME TypeOK, Spend
    PROVE  budget' \in 0..RecoveryAttempts
  BY DownloadAssumption DEF TypeOK, Spend

\* Requesting a segment and reading the answer (_fetch_segments).
LEMMA FetchInvariant ==
    ASSUME DownloadInvariant,
           \/ RequestSegment \/ SegmentExchangeFails
           \/ FollowPoint \/ TakeSegment \/ RejectSegment
    PROVE  DownloadInvariant'
  <1>1. CASE RequestSegment
    BY <1>1, MoveInvariant DEF RequestSegment, DownloadInvariant, TypeOK
  <1>2. CASE SegmentExchangeFails
    <2>1. budget' \in 0..RecoveryAttempts
      BY <1>2, SpendFacts DEF SegmentExchangeFails, DownloadInvariant, TypeOK
    <2> QED
      BY <1>2, <2>1, MoveInvariant DEF SegmentExchangeFails, DownloadInvariant, TypeOK
  <1>3. CASE FollowPoint
    <2>1. /\ number' \in 1..NumSegments + 1
          /\ \A n \in Segments : n < number' => segments[n] # "none"
      BY <1>3, NextSegmentFacts DEF FollowPoint, DownloadInvariant
    <2>2. budget' \in 0..RecoveryAttempts
      BY <1>3, SpendFacts DEF FollowPoint, DownloadInvariant
    <2> QED
      BY <1>3, <2>1, <2>2, FetchOnInvariant
         DEF FollowPoint, SegmentAnswered, DownloadInvariant, TypeOK, SegmentsComplete
  <1>4. CASE TakeSegment
    <2>1. /\ number \in Segments
          /\ \A n \in Segments : n < number => segments[n] # "none"
          /\ segments \in [Segments -> Versions \cup {"none"}]
          /\ landing # "pending" => \A n \in Segments : segments[n] # "none"
      BY <1>4 DEF TakeSegment, SegmentAnswered, DownloadInvariant, SegmentsComplete, TypeOK
    <2>2. /\ segments' = [segments EXCEPT ![number] = reply.data]
          /\ number' = number + 1
      BY <1>4 DEF TakeSegment
    <2>3. reply.data \in Versions
      BY <1>4 DEF TakeSegment, SegmentAnswered, UsableSegment, DownloadInvariant,
                  AnswersCarryData
    <2>4. segments' \in [Segments -> Versions \cup {"none"}]
      BY <2>1, <2>2, <2>3
    <2>5. \A n \in Segments : n < number' => segments'[n] # "none"
      <3> SUFFICES ASSUME NEW n \in Segments, n < number + 1 PROVE segments'[n] # "none"
        BY <2>2
      <3>1. n < number \/ n = number
        BY <2>1, DownloadAssumption DEF Segments
      <3> QED
        BY <2>1, <2>2, <2>3, <3>1 DEF Versions
    <2>6. landing # "pending" => \A n \in Segments : segments'[n] # "none"
      BY <2>1, <2>2, <2>3 DEF Versions
    <2>7. number' \in 1..NumSegments + 1
      BY <2>1, <2>2, DownloadAssumption DEF Segments
    <2> QED
      BY <1>4, <2>2, <2>4, <2>5, <2>6, <2>7, FetchOnInvariant
         DEF TakeSegment, SegmentAnswered, DownloadInvariant, TypeOK
  <1>5. CASE RejectSegment
    BY <1>5, MoveInvariant DEF RejectSegment, SegmentAnswered, DownloadInvariant, TypeOK
  <1> QED
    BY <1>1, <1>2, <1>3, <1>4, <1>5

\* The landing is decided once, with every segment held and no receipt sent.
LEMMA LandInvariant ==
    ASSUME DownloadInvariant, Land
    PROVE  DownloadInvariant'
  <1>1. /\ status = "landing" /\ status' = "acknowledging"
        /\ landing = "pending" /\ landing' \in {"good", "bad"}
        /\ UNCHANGED <<policy, number, segments, budget, told, receipts, reply, late, tx,
                       consumed>>
    BY DEF Land, DownloadInvariant, ReceiptAfterLanding
  <1>2. ~consumed /\ ~late
    BY <1>1 DEF DownloadInvariant, ReceiptAfterLanding
  <1>3. TypeOK' /\ AnswersCarryData'
    BY <1>1 DEF DownloadInvariant, TypeOK, Statuses, Running, AnswersCarryData
  <1>4. SegmentsComplete' /\ ReceiptAfterLanding'
    BY <1>1 DEF DownloadInvariant, SegmentsComplete, ReceiptAfterLanding
  <1>5. ConfirmationTrue' /\ ConsumedByReceipt' /\ ReturnTrue'
    BY <1>1, <1>2 DEF ConfirmationTrue, ConsumedAsTold, ConsumedByReceipt, ReturnTrue
  <1> QED
    BY <1>3, <1>4, <1>5 DEF DownloadInvariant

\* A receipt whose answer settles the call: it was confirmed, or answered with the code
\* of the other polarity.
LEMMA SettledInvariant ==
    ASSUME DownloadInvariant, ReceiptConfirmed \/ ReceiptMismatch
    PROVE  DownloadInvariant'
  <1>1. /\ status = "awaiting_receipt"
        /\ landing \in {"good", "bad"} /\ policy \in {"ACKNOWLEDGE", "KEEP"}
        /\ status' \in {"returned", "raised"}
        /\ status' = "returned" => landing = "good" /\ reply.code \in OkCodes(Positive)
        /\ reply' = NoReply
        /\ told' \in BOOLEAN
        /\ UNCHANGED <<policy, number, segments, budget, landing, receipts, late, tx,
                       consumed>>
    BY DEF ReceiptConfirmed, ReceiptMismatch, ReceiptAnswered, DownloadInvariant,
           ReceiptAfterLanding, TypeOK
  <1>2. status' = "returned" /\ Positive => ConsumedAsTold
    BY <1>1 DEF OkCodes, Confirmation, DownloadInvariant, ConfirmationTrue, ConsumedAsTold
  <1>3. TypeOK'
    BY <1>1 DEF DownloadInvariant, TypeOK, Statuses
  <1>4. SegmentsComplete' /\ ReceiptAfterLanding' /\ AnswersCarryData'
    BY <1>1 DEF DownloadInvariant, SegmentsComplete, ReceiptAfterLanding, AnswersCarryData
  <1>5. ConfirmationTrue' /\ ConsumedByReceipt'
    BY <1>1 DEF DownloadInvariant, ConfirmationTrue, ConsumedAsTold, ConsumedByReceipt,
                Positive
  <1>6. ReturnTrue'
    BY <1>1, <1>2 DEF ReturnTrue, ConsumedAsTold, Positive
  <1> QED
    BY <1>3, <1>4, <1>5, <1>6 DEF DownloadInvariant

\* Sending the receipt and reading the answer (_acknowledge, _send_receipt).
LEMMA ReceiptInvariant ==
    ASSUME DownloadInvariant,
           \/ SendReceipt \/ ReceiptExchangeFails \/ FetchBeforeReceipt
           \/ ReceiptConfirmed \/ ReceiptMismatch \/ ReceiptRefused
    PROVE  DownloadInvariant'
  <1>1. CASE SendReceipt
    BY <1>1, MoveInvariant DEF SendReceipt, DownloadInvariant, TypeOK
  <1>2. CASE ReceiptExchangeFails
    <2>1. budget' \in 0..RecoveryAttempts
      BY <1>2, SpendFacts DEF ReceiptExchangeFails, DownloadInvariant, TypeOK
    <2>2. late' \in BOOLEAN
      BY <1>2 DEF ReceiptExchangeFails, DownloadInvariant, TypeOK
    <2> QED
      BY <1>2, <2>1, <2>2, MoveInvariant DEF ReceiptExchangeFails
  <1>3. CASE FetchBeforeReceipt
    <2>1. /\ number' \in 1..NumSegments + 1
          /\ \A n \in Segments : n < number' => segments[n] # "none"
      BY <1>3, NextSegmentFacts DEF FetchBeforeReceipt, DownloadInvariant
    <2>2. budget' \in 0..RecoveryAttempts
      BY <1>3, SpendFacts DEF FetchBeforeReceipt, DownloadInvariant
    <2> QED
      BY <1>3, <2>1, <2>2, FetchOnInvariant
         DEF FetchBeforeReceipt, ReceiptAnswered, DownloadInvariant, TypeOK, SegmentsComplete
  <1>4. CASE ReceiptConfirmed \/ ReceiptMismatch
    BY <1>4, SettledInvariant
  <1>5. CASE ReceiptRefused
    BY <1>5, MoveInvariant DEF ReceiptRefused, ReceiptAnswered, DownloadInvariant, TypeOK
  <1> QED
    BY <1>1, <1>2, <1>3, <1>4, <1>5

\* A process that dies between two steps leaves no more than a receipt on its way.
LEMMA DiesInvariant ==
    ASSUME DownloadInvariant, ProcessDies
    PROVE  DownloadInvariant'
  <1>1. /\ status' = "died" /\ reply' = NoReply
        /\ late' \in BOOLEAN
        /\ late' => late \/ status = "awaiting_receipt"
        /\ UNCHANGED <<policy, number, segments, budget, landing, told, receipts, tx,
                       consumed>>
    <2>1. CASE late' = late
      BY <2>1 DEF ProcessDies, DownloadInvariant, TypeOK
    <2>2. CASE status = "awaiting_receipt" /\ late' = TRUE
      BY <2>2 DEF ProcessDies
    <2> QED
      BY <2>1, <2>2 DEF ProcessDies
  <1>2. TypeOK'
    BY <1>1 DEF DownloadInvariant, TypeOK, Statuses
  <1>3. SegmentsComplete' /\ ReceiptAfterLanding' /\ AnswersCarryData'
    BY <1>1 DEF DownloadInvariant, SegmentsComplete, ReceiptAfterLanding, AnswersCarryData
  <1>4. ConfirmationTrue' /\ ConsumedByReceipt' /\ ReturnTrue'
    BY <1>1 DEF DownloadInvariant, ConfirmationTrue, ConsumedAsTold, ConsumedByReceipt,
                ReturnTrue, Positive
  <1> QED
    BY <1>2, <1>3, <1>4 DEF DownloadInvariant

-----------------------------------------------------------------------------
\* Steps of the bank

\* A receipt, in time or late: the bank consumes the data only for a positive one, unless
\* it disobeys, and what it confirms is true.
LEMMA BankReceiptFacts ==
    ASSUME TypeOK, ConsumedByReceipt, NEW r \in Replies, BankHandlesReceipt(r)
    PROVE  /\ tx' \in {"none", "open", "ended", "disobeyed"}
           /\ consumed' \in BOOLEAN
           /\ consumed => consumed'
           /\ consumed' => tx' \in {"ended", "disobeyed"}
           /\ ConsumedAsTold => ConsumedAsTold'
           /\ ConsumedAsTold' => Positive
           /\ Positive /\ r.code \in {"ok", "done"} => ConsumedAsTold'
  <1>1. CASE EndWithReceipt(r)
    <2>1. consumed \in BOOLEAN /\ Positive \in BOOLEAN
      BY DEF TypeOK, Positive
    <2>2. ~consumed
      BY <1>1, <2>1 DEF EndWithReceipt, ConsumedByReceipt, ConsumedAsTold
    <2>3. CASE tx' = "ended" /\ consumed' = (consumed \/ Positive)
      BY <2>1, <2>2, <2>3 DEF ConsumedAsTold
    <2>4. CASE /\ tx' = "disobeyed"
               /\ consumed' = (consumed \/ ~Positive)
               /\ r = Answer(Confirmation(~Positive))
      BY <2>1, <2>2, <2>4 DEF ConsumedAsTold, Answer, Confirmation
    <2> QED
      BY <1>1, <2>3, <2>4 DEF EndWithReceipt
  <1>2. CASE DeclineReceipt(r)
    <2>1. r.code \notin {"ok", "done"} /\ UNCHANGED <<tx, consumed>>
      BY <1>2 DEF DeclineReceipt, NamePoint, Refuse, Answer, SyncAt
    <2> QED
      BY <2>1 DEF TypeOK, ConsumedByReceipt, ConsumedAsTold
  <1> QED
    BY <1>1, <1>2 DEF BankHandlesReceipt

\* Every step of the bank preserves the invariant.
LEMMA BankInvariant ==
    ASSUME DownloadInvariant, BankNext
    PROVE  DownloadInvariant'
  <1> USE DEF DownloadInvariant, callVars
  <1>1. CASE BankAnswersSegment
    <2>1. /\ status = "awaiting_segment" /\ reply' \in Replies
          /\ UNCHANGED <<callVars, receipts, late, tx, consumed>>
          /\ ServeSegment(reply') \/ NamePoint(reply') \/ Refuse(reply')
      BY <1>1 DEF BankAnswersSegment
    <2>2. AnswersCarryData'
      BY <2>1 DEF AnswersCarryData, ServeSegment, NamePoint, Refuse, Segment, SyncAt, Answer
    <2> QED
      BY <2>1, <2>2 DEF TypeOK, SegmentsComplete, ReceiptAfterLanding, ConfirmationTrue,
                  ConsumedAsTold, ConsumedByReceipt, ReturnTrue, Positive
  <1>2. CASE BankAnswersReceipt
    <2>1. /\ status = "awaiting_receipt" /\ reply' \in Replies
          /\ BankHandlesReceipt(reply')
          /\ UNCHANGED <<callVars, receipts, late>>
      BY <1>2 DEF BankAnswersReceipt
    <2>2. /\ tx' \in {"none", "open", "ended", "disobeyed"}
          /\ consumed' \in BOOLEAN
          /\ consumed' => tx' \in {"ended", "disobeyed"}
          /\ ConsumedAsTold' => Positive
          /\ Positive /\ reply'.code \in {"ok", "done"} => ConsumedAsTold'
      BY <2>1, BankReceiptFacts
    <2> QED
      BY <2>1, <2>2 DEF TypeOK, SegmentsComplete, AnswersCarryData, ReceiptAfterLanding,
                  ConfirmationTrue, ConsumedAsTold, ConsumedByReceipt, ReturnTrue, Positive
  <1>3. CASE LateReceiptArrives
    <2>1. late /\ late' \in BOOLEAN /\ UNCHANGED <<callVars, receipts, reply>>
      BY <1>3 DEF LateReceiptArrives
    <2>2. PICK r \in Replies : BankHandlesReceipt(r)
      BY <1>3 DEF LateReceiptArrives
    <2>3. /\ tx' \in {"none", "open", "ended", "disobeyed"}
          /\ consumed' \in BOOLEAN
          /\ consumed => consumed'
          /\ consumed' => tx' \in {"ended", "disobeyed"}
          /\ ConsumedAsTold => ConsumedAsTold'
          /\ ConsumedAsTold' => Positive
      BY <2>2, BankReceiptFacts
    <2> QED
      BY <2>1, <2>3 DEF TypeOK, SegmentsComplete, AnswersCarryData, ReceiptAfterLanding,
                  ConfirmationTrue, ConsumedAsTold, ConsumedByReceipt, ReturnTrue, Positive
  <1>4. CASE BankEndsTransaction
    BY <1>4 DEF BankEndsTransaction, TypeOK, SegmentsComplete, AnswersCarryData,
                ReceiptAfterLanding, ConfirmationTrue, ConsumedAsTold, ConsumedByReceipt,
                ReturnTrue, Positive
  <1> QED
    BY <1>1, <1>2, <1>3, <1>4 DEF BankNext

\* DownloadInvariant is inductive.
LEMMA NextInvariant ==
    ASSUME DownloadInvariant, [Next]_vars
    PROVE  DownloadInvariant'
  <1>1. CASE UNCHANGED vars
    BY <1>1 DEF vars, callVars, DownloadInvariant, TypeOK, SegmentsComplete,
                AnswersCarryData, ReceiptAfterLanding, ConfirmationTrue, ConsumedAsTold,
                ConsumedByReceipt, ReturnTrue, Positive
  <1> QED
    BY <1>1, OpeningInvariant, FetchInvariant, LandInvariant, ReceiptInvariant,
       DiesInvariant, BankInvariant
       DEF Next, ClientNext

-----------------------------------------------------------------------------
(***************************************************************************)
(* What a disobedient bank still owes the caller                           *)
(***************************************************************************)

\* Data consumed against the receipt has been told, is about to be, or the answer that
\* says so was lost; and a receipt that comes late is one whose answer was.
ConsumptionAccounted ==
    /\ consumed /\ ~Positive => \/ told
                                \/ receipts = "unanswered"
                                \/ status = "died"
                                \/ status = "awaiting_receipt" /\ reply.code = "done"
    /\ late => receipts = "unanswered" \/ status = "died"

\* A step of the client that leaves the landing alone and reads no answer to a receipt
\* keeps the account (_fetch_segments, _send_receipt).
LEMMA QuietStepAccounted ==
    ASSUME ConsumptionAccounted,
           ~(status = "awaiting_receipt" /\ reply.code = "done"),
           status # "died",
           told => told',
           receipts = "unanswered" => receipts' = "unanswered",
           UNCHANGED <<policy, landing, late, consumed>>
    PROVE  ConsumptionAccounted'
  BY DEF ConsumptionAccounted, Positive

\* Every step of the client's thread and its death keep the account: an answer that
\* contradicts the receipt is raised or noted (_acknowledge).
LEMMA ClientAccounted ==
    ASSUME DownloadInvariant, ConsumptionAccounted, ClientNext \/ ProcessDies
    PROVE  ConsumptionAccounted'
  <1>1. CASE Land \/ OpenTransaction \/ OpeningFails
    <2>1. ~consumed /\ ~late /\ consumed' = consumed /\ late' = late
      BY <1>1 DEF Land, OpenTransaction, OpeningFails, DownloadInvariant, ReceiptAfterLanding
    <2> QED
      BY <2>1 DEF ConsumptionAccounted
  <1>2. CASE \/ RequestSegment \/ SegmentExchangeFails \/ FollowPoint \/ TakeSegment
             \/ RejectSegment \/ SendReceipt
    BY <1>2, QuietStepAccounted
       DEF RequestSegment, SegmentExchangeFails, FollowPoint, TakeSegment, RejectSegment,
           SegmentAnswered, SendReceipt
  <1>3. CASE FetchBeforeReceipt \/ ReceiptRefused
    BY <1>3, QuietStepAccounted DEF FetchBeforeReceipt, ReceiptRefused, ReceiptAnswered
  <1>4. CASE ReceiptExchangeFails
    BY <1>4 DEF ReceiptExchangeFails, ConsumptionAccounted
  <1>5. CASE ReceiptConfirmed
    <2>1. reply.code = "done" => Positive
      BY <1>5 DEF ReceiptConfirmed, OkCodes, Confirmation
    <2> QED
      BY <1>5, <2>1 DEF ReceiptConfirmed, ReceiptAnswered, ConsumptionAccounted, Positive
  <1>6. CASE ReceiptMismatch
    BY <1>6 DEF ReceiptMismatch, ReceiptAnswered, ConsumptionAccounted
  <1>7. CASE ProcessDies
    BY <1>7 DEF ProcessDies, ConsumptionAccounted
  <1> QED
    BY <1>1, <1>2, <1>3, <1>4, <1>5, <1>6, <1>7 DEF ClientNext

\* A receipt the bank handles consumes against its polarity only with an answer that says
\* so.
LEMMA OppositeIsConfessed ==
    ASSUME DownloadInvariant, NEW r \in Replies, BankHandlesReceipt(r),
           ~consumed, consumed', ~Positive
    PROVE  r.code = "done"
  <1>1. consumed = FALSE /\ Positive = FALSE
    BY DEF DownloadInvariant, TypeOK, Positive
  <1>2. CASE EndWithReceipt(r)
    <2>1. CASE consumed' = (consumed \/ Positive)
      BY <1>1, <2>1
    <2>2. CASE r = Answer(Confirmation(~Positive))
      BY <1>1, <2>2 DEF Answer, Confirmation
    <2> QED
      BY <1>2, <2>1, <2>2 DEF EndWithReceipt
  <1>3. CASE DeclineReceipt(r)
    BY <1>3 DEF DeclineReceipt
  <1> QED
    BY <1>2, <1>3 DEF BankHandlesReceipt

\* Every step of the bank keeps the account.
LEMMA BankAccounted ==
    ASSUME DownloadInvariant, ConsumptionAccounted, BankNext
    PROVE  ConsumptionAccounted'
  <1>1. CASE BankAnswersReceipt
    <2>1. /\ status = "awaiting_receipt" /\ reply = NoReply
          /\ reply' \in Replies /\ BankHandlesReceipt(reply')
          /\ UNCHANGED <<callVars, receipts, late>>
      BY <1>1 DEF BankAnswersReceipt
    <2>2. ~consumed /\ consumed' /\ ~Positive => reply'.code = "done"
      BY <2>1, OppositeIsConfessed
    <2>3. reply.code # "done"
      BY <2>1 DEF NoReply
    <2> QED
      BY <2>1, <2>2, <2>3 DEF ConsumptionAccounted, callVars, Positive
  <1>2. CASE LateReceiptArrives
    BY <1>2 DEF LateReceiptArrives, ConsumptionAccounted, callVars, Positive
  <1>3. CASE BankAnswersSegment
    BY <1>3 DEF BankAnswersSegment, ConsumptionAccounted, callVars, Positive
  <1>4. CASE BankEndsTransaction
    BY <1>4 DEF BankEndsTransaction, ConsumptionAccounted, callVars, Positive
  <1> QED
    BY <1>1, <1>2, <1>3, <1>4 DEF BankNext

-----------------------------------------------------------------------------
(***************************************************************************)
(* Theorems                                                                *)
(***************************************************************************)

\* The download invariant holds throughout, for every fault of the network, every death
\* of the process and every irregularity of the bank (_run_download_transaction).
THEOREM DownloadInvariantHolds == Spec => []DownloadInvariant
  <1>1. DownloadInvariant /\ [Next]_vars => DownloadInvariant'
    BY NextInvariant
  <1> QED
    BY InitInvariant, <1>1, PTL DEF Spec

\* A call with ReceiptPolicy.ACKNOWLEDGE that returns has had its data consumed
\* (_acknowledge raises whatever keeps it from confirming a positive receipt).
THEOREM ReturnIsConsumed == Spec => []ReturnMeansConsumed
  <1>1. DownloadInvariant => ReturnMeansConsumed
    BY DEF DownloadInvariant, ReturnTrue, ConsumedAsTold, ReturnMeansConsumed, Positive
  <1> QED
    BY DownloadInvariantHolds, <1>1, PTL

\* The caller learns of a bank that consumed data against a negative receipt, unless the
\* answer that says so was lost (ReceiptMismatchError).
THEOREM ConsumptionIsShown == Spec => []ConsumptionShows
  <1>1. Init => ConsumptionAccounted
    BY DEF Init, ConsumptionAccounted
  <1>2. DownloadInvariant /\ ConsumptionAccounted /\ [Next]_vars => ConsumptionAccounted'
    <2>1. CASE UNCHANGED vars
      BY <2>1 DEF vars, callVars, ConsumptionAccounted, Positive
    <2> QED
      BY <2>1, ClientAccounted, BankAccounted DEF Next
  <1>3. ConsumptionAccounted => ConsumptionShows
    BY DEF ConsumptionAccounted, ConsumptionShows
  <1> QED
    BY DownloadInvariantHolds, <1>1, <1>2, <1>3, PTL DEF Spec

\* Data that was fetched, and perhaps validated, is never replaced by other data, however
\* often recovery fetches it again (_fetch_segments).
THEOREM HeldDataIsStable == Spec => HeldDataStays
  <1>1. ASSUME DownloadInvariant, [Next]_vars,
               NEW n \in Segments, segments[n] # "none"
        PROVE  segments'[n] = segments[n]
    <2>1. CASE OpenTransaction
      BY <1>1, <2>1 DEF OpenTransaction, DownloadInvariant, SegmentsComplete
    <2>2. CASE TakeSegment
      <3>1. segments' = [segments EXCEPT ![number] = reply.data]
        BY <2>2 DEF TakeSegment
      <3>2. segments[number] \in {"none", reply.data}
        BY <2>2 DEF TakeSegment, UsableSegment
      <3> QED
        BY <1>1, <3>1, <3>2 DEF DownloadInvariant, TypeOK
    <2>3. CASE UNCHANGED segments
      BY <2>3
    <2> QED
      BY <1>1, <2>1, <2>2, <2>3
         DEF Next, ClientNext, BankNext, vars, callVars, OpeningFails, RequestSegment,
             SegmentExchangeFails, FollowPoint, RejectSegment, Land, SendReceipt,
             ReceiptExchangeFails, FetchBeforeReceipt, ReceiptConfirmed, ReceiptMismatch,
             ReceiptRefused, ProcessDies, BankAnswersSegment, BankAnswersReceipt,
             LateReceiptArrives, BankEndsTransaction
  <1>2. DownloadInvariant /\ [Next]_vars =>
            [\A n \in Segments : segments[n] # "none" => segments'[n] = segments[n]]_vars
    BY <1>1
  <1> QED
    BY DownloadInvariantHolds, <1>2, PTL DEF Spec, HeldDataStays

\* The download implements DownloadPromise: a bank that follows the receipts consumes only
\* data that landed in a call with ACKNOWLEDGE, and such a call returns only if it did.
THEOREM ImplementsPromise == Spec => KeepsPromise
  <1>1. Init => Promise!Init
    BY DEF Init, Promise!Init, Outcome, ConsumedAsTold, Running
  <1>2. DownloadInvariant /\ DownloadInvariant' /\ [Next]_vars
            => [Promise!Next]_(Promise!vars)
    <2> SUFFICES ASSUME DownloadInvariant, DownloadInvariant', [Next]_vars
                 PROVE  \/ Promise!Next
                        \/ UNCHANGED <<policy, Outcome, landing = "good", ConsumedAsTold>>
      BY DEF Promise!vars
    <2>1. /\ status \in Statuses /\ status' \in Statuses
          /\ status' = "returned" =>
                 landing' = "good" /\ (policy' = "ACKNOWLEDGE" => ConsumedAsTold')
          /\ ConsumedAsTold' => landing' = "good" /\ policy' = "ACKNOWLEDGE"
          /\ ConsumedAsTold \in BOOLEAN /\ ConsumedAsTold' \in BOOLEAN
      BY DEF DownloadInvariant, TypeOK, ReturnTrue, ConsumedByReceipt, ConsumedAsTold,
             Positive
    <2>2. CASE Land
      <3>1. /\ status = "landing" /\ status' = "acknowledging" /\ landing = "pending"
            /\ UNCHANGED <<policy, ConsumedAsTold>>
        BY <2>2 DEF Land, DownloadInvariant, ReceiptAfterLanding, ConsumedAsTold
      <3> QED
        BY <3>1 DEF Promise!Next, Promise!Land, Outcome, Running
    <2>3. CASE (ClientNext /\ ~Land) \/ ProcessDies
      <3>1. status \in Running /\ UNCHANGED <<policy, landing, ConsumedAsTold>>
        BY <2>3 DEF DownloadInvariant, ReceiptAfterLanding, ConsumedAsTold, ClientNext,
                    OpenTransaction, OpeningFails, RequestSegment, SegmentExchangeFails,
                    SegmentAnswered, FollowPoint, TakeSegment, RejectSegment, SendReceipt,
                    ReceiptExchangeFails, ReceiptAnswered, FetchBeforeReceipt,
                    ReceiptConfirmed, ReceiptMismatch, ReceiptRefused, ProcessDies, Running
      <3> QED
        BY <2>1, <3>1 DEF Promise!Next, Promise!Return, Promise!Raise, Outcome, Statuses,
                          Running
    <2>4. CASE BankNext
      <3>1. UNCHANGED <<policy, status, landing>>
        BY <2>4 DEF BankNext, BankAnswersSegment, BankAnswersReceipt, LateReceiptArrives,
                    BankEndsTransaction, callVars
      <3>2. ConsumedAsTold => ConsumedAsTold'
        <4>1. CASE BankAnswersReceipt \/ LateReceiptArrives
          <5>1. \E r \in Replies : BankHandlesReceipt(r)
            BY <4>1 DEF BankAnswersReceipt, LateReceiptArrives
          <5> QED
            BY <5>1, BankReceiptFacts DEF DownloadInvariant
        <4> QED
          BY <2>4, <4>1 DEF BankNext, BankAnswersSegment, BankEndsTransaction, ConsumedAsTold
      <3> QED
        BY <2>1, <3>1, <3>2 DEF Promise!Next, Promise!Consume, Outcome
    <2>5. CASE UNCHANGED vars
      BY <2>5 DEF vars, callVars, Outcome, ConsumedAsTold
    <2> QED
      BY <2>2, <2>3, <2>4, <2>5 DEF Next
  <1> QED
    BY <1>1, <1>2, DownloadInvariantHolds, PTL DEF Spec, KeepsPromise, Promise!Spec
=============================================================================
