------------------------ MODULE UploadTransferProofs ------------------------
(***************************************************************************)
(* UploadTransfer keeps its promise for every number of segments, every    *)
(* recovery budget, every fault of the network and every irregularity of   *)
(* the bank. Exceptions that escape the loop's handlers count as doubt:    *)
(* the run key_rotation_dropped shows what comes of it if one is taken for *)
(* a failure.                                                              *)
(***************************************************************************)
EXTENDS UploadTransfer, TLAPS

\* Before the opening request nothing has been sent and the bank holds nothing.
LEMMA InitInvariant == Init => TransferInvariant
  <1> SUFFICES ASSUME Init PROVE TransferInvariant
    OBVIOUS
  <1>1. TypeOK
    <2>1. status \in Statuses
      BY DEF Init, Statuses, Running
    <2>2. /\ number \in 1..NumSegments + 1
          /\ highestSent \in 0..NumSegments
          /\ budget \in 0..RecoveryAttempts
          /\ held \in 0..NumSegments
          /\ orders \in Nat
      BY UploadAssumption DEF Init
    <2>3. /\ finalUnanswered \in BOOLEAN
          /\ reply \in Replies \cup {NoReply}
          /\ late \subseteq Segments
          /\ tx \in {"none", "open", "taken", "closed"}
      BY DEF Init
    <2> QED
      BY <2>1, <2>2, <2>3 DEF TypeOK
  <1>2. BankConsistent
    BY UploadAssumption DEF Init, BankConsistent
  <1>3. LoopConsistent
    BY DEF Init, LoopConsistent
  <1>4. OrderAccountedFor /\ LateFinalKnown /\ OutcomeTrue
    BY DEF Init, OrderAccountedFor, LateFinalKnown, OutcomeTrue
  <1>5. AnswersTrue
    BY DEF Init, AnswersTrue, NoReply, Reply, SyncAt
  <1> QED
    BY <1>1, <1>2, <1>3, <1>4, <1>5 DEF TransferInvariant

-----------------------------------------------------------------------------
\* The except clause preserves the invariant, whichever error it handles, and an
\* error it does not handle breaks no more than what is raised means.
LEMMA StepFailedInvariant ==
    ASSUME TransferInvariant, status = "waiting",
           NEW error, StepFailed(error),
           reply' = NoReply, UNCHANGED bankVars,
           late' = late \/ late' = late \cup {number}
    PROVE  TransferInvariant'
  <1>1. number \in Segments /\ number <= highestSent
    BY DEF TransferInvariant, LoopConsistent
  <1>2. /\ status' \in {"sending", "unconfirmed", "raised", "escaped"}
        /\ finalUnanswered' \in BOOLEAN
        /\ finalUnanswered => finalUnanswered'
        /\ finalUnanswered' => finalUnanswered \/ Last
        /\ status' # "escaped" => finalUnanswered' = (finalUnanswered \/ Last)
        /\ status' = "raised" => ~finalUnanswered /\ ~Last
        /\ status' = "unconfirmed" => finalUnanswered'
        /\ budget' \in 0..RecoveryAttempts
        /\ UNCHANGED <<number, highestSent>>
    <2>1. CASE error = "Raw"
      BY <2>1, UploadAssumption DEF StepFailed, TransferInvariant, TypeOK
    <2>2. CASE error # "Raw"
      <3>1. /\ finalUnanswered' = (finalUnanswered \/ Last)
            /\ UNCHANGED <<number, highestSent>>
            /\ status' \in {"sending", IF finalUnanswered' THEN "unconfirmed" ELSE "raised"}
        BY <2>2 DEF StepFailed, NoteUnanswered
      <3>2. budget' \in 0..RecoveryAttempts
        BY <2>2, UploadAssumption DEF StepFailed, Spend, TransferInvariant, TypeOK
      <3> QED
        BY <3>1, <3>2
    <2> QED
      BY <2>1, <2>2
  <1>3. TypeOK'
    BY <1>1, <1>2, UploadAssumption
       DEF TransferInvariant, TypeOK, Statuses, Running, Segments, bankVars, NoReply
  <1>4. BankConsistent'
    BY DEF TransferInvariant, BankConsistent, bankVars
  <1>5. LoopConsistent'
    BY <1>1, <1>2, UploadAssumption
       DEF TransferInvariant, LoopConsistent, TypeOK, Segments, Last
  <1>6. OrderAccountedFor'
    BY <1>2 DEF TransferInvariant, OrderAccountedFor, Last, bankVars, Running
  <1>7. LateFinalKnown'
    BY <1>2 DEF TransferInvariant, LateFinalKnown, Last
  <1>8. AnswersTrue'
    BY DEF AnswersTrue, NoReply, Reply, SyncAt
  <1>9. status' = "unconfirmed" => highestSent' = NumSegments
    BY <1>1, <1>2, UploadAssumption
       DEF TransferInvariant, LoopConsistent, TypeOK, Segments, Last
  <1>10. status' = "raised" => tx' # "taken" /\ NumSegments \notin late'
    BY <1>2 DEF TransferInvariant, OrderAccountedFor, LateFinalKnown, Running, Last, bankVars
  <1> QED
    BY <1>2, <1>3, <1>4, <1>5, <1>6, <1>7, <1>8, <1>9, <1>10
       DEF TransferInvariant, OutcomeTrue

\* Reading an answer leaves the network and the bank alone and moves the loop; the
\* four ways it can do so.
LEMMA AnswerInvariant ==
    ASSUME TransferInvariant, Answered,
           BankHoldsAll \/ ResumeAfterPoint \/ SegmentAccepted \/ SegmentRefused
    PROVE  TransferInvariant'
  <1>1. /\ number \in Segments /\ number <= highestSent
        /\ status = "waiting"
        /\ UNCHANGED <<late, bankVars, highestSent, finalUnanswered>>
        /\ reply' = NoReply
    BY DEF TransferInvariant, LoopConsistent, Answered, BankHoldsAll, ResumeAfterPoint,
           SegmentAccepted, SegmentRefused
  <1>2. /\ status' \in {"confirmed", "sending", "raised", "unconfirmed"}
        /\ number' \in 1..NumSegments + 1
        /\ budget' \in 0..RecoveryAttempts
        /\ status' = "sending" => number' \in Segments
    <2>1. CASE BankHoldsAll
      BY <2>1 DEF BankHoldsAll, TransferInvariant, TypeOK
    <2>2. CASE ResumeAfterPoint
      <3>1. reply.point \in 0..NumSegments + 1
        BY <2>2 DEF Answered, TransferInvariant, TypeOK, Replies
      <3> QED
        BY <2>2, <3>1, UploadAssumption
           DEF ResumeAfterPoint, Spend, TransferInvariant, TypeOK, Segments
    <2>3. CASE SegmentAccepted
      BY <1>1, <2>3, UploadAssumption
         DEF SegmentAccepted, TransferInvariant, TypeOK, Segments, Last
    <2>4. CASE SegmentRefused
      BY <2>4 DEF SegmentRefused, TransferInvariant, TypeOK
    <2> QED
      BY <2>1, <2>2, <2>3, <2>4
  <1>3. TypeOK'
    BY <1>1, <1>2 DEF TransferInvariant, TypeOK, Statuses, Running, bankVars
  <1>4. BankConsistent'
    BY <1>1 DEF TransferInvariant, BankConsistent, bankVars
  <1>5. LoopConsistent'
    BY <1>1, <1>2 DEF TransferInvariant, LoopConsistent
  <1>6. LateFinalKnown' /\ AnswersTrue'
    BY <1>1 DEF TransferInvariant, LateFinalKnown, AnswersTrue, NoReply, Reply, SyncAt
  \* Outside doubt, the answers that end the call with an error or go on with another
  \* segment are given only for an order not taken.
  <1>7. status' \in {"sending", "raised"} /\ ~finalUnanswered => tx # "taken"
    <2> SUFFICES ASSUME status' \in {"sending", "raised"}, ~finalUnanswered, tx = "taken"
                 PROVE  FALSE
      OBVIOUS
    <2>1. Last /\ (reply.code \in {"ok", "unknown", "none"} \/ reply = SyncAt(NumSegments))
      BY <1>1 DEF TransferInvariant, OrderAccountedFor, Running
    <2>2. PossiblePoint(NumSegments)
      BY <1>1, <2>1, UploadAssumption
         DEF PossiblePoint, Last, Segments, TransferInvariant, TypeOK
    <2> QED
      BY <2>1, <2>2, UploadAssumption
         DEF BankHoldsAll, ResumeAfterPoint, SegmentAccepted, SegmentRefused, OutcomeOpen,
             Reply, SyncAt
  <1>8. OrderAccountedFor'
    BY <1>1, <1>2, <1>7 DEF OrderAccountedFor, bankVars, Running
  <1>9. status' = "confirmed" => tx = "taken"
    <2>1. CASE BankHoldsAll
      <3>1. reply = SyncAt(NumSegments) /\ NumSegments <= highestSent
        BY <2>1 DEF BankHoldsAll, PossiblePoint, SyncAt, Answered, TransferInvariant,
                    TypeOK, Replies
      <3> QED
        BY <3>1 DEF TransferInvariant, AnswersTrue
    <2>2. CASE SegmentAccepted /\ Last
      BY <2>2 DEF TransferInvariant, AnswersTrue, SegmentAccepted
    <2> QED
      BY <2>1, <2>2 DEF ResumeAfterPoint, SegmentAccepted, SegmentRefused
  <1>10. status' = "raised" => ~finalUnanswered
    BY DEF BankHoldsAll, ResumeAfterPoint, SegmentAccepted, SegmentRefused, OutcomeOpen
  <1>11. status' = "unconfirmed" => highestSent = NumSegments
    BY <1>1, UploadAssumption
       DEF BankHoldsAll, ResumeAfterPoint, SegmentAccepted, SegmentRefused, OutcomeOpen,
           TransferInvariant, LoopConsistent, TypeOK, Last, Segments
  <1>12. status' = "raised" => tx' # "taken" /\ NumSegments \notin late'
    BY <1>1, <1>7, <1>10 DEF TransferInvariant, LateFinalKnown, bankVars
  <1> QED
    BY <1>1, <1>3, <1>4, <1>5, <1>6, <1>8, <1>9, <1>11, <1>12
       DEF TransferInvariant, OutcomeTrue, bankVars

-----------------------------------------------------------------------------
\* What the bank does with a request, and how true its answer is.
LEMMA BankHandlesFacts ==
    ASSUME TransferInvariant,
           NEW n \in Segments, NEW r \in Replies, BankHandles(n, r)
    PROVE  /\ tx' \in {"none", "open", "taken", "closed"}
           /\ held' \in 0..NumSegments
           /\ orders' \in Nat
           /\ BankConsistent'
           /\ tx = "taken" => tx' = "taken"
           /\ tx' = "taken" /\ tx # "taken" => n = NumSegments /\ r.code \in {"ok", "unknown", "none"}
           /\ r.code = "ok" /\ n = NumSegments => tx' = "taken"
           /\ r = SyncAt(NumSegments) /\ NumSegments <= highestSent => tx' = "taken"
  <1> USE UploadAssumption
      DEF TransferInvariant, TypeOK, BankConsistent, Segments, bankVars, Reply, SyncAt
  <1>1. CASE StoreSegment(n, r)
    BY <1>1 DEF StoreSegment, Done
  <1>2. CASE TakeOrder(n, r)
    BY <1>2 DEF TakeOrder, Done
  <1>3. CASE NameRecoveryPoint(n, r)
    BY <1>3 DEF NameRecoveryPoint
  <1>4. CASE ConfirmAgain(n, r)
    BY <1>4 DEF ConfirmAgain
  <1>5. CASE NameUnsentPoint(r)
    BY <1>5 DEF NameUnsentPoint
  <1>6. CASE Refuse(r)
    BY <1>6 DEF Refuse
  <1> QED
    BY <1>1, <1>2, <1>3, <1>4, <1>5, <1>6 DEF BankHandles

\* The bank handling the request the client waits on preserves the invariant.
LEMMA BankAnswersInvariant ==
    ASSUME TransferInvariant, BankAnswers
    PROVE  TransferInvariant'
  <1>1. PICK r \in Replies : BankHandles(number, r) /\ reply' = r
    BY DEF BankAnswers
  <1>2. status = "waiting" /\ number \in Segments /\ UNCHANGED <<clientVars, late>>
    BY DEF BankAnswers, TransferInvariant, LoopConsistent
  <1>3. /\ tx' \in {"none", "open", "taken", "closed"}
        /\ held' \in 0..NumSegments
        /\ orders' \in Nat
        /\ BankConsistent'
        /\ tx = "taken" => tx' = "taken"
        /\ tx' = "taken" /\ tx # "taken" => Last /\ r.code \in {"ok", "unknown", "none"}
        /\ r.code = "ok" /\ Last => tx' = "taken"
        /\ r = SyncAt(NumSegments) /\ NumSegments <= highestSent => tx' = "taken"
    BY <1>1, <1>2, BankHandlesFacts DEF Last
  <1>4. TypeOK'
    BY <1>1, <1>2, <1>3 DEF TransferInvariant, TypeOK, clientVars
  <1>5. LoopConsistent'
    BY <1>2 DEF TransferInvariant, LoopConsistent, clientVars
  <1>6. OrderAccountedFor'
    <2>1. CASE tx = "taken"
      \* No answer has been read yet, so the final segment is known to be unanswered.
      BY <1>2, <2>1 DEF BankAnswers, TransferInvariant, OrderAccountedFor, NoReply, SyncAt,
                        clientVars, Running
    <2>2. CASE tx # "taken"
      BY <1>1, <1>2, <1>3, <2>2 DEF OrderAccountedFor, clientVars, Last
    <2> QED
      BY <2>1, <2>2
  <1>7. LateFinalKnown'
    BY <1>2 DEF TransferInvariant, LateFinalKnown, clientVars
  <1>8. AnswersTrue'
    BY <1>1, <1>2, <1>3 DEF AnswersTrue, clientVars, Last
  <1>9. OutcomeTrue'
    BY <1>2, <1>3 DEF TransferInvariant, OutcomeTrue, clientVars
  <1> QED
    BY <1>3, <1>4, <1>5, <1>6, <1>7, <1>8, <1>9 DEF TransferInvariant

\* A late copy of a request that arrives at the bank breaks nothing: a copy of the
\* final segment is late only after the client has noted that it went unanswered.
LEMMA LateRequestInvariant ==
    ASSUME TransferInvariant, LateRequestArrives
    PROVE  TransferInvariant'
  <1>1. PICK n \in late : /\ \E r \in Replies : BankHandles(n, r)
                         /\ late' \in {late, late \ {n}}
    BY DEF LateRequestArrives
  <1>2. PICK r \in Replies : BankHandles(n, r)
    BY <1>1
  <1>3. n \in Segments /\ UNCHANGED <<clientVars, reply>>
    BY <1>1 DEF LateRequestArrives, TransferInvariant, TypeOK
  <1>4. /\ tx' \in {"none", "open", "taken", "closed"}
        /\ held' \in 0..NumSegments
        /\ orders' \in Nat
        /\ BankConsistent'
        /\ tx = "taken" => tx' = "taken"
        /\ tx' = "taken" /\ tx # "taken" => n = NumSegments
    BY <1>2, <1>3, BankHandlesFacts
  <1>5. TypeOK'
    BY <1>1, <1>3, <1>4 DEF TransferInvariant, TypeOK, clientVars
  <1>6. LoopConsistent'
    BY <1>1, <1>3 DEF TransferInvariant, LoopConsistent, clientVars
  <1>7. OrderAccountedFor'
    BY <1>1, <1>3, <1>4
       DEF TransferInvariant, OrderAccountedFor, LateFinalKnown, clientVars, Last, Running
  <1>8. LateFinalKnown'
    BY <1>1, <1>3 DEF TransferInvariant, LateFinalKnown, clientVars
  <1>9. AnswersTrue' /\ OutcomeTrue'
    BY <1>1, <1>3, <1>4 DEF TransferInvariant, AnswersTrue, OutcomeTrue, clientVars, Last
  <1> QED
    BY <1>4, <1>5, <1>6, <1>7, <1>8, <1>9 DEF TransferInvariant

-----------------------------------------------------------------------------
\* Every step preserves the invariant.
LEMMA NextInvariant ==
    ASSUME TransferInvariant, [Next]_vars
    PROVE  TransferInvariant'
  <1> USE UploadAssumption
  <1>1. CASE OpenTransaction \/ OpeningFails
    <2>1. /\ status = "opening" /\ tx = "none" /\ late = {} /\ reply = NoReply
          /\ number = 1 /\ highestSent = 0
          /\ tx' \in {"none", "open"} /\ status' \in {"sending", "raised"}
          /\ UNCHANGED <<number, highestSent, finalUnanswered, budget, reply, late,
                         held, orders>>
      BY <1>1 DEF OpenTransaction, OpeningFails, TransferInvariant, LoopConsistent
    <2>2. TypeOK' /\ BankConsistent'
      BY <2>1 DEF TransferInvariant, TypeOK, Statuses, Running, BankConsistent
    <2>3. number \in Segments /\ ~finalUnanswered
      BY <2>1 DEF TransferInvariant, LoopConsistent, Segments
    <2>4. LoopConsistent'
      BY <2>1, <2>3 DEF TransferInvariant, LoopConsistent
    <2> QED
      BY <2>1, <2>2, <2>3, <2>4
         DEF TransferInvariant, OrderAccountedFor, LateFinalKnown, AnswersTrue,
             OutcomeTrue, Last, NoReply, SyncAt
  <1>2. CASE SendSegment
    <2>1. /\ status = "sending" /\ status' = "waiting" /\ number \in Segments
          /\ highestSent' \in Segments /\ number <= highestSent'
          /\ finalUnanswered => highestSent' = NumSegments
          /\ reply' = NoReply
          /\ UNCHANGED <<number, finalUnanswered, budget, late, tx, held, orders>>
      BY <1>2 DEF SendSegment, TransferInvariant, TypeOK, LoopConsistent, Segments, bankVars
    <2>2. TypeOK' /\ BankConsistent' /\ LoopConsistent'
      BY <2>1 DEF TransferInvariant, TypeOK, Statuses, Running, Segments, BankConsistent,
                  LoopConsistent
    <2> QED
      BY <2>1, <2>2
         DEF TransferInvariant, OrderAccountedFor, LateFinalKnown, AnswersTrue,
             OutcomeTrue, Last, NoReply, SyncAt, Running
  <1>3. CASE ExchangeFails
    <2>1. PICK fault \in Faults : StepFailed(PostVerifiedError(fault))
      BY <1>3 DEF ExchangeFails
    <2> QED
      BY <1>3, <2>1, StepFailedInvariant DEF ExchangeFails
  <1>4. CASE RejectPoint
    BY <1>4, StepFailedInvariant DEF RejectPoint, Answered
  <1>5. CASE BankHoldsAll \/ ResumeAfterPoint \/ SegmentAccepted \/ SegmentRefused
    BY <1>5, AnswerInvariant
       DEF BankHoldsAll, ResumeAfterPoint, SegmentAccepted, SegmentRefused
  <1>6. CASE NoReturnCode
    BY <1>6 DEF NoReturnCode, TransferInvariant, TypeOK, Statuses, Running,
                BankConsistent, LoopConsistent, OrderAccountedFor, LateFinalKnown,
                AnswersTrue, OutcomeTrue, Last, Answered, NoReply, SyncAt, bankVars
  <1>7. CASE BankAnswers
    BY <1>7, BankAnswersInvariant
  <1>8. CASE LateRequestArrives
    BY <1>8, LateRequestInvariant
  <1>9. CASE BankFallsBack
    BY <1>9 DEF BankFallsBack, TransferInvariant, TypeOK, BankConsistent,
                 LoopConsistent, OrderAccountedFor, LateFinalKnown,
                 AnswersTrue, OutcomeTrue, Last, clientVars
  <1>10. CASE BankEndsTransaction
    BY <1>10 DEF BankEndsTransaction, TransferInvariant, TypeOK, BankConsistent,
                 LoopConsistent, OrderAccountedFor, LateFinalKnown,
                 AnswersTrue, OutcomeTrue, Last, clientVars
  <1>11. CASE UNCHANGED vars
    BY <1>11 DEF vars, clientVars, bankVars, TransferInvariant, TypeOK, BankConsistent,
                 LoopConsistent, OrderAccountedFor, LateFinalKnown, AnswersTrue,
                 OutcomeTrue, Last
  <1> QED
    BY <1>1, <1>2, <1>3, <1>4, <1>5, <1>6, <1>7, <1>8, <1>9, <1>10, <1>11
       DEF Next, ClientNext, BankNext

-----------------------------------------------------------------------------
(***************************************************************************)
(* Theorems                                                                *)
(***************************************************************************)

\* The transfer invariant holds throughout, for every fault of the network and every
\* irregularity of the bank's answers (Client._transfer_segments).
THEOREM TransferInvariantHolds == Spec => []TransferInvariant
  <1>1. TransferInvariant /\ [Next]_vars => TransferInvariant'
    BY NextInvariant
  <1> QED
    BY InitInvariant, <1>1, PTL DEF Spec

\* A call that returns has its order at the bank exactly once (Client.upload, Returns).
THEOREM ReturnIsTrue == Spec => []ReturnMeansOrderTaken
  <1>1. TransferInvariant => ReturnMeansOrderTaken
    BY DEF TransferInvariant, OutcomeTrue, BankConsistent, ReturnMeansOrderTaken
  <1> QED
    BY TransferInvariantHolds, <1>1, PTL

\* The Unconfirmed error is raised only after the final segment was sent
\* (UploadUnconfirmedError, KeyChangeUnconfirmedError).
THEOREM DoubtIsJustified == Spec => []DoubtOnlyAfterFinalSegment
  <1>1. TransferInvariant => DoubtOnlyAfterFinalSegment
    BY DEF TransferInvariant, OutcomeTrue, DoubtOnlyAfterFinalSegment
  <1> QED
    BY TransferInvariantHolds, <1>1, PTL

\* An error the loop raises in place of the Unconfirmed one means that the bank has no
\* order and gets none later (Client.upload, Raises).
THEOREM FailureIsDefinite == Spec => []DefiniteFailureMeansNoOrder
  <1>1. TransferInvariant => DefiniteFailureMeansNoOrder
    BY DEF TransferInvariant, OutcomeTrue, BankConsistent, DefiniteFailureMeansNoOrder
  <1> QED
    BY TransferInvariantHolds, <1>1, PTL

\* The transfer implements UploadPromise, with an exception that escapes taken for doubt:
\* each of its steps is a step of the promise or changes nothing of it.
THEOREM ImplementsPromise == Spec => KeepsPromise
  <1>1. Init => Promise!Init
    BY DEF Init, Promise!Init, Outcome, Running
  <1>2. TransferInvariant /\ TransferInvariant' /\ [Next]_vars => [Promise!Next]_(Promise!vars)
    <2> SUFFICES ASSUME TransferInvariant, TransferInvariant', [Next]_vars
                 PROVE  Promise!Next \/ UNCHANGED <<Outcome, orders>>
      BY DEF Promise!vars
    <2>1. /\ orders = IF tx = "taken" THEN 1 ELSE 0
          /\ orders' = IF tx' = "taken" THEN 1 ELSE 0
          /\ status \in Statuses /\ status' \in Statuses
          /\ status' = "confirmed" => tx' = "taken"
          /\ status' = "raised" => tx' # "taken"
      BY DEF TransferInvariant, BankConsistent, OutcomeTrue, TypeOK
    <2>2. CASE ClientNext
      <3>1. status \in Running
        BY <2>2 DEF ClientNext, OpenTransaction, OpeningFails, SendSegment, ExchangeFails,
                    Answered, RejectPoint, BankHoldsAll, ResumeAfterPoint, SegmentAccepted,
                    SegmentRefused, NoReturnCode, Running
      <3>2. UNCHANGED orders
        BY <2>2 DEF ClientNext, OpenTransaction, OpeningFails, SendSegment, ExchangeFails,
                    RejectPoint, BankHoldsAll, ResumeAfterPoint, SegmentAccepted,
                    SegmentRefused, NoReturnCode, bankVars
      <3> QED
        BY <2>1, <3>1, <3>2
           DEF Promise!Next, Promise!Confirm, Promise!Fail, Promise!Doubt, Outcome,
               Statuses, Running
    <2>3. CASE BankNext
      <3>1. UNCHANGED status
        BY <2>3 DEF BankNext, BankAnswers, LateRequestArrives, BankFallsBack,
                    BankEndsTransaction, clientVars
      <3>2. orders' = orders \/ (orders = 0 /\ orders' = 1)
        <4>1. tx = "taken" => tx' = "taken"
          BY <2>3 DEF BankNext, BankAnswers, LateRequestArrives, BankFallsBack,
                      BankEndsTransaction, BankHandles, StoreSegment, TakeOrder,
                      NameRecoveryPoint, ConfirmAgain, NameUnsentPoint, Refuse, bankVars
        <4> QED
          BY <2>1, <4>1
      <3>3. status = "confirmed" => orders = 1
        BY DEF TransferInvariant, BankConsistent, OutcomeTrue
      <3> QED
        BY <2>1, <3>1, <3>2, <3>3
           DEF Promise!Next, Promise!TakeOrder, Outcome, Statuses, Running
    <2>4. CASE UNCHANGED vars
      BY <2>4 DEF vars, clientVars, bankVars, Outcome
    <2> QED
      BY <2>2, <2>3, <2>4 DEF Next
  <1> QED
    BY <1>1, <1>2, TransferInvariantHolds, PTL DEF Spec, KeepsPromise, Promise!Spec
=============================================================================
