-------------------------- MODULE KeyRotationProofs --------------------------
(***************************************************************************)
(* KeyRotation for any number of key changes, segments and recovery        *)
(* attempts, any faults and any irregularity of the bank: the subscriber   *)
(* is locked out, or a key change starts while an earlier one can still    *)
(* take effect, only after one of the two lapses (see lapses).             *)
(*                                                                         *)
(* The transaction keeps TransferInvariant because its own module proves   *)
(* so: Proved is that module, on the same variables as Transfer.           *)
(***************************************************************************)
EXTENDS KeyRotation, TLAPS

Proved == INSTANCE UploadTransferProofs

-----------------------------------------------------------------------------
(***************************************************************************)
(* The transaction                                                         *)
(***************************************************************************)

\* Transfer and Proved are one and the same specification of the transaction.
LEMMA SameInvariant == Transfer!TransferInvariant <=> Proved!TransferInvariant
  BY DEF Transfer!TransferInvariant, Proved!TransferInvariant, Transfer!TypeOK, Proved!TypeOK,
         Transfer!BankConsistent, Proved!BankConsistent,
         Transfer!LoopConsistent, Proved!LoopConsistent,
         Transfer!OrderAccountedFor, Proved!OrderAccountedFor,
         Transfer!LateFinalKnown, Proved!LateFinalKnown,
         Transfer!AnswersTrue, Proved!AnswersTrue, Transfer!OutcomeTrue, Proved!OutcomeTrue,
         Transfer!Statuses, Proved!Statuses, Transfer!Running, Proved!Running,
         Transfer!Segments, Proved!Segments, Transfer!Replies, Proved!Replies,
         Transfer!Codes, Proved!Codes, Transfer!NoReply, Proved!NoReply,
         Transfer!SyncAt, Proved!SyncAt, Transfer!Last, Proved!Last

\* So are the client's steps,
LEMMA SameClient == Transfer!ClientNext => Proved!ClientNext
  BY DEF Transfer!ClientNext, Proved!ClientNext,
         Transfer!OpenTransaction, Proved!OpenTransaction,
         Transfer!OpeningFails, Proved!OpeningFails, Transfer!SendSegment, Proved!SendSegment,
         Transfer!ExchangeFails, Proved!ExchangeFails, Transfer!RejectPoint, Proved!RejectPoint,
         Transfer!BankHoldsAll, Proved!BankHoldsAll,
         Transfer!ResumeAfterPoint, Proved!ResumeAfterPoint,
         Transfer!SegmentAccepted, Proved!SegmentAccepted,
         Transfer!SegmentRefused, Proved!SegmentRefused,
         Transfer!NoReturnCode, Proved!NoReturnCode, Transfer!Answered, Proved!Answered,
         Transfer!StepFailed, Proved!StepFailed, Transfer!NoteUnanswered, Proved!NoteUnanswered,
         Transfer!AnswerLost, Proved!AnswerLost, Transfer!Spend, Proved!Spend,
         Transfer!PostVerifiedError, Proved!PostVerifiedError,
         Transfer!PostError, Proved!PostError,
         Transfer!VerificationError, Proved!VerificationError,
         Transfer!TransportFaults, Proved!TransportFaults,
         Transfer!PossiblePoint, Proved!PossiblePoint, Transfer!OutcomeOpen, Proved!OutcomeOpen,
         Transfer!Last, Proved!Last, Transfer!NoReply, Proved!NoReply,
         Transfer!bankVars, Proved!bankVars

\* and the bank's.
LEMMA SameBank == Transfer!BankNext => Proved!BankNext
  BY DEF Transfer!BankNext, Proved!BankNext, Transfer!BankAnswers, Proved!BankAnswers,
         Transfer!LateRequestArrives, Proved!LateRequestArrives,
         Transfer!BankFallsBack, Proved!BankFallsBack,
         Transfer!BankEndsTransaction, Proved!BankEndsTransaction,
         Transfer!BankHandles, Proved!BankHandles, Transfer!StoreSegment, Proved!StoreSegment,
         Transfer!TakeOrder, Proved!TakeOrder,
         Transfer!NameRecoveryPoint, Proved!NameRecoveryPoint,
         Transfer!ConfirmAgain, Proved!ConfirmAgain,
         Transfer!NameUnsentPoint, Proved!NameUnsentPoint,
         Transfer!Refuse, Proved!Refuse, Transfer!Done, Proved!Done,
         Transfer!Reply, Proved!Reply, Transfer!SyncAt, Proved!SyncAt,
         Transfer!NoReply, Proved!NoReply, Transfer!Replies, Proved!Replies,
         Transfer!Codes, Proved!Codes, Transfer!clientVars, Proved!clientVars,
         Transfer!bankVars, Proved!bankVars

\* A transaction starts as UploadTransfer says.
LEMMA TransferStarts == Transfer!Init => Transfer!TransferInvariant
<1>1. Transfer!Init => Proved!Init
  BY DEF Transfer!Init, Proved!Init, Transfer!NoReply, Proved!NoReply
<1>2. Proved!Init => Proved!TransferInvariant
  BY Proved!InitInvariant, TransferAssumption
     DEF Transfer!TransportFaults, Transfer!AnswerFaults,
         Proved!TransportFaults, Proved!AnswerFaults
<1> QED
  BY <1>1, <1>2, SameInvariant

\* A step of the client or of the bank in the transaction keeps its invariant; whatever
\* else goes on does not touch it.
LEMMA TransferKeeps ==
    ASSUME Transfer!TransferInvariant,
           Transfer!ClientNext \/ Transfer!BankNext \/ UNCHANGED transfer
    PROVE  Transfer!TransferInvariant'
<1>1. [Proved!Next]_(Proved!vars)
  BY SameClient, SameBank
     DEF transfer, Proved!Next, Proved!vars, Proved!clientVars, Proved!bankVars
<1>2. Proved!TransferInvariant
  BY SameInvariant
<1>3. Proved!TransferInvariant'
  BY <1>1, <1>2, Proved!NextInvariant, TransferAssumption
     DEF Transfer!TransportFaults, Transfer!AnswerFaults,
         Proved!TransportFaults, Proved!AnswerFaults
<1> QED
  BY <1>3, SameInvariant, PTL

\* A new transaction satisfies the invariant whatever the last one has left.
LEMMA NewTransferStarts == NewTransfer => Transfer!TransferInvariant'
<1>1. NewTransfer => Transfer!Init'
  BY DEF NewTransfer, Transfer!Init, Transfer!NoReply
<1> QED
  BY <1>1, TransferStarts, PTL

\* A step of the client is one of a running call; it never takes the order, and opens
\* the transaction at most.
LEMMA ClientFacts ==
    ASSUME Transfer!TransferInvariant, Transfer!ClientNext
    PROVE  /\ status \in Transfer!Running
           /\ tx' = tx \/ (tx = "none" /\ tx' = "open")
  BY DEF Transfer!TransferInvariant, Transfer!LoopConsistent,
         Transfer!ClientNext, Transfer!OpenTransaction, Transfer!OpeningFails,
         Transfer!SendSegment, Transfer!ExchangeFails, Transfer!RejectPoint,
         Transfer!BankHoldsAll, Transfer!ResumeAfterPoint, Transfer!SegmentAccepted,
         Transfer!SegmentRefused, Transfer!NoReturnCode, Transfer!Answered,
         Transfer!Running, Transfer!bankVars

\* How the bank's side may move as it handles a request.
LEMMA HandlingFacts ==
    ASSUME NEW n, NEW r \in Transfer!Replies, Transfer!BankHandles(n, r)
    PROVE  /\ tx' = tx \/ (tx = "open" /\ tx' \in {"taken", "closed"})
           /\ tx' = "taken" /\ tx # "taken" => n = NumSegments
  BY DEF Transfer!BankHandles, Transfer!StoreSegment, Transfer!TakeOrder,
         Transfer!NameRecoveryPoint, Transfer!ConfirmAgain, Transfer!NameUnsentPoint,
         Transfer!Refuse, Transfer!Done, Transfer!Reply, Transfer!SyncAt, Transfer!bankVars

\* A step of the bank leaves the client alone, ends a transaction or takes the order
\* only once, takes it only if the final segment is on its way, and brings no request on
\* its way that was not.
LEMMA BankFacts ==
    ASSUME Transfer!TransferInvariant, Transfer!BankNext
    PROVE  /\ UNCHANGED <<status, number>>
           /\ tx' = tx \/ (tx = "open" /\ tx' \in {"taken", "closed"})
           /\ tx' = "taken" /\ tx # "taken" => Outstanding
           /\ Outstanding' => Outstanding
<1> DEFINE Facts == /\ UNCHANGED <<status, number>>
                    /\ tx' = tx \/ (tx = "open" /\ tx' \in {"taken", "closed"})
                    /\ tx' = "taken" /\ tx # "taken" => Outstanding
                    /\ Outstanding' => Outstanding
<1>1. CASE Transfer!BankAnswers
  <2>1. PICK r \in Transfer!Replies : Transfer!BankHandles(number, r) /\ reply' = r
    BY <1>1 DEF Transfer!BankAnswers
  <2>2. r # Transfer!NoReply
    BY DEF Transfer!Replies, Transfer!Codes, Transfer!NoReply
  <2> QED
    BY <1>1, <2>1, <2>2, HandlingFacts
       DEF Transfer!BankAnswers, Transfer!clientVars, Outstanding
<1>2. CASE Transfer!LateRequestArrives
  <2>1. PICK n \in late : /\ \E r \in Transfer!Replies : Transfer!BankHandles(n, r)
                         /\ late' \in {late, late \ {n}}
    BY <1>2 DEF Transfer!LateRequestArrives
  <2>2. PICK r \in Transfer!Replies : Transfer!BankHandles(n, r)
    BY <2>1
  <2> QED
    BY <1>2, <2>1, <2>2, HandlingFacts
       DEF Transfer!LateRequestArrives, Transfer!clientVars, Outstanding
<1>3. CASE Transfer!BankFallsBack
  BY <1>3 DEF Transfer!BankFallsBack, Transfer!clientVars, Outstanding
<1>4. CASE Transfer!BankEndsTransaction
  BY <1>4 DEF Transfer!BankEndsTransaction, Transfer!clientVars, Outstanding
<1> QED
  BY <1>1, <1>2, <1>3, <1>4 DEF Transfer!BankNext

\* The bank switches exactly with the step in which it takes the order.
LEMMA BankSwitches ==
    ASSUME Transfer!TransferInvariant, Transfer!TransferInvariant', Bank
    PROVE  bankKeyring' = IF tx' = "taken" /\ tx # "taken" THEN rotation ELSE bankKeyring
<1>1. /\ orders = IF tx = "taken" THEN 1 ELSE 0
      /\ orders' = IF tx' = "taken" THEN 1 ELSE 0
      /\ tx = "taken" => tx' = "taken"
  BY BankFacts DEF Bank, Transfer!TransferInvariant, Transfer!BankConsistent
<1> QED
  BY <1>1 DEF Bank
-----------------------------------------------------------------------------
(***************************************************************************)
(* The invariant                                                           *)
(***************************************************************************)

\* Before the first key change there is one keyring, and the bank accepts it.
LEMMA RotationInit == Init => RotationInvariant
<1> SUFFICES ASSUME Init PROVE RotationInvariant
  OBVIOUS
<1>1. Transfer!TransferInvariant
  BY TransferStarts DEF Init
<1>2. TypeOK
  BY <1>1, RotationAssumption
     DEF Init, TypeOK, Transfer!TransferInvariant, Keyrings, Steps
<1>3. BankFollows /\ ScriptConsistent /\ NeverAheadOfBank
  BY DEF Init, Transfer!Init, BankFollows, ScriptConsistent, NeverAheadOfBank
<1>4. FilesSafe
  BY DEF Init, Transfer!Init, Transfer!NoReply, FilesSafe, KeysAtHand, Pending,
         Outstanding
<1> QED
  BY <1>1, <1>2, <1>3, <1>4 DEF RotationInvariant

\* Every step keeps the invariant of the transaction, or starts a new transaction.
LEMMA TransactionKept ==
    ASSUME RotationInvariant, [Next]_vars
    PROVE  Transfer!TransferInvariant'
<1>1. Transfer!TransferInvariant
  BY DEF RotationInvariant
<1>2. CASE SaveSuccessor
  BY <1>2, NewTransferStarts DEF SaveSuccessor
<1>3. CASE ~SaveSuccessor
  <2>1. Transfer!ClientNext \/ Transfer!BankNext \/ UNCHANGED transfer
    BY <1>3 DEF Next, Script, Start, RefuseLeftover, ChangeKeys, Adopt, Promote, KeepBoth,
                DeleteSuccessor, Crash, Flush, PowerFails, OperatorPromotes,
                OperatorDiscards, Bank, vars
  <2> QED
    BY <1>1, <2>1, TransferKeeps
<1> QED
  BY <1>2, <1>3

\* The types of what is not the transaction's.
LEMMA TypesKept ==
    ASSUME RotationInvariant, Transfer!TransferInvariant', [Next]_vars
    PROVE  TypeOK'
<1> USE RotationAssumption DEF Keyrings
<1>1. /\ step \in Steps /\ rotation \in Keyrings /\ clientKeyring \in Keyrings
      /\ stored \in Keyrings /\ successor \in Keyrings \cup {NoFile}
      /\ disk \in Keyrings \X (Keyrings \cup {NoFile}) /\ bankKeyring \in Keyrings
      /\ lapses \subseteq {"untranslated", "early"}
  BY DEF RotationInvariant, TypeOK
<1>2. Transfer!TypeOK'
  BY DEF Transfer!TransferInvariant
<1>3. /\ step' \in Steps /\ rotation' \in Keyrings /\ clientKeyring' \in Keyrings
      /\ bankKeyring' \in Keyrings
  BY <1>1 DEF Next, Script, Start, RefuseLeftover, SaveSuccessor, SaveKeyring, ChangeKeys,
              Adopt, Promote, KeepBoth, DeleteSuccessor, Crash, Flush, PowerFails,
              OperatorPromotes, OperatorDiscards, Bank, vars, Steps,
              RotationInvariant, ScriptConsistent, ChangeReturns
<1>4. stored' \in Keyrings /\ successor' \in Keyrings \cup {NoFile}
  <2>1. CASE SaveSuccessor
    BY <1>1, <2>1 DEF SaveSuccessor, SaveKeyring
  <2>2. CASE PowerFails
    BY <1>1, <2>2 DEF PowerFails
  <2>3. CASE Promote \/ OperatorPromotes
    BY <1>1, <2>3 DEF Promote, OperatorPromotes, files, RotationInvariant, ScriptConsistent
  <2> QED
    BY <1>1, <2>1, <2>2, <2>3
       DEF Next, Script, Start, RefuseLeftover, ChangeKeys, Adopt, KeepBoth,
           DeleteSuccessor, Crash, Flush, OperatorDiscards, Bank, vars, storage, files
<1>5. disk' \in Keyrings \X (Keyrings \cup {NoFile})
  <2>1. CASE SaveSuccessor
    BY <1>1, <1>4, <2>1 DEF SaveSuccessor, SaveKeyring
  <2>2. CASE Flush
    BY <1>1, <2>2 DEF Flush, files
  <2> QED
    BY <1>1, <2>1, <2>2
       DEF Next, Script, Start, RefuseLeftover, ChangeKeys, Adopt, Promote, KeepBoth,
           DeleteSuccessor, Crash, PowerFails, OperatorPromotes, OperatorDiscards, Bank,
           vars, storage
<1>6. lapses' \subseteq {"untranslated", "early"}
  <2>1. lapses' \in {lapses, lapses \cup {"untranslated"}, lapses \cup {"early"}}
    BY DEF Next, Script, Start, RefuseLeftover, SaveSuccessor, ChangeKeys, Adopt, Promote,
           KeepBoth, DeleteSuccessor, Crash, Flush, PowerFails, OperatorPromotes,
           OperatorDiscards, Bank, vars
  <2> QED
    BY <1>1, <2>1
<1> QED
  BY <1>2, <1>3, <1>4, <1>5, <1>6 DEF TypeOK
\* What the script holds, and what the bank has taken, stays consistent.
LEMMA ConsistencyKept ==
    ASSUME RotationInvariant, Transfer!TransferInvariant', [Next]_vars
    PROVE  (BankFollows /\ ScriptConsistent)'
<1>1. /\ rotation \in Nat /\ bankKeyring \in Nat
      /\ Transfer!TransferInvariant /\ BankFollows /\ ScriptConsistent
  BY RotationAssumption DEF RotationInvariant, TypeOK, Keyrings
<1>2. CASE SaveSuccessor
  BY <1>1, <1>2
     DEF SaveSuccessor, SaveKeyring, NewTransfer, BankFollows, ScriptConsistent
<1>3. CASE ChangeKeys
  BY <1>1, <1>3, ClientFacts
     DEF ChangeKeys, BankFollows, ScriptConsistent, storage
<1>4. CASE Adopt
  BY <1>1, <1>4
     DEF Adopt, ChangeReturns, transfer, storage, BankFollows, ScriptConsistent,
         Transfer!TransferInvariant, Transfer!OutcomeTrue
<1>5. CASE Bank
  <2>1. tx = "taken" => tx' = "taken"
    BY <1>1, <1>5, BankFacts DEF Bank
  <2> QED
    BY <1>1, <1>5, <2>1, BankSwitches DEF Bank, BankFollows, ScriptConsistent, storage
<1>6. CASE Start \/ RefuseLeftover \/ Promote \/ KeepBoth \/ DeleteSuccessor \/ Crash
           \/ Flush \/ PowerFails \/ OperatorPromotes \/ OperatorDiscards \/ UNCHANGED vars
  BY <1>1, <1>6
     DEF Start, RefuseLeftover, Promote, KeepBoth, DeleteSuccessor, Crash, Flush, PowerFails,
         OperatorPromotes, OperatorDiscards, vars, transfer, storage, files,
         BankFollows, ScriptConsistent
<1> QED
  BY <1>2, <1>3, <1>4, <1>5, <1>6 DEF Next, Script

\* While the bank may come to take the change, only the step that saved its successor
\* made that so.
LEMMA PendingBefore ==
    ASSUME RotationInvariant, [Next]_vars, Pending', ~SaveSuccessor
    PROVE  Pending
<1>1. Transfer!TransferInvariant
  BY DEF RotationInvariant
<1>2. CASE ChangeKeys
  BY <1>1, <1>2, ClientFacts DEF ChangeKeys, Pending
<1>3. CASE Bank
  BY <1>1, <1>3, BankFacts DEF Bank, Pending
<1>4. CASE ~ChangeKeys /\ ~Bank
  <2>1. UNCHANGED transfer /\ step' \in {step, "down", "started", "adopted"}
    BY <1>4 DEF Next, Script, Start, RefuseLeftover, Adopt, Promote, KeepBoth,
                DeleteSuccessor, Crash, Flush, PowerFails, OperatorPromotes,
                OperatorDiscards, vars
  <2> QED
    BY <2>1 DEF Pending, Outstanding, transfer
<1> QED
  BY <1>2, <1>3, <1>4

\* Whether the step changes the files, the disk or the bank's keys: if it is no lapse, one of
\* the two files, and of their copies on the disk, still holds the keys the bank accepts.
LEMMA FilesKept ==
    ASSUME RotationInvariant, Transfer!TransferInvariant', [Next]_vars, lapses' = {}
    PROVE  FilesSafe'
<1> USE RotationAssumption DEF files, storage, NoLeftover
<1>0. lapses = {}
  BY DEF Next, Script, Start, RefuseLeftover, SaveSuccessor, ChangeKeys, Adopt, Promote,
         KeepBoth, DeleteSuccessor, Crash, Flush, PowerFails, OperatorPromotes,
         OperatorDiscards, Bank, vars
<1>1. /\ FilesSafe /\ BankFollows /\ ScriptConsistent /\ Transfer!TransferInvariant
      /\ rotation \in Keyrings /\ stored \in Keyrings /\ bankKeyring \in Keyrings
      /\ successor \in Keyrings \cup {NoFile}
      /\ disk \in Keyrings \X (Keyrings \cup {NoFile})
  BY <1>0 DEF RotationInvariant, TypeOK
<1>2. CASE SaveSuccessor
  <2>1. stored = bankKeyring /\ bankKeyring < rotation'
    BY <1>1, <1>2 DEF SaveSuccessor, FilesSafe, BankFollows, Keyrings
  <2>2. KeysAtHand'
    BY <1>1, <1>2, <2>1 DEF SaveSuccessor, SaveKeyring, FilesSafe, KeysAtHand
  <2>3. ~Outstanding'
    BY <1>2 DEF SaveSuccessor, NewTransfer, Outstanding
  <2> QED
    BY <1>2, <2>1, <2>2, <2>3
       DEF SaveSuccessor, SaveKeyring, NewTransfer, FilesSafe, Pending
\* Of the other steps none makes the change pending.
<1>3. ASSUME rotation' = rotation, Pending'
      PROVE  /\ bankKeyring < rotation /\ stored = bankKeyring
             /\ successor = rotation /\ disk = files
  BY <1>1, <1>3, PendingBefore DEF FilesSafe, SaveSuccessor, Keyrings
<1>4. CASE ChangeKeys
  <2>1. tx' # "taken" => tx # "taken"
    BY <1>1, <1>4, ClientFacts DEF ChangeKeys
  <2> QED
    BY <1>1, <1>3, <1>4, <2>1
       DEF ChangeKeys, FilesSafe, KeysAtHand
<1>5. CASE Bank
  <2>1. CASE tx' = "taken" /\ tx # "taken"
    <3>1. Pending
      BY <1>1, <1>5, <2>1, BankFacts DEF Bank, Pending, Outstanding
    <3>2. bankKeyring' = rotation
      BY <1>1, <1>5, <2>1, BankSwitches
    <3> QED
      BY <1>1, <1>5, <2>1, <3>1, <3>2
         DEF Bank, FilesSafe, KeysAtHand, Pending, Keyrings
  <2>2. CASE ~(tx' = "taken" /\ tx # "taken")
    <3>1. bankKeyring' = bankKeyring
      BY <1>1, <1>5, <2>2, BankSwitches
    <3>2. tx = "taken" => tx' = "taken"
      BY <1>1, <1>5, BankFacts DEF Bank
    <3> QED
      BY <1>1, <1>3, <1>5, <2>2, <3>1, <3>2
         DEF Bank, FilesSafe, KeysAtHand
  <2> QED
    BY <2>1, <2>2
<1>6. CASE PowerFails \/ Flush
  BY <1>1, <1>3, <1>6
     DEF PowerFails, Flush, transfer, FilesSafe, KeysAtHand
<1>7. CASE Promote \/ OperatorPromotes \/ OperatorDiscards \/ Adopt
  <2>1. rotation' = rotation /\ UNCHANGED transfer
    BY <1>7 DEF Promote, OperatorPromotes, OperatorDiscards, Adopt
  <2>2. ~Pending'
    <3> SUFFICES ASSUME Pending' PROVE FALSE
      OBVIOUS
    <3>1. bankKeyring < rotation /\ stored = bankKeyring /\ successor = rotation
      BY <1>3, <2>1
    <3> QED
      BY <1>1, <1>7, <2>1, <3>1
         DEF Promote, OperatorPromotes, OperatorDiscards, Adopt, transfer, Pending,
             Outstanding, ScriptConsistent, ChangeReturns, Keyrings,
             Transfer!TransferInvariant, Transfer!OutcomeTrue
  <2> QED
    BY <1>1, <1>7, <2>1, <2>2
       DEF Promote, OperatorPromotes, OperatorDiscards, Adopt, transfer, FilesSafe,
           KeysAtHand, ScriptConsistent, BankFollows, Keyrings
<1>8. CASE DeleteSuccessor
  <2>1. status = "raised"
    BY <1>8 DEF DeleteSuccessor, ChangeFails
  <2>2. tx # "taken" /\ ~Pending'
    BY <1>1, <1>8, <2>1
       DEF DeleteSuccessor, transfer, Pending, Outstanding, Transfer!Running,
           Transfer!TransferInvariant, Transfer!OutcomeTrue
  <2> QED
    BY <1>1, <1>8, <2>2 DEF DeleteSuccessor, transfer, FilesSafe, KeysAtHand
<1>9. CASE Start \/ RefuseLeftover \/ KeepBoth \/ Crash \/ UNCHANGED vars
  BY <1>1, <1>3, <1>9
     DEF Start, RefuseLeftover, KeepBoth, Crash, vars, transfer, FilesSafe, KeysAtHand
<1> QED
  BY <1>2, <1>4, <1>5, <1>6, <1>7, <1>8, <1>9 DEF Next, Script

\* RotationInvariant is inductive.
LEMMA RotationNext == RotationInvariant /\ [Next]_vars => RotationInvariant'
<1> SUFFICES ASSUME RotationInvariant, [Next]_vars PROVE RotationInvariant'
  OBVIOUS
<1>1. Transfer!TransferInvariant'
  BY TransactionKept
<1>2. TypeOK' /\ (BankFollows /\ ScriptConsistent)'
  BY <1>1, TypesKept, ConsistencyKept
\* Only after the bank has taken the change does the client work with other keys.
<1>3. NeverAheadOfBank'
  BY <1>2 DEF TypeOK, Steps, BankFollows, ScriptConsistent, NeverAheadOfBank
<1>4. lapses' = {} => FilesSafe'
  BY <1>1, FilesKept
<1> QED
  BY <1>1, <1>2, <1>3, <1>4 DEF RotationInvariant

-----------------------------------------------------------------------------
(***************************************************************************)
(* Theorems                                                                *)
(***************************************************************************)

\* What ties the two files, the client, the transaction and the bank together holds
\* throughout (Client.change_keys, examples/06_key_rotation.py).
THEOREM RotationInvariantHolds == Spec => []RotationInvariant
  BY RotationInit, RotationNext, PTL DEF Spec

\* Only the two lapses lock the subscriber out: after any other behaviour, whatever fails,
\* arrives late or dies, one of the two files holds the keys the bank accepts, and would
\* after a power failure (change_keys, "persist the successor before sending").
THEOREM LapsesAloneLockOut == Spec => []LockedOutByLapseOnly
<1>1. RotationInvariant => LockedOutByLapseOnly
  BY DEF RotationInvariant, FilesSafe, LockedOutByLapseOnly
<1> QED
  BY <1>1, RotationInvariantHolds, PTL

\* And without them no key change starts while the final segment of an earlier one can still
\* reach the bank (KeyChangeUnconfirmedError, "Never retry automatically").
THEOREM ChangesNeverOverlap == Spec => OneChangeAtATime
<1>1. ASSUME RotationInvariant, Next, lapses = {}, rotation' # rotation
      PROVE  ~Outstanding
  <2>1. SaveSuccessor
    BY <1>1 DEF Next, Script, Start, RefuseLeftover, ChangeKeys, Adopt, Promote, KeepBoth,
                DeleteSuccessor, Crash, Flush, PowerFails, OperatorPromotes,
                OperatorDiscards, Bank
  <2>2. successor = NoFile /\ successor # rotation
    BY <1>1, <2>1, RotationAssumption
       DEF SaveSuccessor, NoLeftover, RotationInvariant, TypeOK, Keyrings
  <2> QED
    BY <1>1, <2>2 DEF RotationInvariant, FilesSafe, Pending, Outstanding
<1>2. RotationInvariant /\ [Next]_vars
      => [lapses = {} /\ rotation' # rotation => ~Outstanding]_vars
  BY <1>1
<1> QED
  BY <1>2, RotationInvariantHolds, PTL DEF Spec, OneChangeAtATime
=============================================================================
