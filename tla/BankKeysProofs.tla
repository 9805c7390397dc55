--------------------------- MODULE BankKeysProofs ---------------------------
(***************************************************************************)
(* Proofs about BankKeys, for any keys and certificates. What the client   *)
(* holds is good because of the checks that stand before the one place     *)
(* that stores it; what it sees of the bank's changes follows from the     *)
(* count of changes that came with the keys.                               *)
(***************************************************************************)
EXTENDS BankKeys, TLAPS

\* A client without keys, before any exchange.
LEMMA Initially == Init => BankKeysInvariant
  BY BankKeysAssumption
  DEF Init, BankKeysInvariant, TypeOK, Replies, NoReply, PinsInOrder, StoreInOrder, CallInOrder,
      ReplyInOrder, HeldKeysVouched, HeldIsOneAnswer, TroubleOnlyAfterChange

\* What an answer of each kind consists of.
LEMMA ReplyShapes ==
    ASSUME reply \in Replies
    PROVE  /\ reply.kind = "keys" => reply.keys \in Pairs /\ reply.at \in 0..MaxChanges
           /\ reply.kind \in {"opened", "stale", "other"} => reply.signer \in Keys
           /\ reply = NoReply => reply.kind = "none"
  BY DEF Replies, NoReply

\* A delivery is a key, with or without a certificate.
LEMMA PairShape ==
    ASSUME NEW keys \in Pairs, NEW r \in Roles
    PROVE  /\ keys[r] \in Deliveries
           /\ keys[r].key \in Keys
           /\ keys[r].certificate \in Certificates \cup {None}
  BY DEF Pairs, Deliveries

\* The hashes of a pair, in the form of bank_key_hashes.
LEMMA HashesArePins == ASSUME NEW keys \in Pairs PROVE BankKeyHashes(keys) \in Pins
  BY PairShape DEF BankKeyHashes, Pins, Hashes

\* Every step keeps the variables in their ranges.
LEMMA TypeStep == TypeOK /\ CallInOrder /\ Next => TypeOK'
<1> SUFFICES ASSUME TypeOK, CallInOrder, Next
             PROVE  TypeOK'
  OBVIOUS
<1>0. NoReply \in Replies
  BY DEF Replies
<1> USE <1>0, BankKeysAssumption DEF TypeOK, bank, operator, store, call
<1>1. CASE Hpb
  BY <1>1 DEF Hpb
<1>2. CASE HpbReturns
  BY <1>2, ReplyShapes DEF HpbReturns, EndHpb
<1>3. CASE HpbRejects
  BY <1>3 DEF HpbRejects, EndHpb, KeepStore
<1>4. CASE HpbRefused
  BY <1>4 DEF HpbRefused, EndHpb
<1>5. CASE Open
  BY <1>5 DEF Open
<1>6. CASE Answered
  BY <1>6 DEF Answered, EndCall
<1>7. CASE Step \/ Finish
  BY <1>7 DEF Step, Finish
<1>8. CASE ExchangeFails \/ Restart
  BY <1>8 DEF ExchangeFails, EndCall, Restart
<1>9. CASE PinHeld
  BY <1>9, HashesArePins DEF PinHeld
<1>10. CASE PinPublished \/ Unpin
  BY <1>10 DEF PinPublished, Unpin
<1>11. CASE Change
  <2>1. PICK r \in Roles : \E d \in Deliveries : current' = [current EXCEPT ![r] = d]
    BY <1>11 DEF Change
  <2>2. current' \in Pairs
    BY <2>1 DEF Pairs
  <2> QED BY <1>11, <2>2 DEF Change
<1>12. CASE SendKeys
  <2>1. [kind |-> "keys", keys |-> current, at |-> changes] \in Replies
    BY DEF Replies
  <2> QED BY <1>12, <2>1 DEF SendKeys
<1>13. CASE RefuseHpb
  BY <1>13 DEF RefuseHpb, Replies
<1>14. CASE AnswerOpen
  <2>1. PICK kind \in {"opened", "stale", "other"} :
            reply' = [kind |-> kind, signer |-> current["X002"].key]
    BY <1>14 DEF AnswerOpen
  <2>2. reply' \in Replies
    BY <2>1, PairShape DEF Replies, Roles
  <2> QED BY <1>14, <2>2 DEF AnswerOpen
<1>15. CASE AnswerStep
  <2>1. PICK kind \in {"opened", "other"}, signer \in {using["X002"].key, current["X002"].key} :
            reply' = [kind |-> kind, signer |-> signer]
    BY <1>15 DEF AnswerStep
  <2>2. using \in Pairs
    BY <1>15 DEF AnswerStep, CallInOrder
  <2>3. signer \in Keys
    BY <2>1, <2>2, PairShape DEF Roles
  <2>4. reply' \in Replies
    BY <2>1, <2>3 DEF Replies
  <2> QED BY <1>15, <2>4 DEF AnswerStep
<1> QED BY <1>1, <1>2, <1>3, <1>4, <1>5, <1>6, <1>7, <1>8, <1>9, <1>10, <1>11, <1>12, <1>13,
           <1>14, <1>15 DEF Next

\* What the operator and the bank's changes leave as it is.
LEMMA OutsideStep ==
    ASSUME BankKeysInvariant, TypeOK', PinHeld \/ PinPublished \/ Unpin \/ Change
    PROVE  BankKeysInvariant'
<1> USE DEF BankKeysInvariant, bank, operator, store, call
<1>1. CASE PinHeld
  <2>1. PinsInOrder'
    BY <1>1, PairShape, BankKeysAssumption
    DEF PinHeld, PinsInOrder, BankKeyHashes, Forms, TypeOK, Hashes
  <2>2. StoreInOrder' /\ CallInOrder' /\ ReplyInOrder'
    BY <1>1 DEF PinHeld, StoreInOrder, CallInOrder, ReplyInOrder, Authenticated
  <2>3. HeldKeysVouched' /\ HeldIsOneAnswer' /\ TroubleOnlyAfterChange'
    BY <1>1 DEF PinHeld, HeldKeysVouched, HeldIsOneAnswer, TroubleOnlyAfterChange
  <2> QED BY <2>1, <2>2, <2>3
<1>2. CASE PinPublished
  <2>1. PinsInOrder'
    BY <1>2, PairShape, BankKeysAssumption
    DEF PinPublished, PinsInOrder, Name, Forms, TypeOK, Hashes
  <2>2. StoreInOrder' /\ CallInOrder' /\ ReplyInOrder'
    BY <1>2 DEF PinPublished, StoreInOrder, CallInOrder, ReplyInOrder, Authenticated
  <2>3. HeldKeysVouched' /\ HeldIsOneAnswer' /\ TroubleOnlyAfterChange'
    BY <1>2 DEF PinPublished, HeldKeysVouched, HeldIsOneAnswer, TroubleOnlyAfterChange
  <2> QED BY <2>1, <2>2, <2>3
<1>3. CASE Unpin
  <2>1. PinsInOrder' /\ StoreInOrder' /\ CallInOrder' /\ ReplyInOrder'
    BY <1>3 DEF Unpin, PinsInOrder, StoreInOrder, CallInOrder, ReplyInOrder, Authenticated
  <2>2. HeldKeysVouched' /\ HeldIsOneAnswer' /\ TroubleOnlyAfterChange'
    BY <1>3 DEF Unpin, HeldKeysVouched, HeldIsOneAnswer, TroubleOnlyAfterChange
  <2> QED BY <2>1, <2>2
<1>4. CASE Change
  <2>1. changes' = changes + 1 /\ changes \in Nat /\ heldAt \in Nat
    BY <1>4, BankKeysAssumption DEF Change, TypeOK
  <2>2. UNCHANGED <<sent, operator, verifier, store, call>>
    BY <1>4 DEF Change
  <2>3. PinsInOrder' /\ CallInOrder'
    BY <2>2 DEF PinsInOrder, CallInOrder
  <2>4. StoreInOrder' /\ changes' # heldAt'
    BY <2>1, <2>2 DEF StoreInOrder
  <2>5. ReplyInOrder'
    BY <2>1, <2>2, <2>4, ReplyShapes DEF ReplyInOrder, TypeOK
  <2>6. HeldKeysVouched' /\ HeldIsOneAnswer' /\ TroubleOnlyAfterChange'
    BY <2>1, <2>2 DEF HeldKeysVouched, HeldIsOneAnswer, TroubleOnlyAfterChange
  <2> QED BY <2>3, <2>4, <2>5, <2>6
<1> QED BY <1>1, <1>2, <1>3, <1>4

\* An HPB: what is stored has passed every check, for both keys.
LEMMA HpbStep ==
    ASSUME BankKeysInvariant, TypeOK', Hpb \/ HpbReturns \/ HpbRejects \/ HpbRefused
    PROVE  BankKeysInvariant'
<1> USE DEF BankKeysInvariant, bank, operator, store, call, EndHpb, NoReply
<1>1. CASE Hpb
  <2>1. PinsInOrder' /\ StoreInOrder' /\ CallInOrder'
    BY <1>1 DEF Hpb, Idle, PinsInOrder, StoreInOrder, CallInOrder
  <2>2. ReplyInOrder'
    BY <1>1 DEF Hpb, Idle, ReplyInOrder
  <2>3. HeldKeysVouched' /\ HeldIsOneAnswer' /\ TroubleOnlyAfterChange'
    BY <1>1 DEF Hpb, HeldKeysVouched, HeldIsOneAnswer, TroubleOnlyAfterChange
  <2> QED BY <2>1, <2>2, <2>3
<1>2. CASE HpbReturns
  <2>1. reply.keys \in Pairs
    BY <1>2, ReplyShapes DEF HpbReturns, TypeOK
  <2>2. PinsInOrder' /\ CallInOrder' /\ ReplyInOrder'
    BY <1>2 DEF HpbReturns, PinsInOrder, CallInOrder, ReplyInOrder
  <2>3. StoreInOrder'
    BY <1>2 DEF HpbReturns, ReplyInOrder, StoreInOrder
  <2>4. HeldIsOneAnswer' /\ TroubleOnlyAfterChange'
    BY <1>2 DEF HpbReturns, ReplyInOrder, HeldIsOneAnswer, TroubleOnlyAfterChange
  <2>5. HeldKeysVouched'
    BY <1>2 DEF HpbReturns, HeldKeysVouched, AllReadable, Readable, Verifies, AllMatch, MatchesPin
  <2> QED BY <2>2, <2>3, <2>4, <2>5
<1>3. CASE HpbRejects
  <2>1. PinsInOrder' /\ StoreInOrder' /\ CallInOrder' /\ ReplyInOrder'
    BY <1>3 DEF HpbRejects, KeepStore, PinsInOrder, StoreInOrder, CallInOrder, ReplyInOrder
  <2>2. HeldKeysVouched' /\ HeldIsOneAnswer' /\ TroubleOnlyAfterChange'
    BY <1>3 DEF HpbRejects, KeepStore, HeldKeysVouched, HeldIsOneAnswer, TroubleOnlyAfterChange
  <2> QED BY <2>1, <2>2
<1>4. CASE HpbRefused
  <2>1. PinsInOrder' /\ StoreInOrder' /\ CallInOrder' /\ ReplyInOrder'
    BY <1>4 DEF HpbRefused, PinsInOrder, StoreInOrder, CallInOrder, ReplyInOrder
  <2>2. HeldKeysVouched' /\ HeldIsOneAnswer' /\ TroubleOnlyAfterChange'
    BY <1>4 DEF HpbRefused, HeldKeysVouched, HeldIsOneAnswer, TroubleOnlyAfterChange
  <2> QED BY <2>1, <2>2
<1> QED BY <1>1, <1>2, <1>3, <1>4

\* The client's own steps within a transaction, and its restart.
LEMMA CallStep ==
    ASSUME BankKeysInvariant, TypeOK',
           Open \/ Answered \/ Step \/ Finish \/ ExchangeFails \/ Restart
    PROVE  BankKeysInvariant'
<1> USE DEF BankKeysInvariant, bank, operator, store, call, EndCall, NoReply
<1>1. CASE Open
  <2>1. PinsInOrder' /\ StoreInOrder' /\ CallInOrder'
    BY <1>1 DEF Open, Idle, PinsInOrder, StoreInOrder, CallInOrder
  <2>2. ReplyInOrder'
    BY <1>1 DEF Open, Idle, ReplyInOrder
  <2>3. HeldKeysVouched' /\ HeldIsOneAnswer' /\ TroubleOnlyAfterChange'
    BY <1>1 DEF Open, HeldKeysVouched, HeldIsOneAnswer, TroubleOnlyAfterChange
  <2> QED BY <2>1, <2>2, <2>3
<1>2. CASE Answered
  <2>1. UNCHANGED <<bank, operator, verifier, store>>
    BY <1>2 DEF Answered
  <2>2. PinsInOrder' /\ StoreInOrder'
    BY <2>1 DEF PinsInOrder, StoreInOrder
  <2>3. CallInOrder' /\ ReplyInOrder'
    BY <1>2, <2>1 DEF Answered, CallInOrder, ReplyInOrder
  <2>4. HeldKeysVouched' /\ HeldIsOneAnswer'
    BY <2>1 DEF HeldKeysVouched, HeldIsOneAnswer
  <2>5. TroubleOnlyAfterChange'
    <3>1. SUFFICES ASSUME result' \in {"stale", "unauthenticated"}
                   PROVE  changes # heldAt
      BY <2>1 DEF TroubleOnlyAfterChange, StoreInOrder, TypeOK
    <3>2. ~Authenticated \/ reply.kind = "stale"
      BY <1>2, <3>1 DEF Answered
    <3> QED BY <1>2, <3>2 DEF Answered, ReplyInOrder
  <2> QED BY <2>2, <2>3, <2>4, <2>5
<1>3. CASE Step \/ Finish
  <2>1. PinsInOrder' /\ StoreInOrder' /\ CallInOrder'
    BY <1>3 DEF Step, Finish, PinsInOrder, StoreInOrder, CallInOrder
  <2>2. ReplyInOrder'
    BY <1>3 DEF Step, Finish, ReplyInOrder
  <2>3. HeldKeysVouched' /\ HeldIsOneAnswer' /\ TroubleOnlyAfterChange'
    BY <1>3 DEF Step, Finish, HeldKeysVouched, HeldIsOneAnswer, TroubleOnlyAfterChange
  <2> QED BY <2>1, <2>2, <2>3
<1>4. CASE ExchangeFails
  <2>1. PinsInOrder' /\ StoreInOrder' /\ CallInOrder' /\ ReplyInOrder'
    BY <1>4 DEF ExchangeFails, PinsInOrder, StoreInOrder, CallInOrder, ReplyInOrder
  <2>2. HeldKeysVouched' /\ HeldIsOneAnswer' /\ TroubleOnlyAfterChange'
    BY <1>4 DEF ExchangeFails, HeldKeysVouched, HeldIsOneAnswer, TroubleOnlyAfterChange
  <2> QED BY <2>1, <2>2
<1>5. CASE Restart
  <2>1. changes \in Nat /\ heldAt \in Nat /\ heldAt' = 0 /\ held' = None
    BY <1>5, BankKeysAssumption DEF Restart, TypeOK
  <2>2. UNCHANGED <<bank, operator, verifier, call>> /\ request = "none" /\ using = None
    BY <1>5 DEF Restart, Idle
  <2>3. PinsInOrder' /\ StoreInOrder' /\ CallInOrder' /\ ReplyInOrder'
    BY <2>1, <2>2 DEF PinsInOrder, StoreInOrder, CallInOrder, ReplyInOrder
  <2>4. HeldKeysVouched' /\ HeldIsOneAnswer'
    BY <2>1 DEF HeldKeysVouched, HeldIsOneAnswer
  <2>5. TroubleOnlyAfterChange'
    BY <2>1, <2>2 DEF TroubleOnlyAfterChange
  <2> QED BY <2>3, <2>4, <2>5
<1> QED BY <1>1, <1>2, <1>3, <1>4, <1>5

\* Keys held since the bank's last change are the bank's own: it finds them named in the
\* request, and signs with the one the client verifies with.
LEMMA UnchangedBankAgrees ==
    ASSUME BankKeysInvariant, using # None, changes = heldAt
    PROVE  NamesCurrent /\ using["X002"].key = current["X002"].key
<1>1. using = current
  BY DEF BankKeysInvariant, CallInOrder, StoreInOrder
<1> QED BY <1>1 DEF NamesCurrent, Digests, Digest, Name

\* The bank's answers.
LEMMA BankStep ==
    ASSUME BankKeysInvariant, TypeOK', SendKeys \/ RefuseHpb \/ AnswerOpen \/ AnswerStep
    PROVE  BankKeysInvariant'
<1> USE DEF BankKeysInvariant, bank, operator, store, call
<1>1. CASE SendKeys
  <2>1. changes \in Nat
    BY BankKeysAssumption DEF TypeOK
  <2>2. PinsInOrder' /\ StoreInOrder' /\ CallInOrder'
    BY <1>1 DEF SendKeys, PinsInOrder, StoreInOrder, CallInOrder
  <2>3. ReplyInOrder'
    BY <1>1, <2>1 DEF SendKeys, ReplyInOrder
  <2>4. HeldKeysVouched' /\ HeldIsOneAnswer' /\ TroubleOnlyAfterChange'
    BY <1>1 DEF SendKeys, HeldKeysVouched, HeldIsOneAnswer, TroubleOnlyAfterChange
  <2> QED BY <2>2, <2>3, <2>4
<1>2. CASE RefuseHpb
  <2>1. PinsInOrder' /\ StoreInOrder' /\ CallInOrder' /\ ReplyInOrder'
    BY <1>2 DEF RefuseHpb, PinsInOrder, StoreInOrder, CallInOrder, ReplyInOrder
  <2>2. HeldKeysVouched' /\ HeldIsOneAnswer' /\ TroubleOnlyAfterChange'
    BY <1>2 DEF RefuseHpb, HeldKeysVouched, HeldIsOneAnswer, TroubleOnlyAfterChange
  <2> QED BY <2>1, <2>2
<1>3. CASE AnswerOpen
  <2>1. UNCHANGED <<bank, operator, verifier, store, using, request, result>> /\ request = "open"
    BY <1>3 DEF AnswerOpen
  <2>2. PICK kind \in {IF NamesCurrent THEN "opened" ELSE "stale", "other"} :
            reply' = [kind |-> kind, signer |-> current["X002"].key]
    BY <1>3 DEF AnswerOpen
  <2>3. using # None
    BY <2>1 DEF CallInOrder
  <2>4. changes = heldAt => kind # "stale" /\ current["X002"].key = using["X002"].key
    BY <2>2, <2>3, UnchangedBankAgrees
  <2>5. ReplyInOrder'
    BY <2>1, <2>2, <2>4 DEF ReplyInOrder, Authenticated
  <2>6. PinsInOrder' /\ StoreInOrder' /\ CallInOrder'
    BY <2>1 DEF PinsInOrder, StoreInOrder, CallInOrder
  <2>7. HeldKeysVouched' /\ HeldIsOneAnswer' /\ TroubleOnlyAfterChange'
    BY <2>1 DEF HeldKeysVouched, HeldIsOneAnswer, TroubleOnlyAfterChange
  <2> QED BY <2>5, <2>6, <2>7
<1>4. CASE AnswerStep
  <2>1. UNCHANGED <<bank, operator, verifier, store, using, request, result>> /\ request = "step"
    BY <1>4 DEF AnswerStep
  <2>2. PICK kind \in {"opened", "other"}, signer \in {using["X002"].key, current["X002"].key} :
            reply' = [kind |-> kind, signer |-> signer]
    BY <1>4 DEF AnswerStep
  <2>3. using # None
    BY <2>1 DEF CallInOrder
  <2>4. changes = heldAt => signer = using["X002"].key
    BY <2>2, <2>3, UnchangedBankAgrees
  <2>5. ReplyInOrder'
    BY <2>1, <2>2, <2>4 DEF ReplyInOrder, Authenticated
  <2>6. PinsInOrder' /\ StoreInOrder' /\ CallInOrder'
    BY <2>1 DEF PinsInOrder, StoreInOrder, CallInOrder
  <2>7. HeldKeysVouched' /\ HeldIsOneAnswer' /\ TroubleOnlyAfterChange'
    BY <2>1 DEF HeldKeysVouched, HeldIsOneAnswer, TroubleOnlyAfterChange
  <2> QED BY <2>5, <2>6, <2>7
<1> QED BY <1>1, <1>2, <1>3, <1>4

\* A step that changes nothing.
LEMMA StutterStep == BankKeysInvariant /\ UNCHANGED vars => BankKeysInvariant'
  BY DEF BankKeysInvariant, vars, bank, operator, store, call, TypeOK, PinsInOrder, StoreInOrder,
         CallInOrder, ReplyInOrder, Authenticated, HeldKeysVouched, HeldIsOneAnswer,
         TroubleOnlyAfterChange

\* What ties the keys held to the pins, the verifier, the answer they came in and the
\* bank's changes, in every state.
THEOREM BankKeysInvariantHolds == Spec => []BankKeysInvariant
<1>1. BankKeysInvariant /\ [Next]_vars => BankKeysInvariant'
  <2> SUFFICES ASSUME BankKeysInvariant, [Next]_vars
               PROVE  BankKeysInvariant'
    OBVIOUS
  <2>1. CASE Next
    <3>1. TypeOK'
      BY <2>1, TypeStep DEF BankKeysInvariant
    <3> QED BY <2>1, <3>1, OutsideStep, HpbStep, CallStep, BankStep DEF Next
  <2>2. CASE UNCHANGED vars
    BY <2>2, StutterStep
  <2> QED BY <2>1, <2>2
<1> QED BY <1>1, Initially, PTL DEF Spec

\* Client.hpb: both keys held have passed pins and verifier, whatever answers came before.
THEOREM HeldKeysAreVouched == Spec => []HeldKeysVouched
<1>1. BankKeysInvariant => HeldKeysVouched
  BY DEF BankKeysInvariant
<1> QED BY <1>1, BankKeysInvariantHolds, PTL

\* Client.hpb: the two keys held are never of two answers.
THEOREM HeldKeysAreOneAnswer == Spec => []HeldIsOneAnswer
<1>1. BankKeysInvariant => HeldIsOneAnswer
  BY DEF BankKeysInvariant
<1> QED BY <1>1, BankKeysInvariantHolds, PTL

\* _bank_key_digest and verify_response_signature: while the bank keeps its keys, no
\* request is refused for naming others and every answer verifies.
THEOREM NoTroubleWithoutChange == Spec => []TroubleOnlyAfterChange
<1>1. BankKeysInvariant => TroubleOnlyAfterChange
  BY DEF BankKeysInvariant
<1> QED BY <1>1, BankKeysInvariantHolds, PTL

\* _pinned_hash_matches: a key that is pinned by its own hash passes under any certificate.
THEOREM MismatchesMeanChange == Spec => MismatchMeansChange
<1>1. ASSUME BankKeysInvariant, Next
      PROVE  FoundedMismatch
  <2> SUFFICES ASSUME result = "none" /\ result' = "mismatch"
               PROVE  \E r \in Roles : \/ pinned[r].key # reply.keys[r].key
                                       \/ /\ pins[r] # pinned[r].key
                                          /\ pinned[r].certificate # reply.keys[r].certificate
    BY DEF FoundedMismatch
  <2>1. HpbRejects /\ ~AllMatch(reply.keys)
    <3> USE <1>1
    <3>1. ~Hpb /\ ~HpbReturns /\ ~HpbRefused /\ ~Open /\ ~Step /\ ~Finish
      BY DEF Hpb, HpbReturns, HpbRefused, EndHpb, Open, Step, Finish
    <3>2. ~ExchangeFails /\ ~Restart /\ ~PinHeld /\ ~PinPublished /\ ~Unpin /\ ~Change
      BY DEF ExchangeFails, EndCall, Restart, PinHeld, PinPublished, Unpin, Change, call
    <3>3. ~SendKeys /\ ~RefuseHpb /\ ~AnswerOpen /\ ~AnswerStep
      BY DEF SendKeys, RefuseHpb, AnswerOpen, AnswerStep
    <3>4. ~Answered
      BY DEF Answered, EndCall
    <3>5. HpbRejects
      BY <3>1, <3>2, <3>3, <3>4 DEF Next
    <3> QED BY <3>5 DEF HpbRejects, EndHpb
  <2>2. PICK r \in Roles : pins # None /\ pins[r] \notin Forms(reply.keys[r])
    BY <2>1 DEF AllMatch, MatchesPin
  <2>3. pins[r] \in Forms(pinned[r])
    BY <1>1, <2>2 DEF BankKeysInvariant, PinsInOrder
  <2>4. reply.keys \in Pairs /\ pinned \in Pairs /\ pins \in Pins
    BY <1>1, <2>1, <2>2, ReplyShapes DEF BankKeysInvariant, TypeOK, HpbRejects
  <2>5. reply.keys[r].key # None
    BY <2>4, PairShape, BankKeysAssumption DEF Hashes
  <2>6. CASE pins[r] = pinned[r].key
    BY <2>2, <2>5, <2>6 DEF Forms
  <2>7. CASE pins[r] # pinned[r].key
    BY <2>2, <2>3, <2>7 DEF Forms
  <2> QED BY <2>6, <2>7
<1>2. BankKeysInvariant /\ [Next]_vars => [FoundedMismatch]_vars
  BY <1>1
<1> QED BY <1>2, BankKeysInvariantHolds, PTL DEF Spec, MismatchMeansChange
=============================================================================
