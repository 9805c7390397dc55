------------------------ MODULE SubscriberKeysProofs ------------------------
(***************************************************************************)
(* The subscriber's keys, from the first keyring to its suspension: proofs *)
(* about Onboarding, about KeyChange (which keys a change replaces) and    *)
(* about KeyringFile (the file they are kept in). The three components     *)
(* share no state; each has a section.                                     *)
(***************************************************************************)
EXTENDS Onboarding, KeyChange, KeyringFile, TLAPS

-----------------------------------------------------------------------------
(***************************************************************************)
(* Onboarding, for any number of keyrings. The invariant follows the       *)
(* ceremony backwards: suspended keys stay out because no letters for them *)
(* can exist any more, letters are right because the notes are, and a note *)
(* is right because of what the bank did before it gave the answer the     *)
(* note was taken from.                                                    *)
(***************************************************************************)

USE DEF Idle, NoRequest, None, KeyOrders, States

\* The subscriber is not known to anybody at the start.
LEMMA Initially == Init => OnboardingInvariant
  BY OnboardingAssumption
  DEF Init, OnboardingInvariant, TypeOK, Replies, AnswerIsTrue, NotesAreTrue, OutForGood,
      LettersMatch, KeysInHand, SuspensionHolds

\* Every step keeps the variables in their ranges.
LEMMA TypeStep == TypeOK /\ Next => TypeOK'
<1> SUFFICES ASSUME TypeOK, Next
             PROVE  TypeOK'
  OBVIOUS
<1> USE DEF TypeOK, Orders, Requests, Replies, exchange, bank, operator, Send, EndExchange,
            IniRequest, HiaRequest, HpbRequest, SuspensionRequest
<1>1. CASE Generate
  BY <1>1, OnboardingAssumption DEF Generate, Generations
<1>2. CASE RemoveKeyring
  BY <1>2 DEF RemoveKeyring
<1>3. CASE PrintLetters
  BY <1>3 DEF PrintLetters
<1>4. CASE Reset
  BY <1>4 DEF Reset
<1>5. CASE Telephone
  BY <1>5 DEF Telephone
<1>6. CASE SubmitKeys
  BY <1>6 DEF SubmitKeys
<1>7. CASE RequestBankKeys
  BY <1>7 DEF RequestBankKeys
<1>8. CASE Suspend
  BY <1>8 DEF Suspend
<1>9. CASE KeysSubmitted
  BY <1>9 DEF KeysSubmitted
<1>10. CASE BankKeysReceived
  BY <1>10 DEF BankKeysReceived
<1>11. CASE SuspendReturns
  BY <1>11 DEF SuspendReturns
<1>12. CASE NotDone
  BY <1>12 DEF NotDone
<1>13. CASE ExchangeFails
  BY <1>13 DEF ExchangeFails
<1>14. CASE Restart
  BY <1>14 DEF Restart
<1>15. CASE BankTakes
  BY <1>15 DEF BankTakes, Waiting, Take, TakeIni, TakeHia, TakeSuspension
<1>16. CASE BankSendsKeys
  BY <1>16 DEF BankSendsKeys
<1>17. CASE BankRefuses
  BY <1>17 DEF BankRefuses
<1>18. CASE LateRequestArrives
  BY <1>18 DEF LateRequestArrives, Take, TakeIni, TakeHia, TakeSuspension
<1>19. CASE Activate
  BY <1>19 DEF Activate
<1> QED BY <1>1, <1>2, <1>3, <1>4, <1>5, <1>6, <1>7, <1>8, <1>9, <1>10, <1>11, <1>12, <1>13,
           <1>14, <1>15, <1>16, <1>17, <1>18, <1>19 DEF Next, Client, Bank

\* What the operator does between two exchanges.
LEMMA OperatorStep ==
    ASSUME OnboardingInvariant,
           Generate \/ RemoveKeyring \/ PrintLetters \/ Reset \/ Telephone
    PROVE  OnboardingInvariant'
<1> USE DEF OnboardingInvariant, TypeOK, Generations, Replies, AnswerIsTrue, NotesAreTrue,
            OutForGood, LettersMatch, LettersCorrect, KeysInHand, SuspensionHolds, Accepts,
            exchange, bank
<1>1. CASE Generate
  BY <1>1, OnboardingAssumption DEF Generate, NoKeyringFile
<1>2. CASE RemoveKeyring
  BY <1>2 DEF RemoveKeyring
<1>3. CASE PrintLetters
  BY <1>3 DEF PrintLetters
<1>4. CASE Reset
  BY <1>4 DEF Reset
<1>5. CASE Telephone
  BY <1>5 DEF Telephone
<1> QED BY <1>1, <1>2, <1>3, <1>4, <1>5

\* What the client does: it sends, and it reads the answer or gives up.
LEMMA ClientStep ==
    ASSUME OnboardingInvariant, Client
    PROVE  OnboardingInvariant'
<1> USE DEF OnboardingInvariant, TypeOK, Generations, Orders, Requests, Replies, AnswerIsTrue,
            NotesAreTrue, OutForGood, LettersMatch, LettersCorrect, KeysInHand,
            SuspensionHolds, Accepts, exchange, bank, operator, Send, EndExchange,
            IniRequest, HiaRequest, HpbRequest, SuspensionRequest
<1>1. CASE SubmitKeys
  BY <1>1 DEF SubmitKeys
<1>2. CASE RequestBankKeys
  BY <1>2 DEF RequestBankKeys
<1>3. CASE Suspend
  BY <1>3 DEF Suspend
<1>4. CASE KeysSubmitted
  BY <1>4 DEF KeysSubmitted, Submitted
<1>5. CASE BankKeysReceived
  BY <1>5 DEF BankKeysReceived
<1>6. CASE SuspendReturns
  BY <1>6 DEF SuspendReturns, SuspensionConfirmed
<1>7. CASE NotDone
  BY <1>7 DEF NotDone
<1>8. CASE ExchangeFails
  BY <1>8 DEF ExchangeFails
<1>9. CASE Restart
  BY <1>9 DEF Restart
<1> QED BY <1>1, <1>2, <1>3, <1>4, <1>5, <1>6, <1>7, <1>8, <1>9 DEF Client

\* What the bank does, with the request that waits and with late ones.
LEMMA BankStep ==
    ASSUME OnboardingInvariant, Bank
    PROVE  OnboardingInvariant'
<1> USE DEF OnboardingInvariant, TypeOK, Generations, Orders, Requests, Replies, AnswerIsTrue,
            NotesAreTrue, OutForGood, LettersMatch, LettersCorrect, KeysInHand,
            SuspensionHolds, Accepts, bank, operator, Take, TakeIni, TakeHia, TakeSuspension,
            Waiting
<1>1. CASE BankTakes
  BY <1>1 DEF BankTakes
<1>2. CASE BankSendsKeys
  BY <1>2 DEF BankSendsKeys
<1>3. CASE BankRefuses
  BY <1>3 DEF BankRefuses
<1>4. CASE LateRequestArrives
  BY <1>4 DEF LateRequestArrives
<1>5. CASE Activate
  <2>1. TypeOK'
    BY <1>5, TypeStep DEF Next, Bank
  <2>2. /\ state' = "Ready" /\ letter' = None /\ confirmed' = {}
        /\ bankIni' = letter /\ bankHia' = letter /\ letter # None
        /\ UNCHANGED <<stored, suspect, suspended, request, reply>>
    BY <1>5 DEF Activate, exchange
  <2>3. AnswerIsTrue'
    <3>1. ASSUME request.order = "SPR", reply = "ok"
          PROVE  letter # stored /\ stored # None
      <4>1. request \in Requests
        BY <3>1
      <4> QED BY <3>1, <4>1
    <3> QED BY <3>1, <2>2
  <2> QED BY <2>1, <2>2, <2>3
<1> QED BY <1>1, <1>2, <1>3, <1>4, <1>5 DEF Bank

\* The inductive invariant of a subscriber's life, for any number of keyrings.
THEOREM OnboardingInvariantHolds == Spec => []OnboardingInvariant
<1>1. Init => OnboardingInvariant
  BY Initially
<1>2. OnboardingInvariant /\ [Next]_vars => OnboardingInvariant'
  <2> SUFFICES ASSUME OnboardingInvariant, [Next]_vars
               PROVE  OnboardingInvariant'
    OBVIOUS
  <2>1. CASE Next
    BY <2>1, OperatorStep, ClientStep, BankStep DEF Next
  <2>2. CASE UNCHANGED vars
    BY <2>2 DEF vars, operator, exchange, bank, OnboardingInvariant, TypeOK, Replies,
                AnswerIsTrue, NotesAreTrue, OutForGood, LettersMatch, LettersCorrect,
                KeysInHand, SuspensionHolds, Accepts, Requests, Orders
  <2> QED BY <2>1, <2>2
<1> QED BY <1>1, <1>2, PTL DEF Spec

\* Letters printed by the rule of docs/05 are those of the keys the bank holds.
THEOREM LettersAreRight == Spec => []LettersMatch
<1>1. OnboardingInvariant => LettersMatch
  BY DEF OnboardingInvariant
<1> QED BY <1>1, OnboardingInvariantHolds, PTL

\* The ceremony never loses the keys of an active subscriber.
THEOREM KeysAreInHand == Spec => []KeysInHand
<1>1. OnboardingInvariant => KeysInHand
  BY DEF OnboardingInvariant
<1> QED BY <1>1, OnboardingInvariantHolds, PTL

\* Suspended keys are never accepted again.
THEOREM SuspensionIsFinal == Spec => []SuspensionHolds
<1>1. OnboardingInvariant => SuspensionHolds
  BY DEF OnboardingInvariant
<1> QED BY <1>1, OnboardingInvariantHolds, PTL

HIDE DEF Idle, NoRequest, None, KeyOrders, States

-----------------------------------------------------------------------------
(***************************************************************************)
(* KeyChange, for every set of keys: the client and the bank never         *)
(* disagree about a keyring but by the outcome of one change, and no key   *)
(* is reused. The heart of it is SuccessorReplaces: for a successor that   *)
(* passed validate_key_change, the bank that replaces the announced keys   *)
(* holds exactly the successor.                                            *)
(***************************************************************************)

\* The keys an order type announces are the ones its validation covers.
LEMMA AnnouncedIsRotated ==
    ASSUME NEW rotation \in Rotations
    PROVE  Announced(rotation) = Rotated(rotation) /\ Rotated(rotation) \subseteq Roles
  BY DEF Announced, Rotated, Rotations, Roles

\* A bank that holds the client's keys holds the successor after replacing the announced
\* ones, because validate_key_change requires the others to be the same.
LEMMA SuccessorReplaces ==
    ASSUME NEW new \in Keyrings, NEW rotation \in Rotations, client \in Keyrings,
           accepted = client, ValidKeyChange(client, new, rotation)
    PROVE  Replaced(new, rotation) = new
  <1>1. ASSUME NEW role \in Roles PROVE Replaced(new, rotation)[role] = new[role]
    BY AnnouncedIsRotated DEF Replaced, ValidKeyChange, KeptKey
  <1> QED
    BY <1>1 DEF Replaced, Keyrings

\* A successor that passed validate_key_change is as sound as the current keyring.
LEMMA SuccessorSound ==
    ASSUME NEW new \in Keyrings, NEW rotation \in Rotations, Sound(client),
           ValidKeyChange(client, new, rotation)
    PROVE  Sound(new)
  <1>1. ASSUME NEW role \in Roles PROVE new[role] \in StrongKeys
    BY <1>1, AnnouncedIsRotated DEF ValidKeyChange, KeptKey, Sound
  <1> QED
    BY <1>1 DEF Sound, ValidKeyChange

\* What rotate_keyring makes of a sound keyring and new keys passes validate_key_change.
LEMMA RotationPasses ==
    ASSUME NEW keyring \in Keyrings, Sound(keyring), NEW rotation \in Rotations,
           NEW fresh \in [Roles -> StrongKeys \ Range(keyring)], IsInjective(fresh)
    PROVE  ValidKeyChange(keyring, RotateKeyring(keyring, rotation, fresh), rotation)
  <1> DEFINE new == RotateKeyring(keyring, rotation, fresh)
  <1>1. ASSUME NEW role \in Roles
        PROVE  new[role] = IF role \in Rotated(rotation) THEN fresh[role] ELSE keyring[role]
    BY DEF RotateKeyring
  <1>2. ASSUME NEW role \in Roles PROVE keyring[role] \in Range(keyring)
    BY DEF Range, Keyrings
  <1>3. OneKeyPerRole(new)
    <2>1. DOMAIN new = Roles /\ DOMAIN keyring = Roles /\ DOMAIN fresh = Roles
      BY DEF RotateKeyring, Keyrings
    <2>2. ASSUME NEW a \in Roles, NEW b \in Roles, new[a] = new[b] PROVE a = b
      BY <1>1, <1>2, <2>1, <2>2 DEF Sound, OneKeyPerRole, IsInjective
    <2> QED
      BY <2>1, <2>2 DEF OneKeyPerRole, IsInjective
  <1>4. ASSUME NEW role \in Rotated(rotation)
        PROVE  NewKey(keyring, new[role], role) /\ new[role] \in StrongKeys
    BY <1>1, <1>4, AnnouncedIsRotated DEF NewKey
  <1>5. ASSUME NEW role \in Roles \ Rotated(rotation)
        PROVE  KeptKey(keyring, new[role], role)
    BY <1>1, <1>5 DEF KeptKey
  <1> QED
    BY <1>3, <1>4, <1>5 DEF ValidKeyChange

\* The client, its successor and the bank start with one sound keyring.
LEMMA ChangeInitially == ChangeInit => KeyChangeInvariant
  BY KeysAssumption
  DEF ChangeInit, KeyChangeInvariant, ChangeTypeOK, WholeKeyring, Sound, Keyrings, Results

\* However a change ends, the invariant is preserved.
LEMMA ChangeInvariant ==
    ASSUME KeyChangeInvariant, ChangeKeys
    PROVE  (ChangeTypeOK /\ WholeKeyring /\ Sound(client) /\ Sound(successor))'
  <1>1. PICK new \in Keyrings, rotation \in Rotations :
            \/ Refused(new, rotation)
            \/ Confirmed(new, rotation)
            \/ Rejected(new, rotation)
            \/ Unconfirmed(new, rotation)
    BY DEF ChangeKeys
  <1>2. accepted = client /\ client \in Keyrings /\ successor \in Keyrings
    BY DEF ChangeKeys, KeyChangeInvariant, WholeKeyring, ChangeTypeOK
  <1>3. CASE Refused(new, rotation)
    BY <1>2, <1>3 DEF Refused, KeyChangeInvariant, ChangeTypeOK, WholeKeyring, Sound, Results
  <1>4. CASE ~Refused(new, rotation)
    <2>1. ValidKeyChange(client, new, rotation)
      BY <1>1, <1>4 DEF Confirmed, Rejected, Unconfirmed
    <2>2. Replaced(new, rotation) = new /\ Sound(new)
      BY <1>2, <2>1, SuccessorReplaces, SuccessorSound DEF KeyChangeInvariant
    <2>3. /\ successor' = new
          /\ client' \in {client, new}
          /\ accepted' \in {client, new}
          /\ result' \in Results
          /\ result' # "unconfirmed" => accepted' = client'
          /\ accepted' # new => accepted' = client'
      BY <1>1, <1>2, <1>4, <2>2 DEF Confirmed, Rejected, Unconfirmed, Results
    <2>4. ChangeTypeOK'
      BY <1>2, <2>3 DEF ChangeTypeOK
    <2>5. WholeKeyring'
      BY <2>3 DEF WholeKeyring
    <2>6. Sound(client)' /\ Sound(successor)'
      BY <2>2, <2>3 DEF KeyChangeInvariant, Sound
    <2> QED
      BY <2>4, <2>5, <2>6
  <1> QED
    BY <1>3, <1>4

\* KeyChangeInvariant is inductive.
LEMMA ChangeStep ==
    ASSUME KeyChangeInvariant, [ChangeNext]_changeVars
    PROVE  KeyChangeInvariant'
  <1>1. ASSUME Establish PROVE (ChangeTypeOK /\ WholeKeyring /\ Sound(client) /\ Sound(successor))'
    BY <1>1 DEF Establish, KeyChangeInvariant, ChangeTypeOK, WholeKeyring, Sound, Results
  <1>2. ASSUME UNCHANGED changeVars
        PROVE  (ChangeTypeOK /\ WholeKeyring /\ Sound(client) /\ Sound(successor))'
    BY <1>2 DEF changeVars, KeyChangeInvariant, ChangeTypeOK, WholeKeyring, Sound
  <1> QED
    BY <1>1, <1>2, ChangeInvariant DEF ChangeNext, KeyChangeInvariant

-----------------------------------------------------------------------------
(***************************************************************************)
(* Theorems                                                                *)
(***************************************************************************)

\* The key-change invariant holds throughout, whatever the caller passes to change_keys.
THEOREM KeyChangeInvariantHolds == ChangeSpec => []KeyChangeInvariant
  <1>1. KeyChangeInvariant /\ [ChangeNext]_changeVars => KeyChangeInvariant'
    BY ChangeStep
  <1> QED
    BY ChangeInitially, <1>1, PTL DEF ChangeSpec

\* The bank holds one keyring of the caller's as a whole (validate_key_change).
THEOREM BankHoldsWholeKeyring == ChangeSpec => []WholeKeyring
  <1>1. KeyChangeInvariant => WholeKeyring
    BY DEF KeyChangeInvariant
  <1> QED
    BY <1>1, KeyChangeInvariantHolds, PTL

\* The bank's keys are strong and each has one role.
THEOREM BankKeysAreSound == ChangeSpec => []BankKeysSound
  <1>1. KeyChangeInvariant => BankKeysSound
    BY DEF KeyChangeInvariant, WholeKeyring, BankKeysSound
  <1> QED
    BY <1>1, KeyChangeInvariantHolds, PTL

\* What rotate_keyring returns passes validate_key_change in every reachable state.
THEOREM RotationsAreValid == ChangeSpec => []RotationsPass(client)
  <1>1. KeyChangeInvariant => RotationsPass(client)
    BY RotationPasses DEF KeyChangeInvariant, ChangeTypeOK, RotationsPass
  <1> QED
    BY <1>1, KeyChangeInvariantHolds, PTL

\* No key the bank holds is moved to another role, and only keys that are new arrive.
THEOREM OnlyNewKeys == ChangeSpec => OnlyNewKeysArrive
  <1>1. ASSUME KeyChangeInvariant, [ChangeNext]_changeVars,
               NEW role \in Roles, accepted'[role] # accepted[role]
        PROVE  accepted'[role] \notin Range(accepted)
    <2>1. PICK new \in Keyrings, rotation \in Rotations :
              Confirmed(new, rotation) \/ Unconfirmed(new, rotation)
      BY <1>1 DEF ChangeNext, changeVars, ChangeKeys, Refused, Rejected, Establish
    <2>2. /\ ValidKeyChange(client, new, rotation)
          /\ accepted' = Replaced(new, rotation)
          /\ accepted = client
      BY <1>1, <2>1 DEF ChangeNext, changeVars, ChangeKeys, Establish, Confirmed, Unconfirmed,
                        KeyChangeInvariant, WholeKeyring
    <2>3. role \in Rotated(rotation) /\ accepted'[role] = new[role]
      BY <1>1, <2>2, AnnouncedIsRotated DEF Replaced
    <2> QED
      BY <2>2, <2>3 DEF ValidKeyChange, NewKey
  <1>2. KeyChangeInvariant /\ [ChangeNext]_changeVars =>
            [\A role \in Roles : accepted'[role] # accepted[role] => accepted'[role] \notin Range(accepted)]_changeVars
    BY <1>1
  <1> QED
    BY KeyChangeInvariantHolds, <1>2, PTL DEF ChangeSpec, OnlyNewKeysArrive

-----------------------------------------------------------------------------
(***************************************************************************)
(* KeyringFile, for any number of saves and of passphrases: what           *)
(* save_keyring and load_keyring promise follows from one invariant.       *)
(***************************************************************************)

\* The file system starts with a complete keyring under the path.
LEMMA FileInitially == FileInit => KeyringFileInvariant
<1>1. FileInit => FileTypeOK
  <2>1. 0 \in Versions
    BY SavesAssumption DEF Versions
  <2> QED
    BY <2>1 DEF FileInit, FileTypeOK, Steps
<1> QED
  BY <1>1, SavesAssumption DEF FileInit, KeyringFileInvariant, NeverTruncated, ReturnedIsDurable, ErrorCleansUp

\* Every step of save_keyring, of the system beside it and of a failure preserves the
\* invariant.
LEMMA FileStep == KeyringFileInvariant /\ [FileNext]_fileVars => KeyringFileInvariant'
<1> SUFFICES ASSUME KeyringFileInvariant, [FileNext]_fileVars
             PROVE  KeyringFileInvariant'
  OBVIOUS
<1> USE SavesAssumption
        DEF KeyringFileInvariant, FileTypeOK, NeverTruncated, ReturnedIsDurable,
            ErrorCleansUp, Versions, Steps, keyrings, Over
<1>1. ASSUME NEW passphrase \in Passphrases \cup {Empty}, CreateTemporary(passphrase)
      PROVE  KeyringFileInvariant'
  <2>1. version + 1 \in Versions /\ passphrase \in Passphrases
    BY <1>1 DEF CreateTemporary, HasPassphrase
  <2>2. sealed' \in [Versions -> Passphrases]
    BY <1>1, <2>1 DEF CreateTemporary, SerializeKeyring
  <2>3. FileTypeOK'
    BY <1>1, <2>1, <2>2 DEF CreateTemporary
  <2>4. returned' <= version' /\ file' <= version' /\ named' <= version'
    BY <1>1 DEF CreateTemporary
  <2> QED
    BY <1>1, <2>3, <2>4 DEF CreateTemporary
<1>12. ASSUME NEW passphrase \in Passphrases \cup {Empty}, RefusePassphrase(passphrase)
       PROVE  KeyringFileInvariant'
  BY <1>12 DEF RefusePassphrase
<1>2. CASE Write
  BY <1>2 DEF Write
<1>3. CASE Sync
  BY <1>3 DEF Sync, SyncData
<1>4. CASE Replace
  <2>1. FileTypeOK'
    BY <1>4 DEF Replace
  <2>2. returned' <= version' /\ file' <= version' /\ named' <= version'
    BY <1>4 DEF Replace
  <2> QED
    BY <1>4, <2>1, <2>2 DEF Replace
<1>5. CASE WriteFails
  BY <1>5 DEF WriteFails, RemoveTemporary
<1>6. CASE SyncDirectory
  BY <1>6 DEF SyncDirectory, SyncEntry
<1>7. CASE FlushData
  BY <1>7 DEF FlushData
<1>8. CASE FlushDirectory
  BY <1>8 DEF FlushDirectory
<1>9. CASE ProcessDies
  BY <1>9 DEF ProcessDies
<1>10. CASE PowerFails
  BY <1>10 DEF PowerFails
<1>11. CASE UNCHANGED fileVars
  BY <1>11 DEF fileVars
<1> QED
  BY <1>1, <1>2, <1>3, <1>4, <1>5, <1>6, <1>7, <1>8, <1>9, <1>10, <1>11, <1>12
  DEF FileNext, Save

\* KeyringFileInvariant holds in every reachable state.
THEOREM FileInvariantHolds == FileSpec => []KeyringFileInvariant
  BY FileInitially, FileStep, PTL DEF FileSpec

\* The path never names a truncated keyring, not even after a power failure (the
\* docstring of save_keyring).
THEOREM PathNeverTruncated == FileSpec => []NeverTruncated
<1>1. KeyringFileInvariant => NeverTruncated
  BY DEF KeyringFileInvariant
<1> QED
  BY <1>1, FileInvariantHolds, PTL

\* No failure and no later save brings back a keyring older than the last one whose save
\* returned, on POSIX.
THEOREM SavedMeansDurable == FileSpec => []ReturnedIsDurable
<1>1. KeyringFileInvariant => ReturnedIsDurable
  BY DEF KeyringFileInvariant
<1> QED
  BY <1>1, FileInvariantHolds, PTL

\* The version the path names is whole and was sealed with a passphrase, so load_keyring
\* opens it with that one; and it is no older than the last save that returned.
LEMMA LoadsWhatIsNamed == KeyringFileInvariant => SavedKeyringLoads
<1> SUFFICES ASSUME KeyringFileInvariant, posix
             PROVE  \E v \in returned..version : LoadKeyring(sealed[v]) = {v}
  BY DEF SavedKeyringLoads
<1>1. file \in returned..version
  BY SavesAssumption DEF KeyringFileInvariant, FileTypeOK, Versions, ReturnedIsDurable
<1>2. sealed[file] \in Passphrases /\ file \in onDisk
  BY DEF KeyringFileInvariant, FileTypeOK, NeverTruncated
<1>3. LoadKeyring(sealed[file]) = {file}
  BY <1>2, SavesAssumption DEF LoadKeyring, DeserializeKeyring, HasPassphrase, Unlocks
<1> QED
  BY <1>1, <1>3

\* A caller who keeps the passphrase of the last save that returned, and of those begun
\* after it, can always load a keyring that is no older.
THEOREM LoadAfterSave == FileSpec => []SavedKeyringLoads
  BY LoadsWhatIsNamed, FileInvariantHolds, PTL
=============================================================================
