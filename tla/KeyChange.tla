----------------------------- MODULE KeyChange -----------------------------
(***************************************************************************)
(* Which keys a key change replaces: rotate_keyring and                    *)
(* validate_key_change (keys.py), the order data of PUB, HCA and HCS       *)
(* (h005.build_key_change_order_data), and what Client.change_keys leaves  *)
(* in the client and at the bank. The client and the bank each put the new *)
(* keyring together by themselves, from three tables that have to agree.   *)
(* KeyRotation models the transaction and the files; here a change is one  *)
(* step.                                                                   *)
(***************************************************************************)
EXTENDS Integers, Functions

CONSTANTS Keys,       \* RSA key pairs
          StrongKeys  \* those of at least 2048 bits

ASSUME KeysAssumption == StrongKeys \subseteq Keys

VARIABLES client,     \* Client._keyring
          successor,  \* the new_keyring of the latest change that was sent
          accepted,   \* the keys the bank accepts
          result      \* how the latest change_keys ended

changeVars == <<client, successor, accepted, result>>

\* _KEY_FIELDS and Keyring
Roles    == {"signature", "authentication", "encryption"}
Keyrings == [Roles -> Keys]

Rotations == {"signature", "authentication_and_encryption", "all"}
Results   == {"none", "refused", "confirmed", "rejected", "unconfirmed"}

ChangeTypeOK == /\ client \in Keyrings
                /\ successor \in Keyrings
                /\ accepted \in Keyrings
                /\ result \in Results

\* generate_keyring: three keys of their own, none of them weak.
OneKeyPerRole(keyring) == IsInjective(keyring)

ChangeInit == /\ client \in [Roles -> StrongKeys]
              /\ OneKeyPerRole(client)
              /\ successor = client
              /\ accepted = client
              /\ result = "none"

-----------------------------------------------------------------------------
\* keys.py

\* _ROTATED_FIELDS
Rotated(rotation) ==
    IF rotation = "signature" THEN {"signature"}
    ELSE IF rotation = "all" THEN Roles ELSE {"authentication", "encryption"}

\* rotate_keyring; generated is what _generate_private_key returns for each role.
RotateKeyring(keyring, rotation, generated) ==
    [role \in Roles |-> IF role \in Rotated(rotation) THEN generated[role] ELSE keyring[role]]

\* Mutant: a current key is refused only in the role it has.
NewInItsRole(keyring, key, role) == key # keyring[role]
\* What validate_key_change asks of a covered and of an uncovered key.
NewKey(keyring, key, role)  == key \notin Range(keyring)
KeptKey(keyring, key, role) == key = keyring[role]

\* Mutant: the successor may use one key for two roles.
SharedKeyPasses(keyring, new, rotation) ==
    /\ \A role \in Roles \ Rotated(rotation) : KeptKey(keyring, new[role], role)
    /\ \A role \in Rotated(rotation) : /\ NewKey(keyring, new[role], role)
                                       /\ new[role] \in StrongKeys
\* validate_key_change
ValidKeyChange(keyring, new, rotation) ==
    /\ \A role \in Roles \ Rotated(rotation) : KeptKey(keyring, new[role], role)
    /\ \A role \in Rotated(rotation) : /\ NewKey(keyring, new[role], role)
                                       /\ new[role] \in StrongKeys
    /\ OneKeyPerRole(new)

\* Mutant: HCS leaves the signature key out.
ForgetSignature(rotation) ==
    IF rotation = "signature" THEN {"signature"} ELSE {"authentication", "encryption"}
\* build_key_change_order_data: the keys that travel in PUB, HCA and HCS.
Announced(rotation) ==
    IF rotation = "signature" THEN {"signature"}
    ELSE {"authentication", "encryption"} \cup IF rotation = "all" THEN {"signature"} ELSE {}

-----------------------------------------------------------------------------
\* Client.change_keys, with any keyring and rotation its caller passes.

\* The bank (external) replaces the keys it was sent.
Replaced(new, rotation) ==
    [role \in Roles |-> IF role \in Announced(rotation) THEN new[role] ELSE accepted[role]]

\* validate_key_change raises; nothing is sent.
Refused(new, rotation) == /\ ~ValidKeyChange(client, new, rotation)
                          /\ result' = "refused"
                          /\ UNCHANGED <<client, successor, accepted>>

Confirmed(new, rotation) == /\ ValidKeyChange(client, new, rotation)
                            /\ successor' = new
                            /\ accepted' = Replaced(new, rotation)
                            /\ client' = new
                            /\ result' = "confirmed"

Rejected(new, rotation) == /\ ValidKeyChange(client, new, rotation)
                           /\ successor' = new
                           /\ result' = "rejected"
                           /\ UNCHANGED <<client, accepted>>

Unconfirmed(new, rotation) == /\ ValidKeyChange(client, new, rotation)
                              /\ successor' = new
                              /\ accepted' \in {accepted, Replaced(new, rotation)}
                              /\ result' = "unconfirmed"
                              /\ UNCHANGED client

ChangeKeys == /\ result # "unconfirmed"
              /\ \E new \in Keyrings, rotation \in Rotations :
                     \/ Refused(new, rotation)
                     \/ Confirmed(new, rotation)
                     \/ Rejected(new, rotation)
                     \/ Unconfirmed(new, rotation)

\* The caller finds out which keyring works and goes on with that one
\* (KeyChangeUnconfirmedError: "never retry automatically").
Establish == /\ result = "unconfirmed"
             /\ client' \in {client, successor}
             /\ client' = accepted
             /\ result' = "none"
             /\ UNCHANGED <<successor, accepted>>

ChangeNext == ChangeKeys \/ Establish

ChangeSpec == ChangeInit /\ [][ChangeNext]_changeVars

-----------------------------------------------------------------------------
(***************************************************************************)
(* Properties                                                              *)
(***************************************************************************)

\* The bank holds one of the caller's two keyrings as a whole, never a mixture, and the
\* client's own whenever the outcome of the latest change is known
\* (validate_key_change: a mistake "would leave the client and the bank disagreeing").
WholeKeyring == /\ accepted \in {client, successor}
                /\ result # "unconfirmed" => accepted = client

\* The bank is never asked for what it refuses with EBICS_KEYMGMT_DUPLICATE_KEY, or for a
\* short key: its roles always have keys of their own, of at least 2048 bits.
Sound(keyring) == OneKeyPerRole(keyring) /\ \A role \in Roles : keyring[role] \in StrongKeys
BankKeysSound  == Sound(accepted)

\* No key changes its role, and none is replaced by one in use (ValueError, "one of the
\* current keys").
OnlyNewKeysArrive ==
    [][\A role \in Roles : accepted'[role] # accepted[role] =>
                            accepted'[role] \notin Range(accepted)]_changeVars

\* What rotate_keyring returns for a keyring always passes validate_key_change, as long as
\* the generated keys are new and distinct.
RotationsPass(keyring) ==
    \A generated \in [Roles -> StrongKeys \ Range(keyring)] :
        IsInjective(generated) =>
            \A rotation \in Rotations :
                ValidKeyChange(keyring, RotateKeyring(keyring, rotation, generated), rotation)

-----------------------------------------------------------------------------
\* The reason they hold, and inductive: whichever keyring the client goes on with, it is
\* sound, and differs from the bank's only while the outcome of a change is open.
KeyChangeInvariant == /\ ChangeTypeOK
                      /\ WholeKeyring
                      /\ Sound(client)
                      /\ Sound(successor)
=============================================================================
