-------------------------- MODULE MCSubscriberKeys --------------------------
(***************************************************************************)
(* Onboarding, KeyChange and KeyringFile side by side for TLC. They share  *)
(* no state, so a behaviour is one of a single component, while the others *)
(* rest. There are six strong keys, so that all three can be replaced at   *)
(* once, and a weak one.                                                   *)
(***************************************************************************)
EXTENDS Onboarding, KeyChange, KeyringFile, TLC

CONSTANTS k1, k2, k3, k4, k5, k6, weak, p1, p2

FewKeys == {k1, k2, k3, k4, k5, k6}
AllKeys == FewKeys \cup {weak}

\* Whatever rotate_keyring returns for a sound keyring passes validate_key_change.
ASSUME RotationsAccepted == \A keyring \in Keyrings : Sound(keyring) => RotationsPass(keyring)

VARIABLE component  \* the one that moves

\* The key change begins with three of the strong keys, which are all alike; the keyring file
\* rests in one of its initial states.
Beginning == /\ client = [signature |-> k1, authentication |-> k2, encryption |-> k3]
             /\ component # "keyring file" => posix /\ sealed = [v \in Versions |-> p1]

\* The other three are alike in all that follows.
NewKeySymmetry == Permutations({k4, k5, k6})

KeysInit == /\ component \in {"onboarding", "key change", "keyring file"}
            /\ Init /\ ChangeInit /\ FileInit
            /\ Beginning

KeysNext == /\ \/ component = "onboarding" /\ Next /\ UNCHANGED <<changeVars, fileVars>>
               \/ component = "key change" /\ ChangeNext /\ UNCHANGED <<vars, fileVars>>
               \/ component = "keyring file" /\ FileNext /\ UNCHANGED <<vars, changeVars>>
            /\ UNCHANGED component

KeysSpec == KeysInit /\ [][KeysNext]_<<vars, changeVars, fileVars, component>>
=============================================================================
