----------------------------- MODULE KeyRotation -----------------------------
(***************************************************************************)
(* Key changes and the two keyring files: the sequence the documentation   *)
(* of Client.change_keys prescribes and examples/06_key_rotation.py runs.  *)
(* Save the successor keyring, send the change (an UploadTransfer), adopt  *)
(* the new keys, rename the successor over the current keyring. The        *)
(* process may die anywhere, and the bank switches to the new keys the     *)
(* moment it has taken the order.                                          *)
(*                                                                         *)
(* Keyrings are numbered: 0 is the one the bank holds at the start, r the  *)
(* one generated for the r-th key change.                                  *)
(***************************************************************************)
EXTENDS Naturals

CONSTANTS NumSegments, RecoveryAttempts, Faults, BankDefects,  \* see UploadTransfer
          MaxRotations,  \* bound: how many key changes are started
          NoFile         \* stands for a file that does not exist

ASSUME RotationAssumption == /\ MaxRotations \in Nat
                             /\ NoFile \notin 0..MaxRotations

VARIABLES
    \* The transaction of the latest key change, see UploadTransfer
    status, number, highestSent, finalUnanswered, budget, reply, late, tx, held, orders,
    \* The script
    step,           \* where it is: see Steps
    rotation,       \* the number of the latest key change
    clientKeyring,  \* Client._keyring
    \* The two files
    stored,         \* the keyring in keyring.json
    successor,      \* the one in keyring.next.json, or NoFile
    disk,           \* both, as a power failure now would leave them
    \* The bank
    bankKeyring,    \* the keys it accepts
    \* History, which no action reads
    lapses          \* how a successor the bank had taken, or could yet take, was removed

Transfer == INSTANCE UploadTransfer

\* What the transaction assumes of its constants (UploadTransfer, Exchange).
ASSUME TransferAssumption ==
    /\ NumSegments \in Nat \ {0}
    /\ RecoveryAttempts \in Nat
    /\ BankDefects \subseteq {"unsent_point", "no_return_code"}
    /\ Faults \subseteq Transfer!TransportFaults \cup Transfer!AnswerFaults

files     == <<stored, successor>>
storage   == <<stored, successor, disk>>
transfer  == <<status, number, highestSent, finalUnanswered, budget, reply, late, tx, held,
               orders>>
vars      == <<transfer, step, rotation, clientKeyring, storage, bankKeyring, lapses>>

Keyrings == 0..MaxRotations

\* "down" is a script that is not running, however its last run ended.
Steps == {"down", "started", "changing", "adopted"}

TypeOK == /\ Transfer!TypeOK
          /\ step \in Steps
          /\ rotation \in Keyrings
          /\ clientKeyring \in Keyrings
          /\ stored \in Keyrings
          /\ successor \in Keyrings \cup {NoFile}
          /\ disk \in Keyrings \X (Keyrings \cup {NoFile})
          /\ bankKeyring \in Keyrings
          /\ lapses \subseteq {"untranslated", "early"}

Init == /\ Transfer!Init
        /\ step = "down"
        /\ rotation = 0
        /\ clientKeyring = 0
        /\ stored = 0
        /\ successor = NoFile
        /\ disk = <<0, NoFile>>
        /\ bankKeyring = 0
        /\ lapses = {}

-----------------------------------------------------------------------------
\* The script (examples/06_key_rotation.py)

\* online_client loads keyring.json and fetches the bank's keys with it, which the bank
\* grants only to the keyring it accepts.
Start == /\ step = "down"
         /\ stored = bankKeyring
         /\ step' = "started"
         /\ clientKeyring' = stored
         /\ UNCHANGED <<transfer, rotation, storage, bankKeyring, lapses>>

\* Mutant: a successor left over from an earlier run is written over.
IgnoreLeftover == TRUE
\* successor_path.exists()
NoLeftover == successor = NoFile

RefuseLeftover ==
    /\ step = "started"
    /\ ~NoLeftover
    /\ step' = "down"
    /\ UNCHANGED <<transfer, rotation, clientKeyring, storage, bankKeyring, lapses>>

\* A new transaction. Without a lapse nothing of an earlier one is left to happen
\* (OneChangeAtATime); after one, what is left is followed no further.
NewTransfer == /\ status' = "opening" /\ number' = 1 /\ highestSent' = 0
               /\ finalUnanswered' = FALSE /\ budget' = RecoveryAttempts
               /\ reply' = Transfer!NoReply /\ late' = {}
               /\ tx' = "none" /\ held' = 0 /\ orders' = 0

\* save_keyring returns once the file, and the directory with all that happened in it,
\* is on the disk. It can fail, even with the file in place (_sync_directory); that
\* error ends the script before anything is sent.
SaveKeyring == \/ /\ successor' = rotation + 1
                  /\ disk' = <<stored, successor'>>
                  /\ step' = "changing"
               \/ /\ successor' \in {rotation + 1, NoFile}
                  /\ disk' \in {disk, <<stored, successor'>>}
                  /\ step' = "down"

SaveSuccessor == /\ step = "started"
                 /\ NoLeftover
                 /\ rotation < MaxRotations
                 /\ rotation' = rotation + 1
                 /\ SaveKeyring
                 /\ NewTransfer
                 /\ UNCHANGED <<clientKeyring, stored, bankKeyring, lapses>>

\* One step of change_keys. The bank opens a transaction only for the keys it holds.
ChangeKeys == /\ step = "changing"
              /\ Transfer!ClientNext
              /\ Transfer!OpenTransaction => clientKeyring = bankKeyring
              /\ UNCHANGED <<step, rotation, clientKeyring, storage, bankKeyring, lapses>>

\* Mutants: the client switches, or deletes the successor, while the outcome is open.
AdoptInDoubt == status \in {"confirmed", "unconfirmed"}
DeleteInDoubt == status \in {"raised", "escaped", "unconfirmed"}
\* How change_keys ends: it returns, or it raises anything but the Unconfirmed error.
ChangeReturns == status = "confirmed"
ChangeFails == status \in {"raised", "escaped"}

\* change_keys returns: the client switches.
Adopt == /\ step = "changing"
         /\ ChangeReturns
         /\ clientKeyring' = successor
         /\ step' = "adopted"
         /\ UNCHANGED <<transfer, rotation, storage, bankKeyring, lapses>>

\* os.replace, or its failure. Nothing forces the rename to the disk (see Flush).
Promote == /\ step = "adopted"
           /\ \/ stored' = successor /\ successor' = NoFile
              \/ UNCHANGED files
           /\ step' = "down"
           /\ UNCHANGED <<transfer, rotation, clientKeyring, disk, bankKeyring, lapses>>

\* except KeyChangeUnconfirmedError
KeepBoth == /\ step = "changing"
            /\ status = "unconfirmed"
            /\ step' = "down"
            /\ UNCHANGED <<transfer, rotation, clientKeyring, storage, bankKeyring, lapses>>

\* except Exception: unlink, which may fail. It takes every other error for a refusal,
\* one that no handler of the transfer knew included.
DeleteSuccessor ==
    /\ step = "changing"
    /\ ChangeFails
    /\ successor' \in {NoFile, successor}
    /\ step' = "down"
    /\ lapses' = IF status = "escaped" THEN lapses \cup {"untranslated"} ELSE lapses
    /\ UNCHANGED <<transfer, rotation, clientKeyring, stored, disk, bankKeyring>>

\* The process dies. A request it was waiting with is still handled by the bank, as
\* is every late one.
Crash == /\ step # "down"
         /\ step' = "down"
         /\ UNCHANGED <<transfer, rotation, clientKeyring, storage, bankKeyring, lapses>>

\* The system writes the renames and removals out, some time later.
Flush == /\ disk # files
         /\ disk' = files
         /\ UNCHANGED <<transfer, step, rotation, clientKeyring, files, bankKeyring, lapses>>

\* The machine loses power: what was not flushed is undone.
PowerFails == /\ stored' = disk[1]
              /\ successor' = disk[2]
              /\ step' = "down"
              /\ UNCHANGED <<transfer, rotation, clientKeyring, disk, bankKeyring, lapses>>

Script == \/ Start \/ RefuseLeftover \/ SaveSuccessor \/ ChangeKeys
          \/ Adopt \/ Promote \/ KeepBoth \/ DeleteSuccessor

-----------------------------------------------------------------------------
\* The operator finds out which keyring the bank holds (KeyChangeUnconfirmedError).

\* An HPB with the successor succeeds: promote it.
OperatorPromotes ==
    /\ step = "down"
    /\ successor # NoFile
    /\ successor = bankKeyring
    /\ stored' = successor
    /\ successor' = NoFile
    /\ UNCHANGED <<transfer, step, rotation, clientKeyring, disk, bankKeyring, lapses>>

\* The final segment of the latest key change can still take effect: the bank waits for
\* it, and it is on its way, late or in an exchange of a process that died.
Outstanding == /\ tx = "open"
               /\ \/ NumSegments \in late
                  \/ status = "waiting" /\ number = NumSegments /\ reply = Transfer!NoReply

\* The bank accepts the current keyring, so the successor seems useless: remove it. That is
\* too early if the change is still on its way.
OperatorDiscards ==
    /\ step = "down"
    /\ successor # NoFile
    /\ stored = bankKeyring
    /\ successor' = NoFile
    /\ lapses' = IF Outstanding THEN lapses \cup {"early"} ELSE lapses
    /\ UNCHANGED <<transfer, step, rotation, clientKeyring, stored, disk, bankKeyring>>

-----------------------------------------------------------------------------
\* Bank (external): it switches the moment it takes the order.
Bank == /\ Transfer!BankNext
        /\ bankKeyring' = IF orders' > orders THEN rotation ELSE bankKeyring
        /\ UNCHANGED <<step, rotation, clientKeyring, storage, lapses>>

-----------------------------------------------------------------------------
Next == Script \/ Crash \/ Flush \/ PowerFails \/ OperatorPromotes \/ OperatorDiscards \/ Bank

Spec == Init /\ [][Next]_vars

-----------------------------------------------------------------------------
(***************************************************************************)
(* Properties                                                              *)
(***************************************************************************)

\* One of the two files holds the keys the bank accepts, and would after a power failure.
KeysAtHand == /\ bankKeyring \in {stored, successor}
              /\ bankKeyring \in {disk[1], disk[2]}

\* The script never loses keys the bank has adopted, whatever fails, arrives late or dies,
\* as long as the operator is not early (examples/06, "the one thing that must never happen
\* is losing the new keys after the bank has adopted them. The sequence below makes that
\* impossible"). The code breaks this: an exception that change_keys lets through
\* untranslated ends in except Exception, although the bank may have taken the change.
NeverLockedOut == "early" \notin lapses => KeysAtHand

\* The subscriber is locked out in two ways only: the script deletes the successor after an
\* error that came untranslated, or the operator does while the change is on its way
\* (change_keys, "persist the successor before sending"; KeyChangeUnconfirmedError, "Keep
\* both keyrings until you know which one the bank holds").
LockedOutByLapseOnly == lapses = {} => KeysAtHand

\* A client works with other keys than the stored ones only if the bank holds them
\* (change_keys: "only then does this client adopt new_keyring").
NeverAheadOfBank ==
    step # "down" /\ clientKeyring # stored => clientKeyring = bankKeyring

\* Unless a successor was removed in one of these ways, a key change never starts while an
\* earlier one can still take effect: the second would be sent with keys the bank may be
\* about to drop (KeyChangeUnconfirmedError, "never retry automatically"; the leftover check
\* of examples/06).
OneChangeAtATime == [][lapses = {} /\ rotation' # rotation => ~Outstanding]_vars

-----------------------------------------------------------------------------
(***************************************************************************)
(* Why it holds: the inductive invariant                                   *)
(***************************************************************************)

\* The bank's keys are those of a key change it took, the latest one if it took that.
BankFollows == /\ bankKeyring <= rotation
               /\ tx = "taken" => bankKeyring = rotation

\* Where the script is says which keys it works with and what it has saved.
ScriptConsistent ==
    /\ step = "started" => clientKeyring = stored
    /\ step = "changing" => clientKeyring = stored /\ successor = rotation
    /\ step = "adopted" => /\ tx = "taken"
                           /\ successor = rotation /\ clientKeyring = rotation

\* The bank may come to take the latest key change: the script is sending it, or the
\* final segment is on its way.
Pending == /\ tx \notin {"taken", "closed"}
           /\ \/ step = "changing" /\ status \in Transfer!Running
              \/ Outstanding

\* As long as the bank may take the change, both keyrings are in their files and on the
\* disk; afterwards the one it holds is.
FilesSafe ==
    /\ KeysAtHand
    /\ step = "started" /\ NoLeftover => stored = bankKeyring
    /\ step = "changing" => disk = files /\ (tx # "taken" => stored = bankKeyring)
    /\ Pending => /\ bankKeyring < rotation
                  /\ stored = bankKeyring /\ successor = rotation
                  /\ disk = files

\* What ties the files, the client, the transaction and the bank together.
RotationInvariant == /\ TypeOK
                     /\ Transfer!TransferInvariant
                     /\ BankFollows
                     /\ ScriptConsistent
                     /\ NeverAheadOfBank
                     /\ lapses = {} => FilesSafe
=============================================================================
