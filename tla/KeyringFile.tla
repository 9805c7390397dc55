----------------------------- MODULE KeyringFile -----------------------------
(***************************************************************************)
(* save_keyring, _write_atomically and load_keyring (keys.py) on a file    *)
(* system that keeps what it was told in memory until it is synchronised,  *)
(* or until it writes it out by itself: the data of a file and the         *)
(* directory that names it, in either order. The process, or the power,    *)
(* may fail between any two steps.                                         *)
(*                                                                         *)
(* Versions number the keyrings saved to the path; 0 is the one it held    *)
(* before the first save. Each may be saved under another passphrase.      *)
(***************************************************************************)
EXTENDS Naturals

CONSTANTS MaxSaves,     \* bound: how many saves are started
          Passphrases,  \* those that are not empty
          Empty         \* the empty one, or what is no string

ASSUME SavesAssumption == MaxSaves \in Nat /\ Empty \notin Passphrases

VARIABLES posix,    \* os.name is "posix"
          step,     \* of _write_atomically: see Steps
          version,  \* the version being saved, or saved last
          sealed,   \* the passphrase each version was saved under
          returned, \* the last version whose save returned
          temp,     \* the temporary file of the save exists
          file,     \* the version the path names
          named,    \* the version it names on the disk
          onDisk    \* the versions whose data is completely on the disk

keyrings == <<version, sealed, returned>>
fileVars == <<posix, step, keyrings, temp, file, named, onDisk>>

Versions == 0..MaxSaves
Steps    == {"idle", "created", "written", "synced", "replaced", "returned", "failed"}

FileTypeOK == /\ posix \in BOOLEAN
              /\ step \in Steps
              /\ version \in Versions
              /\ sealed \in [Versions -> Passphrases]
              /\ returned \in Versions
              /\ temp \in BOOLEAN
              /\ file \in Versions
              /\ named \in Versions
              /\ onDisk \subseteq Versions

FileInit == /\ posix \in BOOLEAN
            /\ step = "idle"
            /\ version = 0 /\ returned = 0
            /\ \E passphrase \in Passphrases : sealed = [v \in Versions |-> passphrase]
            /\ temp = FALSE
            /\ file = 0
            /\ named = 0
            /\ onDisk = {0}

-----------------------------------------------------------------------------
\* Passphrases

\* _require_passphrase
HasPassphrase(passphrase) == passphrase # Empty

\* serialize_keyring encrypts the three keys of the new version.
SerializeKeyring(passphrase) == sealed' = [sealed EXCEPT ![version + 1] = passphrase]

\* _private_key_from_pem
Unlocks(v, passphrase) == sealed[v] = passphrase

\* deserialize_keyring: the keyring in the data of version v, as a set that is empty when
\* it raises. Data that is cut off is no JSON object with all keys.
DeserializeKeyring(v, passphrase) ==
    IF HasPassphrase(passphrase) /\ v \in onDisk /\ Unlocks(v, passphrase) THEN {v} ELSE {}

\* load_keyring, by this process or by another.
LoadKeyring(passphrase) == DeserializeKeyring(file, passphrase)

-----------------------------------------------------------------------------
\* save_keyring
Over == step \in {"idle", "returned", "failed"}

\* It raises before it touches the file.
RefusePassphrase(passphrase) == /\ Over
                                /\ ~HasPassphrase(passphrase)
                                /\ step' = "failed" /\ temp' = FALSE
                                /\ UNCHANGED <<posix, keyrings, file, named, onDisk>>

\* tempfile.mkstemp, which fails with nothing to clean up. A temporary file left by a
\* save that died does not matter: mkstemp picks a new name.
CreateTemporary(passphrase) == /\ Over
                               /\ version < MaxSaves
                               /\ HasPassphrase(passphrase)
                               /\ SerializeKeyring(passphrase)
                               /\ version' = version + 1
                               /\ \/ step' = "created" /\ temp' = TRUE
                                  \/ step' = "failed" /\ temp' = FALSE
                               /\ UNCHANGED <<posix, returned, file, named, onDisk>>

Write == /\ step = "created"
         /\ step' = "written"
         /\ UNCHANGED <<posix, keyrings, temp, file, named, onDisk>>

SkipSync == UNCHANGED onDisk  \* mutant: flush without fsync
SyncData == onDisk' = onDisk \cup {version}

\* handle.flush and os.fsync
Sync == /\ step = "written"
        /\ step' = "synced"
        /\ SyncData
        /\ UNCHANGED <<posix, keyrings, temp, file, named>>

\* os.replace
Replace == /\ step = "synced"
           /\ step' = "replaced"
           /\ file' = version
           /\ temp' = FALSE
           /\ UNCHANGED <<posix, keyrings, named, onDisk>>

LeaveTemporary == UNCHANGED temp  \* mutant: the error handler does not clean up
RemoveTemporary == temp' = FALSE

\* Writing, synchronising or renaming fails, or is interrupted: except BaseException.
WriteFails == /\ step \in {"created", "written", "synced"}
              /\ step' = "failed"
              /\ RemoveTemporary
              /\ UNCHANGED <<posix, keyrings, file, named, onDisk>>

SkipDirectory == UNCHANGED named  \* mutant: the rename is left to the system
SyncEntry == IF posix THEN named' = file ELSE UNCHANGED named

\* _sync_directory; its error is raised with the new file in place.
SyncDirectory == /\ step = "replaced"
                 /\ \/ step' = "returned" /\ returned' = version /\ SyncEntry
                    \/ posix /\ step' = "failed" /\ UNCHANGED <<returned, named>>
                 /\ UNCHANGED <<posix, version, sealed, temp, file, onDisk>>

-----------------------------------------------------------------------------
\* The system writes out data, or the directory, on its own.
FlushData == /\ step \in {"written", "synced", "replaced"}
             /\ version \notin onDisk
             /\ onDisk' = onDisk \cup {version}
             /\ UNCHANGED <<posix, step, keyrings, temp, file, named>>

FlushDirectory == /\ named # file
                  /\ named' = file
                  /\ UNCHANGED <<posix, step, keyrings, temp, file, onDisk>>

ProcessDies == /\ ~Over
               /\ step' = "idle"
               /\ UNCHANGED <<posix, keyrings, temp, file, named, onDisk>>

PowerFails == /\ step' = "idle"
              /\ file' = named
              /\ UNCHANGED <<posix, keyrings, temp, named, onDisk>>

Save == \/ \E passphrase \in Passphrases \cup {Empty} :
               RefusePassphrase(passphrase) \/ CreateTemporary(passphrase)
        \/ Write \/ Sync \/ Replace \/ WriteFails \/ SyncDirectory

FileNext == Save \/ FlushData \/ FlushDirectory \/ ProcessDies \/ PowerFails

FileSpec == FileInit /\ [][FileNext]_fileVars

-----------------------------------------------------------------------------
(***************************************************************************)
(* Properties                                                              *)
(***************************************************************************)

\* Whatever fails, the path names a complete keyring, and still does after a power
\* failure: a crash or a full disk leaves the previous file rather than a truncated one
\* (save_keyring).
NeverTruncated == file \in onDisk /\ named \in onDisk

\* Once save_keyring has returned, the path names its keyring or that of a later save, and
\* on POSIX no failure and no later save brings an older one back: what the key-change
\* sequence relies on before it sends anything.
ReturnedIsDurable == posix => returned <= file /\ returned <= named

\* Whatever failed since a save returned, load_keyring opens the file with the passphrase
\* of that save or of one begun after it: a save that raises may have sealed the file
\* anew, but none locks out a caller who keeps both passphrases.
SavedKeyringLoads ==
    posix => \E v \in returned..version : LoadKeyring(sealed[v]) = {v}

\* An error leaves no temporary file with key material behind.
ErrorCleansUp == step = "failed" => ~temp

\* The reason they hold: the data is on the disk before the path names it, and the
\* temporary file exists exactly while there is something to rename. It is inductive.
KeyringFileInvariant == /\ FileTypeOK
                        /\ NeverTruncated
                        /\ ReturnedIsDurable
                        /\ ErrorCleansUp
                        /\ returned <= version /\ file <= version /\ named <= version
                        /\ step \in {"synced", "replaced"} => version \in onDisk
                        /\ step \in {"created", "written", "synced"} => temp
                        /\ step = "replaced" => ~temp /\ file = version
=============================================================================
