# ebicsclient in TLA+

A verification project for `ebicsclient`, a Python client for EBICS 3.0 (protocol
version H005), the protocol with which companies exchange payment orders and account
statements with their bank. The modules model the parts of the library whose
correctness depends on order, failure and loss: the transactions and their recovery, the
receipt and everything that has to happen before it, key changes, the files that hold the
keys, onboarding and suspension, the bank's own keys, how order data is compressed, cut into
segments and opened again under a ceiling, and the jobs the examples and tools build out
of these (fetching statements, paying and reading reports, reconciling incoming payments).

All paths are relative to the repository; `client.py`, `keys.py`, `protocol/h005.py` etc.
are in `src/ebicsclient/`. Line numbers are those of `PROJECT.json`, whose "map" names
the source lines of every definition.

## 1. Inventory

The library is synchronous: a `Client` is used by one thread, and each call blocks until
it returns or raises. What makes it hard is everything beside that thread: the bank,
requests of exchanges the client gave up on that arrive later, the process that dies, the
machine that loses power, the operator who reads an error and decides what to do.

| Part | State it keeps | Operations | Interacts with | What is hard | What makes it correct |
|---|---|---|---|---|---|
| Upload transaction (`Client.upload`, `_transfer_segments`, `_RecoveryBudget`) | current segment, highest segment sent, whether the final one went unanswered, attempts left | open, send a segment, repeat it, follow a recovery point, end | the bank (one exchange at a time), the exchange layer | lost answers, duplicated and late segments, recovery points, codes the client does not know | a returned call has its order at the bank once; an error that is not *Unconfirmed* means there is no order and will be none |
| Download transaction (`_run_download_transaction`, `_fetch_segments`, `_send_receipt`, `_acknowledge`) | segments held, attempts left, the landing (decrypt, validate), receipt polarity | open, fetch, land, acknowledge or decline | as above, and the caller's `validate` hook | lost and late receipts, segments served again, a bank that does the opposite, death between landing and receipt | data is consumed only after it has landed; a returned ACKNOWLEDGE call is consumed |
| One exchange (`transport.py`, `_post_verified`, `crypto.verify_auth_signature`, `errors.py`) | none | post, verify, classify | everything that talks to the bank | which exceptions the recovery sees | every failure has a class, and the class says whether the step may be repeated |
| Key change (`Client.change_keys`, `keys.rotate_keyring`, `keys.validate_key_change`) | the client's keyring | validate, announce, upload, adopt | upload transaction, bank | a mixture of old and new keys, doubt about the outcome | client and bank hold the same whole keyring |
| Key rotation script (`examples/06_key_rotation.py`) | `keyring.json`, its successor file | save, change, promote, delete, refuse a leftover | key change, keyring file, operator | death at any point, power failure, doubt | one of the two files holds the keys the bank accepts; one change at a time |
| Keyring file (`keys.save_keyring`, `_write_atomically`, `load_keyring`) | the file, its temporary, what has reached the disk, the passphrase each keyring is sealed under | check the passphrase, write, fsync, rename, fsync of the directory, load | file system | death and power failure between two steps, a new passphrase half way | the path never names a truncated keyring; a saved one still opens |
| Onboarding and suspension (`Client.ini`, `hia`, `hpb`, `suspend_access`, `examples/zkb_handshake.py`) | keyring file, what was SUBMITTED, letters; at the bank the subscriber's state and keys | generate, submit, print letters, activate, suspend, reset | bank, its staff, the operator | an answer that does not say which keys the bank has; orders that arrive after a reset | letters carry the hashes of the keys the bank holds; a confirmed suspension is final |
| Checks before the receipt, statement job (`Client.download`, `formats/iso20022.py`, `formats/container.py`, `examples/01`, `02`, `03`, `10`) | the ledger; at the bank what waits | version policy, parser, date range, booking in the hook | download transaction | several jobs at one mailbox, receipts in doubt, runs that fail half way | nothing is consumed that was not booked or asked for; nothing waits for ever |
| Bank keys (`Client.hpb`, `certificates.py`, digests in requests) | the keys held, the pins, the verifier | HPB, use in requests, verify answers | bank | keys and certificates that change between and within calls; two forms of each hash | both keys passed the checks; no refusal and no mismatch without a cause |
| Payment round trip (`examples/04_pay_and_check_status.py`, `formats/pain002.py`) | files, reports read | pay, fetch reports, decide what to send again | upload, download, bank's books | doubt, orders taken after the operator has looked, reports that list accepted and rejected transactions | nothing is paid twice, no report is missed unnoticed |
| Order data (`h005.prepare_upload`, `_split_segments`, `crypto.encrypt_with_transaction_key`, `decrypt_order_data`, `_inflate_bounded`) | what is inflated so far | compress, pad, encrypt, encode, split; join, decode, decrypt, inflate | the transactions, zlib | boundaries inside a base64 group, a block or a code; streams cut short, damaged, or far larger than they look | what was sent is what is opened; memory is bounded; the end of the stream vouches for the whole |
| Containers (`formats/container.py`) | none | split a ZIP into documents under limits | order data, parsers | names out of order or listed twice, limits | documents in name order, as many as entries |
| Incoming payments tool (`tools/zkb-incoming-payments.py`) | a directory for each run: manifest, raw files | upload simulated credits, fetch every report, reconcile | upload, download, test platform | runs with equal amounts, failures of single downloads, death at any point | what the bank serves no more was parsed and stored; "found" is true; no failure is hidden |
| Requests and responses of H005 (`protocol/h005.py`) | none | build, parse | all of the above | recovery points, optional return codes, forms of keys | what the other modules read from an answer is what it says |
| Version discovery (HEV), certificates, letters, value types, message parsers, error classes, administrative downloads, other examples and tools | none, or immutable values | pure functions, single exchanges | | see section 8 | |

`PROJECT.json` lists every part with its files and its status, and under "hazards" the
places of the code that are hard to test, each with the properties that watch it.

How the parts interact: every call goes through one exchange at a time
(`_post_verified`); uploads and downloads are sequences of exchanges that share one
recovery budget; `change_keys` is an upload whose order changes the bank's keys, and the
client's keyring after it; `download` runs the caller's hook and the parsers between the
last segment and the receipt; the scripts wrap these calls in files, ledgers and decisions.

## 2. Modules

| Module | Models | Built on |
|---|---|---|
| `Exchange` | one exchange: what goes wrong on the wire, the exception it becomes, whether recovery takes it for a lost answer | |
| `UploadPromise` | abstract: what an upload promises | |
| `UploadTransfer` | one upload, client and bank | `Exchange`; implements `UploadPromise` |
| `DownloadPromise` | abstract: what a download promises | |
| `DownloadTransfer` | one download, client and bank | `Exchange`; implements `DownloadPromise` |
| `KeyringFile` | saving a keyring, step by step, and loading it | |
| `KeyRotation` | the rotation script with its two files | `INSTANCE UploadTransfer`, every step of it |
| `KeyChange` | what keys a change moves where; a change is one step | |
| `Onboarding` | subscriber initialisation and suspension | |
| `StatementSync` | jobs at one mailbox and the ledger | `INSTANCE DownloadPromise` |
| `BankKeys` | the bank's keys at the client | |
| `PaymentRound` | paying and reading reports | `INSTANCE UploadPromise`, `DownloadPromise` |
| `OrderData` | one order's data from sealing to its documents | |
| `IncomingPayments` | runs of the incoming payments tool | `INSTANCE UploadPromise`, `DownloadPromise` |

`MC*` modules give constants their values where a `.cfg` cannot, and `MCSubscriberKeys` puts
three components that share no state side by side, of which one moves in each behaviour;
`*Proofs` modules hold the theorems. `SubscriberKeysProofs` is about `Onboarding`, `KeyChange` and `KeyringFile`,
`DeliveryProofs` about `OrderData` and `StatementSync`, the others about the module they are
named after. The components of one proof module share no state, and `KeyChange`,
`KeyringFile` and `StatementSync` name their specifications after themselves (`ChangeSpec`,
`FileSpec`, `SyncSpec`) so that one module can extend two of them.

The composition goes by promise. `UploadTransfer` and `DownloadTransfer` model every
exchange and are shown, by TLC and by proof, to implement `UploadPromise` and
`DownloadPromise`; what is built on top of a call (`StatementSync`, `PaymentRound`,
`IncomingPayments`) uses the promise instead of the transfer, so that several calls, deaths
of the process and the operator between them stay within TLC's reach. `KeyRotation` is the
exception: there the late arrival of single requests matters across calls, so it runs the
whole transfer.

### How state and actions correspond to the code

*`UploadTransfer`.* `number`, `highestSent`, `finalUnanswered` and `budget` are the locals
`segment_number`, `highest_sent`, `final_segment_unanswered` and the budget of
`_transfer_segments`; `status` is where the thread is. `OpenTransaction`/`OpeningFails` is
the initialisation exchange, `SendSegment` the loop body up to the request, and one action
per way to leave the exchange: a fault (`StepFailed` is the `except` clause), 000000, a
recovery point, a refusal in or outside the table of known codes, no code. The bank takes
segments in order, answers a repeated one again, and may answer any request with a
recovery point or a refusal, fall back to an earlier segment and end the transaction.
`late` holds requests of abandoned exchanges; they arrive at any later time, any number of
times, also after the call has ended.

*`DownloadTransfer`.* `segments` are the `segments` of `_fetch_segments`, `landing` the
`try` block of `_run_download_transaction` (decrypt, inflate, `validate`), `told` that a
`ReceiptMismatchError` was raised or noted on the exception (`add_note`). A receipt that was
given up on may arrive later. `ProcessDies` may happen at every point.

*`KeyringFile`.* One action per line of `_write_atomically`, with what the file system has
in memory (`file`) and on the disk (`named`, `onDisk`) kept apart; the system writes
either out on its own at any time. `sealed` is the passphrase of each version,
`RefusePassphrase` the check before anything is touched, `LoadKeyring` what `load_keyring`
returns: the version the path names, if its data is complete and the passphrase unlocks it.

*`KeyRotation`.* `stored`, `successor` are the two files, `disk` what a power failure would
leave of them; `step` is the line of the script. The transfer's actions are those of
`UploadTransfer`; the bank switches its keys in the step that takes the order. Over a
leftover the operator finds out which keys the bank accepts (`KeyChangeUnconfirmedError`)
and promotes or discards the successor, at any time, as the documentation asks no more of
him. `lapses` is history, which no action reads: "untranslated" once the script has deleted
the successor after an exception no handler of the transfer knew, "early" once the operator
has discarded it while the change was still on its way.

*`KeyChange`.* Keyrings are functions from roles to keys. `RotateKeyring`, `ValidKeyChange`
and `Announced` are the three tables in the code that have to agree: what a rotation
replaces, what the check compares, what the order contains.

*`Onboarding`.* Keyrings are numbers; an order carries the keyring whose keys it submits.
`IniRequest`, `HiaRequest`, `HpbRequest` and `SuspensionRequest` are the four requests,
`Send` the exchange they share.
The bank's states are those of the
specification (4.4.1.2) as docs/12 quotes it. The operator generates a
keyring only where the script would (`NoKeyringFile`), prints letters after both orders
returned SUBMITTED, and can have the subscriber reset or suspended by telephone.

*`StatementSync`.* `Deliveries` are documents with a root, which names a message version,
something foreign or nothing, and flaws: unreadable, an entry outside the period.
`OfRequestedVersion` compares the root with what was asked for (`_message_identifier`).
`Nightly`, `Peek`, `Backfill` and `StrictRead` are the calls of examples 02, 01, 03 and 10.
`Acceptable` is the conjunction of the checks in the order of
`Client.download`; `Book` books one delivery in the hook; `Consume` and `LateReceipt` are
the bank's reaction to a receipt in time and late. A `Job` is a call with a receipt policy, a
version policy, a hook and a date range.

*`BankKeys`.* A delivery of a key is the key, with or without a certificate; `Forms` are the
two hashes by which it can be pinned, `Digest` the one by which a request names it. HPB
either stores both keys or leaves the store alone; a transaction uses one pair to its end.

*`PaymentRound`.* A file holds payment blocks of one transaction each; reports have a status
for the file, statuses for some transactions, or both. `RejectedTransactions` is
`PaymentStatusReport.rejected_transactions`, the one place of the code that reads a status:
the operator puts what it names into a new file. `MayRepeat` is what `UploadUnconfirmedError`
asks before a file is sent again: the operator has checked, and the bank has no order. That
`examples/04` has him look for a pain.002 only is a mutant (`RepeatUnanswered`). An upload
that is given up stays at the bank (`late`) and may be taken after the next one has begun;
`early` is history, which no action reads: a file was sent again while that could happen.

*`OrderData`.* Bytes are their positions. `Seal` is `prepare_upload`, or the bank, up to the
segments; `Deliver` (external) cuts, damages, misplaces or drops them; `Decrypt` joins,
decodes and decrypts; `Decompress` to `DecompressReturns` is one turn of the loop of
`_inflate_bounded`, with zlib inside it reading code by code and holding back what the cap
left over; `Flush` is the end of the loop; `Extract` is `extract_documents`. `eof` is zlib's,
`faithful` (no code reads it) says that what was put out so far is the sender's.

*`IncomingPayments`.* `runs`, `manifests` and `raw` are the files of the tool; `step` and the
loop variables are those of `step_upload` and `step_fetch`. `StoreAndParse` is the hook,
`CountFailure` the two `except` clauses of `_download_all`, `Matches`, `Identifies` and
`Differs` the reconciliation by product and by payment. The bank books a file together or
row by row, drops rows, reports differences, and issues reports that no parser reads.

## 3. Runs

| Run | Question | Outcome |
|---|---|---|
| `upload_transfer` | Is every ending of an upload true, and does every upload end, under every fault, late and repeated requests, and an irregular bank? | holds |
| `download_transfer` | Is data consumed only after it landed in an ACKNOWLEDGE call, is a disobedient bank reported, does every download end? | holds |
| `key_rotation` | Do the two files hold the bank's keys, and is there one change at a time, until the successor is deleted after an untranslated error or discarded early? | holds |
| `key_rotation_dropped` | Does the sequence make losing the new keys impossible, as the script says, when a connection is dropped? | violated |
| `subscriber_keys` | Onboarding: are the letters those of the bank's keys, is a suspension final? Key change: do client and bank hold the same whole, sound keyring after any call of `change_keys`? Keyring file: is it never truncated, and does a keyring whose save returned still open? | holds |
| `statement_sync` | Is nothing lost, nothing consumed unasked, nothing booked twice without a failed run, and does nothing wait for ever? | holds |
| `bank_keys` | Have both keys held passed the checks, and does trouble with them always have a cause? | holds |
| `order_data` | Is what arrives whole opened to what was sent, is the output bounded, does the end of the stream vouch for it, and are a container's documents complete and in order? | holds |
| `order_data_cut` | Is data that lost its end an error? | violated |
| `incoming_payments` | Was everything the bank serves no more parsed and stored, is "found" true, is no failed download hidden? | holds |
| `payment_round` | Is nothing paid twice unless a file is sent again while an earlier upload of it may still be taken, and is no report missed without a failed run? | holds |
| `payment_round_late` | Is it safe to send a file again after a check has found no order? | violated |

Every property of a passing run has a mutant: a plausible error in one definition under
which TLC finds the property violated. The mutants stand before the definition they replace.

### The disagreements the runs show

*`key_rotation_dropped`.* `Transport.post` translates `HTTPError`, `TimeoutError` and
`URLError`. What `http.client` raises while the answer is read (`RemoteDisconnected`,
`ConnectionResetError`, `IncompleteRead`) is none of them, so it leaves the client raw. The
bank may have taken the order, or take a late copy of its final segment; the documentation of
`Client.upload` promises that every error but *Unconfirmed* means it has not, and `errors.py`
that every error is an `EbicsError`. `examples/06_key_rotation.py` takes the exception for a
refusal and deletes the successor keyring, the only copy of the new keys: the subscriber is
locked out (`NeverLockedOut`), without any mistake of the operator. The script says that its
sequence makes this impossible, and names a dropped connection as the case that keeps both
files. `key_rotation` has the same fault among others, and an irregular bank, and shows that
nothing but this deletion, and an operator who discards the successor while the change is on
its way, can do it (`LockedOutByLapseOnly`).

In `upload_transfer` an exception that escapes the handlers ends in the status "escaped" and
is counted as doubt, so that all other claims are checked, and proved, in its presence.

*`payment_round_late`.* `errors.py:202` and `examples/04` have the operator check whether an
order in doubt has arrived before he sends the file again. Nothing tells the bank to forget
the first upload: its final segment may arrive after the check, and after the second upload,
and the bank takes both (`PaidOnce`). `payment_round` shows that this is the only way in which
a payment is made twice (`PaidTwiceOnlyIfEarly`).

*`order_data_cut`.* `_inflate_bounded` promises an error if "the stream is not valid DEFLATE
data" (`crypto.py:185`), but ends quietly when its input does and never asks for `eof`. A
stream that lost its end at the boundary of a cipher block is returned as if it were whole
(`OpenedToItsEnd`), and acknowledged if the parser has no objection. `EndVouches`, in
`order_data`, is what holds: it speaks of data whose End code was seen.

### Other places where code and documentation part

Met while modelling. The models follow the code; the properties are stated so that they
hold of it, and none of these has a run of its own.

1. *No return code.* A signed answer to the final segment without a `ReturnCode` raises a
   plain `ProtocolError` past the handler for `ReturnCodeError` (`client.py:1503`); the
   documentation says that this error means the bank holds no order. "escaped", as above.
2. *No receipt.* `models.py:1237` says that a failure before the data has landed "always
   sends a negative receipt". Segments are fetched outside the `try` block that sends it
   (`client.py:708`): a download that fails while fetching sends none. Nothing is consumed
   by this; the transaction stays open at the bank.
3. *Names listed twice.* In a ZIP with a duplicate name the later entry is read twice and
   the earlier never (`container.py:52`). `DocumentsRead` says exactly that.
4. *A save that raises.* When the synchronisation of the directory fails, `save_keyring`
   raises "Could not write keyring" although the file has been replaced, and opens with the
   new passphrase only. `SavedKeyringLoads` allows for it.
5. *`_reconcile` of the tool* compares amounts alone, so a statement on an earlier run with
   equal amounts books a product; only `reconcile_transactions` tells the runs apart, which
   is why `FoundMeansReported` needs both.
6. *Raw files of the tool* are numbered from 1 by every fetch, so a second fetch into a run
   replaces those of the first (`ConsumedWasRead` excepts them); and a fetch without a
   manifest exits with 0 having reconciled nothing ("unmatched").
7. *The pins of `examples/_config.py:143`* and `zkb_handshake.py:188` are used only if both
   are set: one alone is ignored without a word.
8. *`zkb_handshake.py:201` and `:239`* parse what `download` returned, after the receipt: a
   document that no parser reads is consumed. The other examples pass a hook or use typed
   downloads.
9. *Levels of a pain.002.* `rejected_transactions` (`models.py:827`) reads the statuses of
   transactions alone: of a file that is rejected as a whole without listing them it names
   none. No code combines the levels, and `PaymentRound` makes no claim about them; a payment
   that is overlooked in this way is not made twice.

## 4. Bounds

| Constant | Value | Why that is enough |
|---|---|---|
| `NumSegments` | 3 (transfers), 2 (`KeyRotation`) | a first, a middle and a final segment: recovery can go back past more than one and stop short of the start |
| `RecoveryAttempts` | 2 (the code's default) and 1 | one repetition that is followed by a second, and the exhausted budget |
| `Faults` | all in `UploadTransfer.cfg`; in the download and the rotation one for each class of error: "timeout" (transient), "http_4xx" (permanent), "unsigned" or "not_xml" (`ProtocolError`), "dropped" (no `EbicsError`); "dropped" alone in `KeyRotationDropped.cfg` | the handlers tell the classes apart, not the faults |
| `MaxRotations` | 2; 1 in `KeyRotationDropped.cfg` | a second change over the leftovers of the first |
| `MaxSaves`, `Passphrases` | 3, 2 | a save that failed between two others, each under the same or another passphrase |
| `Keys` in `KeyChange` | 6 strong, 1 weak | all three keys replaced at once by keys not in use; three given strong keys are held at the start, as all are alike |
| `MaxKeyrings` | 2 | a keyring given up, and its successor, with late orders of the first |
| `Deliveries` | 4 | one good, one of another version and outside the period, one with the right root that the parser rejects, one that is no XML; together in a call or apart |
| `MaxLate` | 1 | a receipt in doubt while a later call runs |
| `MaxChanges` | 2 | one of the bank's keys changed within a transaction and one after it |
| `Blocks`, `MaxFiles`, `MaxUploads` | 2, 2, 3; 1, 1, 2 in `PaymentRoundLate.cfg` | two payments in one file or in two, one repeated in a new file, one upload repeated for the same file |
| `UntilEarly` (constraint) | in `PaymentRound.cfg` | once a file was sent again too early no property but the types and `LostOnlyByFailure` says anything more, so states after it are not explored |
| `MaxCodes`, `MaxRun`, `Limit`, `Chunk` | 3, 3, 5, 2 | streams of all sizes on both sides of the ceiling, a chunk that ends within a code and one that ends with the input |
| `Block`, `SegmentSize` | 2 codes, 3 characters | a segment of one and a half codes: boundaries within a base64 group and within a block |
| `MaxEntries`, `MaxEntryBytes` | 3, 1 | archives at and over each limit |
| `MaxRuns`, `MaxFetches` | 2, 2 | reports on an earlier run among those a fetch finds; a second fetch over the files of the first |
| `MaxReports`, `MaxDownloads` | 2, 2 | one report of each kind, which finding everything takes, or two of one, which reach the limit of downloads |

Symmetry is used for `Blocks`, and for the three strong keys no keyring holds at the start, in
runs without liveness.

## 5. Fairness

*`UploadTransfer`, `DownloadTransfer`*: weak fairness of the client's thread. It runs on
because every exchange it waits in ends: `Transport` has a timeout, 30 seconds by default.
Nothing is assumed of the bank or the network, and with that `CallEnds` depends on the
budget alone.

*`StatementSync`*: a nightly job is started again and again (it comes from a scheduler);
its call runs on; a check that rejects a delivery does raise; and failures that have
nothing to do with the deliveries (network, bank, process) stop at some time. The last one
is an assumption about the environment, without which nothing could be promised.
`WaitingEnds` excepts deliveries that wait beside one no parser reads: every call declines
all of them, which is what the code does and what an operator has to resolve.

*`OrderData`*: weak fairness of opening. It is one call in which nothing waits, and it needs
fairness only so that `OpensWhole` can say what it ends with.

The other modules claim safety only and assume no fairness.

## 6. Proofs

The theorems are in the `*Proofs` modules and hold for every value of the constants that
satisfies the named assumptions.

| Module | Inductive invariant | Why it is needed | What follows |
|---|---|---|---|
| `UploadTransferProofs` | `TransferInvariant` | that an error is definite depends on what the client knows about requests it gave up on: `OrderAccountedFor` and `LateFinalKnown` say that `finalUnanswered` covers every way in which the order can exist or come to exist | `FailureIsDefinite`, `ReturnIsTrue`, `DoubtIsJustified`, `ImplementsPromise` |
| `DownloadTransferProofs` | `DownloadInvariant` | a receipt in time or late exists only after the landing is decided, and the landing only after all segments are held | `ReturnIsConsumed`, `HeldDataIsStable`, `ConsumptionIsShown`, `ImplementsPromise` |
| `SubscriberKeysProofs` | `KeyringFileInvariant` | the data is on the disk before the path names it | `PathNeverTruncated`, `SavedMeansDurable`, `LoadAfterSave` |
| | `KeyChangeInvariant` | soundness of the bank's keyring after a doubt needs soundness of the successor that may still be adopted | `BankHoldsWholeKeyring`, `BankKeysAreSound`, `RotationsAreValid`, `OnlyNewKeys` |
| | `OnboardingInvariant` | what may still arrive late: orders of keyrings given up, bounded by the bank's state | `LettersAreRight`, `KeysAreInHand`, `SuspensionIsFinal` |
| `KeyRotationProofs` | `RotationInvariant` | `TransferInvariant` for the upload in progress, what the bank's keys owe to it (`BankFollows`), and what the files hold at each line of the script (`ScriptConsistent`, `FilesSafe`) | `LapsesAloneLockOut`, `ChangesNeverOverlap` |
| `IncomingPaymentsProofs` | `IncomingInvariant` | a report is consumed only by the download that has it, and no report is issued twice | `WhatWasConsumedWasRead`, `FetchHidesNothing`, `FoundWasReported` |
| `PaymentRoundProofs` | `PaymentInvariant` | what a report rejects, printed or not, is never executed (`ReportsTrue`), and a payment is over in every file but the latest it is in (`EarlierOver`), as long as no file was sent again early | `EarlyRepetitionAlonePaysTwice`, `ReportsLostOnlyByFailure` |
| `DeliveryProofs` | `OrderDataInvariant` | that the End code vouches for the data rests on where the sender's stream stood after each code that was read (`LoopInvariant`, `EndSeen`), and that nothing unsound was read before it; that all of it is reached without a defect, on the blocks that were sealed (`SealedInBlocks`) | `Bounded`, `Vouched`, `SentIsOpened`, `SplitReadsAll` |
| | `SyncInvariant` | a receipt in doubt is that of a call that had landed and booked all it will let the bank consume | `DeliveriesAreNotLost`, `BookedTwiceAfterFailure`, `OnlyAskedForIsConsumed` |
| `BankKeysProofs` | `BankKeysInvariant` | the age of the keys held and of the answer on its way | `HeldKeysAreVouched`, `HeldKeysAreOneAnswer`, `NoTroubleWithoutChange`, `MismatchesMeanChange` |

`ConsumptionIsShown` needs a second invariant beside `DownloadInvariant`:
`ConsumptionAccounted`, what a bank that consumed against the receipt still owes the caller
(an answer on its way that says so, or the caller told, or the answer lost), and that a late
receipt is one whose answer was lost.

*`KeyRotationProofs`* takes the upload from `UploadTransferProofs`: its instance of
`UploadTransfer` is shown to be the one of `KeyRotation` (`SameInvariant`, `SameClient`,
`SameBank`), so that a step of the script's transfer keeps `TransferInvariant` by the theorem
about uploads, and only the files and the bank's keys are left to argue about. Nothing is
assumed of the faults or the bank. The crucial steps are two. A successor file that the script
deletes without a lapse follows an error the transfer knows, and that the bank then holds no order,
and will hold none, is what `TransferInvariant` says. And a new change begins only after the
file of the last one is gone, which without a lapse the operator removes when nothing of the
change is left to happen.

*`PaymentRoundProofs`.* A payment goes into another file once a printed report rejects it in
the latest file it was in. The rejection is final because the bank decides a payment once per
file and takes a file once. That it takes a file once rests on two facts: whenever the operator
may send a file again the bank has not taken it (`MayRepeat`), and while no upload was
repeated early none of the file's earlier uploads can still be taken (`UploadInOrder`). The
bank may take an earlier upload of another file at any time, also after a newer file was
written.

*`IncomingPaymentsProofs`.* `ConsumedWasRead` and `NothingHidden` each need a companion that is
inductive with them: `LandedWasRead` (the data of an accepted download was parsed and is in a
file) and `ReadSoFar` (up to its first failure a fetch has read all it made the bank drop, but
for the download whose receipt the bank has just taken). `FoundWasReported` needs no
invariant beyond the types: it is about `Identifies` and `Differs`, and holds because two
payments without a reference never have the same amount in one run.

*`DeliveryProofs`* proves the invariant of `OrderData` in three parts: the loop
(`LoopPart`), which holds whatever was carried; what is carried without a defect
(`CarriagePart`); and splitting (`SplitInOrder`). Three facts about data come first, each by
taking a least counterexample (`Least`): joining the segments of `Split` restores the order
(`JoinsToOrder`, whatever `SegmentSize` is), the positions of a stream's codes do not pass
its size (`WithinStream`), and any list of names can be sorted (`Sortable`), without which
`NameOrder` would say nothing. `SentIsOpened` is the safety half of `OpensWhole`: data that
arrives as it was sent and is opened is the order data up to its End code, and it is refused
only over the ceiling or as a container over its limits. `SplitReadsAll` counts: the
documents with the content of an entry stand where its name does, which the sorting maps one
to one to the entries of that name.

Each invariant is checked by TLC as an invariant of a run and proved in three facts: the
initial states satisfy it, every action preserves it (one step per action, below it one
per conjunct the action disturbs), and it implies the property. (`RotationsAreValid` is checked of every sound keyring, as an assumption of `MCSubscriberKeys`;
`ConsumptionAccounted`,
`LandedWasRead` and `ReadSoFar` are only proved; their parts that matter are in checked
properties.) `ImplementsPromise` shows that initial states map to initial states of the
promise and each step to a step or a stutter of it.

What the theorems assume, beyond the types of the constants:

- `SyncAssumption`: jobs that book are those of `examples/02` (they parse, ask for no
  period, acknowledge);
- `BankKeysAssumption`: hashes do not collide;
- in `Onboarding`: keys given up are not initialised again, letters are printed only after
  both orders returned SUBMITTED, and a reset voids them (docs/05, docs/12);
- in `UploadTransfer`: an exception that escaped counts as doubt;
- `IncomingAssumption`: a run sends at most one payment of an amount without a reference
  (`build_scenario` has one), and
  `NothingAssumption`: what stands for nothing is no run, order type or report;
- `KeysAssumption` and `SavesAssumption`: strong keys are keys, the empty passphrase is none of
  the others;
- `OrderDataAssumption`: codes stand for `1..MaxRun` bytes, and the documents of a container
  differ, so that a document tells which entry was read (the names need not);
- in `OrderData`: the checksum of a stream that is not the sender's fails.

Only model-checked: that something happens. `CallEnds`, `WaitingEnds` and what `OpensWhole`
adds to `SentIsOpened` are liveness under fairness, which is out of the proof system's reach,
as is ENABLED. Induction theorems that take an operator as a parameter cannot be used either;
where a proof is about data of any length it takes a least counterexample instead.

## 7. Abstractions and what the environment is taken to do

- The bank is modelled from what the code and its documentation expect of it, and beyond
  that given the irregularities the code claims to withstand (`BankDefects`). In
  `StatementSync`, `PaymentRound` and `KeyRotationDropped.cfg` it is regular.
- In `KeyRotation` a new key change starts a new transaction, and what an earlier one may
  still do is forgotten. Without a lapse there is nothing of the kind (`OneChangeAtATime`);
  after one, an earlier change is followed no further.
- Cryptography is ideal. A signed answer that verifies is the bank's, but may be wrong.
- Answers are reduced to what the client reads from them: a code class, a recovery point or
  segment number, a key, a transaction or none.
- Documents are reduced to their root and the flaws the checks look for.
- `OrderData` takes bytes for positions and a code of DEFLATE for the run of bytes it puts
  out; header and checksum of the stream are its End code, and accidental collisions of
  checksums are left out. A damaged cipher block spoils what comes after it.
- In `IncomingPayments` a run is its number; reports carry the payments they credit instead
  of amounts and texts, from which `EntryAmount` and `Identifies` recover what the code
  compares. A receipt in doubt is taken or not by the end of the call: a late one, during a
  later fetch, is modelled in `StatementSync` only. Manifests that do not hold the remittance
  text (`zkb-incoming-payments.py:657`, `:790`) are left out.
- In `PaymentRound` the operator sends a file again only after a definite failure or once he
  has seen that the bank has no order of it, and a payment in a new file only after a printed
  report named it in `rejected_transactions`; a receipt in doubt is resolved when the call
  ends. The status of a payment block (`PmtInfSts`), which is only printed, is left out, and
  a block has one transaction.
- In `BankKeys` no key is weak in the run; the refusal of weak keys (`h005.py:1648`) is in the
  module and the proof.
- `KeyChange` takes a whole call as one step; `KeyRotation` takes it apart.

## 8. Not modelled

- *Encoding*: XML, canonicalisation, order of schema elements, JSON and PEM, layout of
  letters, the mapping of message elements to fields.
- *Signatures, encryption, digests and X.509*: ideal, or a predicate.
- *Version discovery, value types, administrative downloads*: no state of their own; a
  single exchange, checks of single fields, the download transaction again.
- *Other examples and tools*: one or two calls the modules cover, or build support.
- *The verdict of `examples/09_audit_trail_hac.py`*: a reading of codes in a log the bank
  writes, without state.
- On systems other than POSIX a rename is not synchronised; `KeyringFile` models this,
  `SavedKeyringLoads` claims nothing for it.

## 9. Plan

Done: the transactions and their promises, key change, rotation and keyring file,
onboarding, the statement job, bank keys, the payment round trip, order data with the
bounded inflate loop and containers, the incoming payments tool; proofs of the safety
properties of all of them.

Next: the verdict of `examples/09_audit_trail_hac.py`, beside the reports in `PaymentRound`, and
receipts taken late in `IncomingPayments`.
