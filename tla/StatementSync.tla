--------------------------- MODULE StatementSync ---------------------------
(***************************************************************************)
(* A job that fetches statements again and again, and what it leaves at    *)
(* the bank and in its ledger: the checks Client.download runs before the  *)
(* receipt (version policy, parser, date range, the caller's own), the     *)
(* booking in the validate hook of examples/02_daily_statement_sync.py,    *)
(* and the next run after one that failed or died. Each call is a          *)
(* DownloadPromise, which DownloadTransfer implements.                     *)
(*                                                                         *)
(* A delivery is a document of order data. Its flaws are those the checks  *)
(* look for.                                                               *)
(***************************************************************************)
EXTENDS FiniteSets, Naturals

CONSTANTS Deliveries,   \* what the bank ever makes available
          Messages,     \* ISO 20022 messages, each in one version
          Requested,    \* the one the calls ask for
          Root,         \* the message the root tag of each names, or "foreign" or "garbled"
          Unreadable,   \* those the parser rejects
          OutOfPeriod,  \* those with an entry booked outside the requested period
          Jobs,         \* the calls the jobs make, see AllJobs
          MaxLate       \* bound: receipts that are in doubt at one time

AllJobs == [books  : BOOLEAN,  \* the hook books the statements
            parses : BOOLEAN,  \* the data is parsed before the receipt
            dated  : BOOLEAN,  \* with a date_range
            strict : BOOLEAN,  \* VersionPolicy.STRICT
            policy : {"ACKNOWLEDGE", "KEEP"}]

ASSUME SyncAssumption == /\ Unreadable \cup OutOfPeriod \subseteq Deliveries
                         /\ Requested \in Messages /\ {"foreign", "garbled"} \cap Messages = {}
                         /\ Root \in [Deliveries -> Messages \cup {"foreign", "garbled"}]
                         \* What is no XML at its root is none to the parser.
                         /\ \A d \in Deliveries : Root[d] = "garbled" => d \in Unreadable
                         /\ Jobs \subseteq AllJobs
                         \* A job that books is that of examples/02.
                         /\ \A j \in Jobs : j.books => /\ j.parses /\ ~j.dated
                                                      /\ j.policy = "ACKNOWLEDGE"
                         /\ MaxLate \in Nat

VARIABLES
    \* The current call, see DownloadPromise
    policy, outcome, landed, consumed,
    job,         \* the call, or NoJob
    batch,       \* the deliveries the bank serves in it
    todo,        \* those its hook has not booked yet
    \* The bank
    arrived,     \* what it has made available so far
    waiting,     \* what it will serve to the next undated call
    late,        \* calls that raised although the bank may still take their receipt
    handed,      \* what it served no more once a call that does not book consumed it
    \* The ledger
    booked,      \* the deliveries that were booked
    again,       \* those that were booked more than once
    unfinished   \* those booked by a call that did not return

Download == INSTANCE DownloadPromise

promise  == <<policy, outcome, landed, consumed>>
bank     == <<arrived, waiting, late, handed>>
ledger   == <<booked, again, unfinished>>
syncVars == <<promise, job, batch, todo, bank, ledger>>

NoJob == [books |-> FALSE, parses |-> FALSE, dated |-> FALSE, strict |-> FALSE,
          policy |-> "none"]
Calls == [job : Jobs, batch : SUBSET Deliveries]
Call  == [job |-> job, batch |-> batch]

SyncInit == /\ policy = "KEEP" /\ outcome = "returned" /\ landed = FALSE /\ consumed = FALSE
            /\ job = NoJob /\ batch = {} /\ todo = {}
            /\ arrived = {} /\ waiting = {} /\ late = {} /\ handed = {}
            /\ booked = {} /\ again = {} /\ unfinished = {}

Running == job # NoJob

-----------------------------------------------------------------------------
\* The calls of the examples

\* Client.download_statements, and the other downloads that parse.
DownloadStatements(dated, strict, receipt) ==
    [books |-> FALSE, parses |-> TRUE, dated |-> dated, strict |-> strict, policy |-> receipt]

\* examples/01, 03 and 10
Peek       == DownloadStatements(FALSE, FALSE, "KEEP")
Backfill   == DownloadStatements(TRUE, FALSE, "ACKNOWLEDGE")
StrictRead == DownloadStatements(FALSE, TRUE, "KEEP")

\* examples/02, with either version policy
Nightly(strict) == [books |-> TRUE, parses |-> TRUE, dated |-> FALSE, strict |-> strict,
                    policy |-> "ACKNOWLEDGE"]

-----------------------------------------------------------------------------
\* Opening

\* What the bank serves: all that waits, or for a period whatever it likes (a bank may
\* ignore DateRange, or serve again what it delivered before).
Served(j) == IF j.dated THEN (SUBSET arrived) \ {{}} ELSE {waiting} \ {{}}

\* Client.download; with nothing to serve the answer is 090005 and the call raises.
Open(j) == /\ ~Running
           /\ batch' \in Served(j)
           /\ job' = j
           /\ policy' = j.policy
           /\ outcome' = "pending" /\ landed' = FALSE /\ consumed' = FALSE
           /\ todo' = IF j.books THEN batch' ELSE {}
           /\ UNCHANGED <<bank, ledger>>

-----------------------------------------------------------------------------
\* The checks before the receipt

\* root_namespace raises on a document that is no XML at its root. It reads no further, so
\* it passes one that the parser will reject.
HasRoot(d) == Root[d] # "garbled"

\* message_identifier: the message the root namespace names, if it names one.
MessageIdentifier(d) == {Root[d]} \cap Messages

\* Mutant: one document of the right version is enough.
AnyOfTheVersion(documents) == \E d \in documents : MessageIdentifier(d) = {Requested}
\* _version_mismatch finds none. A document that names no message is a mismatch.
OfRequestedVersion(documents) ==
    \A d \in documents : HasRoot(d) /\ MessageIdentifier(d) = {Requested}

\* _version_policy_check: ACCEPT_ANY compares, and only warns.
PassesVersionPolicy == job.strict => OfRequestedVersion(batch)

\* The parser, in the validate hook.
PassesParser == job.parses => batch \cap Unreadable = {}

\* _entries_in_range_check
PassesDateCheck == job.parses /\ job.dated => batch \cap OutOfPeriod = {}

\* _with_version_policy: the version first, then the caller's check.
Acceptable == PassesVersionPolicy /\ PassesParser /\ PassesDateCheck

\* Mutant: a ledger that refuses a statement it has.
BookOnce(d) == /\ Running /\ outcome = "pending" /\ ~landed
               /\ Acceptable
               /\ d \in todo \ booked
               /\ todo' = todo \ {d}
               /\ booked' = booked \cup {d}
               /\ UNCHANGED <<promise, job, batch, bank, again, unfinished>>
\* book_everything: all of the data is parsed, then one statement after the other booked.
\* The ledger of the example knows nothing of earlier runs.
Book(d) == /\ Running /\ outcome = "pending" /\ ~landed
           /\ Acceptable
           /\ d \in todo
           /\ todo' = todo \ {d}
           /\ booked' = booked \cup {d}
           /\ again' = IF d \in booked THEN again \cup {d} ELSE again
           /\ UNCHANGED <<promise, job, batch, bank, unfinished>>

\* Mutant: the statements are booked from what download returns.
BookLater == TRUE
\* The validate hook has returned.
HookDone == todo = {}

Land == /\ Running
        /\ Acceptable
        /\ HookDone
        /\ Download!Land
        /\ UNCHANGED <<job, batch, todo, bank, ledger>>

-----------------------------------------------------------------------------
\* The receipt and the end of the call

\* The bank serves no more what call c was served.
ConsumeFor(c) == /\ waiting' = waiting \ c.batch
                 /\ handed' = IF c.job.books THEN handed ELSE handed \cup c.batch

\* The bank takes the positive receipt.
Consume == /\ Running
           /\ Download!Consume
           /\ ConsumeFor(Call)
           /\ UNCHANGED <<job, batch, todo, arrived, late, ledger>>

EndCall == job' = NoJob /\ batch' = {} /\ todo' = {}

\* Mutant: a bank that did not take the positive receipt does not fail the call.
ReturnAnyway == /\ outcome = "pending" /\ landed
                /\ outcome' = "returned"
                /\ UNCHANGED <<policy, landed, consumed>>
\* _run_download_transaction returns.
ReturnOrderData == Download!Return

Return == /\ Running
          /\ ReturnOrderData
          /\ EndCall
          /\ UNCHANGED <<bank, ledger>>

\* The bank may still take the receipt of a call that has ended.
ReceiptInDoubt == landed /\ policy = "ACKNOWLEDGE" /\ ~consumed

\* The call raises, or its process dies. In doubt a later receipt can still arrive.
Fail == /\ Running
        /\ Download!Raise
        /\ \/ ReceiptInDoubt /\ Cardinality(late) < MaxLate /\ late' = late \cup {Call}
           \/ ~ReceiptInDoubt /\ UNCHANGED late
        /\ unfinished' = IF job.books THEN unfinished \cup (batch \ todo) ELSE unfinished
        /\ EndCall
        /\ UNCHANGED <<arrived, waiting, handed, booked, again>>

-----------------------------------------------------------------------------
\* Bank (external)

Arrive(d) == /\ d \notin arrived
             /\ arrived' = arrived \cup {d}
             /\ waiting' = waiting \cup {d}
             /\ UNCHANGED <<promise, job, batch, todo, late, handed, ledger>>

\* The receipt of an earlier call arrives, or never will.
LateReceipt == \E c \in late :
                   /\ late' = late \ {c}
                   /\ ConsumeFor(c) \/ UNCHANGED <<waiting, handed>>
                   /\ UNCHANGED <<promise, job, batch, todo, arrived, ledger>>

-----------------------------------------------------------------------------
SyncNext == \/ \E j \in Jobs : Open(j)
            \/ \E d \in Deliveries : Book(d) \/ Arrive(d)
            \/ Land \/ Consume \/ Return \/ Fail
            \/ LateReceipt

SyncSpec == SyncInit /\ [][SyncNext]_syncVars

\* The nightly job (a booking job under ACCEPT_ANY) is started again and again beside
\* whatever other calls there are, a call goes on as long as nothing fails, one that fails
\* its checks raises, and other failures end at some time: an assumption about the operator
\* and the network.
Nightlies == {j \in Jobs : j.books /\ ~j.strict}

Fairness == /\ \A j \in Nightlies : SF_syncVars(Open(j))
            /\ WF_syncVars(\E d \in Deliveries : Book(d))
            /\ WF_syncVars(Land)
            /\ WF_syncVars(Consume)
            /\ WF_syncVars(Return)
            /\ WF_syncVars(Fail /\ ~Acceptable)
            /\ <>[][Fail => ~Acceptable]_syncVars

FairSpec == SyncSpec /\ Fairness

-----------------------------------------------------------------------------
(***************************************************************************)
(* Properties                                                              *)
(***************************************************************************)

SyncTypeOK == /\ outcome \in {"pending", "returned", "raised"}
              /\ job \in Jobs \cup {NoJob}
              /\ batch \subseteq arrived
              /\ todo \subseteq batch
              /\ arrived \subseteq Deliveries
              /\ waiting \subseteq arrived
              /\ late \subseteq Calls
              /\ booked \subseteq arrived

\* Each delivery is at the bank or in the ledger, whatever fails, dies or arrives late, but
\* for those that calls without a booking hook have consumed (examples/02: "never tell the
\* bank 'got it' until the data is safely landed").
NothingLost == arrived \ waiting \subseteq booked \cup handed

\* A statement is booked twice only if a call that had booked it did not return: the
\* bank serves again what it was not told to consume, so a ledger has to expect what an
\* interrupted run has booked, and only that.
TwiceOnlyAfterFailure == again \subseteq unfinished

\* What a call asked for, of all it may consume.
AsAsked(j, d) == /\ j.policy = "ACKNOWLEDGE"
                 /\ j.parses => d \notin Unreadable
                 /\ j.strict => Root[d] = Requested
                 /\ j.dated /\ j.parses => d \notin OutOfPeriod

\* The bank stops serving a delivery only for a call that asked for it as it is: never for
\* a KEEP read, a STRICT call for another version or a dated call for another period
\* (VersionPolicy, ReceiptPolicy, DateRangeMismatchError: "NOT acknowledged").
ConsumedAsAsked == [][\A d \in waiting \ waiting' :
                          \E c \in late \cup {Call} : d \in c.batch /\ AsAsked(c.job, d)]_syncVars

\* A nightly job that runs again after every failure gets everything the bank has for it,
\* unless a document that no parser reads comes to wait among it: each call then declines
\* everything.
WaitingEnds == \A d \in Deliveries :
                   d \in waiting ~> (\/ d \in (booked \cup handed) \ waiting
                                     \/ waiting \cap Unreadable # {})
-----------------------------------------------------------------------------
\* A call in progress: what it may consume it has checked, and what it has booked is in
\* the ledger.
CallInOrder ==
    Running =>
        /\ outcome = "pending"
        /\ policy = job.policy
        /\ ~job.books => todo = {}
        /\ job.books => batch \ todo \subseteq booked
        /\ job.books => batch \cap booked \subseteq unfinished \cup (batch \ todo)
        /\ landed => todo = {} /\ Acceptable
        /\ consumed => landed /\ batch \cap waiting = {}

\* A receipt in doubt is that of a call that had landed.
DoubtInOrder ==
    \A c \in late : /\ c.batch \subseteq arrived
                    /\ \A d \in c.batch : AsAsked(c.job, d)
                    /\ c.job.books => c.batch \subseteq booked

\* What was booked and still waits was booked by a call that failed, or by this one.
WaitingBooked ==
    booked \cap waiting \subseteq unfinished \cup (IF job.books THEN batch \ todo ELSE {})

\* The inductive invariant.
SyncInvariant == /\ SyncTypeOK
                 /\ CallInOrder
                 /\ DoubtInOrder
                 /\ WaitingBooked
                 /\ NothingLost
                 /\ TwiceOnlyAfterFailure
=============================================================================
