-------------------------- MODULE IncomingPayments --------------------------
(***************************************************************************)
(* tools/zkb-incoming-payments.py: simulated credits go to the bank's test *)
(* platform as a CSV file (`upload`), and the camt reports that come back  *)
(* are downloaded, stored, parsed and reconciled with what was sent        *)
(* (`fetch`). The upload is an UploadPromise, each download a              *)
(* DownloadPromise. Several runs, fetches into the directory of any of     *)
(* them and the death of the process interleave with the bank's booking    *)
(* and reporting.                                                          *)
(*                                                                         *)
(* A run is named by its stamp, the second it began in, which also makes   *)
(* its references unique: here by its number.                              *)
(***************************************************************************)
EXTENDS Naturals, Sequences, FiniteSets, FiniteSetsExt, Functions

CONSTANTS Payments,      \* of each run
          Product,       \* the product of each
          Amount,        \* and its amount, without charges
          MaxRuns,       \* bound: how many runs are started
          MaxFetches,    \* bound: how often `fetch` is started
          MaxReports,    \* bound: how many reports the bank issues
          MaxDownloads,  \* _MAX_DOWNLOADS_PER_ORDER_TYPE
          Bookings,      \* the ways in which the bank may book and report a run, see Credits
          Unreadable,    \* the kinds of report that may come in a form the parser refuses
          Nothing        \* stands for no run, no order type, no report

ASSUME IncomingAssumption == /\ Amount \in [Payments -> Nat \ {0}]
                             /\ Product \in [Payments -> {"QRR", "SCOR", "NON", "LSV"}]
                             \* build_scenario has one payment without a reference.
                             /\ \A p, q \in Payments :
                                   Product[p] = "NON" /\ Product[q] = "NON" => p = q \/ Amount[p] # Amount[q]
                             /\ MaxRuns \in Nat
                             /\ MaxDownloads \in Nat \ {0}
                             /\ MaxFetches \in Nat /\ MaxReports \in Nat
                             /\ Unreadable \subseteq {"statement", "notification"}
                             /\ Bookings \subseteq
                                   [dropped : SUBSET Payments, differing : SUBSET Payments,
                                    statement : {"single", "together", "unresolved"},
                                    notification : {"single", "together", "unresolved"}]

VARIABLES
    step,         \* of the tool: "down", "uploading", "recording" or "fetching"
    \* Files
    runs,         \* the run directories
    manifests,    \* those that hold a manifest
    raw,          \* the downloaded files in each, by the name the tool gives them
    overwritten,  \* reports whose file was replaced by a later fetch; no code reads it
    \* The latest upload, see UploadPromise
    run, outcome,
    \* The latest fetch
    fetches,      \* how many there were
    target,       \* the run directory it works in
    queue,        \* order types HAA listed that are still to be downloaded
    btf,          \* the one being downloaded
    attempt,      \* successful downloads of it
    results,      \* what was downloaded and parsed so far
    failures,     \* some download failed
    verdict,      \* what the step printed and returned, see Verdicts
    before,       \* the reports gone when it began; no code reads it
    \* The latest download, see DownloadPromise
    fetch, landed, consumed, report,
    \* Bank
    taken,        \* the runs whose file it took
    inDoubt,      \* those it may still take
    unreported,   \* the entries it has not reported yet, for each kind of report
    waiting,      \* the reports it serves
    gone          \* those it serves no more

Orders   == IF run \in taken THEN 1 ELSE 0
Upload   == INSTANCE UploadPromise WITH orders <- Orders
Download == INSTANCE DownloadPromise WITH outcome <- fetch, policy <- "ACKNOWLEDGE"

disk      == <<runs, manifests, raw, overwritten>>
uploading == <<run, outcome>>
loop      == <<queue, btf, attempt, results, failures>>
fetchVars == <<target, loop, verdict, before>>
fetching  == <<fetches, fetchVars>>
download  == <<fetch, landed, consumed, report>>
orders    == <<taken, inDoubt>>
mailbox   == <<unreported, waiting, gone>>
vars      == <<step, disk, uploading, fetching, download, orders, mailbox>>

Products == {Product[p] : p \in Payments}
Of(product) == {p \in Payments : Product[p] = product}

\* The BTFs: camt.053 and camt.052 book, camt.054 notifies.
Kinds == {"statement", "notification"}

Stamps == 1..MaxRuns

\* A payment as a run sent it and its manifest recorded it. Its reference, or the text of
\* one without, holds the run's stamp.
SentPayments == [run : Stamps, payment : Payments]
Scenario(stamp) == {s \in SentPayments : s.run = stamp}

\* An entry credits payments of one run: one of them, or a product's together. Its
\* transaction details may be missing, or differ from what was sent for some of them.
Entries == [run : Stamps, payments : (SUBSET Payments) \ {{}}, detailed : BOOLEAN,
            differing : SUBSET Payments]
Reports == [kind : Kinds, entries : SUBSET Entries, readable : BOOLEAN]

\* "nothing": no order type has data; "unmatched": there is no manifest to reconcile with;
\* "found": everything sent was reported. These three exit with 0.
Verdicts == {"none", "nothing", "unmatched", "found", "failed"}

\* The name of a downloaded file: the number of the download and the BTF.
Names == (1..(MaxDownloads * Cardinality(Kinds))) \X Kinds
NoFiles == [n \in {} |-> Nothing]

ASSUME NothingAssumption == Nothing \notin Stamps /\ Nothing \notin Kinds /\ Nothing \notin Reports

TypeOK == /\ step \in {"down", "uploading", "recording", "fetching"}
          /\ runs \subseteq Stamps /\ manifests \subseteq runs
          /\ DOMAIN raw = Stamps
          /\ \A r \in Stamps : DOMAIN raw[r] \subseteq Names /\ Range(raw[r]) \subseteq Reports
          /\ run \in runs \cup {Nothing}
          /\ outcome \in {"pending", "confirmed", "failed", "unconfirmed"}
          /\ fetches \in 0..MaxFetches
          /\ target \in runs \cup {Nothing}
          /\ queue \subseteq Kinds /\ btf \in Kinds \cup {Nothing}
          /\ attempt \in 0..MaxDownloads
          /\ results \in Seq(Reports)
          /\ failures \in BOOLEAN /\ verdict \in Verdicts
          /\ fetch \in {"idle", "pending"} /\ landed \in BOOLEAN /\ consumed \in BOOLEAN
          /\ report \in Reports \cup {Nothing}
          /\ taken \cup inDoubt \subseteq runs
          /\ waiting \cup gone \cup overwritten \subseteq Reports
          /\ unreported \in [Kinds -> SUBSET Entries]

Init == /\ step = "down"
        /\ runs = {} /\ manifests = {} /\ raw = [r \in Stamps |-> NoFiles] /\ overwritten = {}
        /\ run = Nothing /\ outcome = "failed"
        /\ target = Nothing /\ queue = {} /\ btf = Nothing /\ attempt = 0 /\ results = <<>>
        /\ fetches = 0 /\ failures = FALSE /\ verdict = "none" /\ before = {}
        /\ fetch = "idle" /\ landed = FALSE /\ consumed = FALSE /\ report = Nothing
        /\ taken = {} /\ inDoubt = {}
        /\ unreported = [k \in Kinds |-> {}] /\ waiting = {} /\ gone = {}

-----------------------------------------------------------------------------
\* upload

\* Every step is a process of its own: nothing of the last one is left.
NoUpload == run' = Nothing /\ outcome' = "failed"
NoLoop == queue' = {} /\ btf' = Nothing /\ attempt' = 0 /\ results' = <<>> /\ failures' = FALSE

\* mkdir(exist_ok=False): a second run in the same second ends here and changes nothing.
NewDirectory(stamp) == stamp = Cardinality(runs) + 1

StartUpload == /\ step = "down"
               /\ \E stamp \in Stamps : NewDirectory(stamp) /\ run' = stamp
               /\ runs' = runs \cup {run'}
               /\ step' = "uploading"
               /\ outcome' = "pending"
               /\ inDoubt' = inDoubt \cup {run'}
               /\ NoLoop /\ target' = Nothing /\ verdict' = "none" /\ before' = {}
               /\ UNCHANGED <<manifests, raw, overwritten, fetches, download, taken, mailbox>>

\* The manifest is written once the upload has returned.
UploadReturns == /\ step = "uploading"
                 /\ UNCHANGED taken /\ inDoubt' = inDoubt \ {run} /\ UNCHANGED run
                 /\ Upload!Confirm
                 /\ step' = "recording"
                 /\ UNCHANGED <<disk, fetching, download, mailbox>>

\* Mutant: the manifest is written whatever becomes of the upload.
RecordAnyway == manifests' = manifests \cup {run}
LeaveUnrecorded == UNCHANGED manifests

\* An error leaves the directory without a manifest.
UploadRaises == /\ step = "uploading"
                /\ UNCHANGED taken /\ UNCHANGED run
                /\ \/ Upload!Fail /\ inDoubt' = inDoubt \ {run}
                   \/ Upload!Doubt /\ UNCHANGED inDoubt
                /\ LeaveUnrecorded
                /\ step' = "down"
                /\ UNCHANGED <<runs, raw, overwritten, fetching, download, mailbox>>

Record == /\ step = "recording"
          /\ manifests' = manifests \cup {run}
          /\ step' = "down"
          /\ UNCHANGED <<runs, raw, overwritten, uploading, fetching, download, orders, mailbox>>

-----------------------------------------------------------------------------
\* fetch

Waiting(kind) == {r \in waiting : r.kind = kind}

\* HAA
AvailableOrderTypes == {k \in Kinds : Waiting(k) # {}}

\* The loop of the step goes on with one of the given order types.
NextOrderType(types) == /\ IF types = {} THEN btf' = Nothing ELSE btf' \in types
                        /\ queue' = types \ {btf'}
                        /\ attempt' = 0

\* The run is named, or it is the latest (_latest_run). HAA lists a BTF once per order, the
\* tool keeps it once (_distinct).
StartFetch == /\ step = "down" /\ fetches < MaxFetches
              /\ fetches' = fetches + 1
              /\ target' \in runs
              /\ before' = gone
              /\ NextOrderType(AvailableOrderTypes)
              /\ results' = <<>> /\ failures' = FALSE
              /\ IF btf' = Nothing THEN verdict' = "nothing" /\ UNCHANGED step
                                   ELSE verdict' = "none" /\ step' = "fetching"
              /\ NoUpload
              /\ UNCHANGED <<disk, download, orders, mailbox>>

\* _download_all is done with this BTF.
EndOrderType(failed) == /\ NextOrderType(queue)
                        /\ failures' = (failures \/ failed)
                        /\ UNCHANGED results

NoDownload == fetch' = "idle" /\ landed' = FALSE /\ consumed' = FALSE /\ report' = Nothing

\* The bank serves one of the waiting orders.
BeginDownload == /\ btf # Nothing /\ fetch = "idle" /\ attempt < MaxDownloads
                 /\ report' \in Waiting(btf)
                 /\ fetch' = "pending" /\ landed' = FALSE /\ consumed' = FALSE
                 /\ UNCHANGED <<step, disk, uploading, fetching, orders, mailbox>>

\* 090005
NothingLeft == /\ btf # Nothing /\ fetch = "idle" /\ attempt < MaxDownloads
               /\ Waiting(btf) = {}
               /\ EndOrderType(FALSE)
               /\ UNCHANGED <<step, disk, uploading, fetches, target, verdict, before, download, orders,
                              mailbox>>

StopAtLimit == /\ btf # Nothing /\ fetch = "idle" /\ attempt = MaxDownloads
               /\ EndOrderType(TRUE)
               /\ UNCHANGED <<step, disk, uploading, fetches, target, verdict, before, download, orders,
                              mailbox>>

\* The file is numbered over all order types of the fetch; every fetch starts again at 1.
FileName == <<Len(results) + 1, btf>>

WriteFile == LET files == raw[target]
             IN  /\ raw' = [raw EXCEPT ![target] = [n \in DOMAIN files \cup {FileName} |->
                                           IF n = FileName THEN report ELSE files[n]]]
                 /\ overwritten' = IF FileName \in DOMAIN files
                                   THEN overwritten \cup {files[FileName]} ELSE overwritten

\* Mutant: the hook only stores, the parser runs on what download returns.
StoreOnly == WriteFile /\ Download!Land /\ UNCHANGED <<loop, report>>
\* _store_and_parse, inside the hook: a parser that fails declines the data.
StoreAndParse == /\ WriteFile
                 /\ \/ report.readable /\ Download!Land /\ UNCHANGED <<loop, report>>
                    \/ ~report.readable /\ EndOrderType(TRUE) /\ NoDownload

RunHook == /\ fetch = "pending" /\ ~landed
           /\ StoreAndParse
           /\ UNCHANGED <<step, runs, manifests, uploading, fetches, target, verdict, before, orders,
                          mailbox>>

DownloadReturns == /\ fetch = "pending" /\ landed /\ consumed
                   /\ NoDownload
                   /\ results' = Append(results, report)
                   /\ attempt' = attempt + 1
                   /\ UNCHANGED <<step, disk, uploading, fetches, target, queue, btf, failures, verdict,
                                  before, orders, mailbox>>

\* Mutant: a failed download is printed but not counted.
IgnoreFailure == EndOrderType(FALSE)
CountFailure == EndOrderType(TRUE)

\* A download fails before the hook or at the receipt, which the bank may have taken
\* (Consume): every error but 090005.
DownloadFails == /\ fetch = "pending"
                 /\ NoDownload
                 /\ CountFailure
                 /\ UNCHANGED <<step, disk, uploading, fetches, target, verdict, before, orders,
                                mailbox>>

-----------------------------------------------------------------------------
\* The reconciliation with the manifest

EntryAmount(e) == MapThenSumSet(LAMBDA p : Amount[p], e.payments)

\* _match: an entry of the product's total, or an entry of its own for every amount.
Matches(entries, product) ==
    LET ofAmount(a) == {e \in entries : EntryAmount(e) = a}
    IN  \/ ofAmount(MapThenSumSet(LAMBDA p : Amount[p], Of(product))) # {}
        \/ \A p \in Of(product) :
              Cardinality(ofAmount(Amount[p]))
                  >= Cardinality({q \in Of(product) : Amount[q] = Amount[p]})

\* _reconcile: a product must be booked in one camt.053 or camt.052.
Booked(product) == \E r \in Range(results) : r.kind = "statement" /\ Matches(r.entries, product)

\* _transactions: the transaction details of all entries.
Transactions(r) ==
    UNION {{[run |-> e.run, payment |-> p, differs |-> p \in e.differing] : p \in e.payments} :
              e \in {x \in r.entries : x.detailed}}

\* Only a payment without reference is told from another run's by its remittance text.
Referenced(p) == Product[p] # "NON"

\* Mutant: the amount alone identifies a payment without reference.
IdentifiesByAmount(tx, s) ==
    IF Referenced(s.payment) THEN tx.run = s.run /\ tx.payment = s.payment
    ELSE ~Referenced(tx.payment) /\ Amount[tx.payment] = Amount[s.payment]
\* _identifies: by the reference, or by amount and text.
Identifies(tx, s) ==
    IF Referenced(s.payment) THEN tx.run = s.run /\ tx.payment = s.payment
    ELSE ~Referenced(tx.payment) /\ Amount[tx.payment] = Amount[s.payment] /\ tx.run = s.run

\* _differences: what identifies the transaction is as it was sent, something else of it is
\* not, or its amount is another payment's.
Differs(tx, s) == tx.differs \/ Amount[tx.payment] # Amount[s.payment]

\* reconcile_transactions: some report carries the payment, and none with a difference.
Found(s) == LET all == UNION {Transactions(r) : r \in Range(results)}
                carriers == {tx \in all : Identifies(tx, s)}
            IN  carriers # {} /\ \A tx \in carriers : ~Differs(tx, s)

\* _load_manifest
Manifest == Scenario(target)

\* A product is looked for by what the manifest holds of it, a payment by itself.
Reconciled == /\ \A product \in {Product[s.payment] : s \in Manifest} : Booked(product)
              /\ \A s \in Manifest : Found(s)

\* _print_download, for every result
Shown == Range(results)

FinishFetch == /\ step = "fetching" /\ btf = Nothing
               /\ step' = "down"
               /\ verdict' = CASE failures                                 -> "failed"
                               [] ~failures /\ target \notin manifests -> "unmatched"
                               [] OTHER -> IF Reconciled THEN "found" ELSE "failed"
               /\ NoLoop /\ target' = Nothing /\ before' = {}
               /\ UNCHANGED <<disk, uploading, fetches, download, orders, mailbox>>

-----------------------------------------------------------------------------
\* The process dies, or an error passes through the step (HPB or HAA fail).
Dies == /\ step # "down"
        /\ step' = "down"
        /\ NoUpload /\ NoLoop /\ NoDownload
        /\ target' = Nothing /\ verdict' = "none" /\ before' = {}
        /\ UNCHANGED <<disk, fetches, orders, mailbox>>

-----------------------------------------------------------------------------
\* Bank (external)

\* It takes the file, also after the tool has given up on it, and books its rows; it
\* may drop some of them, or report some with a difference. A product is booked together
\* or row by row, and its resolution into transactions can be switched off.
Credits(r, booked, style, differing) ==
    LET groups == IF style = "single" THEN {{p} : p \in booked}
                                      ELSE {booked \cap Of(product) : product \in Products} \ {{}}
    IN  {[run |-> r, payments |-> g, detailed |-> style # "unresolved",
          differing |-> g \cap differing] : g \in groups}

TakeFile(r) ==
    /\ r \in inDoubt
    /\ taken' = taken \cup {r} /\ inDoubt' = inDoubt \ {r}
    /\ \E b \in Bookings :
          unreported' = [k \in Kinds |-> unreported[k] \cup
                            Credits(r, Payments \ b.dropped, b[k], b.differing)]
    /\ UNCHANGED <<step, disk, uploading, fetching, download, waiting, gone>>

\* A report on all it has booked since the last one of its kind; not every parser reads it.
Issue(kind) == /\ unreported[kind] # {} /\ Cardinality(waiting \cup gone) < MaxReports
               /\ \E readable \in {TRUE} \cup {kind \notin Unreadable} :
                     waiting' = waiting \cup
                         {[kind |-> kind, entries |-> unreported[kind], readable |-> readable]}
               /\ unreported' = [unreported EXCEPT ![kind] = {}]
               /\ UNCHANGED <<step, disk, uploading, fetching, download, orders, gone>>

\* It takes the positive receipt.
Consume == /\ fetch = "pending"
           /\ Download!Consume
           /\ gone' = gone \cup {report} /\ waiting' = waiting \ {report}
           /\ UNCHANGED <<step, disk, uploading, fetching, report, orders, unreported>>

-----------------------------------------------------------------------------
Next == \/ StartUpload \/ UploadReturns \/ UploadRaises \/ Record
        \/ StartFetch \/ BeginDownload \/ NothingLeft \/ StopAtLimit
        \/ RunHook \/ DownloadReturns \/ DownloadFails \/ FinishFetch \/ Dies
        \/ Consume
        \/ \E r \in Stamps : TakeFile(r)
        \/ \E k \in Kinds : Issue(k)

Spec == Init /\ [][Next]_vars

-----------------------------------------------------------------------------
(***************************************************************************)
(* Properties                                                              *)
(***************************************************************************)

\* When the tool says that everything was found, the bank has credited every payment of this
\* run and reported each, as it was sent, in what this fetch downloaded: no report of an
\* earlier run, whose amounts are the same, passes for it (reconcile_transactions).
FoundMeansReported ==
    [][FinishFetch /\ verdict' = "found" =>
          \A p \in Payments : \E r \in Range(results) : \E e \in r.entries :
              e.run = target /\ p \in e.payments \ e.differing]_vars

\* The reports that are in a file, or were until another took its name.
Stored == overwritten \cup UNION {Range(raw[r]) : r \in Stamps}

\* What the bank serves no more was parsed before the receipt, and is in a file, unless a
\* later fetch into the same run has replaced that file ("a parser failure then sends a
\* negative receipt and the bank keeps the data, while the raw bytes are on disk").
ConsumedWasRead == /\ \A r \in gone : r.readable
                   /\ gone \subseteq Stored

\* A fetch that exits with 0 has shown every report it made the bank drop: only one that
\* fails or dies hides a report from the operator.
NothingHidden ==
    [][FinishFetch /\ verdict' # "failed" => gone \ before \subseteq Shown]_vars
-----------------------------------------------------------------------------
\* A run is recorded only if the bank took its file, which it takes once.
RunsInOrder == /\ \E n \in 0..MaxRuns : runs = 1..n
               /\ manifests \subseteq taken
               /\ taken \cap inDoubt = {}
               /\ step = "recording" => run \in taken

\* A fetch works in a directory that exists, through one order type after the other, and
\* numbers no file beyond the limit of downloads for each.
LoopInOrder == /\ step = "fetching" => target # Nothing
               /\ step # "fetching" => btf = Nothing
               /\ btf = Nothing => queue = {}
               /\ btf \notin queue
               /\ btf # Nothing =>
                     Len(results) <= attempt + (IF queue = {} THEN MaxDownloads ELSE 0)

\* A download gets a report that is waiting, and only its receipt makes the bank drop it.
DownloadInOrder == /\ fetch = "idle" => ~landed /\ ~consumed /\ report = Nothing
                   /\ fetch = "pending" => /\ btf # Nothing /\ attempt < MaxDownloads
                                           /\ report \in waiting \cup gone
                                           /\ report \in gone <=> consumed
                   /\ consumed => landed

\* The bank reports a credit of a run it took once for each kind of report.
ReportsInOrder == /\ waiting \cap gone = {}
                  /\ \A k \in Kinds : \A e \in unreported[k] : e.run \in taken
                  /\ \A r \in waiting \cup gone : \A e \in r.entries :
                        e.run \in taken /\ e \notin unreported[r.kind]

\* What ties the runs, the loop of a fetch and the bank's reports together. It is inductive.
IncomingInvariant == /\ TypeOK
                     /\ RunsInOrder
                     /\ LoopInOrder
                     /\ DownloadInOrder
                     /\ ReportsInOrder

\* The data of a download that was accepted was read, and is in a file.
LandedWasRead == landed => report.readable /\ report \in Stored

\* Up to the first failure the fetch has read what it made the bank drop.
ReadSoFar == step = "fetching" /\ ~failures =>
                gone \ before \subseteq Range(results) \cup (IF consumed THEN {report} ELSE {})
=============================================================================
