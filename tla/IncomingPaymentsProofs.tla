----------------------- MODULE IncomingPaymentsProofs -----------------------
(***************************************************************************)
(* Proofs about IncomingPayments, for any payments and any number of runs, *)
(* fetches and reports. The bank drops a report only for a download whose  *)
(* hook has stored and parsed it, and the fetch counts a failure for each  *)
(* download that does not return; so what it made the bank drop is among   *)
(* what it shows, unless it fails.                                         *)
(***************************************************************************)
EXTENDS IncomingPayments, TLAPS, FiniteSetTheorems

\* Two BTFs carry reports, so the files of a fetch have twice as many numbers as there may be
\* downloads for one.
LEMMA NumbersOfFiles == Cardinality(Kinds) = 2
<1>1. IsFiniteSet({"statement"}) /\ Cardinality({"statement"}) = 1
  BY FS_Singleton
<1>2. Cardinality({"statement"} \cup {"notification"}) = 2
  BY <1>1, FS_AddElement
<1>3. Kinds = {"statement"} \cup {"notification"}
  BY DEF Kinds
<1> QED
  BY <1>2, <1>3

\* Appending adds one element to the range.
LEMMA RangeOfAppend ==
    ASSUME NEW S, NEW s \in Seq(S), NEW x
    PROVE  Range(Append(s, x)) = Range(s) \cup {x}
<1>1. DOMAIN Append(s, x) = 1..(Len(s) + 1) /\ DOMAIN s = 1..Len(s) /\ Len(s) \in Nat
  OBVIOUS
<1>2. Append(s, x)[Len(s) + 1] = x /\ \A i \in 1..Len(s) : Append(s, x)[i] = s[i]
  OBVIOUS
<1> QED
  BY <1>1, <1>2 DEF Range

\* Nothing is there at the start.
LEMMA ToolInit == Init => IncomingInvariant
<1> SUFFICES ASSUME Init PROVE IncomingInvariant
  OBVIOUS
<1>1. TypeOK
  <2>1. DOMAIN raw = Stamps /\ \A r \in Stamps : DOMAIN raw[r] = {} /\ Range(raw[r]) = {}
    BY DEF Init, NoFiles, Range
  <2>2. results \in Seq(Reports) /\ unreported \in [Kinds -> SUBSET Entries]
    BY DEF Init
  <2>3. attempt \in 0..MaxDownloads /\ fetches \in 0..MaxFetches
    BY IncomingAssumption DEF Init
  <2> QED
    BY <2>1, <2>2, <2>3 DEF Init, TypeOK, Verdicts
<1>2. RunsInOrder
  <2>1. 0 \in 0..MaxRuns /\ {} = 1..0
    BY IncomingAssumption
  <2> QED
    BY <2>1 DEF Init, RunsInOrder
<1>3. LoopInOrder /\ DownloadInOrder /\ ReportsInOrder
  BY DEF Init, LoopInOrder, DownloadInOrder, ReportsInOrder
<1> QED
  BY <1>1, <1>2, <1>3 DEF IncomingInvariant

-----------------------------------------------------------------------------
(***************************************************************************)
(* Steps of the tool                                                       *)
(***************************************************************************)

\* A new run has a number of its own.
LEMMA NewRun ==
    ASSUME IncomingInvariant, NEW stamp \in Stamps, NewDirectory(stamp)
    PROVE  /\ stamp \notin runs
           /\ \E n \in 0..MaxRuns : runs \cup {stamp} = 1..n
<1>1. PICK n \in 0..MaxRuns : runs = 1..n
  BY DEF IncomingInvariant, RunsInOrder
<1>2. Cardinality(1..n) = n
  <2>1. n \in Int /\ 1 \in Int /\ (IF 1 > n THEN 0 ELSE n - 1 + 1) = n
    BY IncomingAssumption
  <2> QED
    BY <2>1, FS_Interval
<1>3. stamp = n + 1
  BY <1>1, <1>2 DEF NewDirectory
<1> QED
  BY <1>1, <1>3, IncomingAssumption DEF Stamps

\* upload
LEMMA UploadKept ==
    ASSUME IncomingInvariant, StartUpload \/ UploadReturns \/ UploadRaises \/ Record
    PROVE  IncomingInvariant'
<1> USE DEF IncomingInvariant, disk, uploading, loop, fetchVars, fetching, download, orders,
            mailbox
<1>1. CASE StartUpload
  <2>1. PICK stamp \in Stamps : NewDirectory(stamp) /\ run' = stamp
    BY <1>1 DEF StartUpload
  <2>2. /\ runs' = runs \cup {stamp} /\ inDoubt' = inDoubt \cup {stamp}
        /\ step = "down" /\ step' = "uploading" /\ outcome' = "pending"
        /\ target' = Nothing /\ verdict' = "none" /\ before' = {}
        /\ queue' = {} /\ btf' = Nothing /\ attempt' = 0 /\ results' = <<>> /\ failures' = FALSE
        /\ UNCHANGED <<manifests, raw, overwritten, fetches, fetch, landed, consumed, report>>
        /\ UNCHANGED <<taken, unreported, waiting, gone>>
    BY <1>1, <2>1 DEF StartUpload, NoLoop
  <2>3. TypeOK'
    <3>1. results' \in Seq(Reports) /\ attempt' \in 0..MaxDownloads
      BY <2>2, IncomingAssumption
    <3> QED
      BY <2>1, <2>2, <3>1 DEF TypeOK, Verdicts
  <2>4. RunsInOrder'
    <3>1. \E n \in 0..MaxRuns : runs' = 1..n
      BY <2>1, <2>2, NewRun
    <3>2. stamp \notin taken
      BY <2>1, NewRun DEF TypeOK
    <3> QED
      BY <2>2, <3>1, <3>2 DEF RunsInOrder
  <2>5. LoopInOrder' /\ ReportsInOrder'
    BY <2>2 DEF LoopInOrder, ReportsInOrder
  <2>6. DownloadInOrder'
    BY <2>2 DEF DownloadInOrder, LoopInOrder
  <2> QED
    BY <2>3, <2>4, <2>5, <2>6
<1>2. CASE UploadReturns \/ UploadRaises \/ Record
  <2>1. /\ step \in {"uploading", "recording"} /\ step' \in {"recording", "down"}
        /\ run' = run /\ taken' = taken /\ inDoubt' \subseteq inDoubt
        /\ \/ manifests' = manifests
           \/ step = "recording" /\ manifests' = manifests \cup {run}
        /\ outcome' \in {"pending", "confirmed", "failed", "unconfirmed"}
        /\ step' = "recording" => run \in taken
        /\ UNCHANGED <<runs, raw, overwritten, fetches, target, queue, btf, attempt, results>>
        /\ UNCHANGED <<failures, verdict, before, fetch, landed, consumed, report>>
        /\ UNCHANGED <<unreported, waiting, gone>>
    <3>1. CASE UploadReturns
      BY <3>1 DEF UploadReturns, Upload!Confirm, Orders
    <3>2. CASE UploadRaises
      BY <3>2 DEF UploadRaises, Upload!Fail, Upload!Doubt, LeaveUnrecorded
    <3>3. CASE Record
      BY <3>3 DEF Record, TypeOK
    <3> QED
      BY <1>2, <3>1, <3>2, <3>3
  <2>2. manifests' \subseteq taken
    BY <2>1 DEF RunsInOrder
  <2>3. TypeOK'
    BY <2>1, <2>2 DEF TypeOK
  <2>4. RunsInOrder'
    BY <2>1, <2>2 DEF RunsInOrder
  <2>5. LoopInOrder' /\ ReportsInOrder' /\ DownloadInOrder'
    BY <2>1 DEF LoopInOrder, ReportsInOrder, DownloadInOrder
  <2> QED
    BY <2>3, <2>4, <2>5
<1> QED
  BY <1>1, <1>2

\* The loop goes on with another order type, or ends.
LEMMA NextInOrder ==
    ASSUME NEW types \in SUBSET Kinds, NextOrderType(types)
    PROVE  /\ queue' \subseteq types /\ attempt' = 0
           /\ btf' = Nothing => types = {} /\ queue' = {}
           /\ btf' # Nothing => btf' \in types
           /\ btf' \notin queue'
  BY NothingAssumption DEF NextOrderType

\* Such a step of a fetch, whatever becomes of a download that was under way.
LEMMA LoopGoesOn ==
    ASSUME IncomingInvariant, step = "fetching", btf # Nothing,
           EndOrderType(TRUE) \/ EndOrderType(FALSE),
           UNCHANGED <<step, uploading, runs, manifests, fetches, target, verdict, before,
                       orders, mailbox>>,
           \/ fetch = "idle" /\ UNCHANGED download
           \/ NoDownload,
           DOMAIN raw' = Stamps,
           \A r \in Stamps : DOMAIN raw'[r] \subseteq Names /\ Range(raw'[r]) \subseteq Reports,
           overwritten' \subseteq Reports
    PROVE  IncomingInvariant'
<1> USE DEF IncomingInvariant, disk, uploading, loop, fetchVars, fetching, download, orders,
            mailbox
<1>1. /\ NextOrderType(queue) /\ results' = results /\ failures' \in BOOLEAN
  BY DEF EndOrderType, TypeOK
<1>2. /\ queue' \subseteq queue /\ attempt' = 0
      /\ btf' = Nothing => queue = {} /\ queue' = {}
      /\ btf' # Nothing => btf' \in queue
      /\ btf' \notin queue'
  BY <1>1, NextInOrder DEF TypeOK
<1>3. /\ fetch' = "idle" /\ ~landed' /\ ~consumed' /\ report' = Nothing
  BY DEF NoDownload, DownloadInOrder
<1>4. TypeOK'
  <2>1. queue' \subseteq Kinds /\ btf' \in Kinds \cup {Nothing} /\ attempt' \in 0..MaxDownloads
    BY <1>2, IncomingAssumption DEF TypeOK
  <2>2. fetch' \in {"idle", "pending"} /\ landed' \in BOOLEAN /\ consumed' \in BOOLEAN
    BY <1>3 DEF NoDownload, TypeOK
  <2> QED
    BY <1>1, <1>3, <2>1, <2>2 DEF TypeOK
<1>5. RunsInOrder' /\ ReportsInOrder' /\ DownloadInOrder'
  BY <1>3 DEF RunsInOrder, ReportsInOrder, DownloadInOrder, TypeOK
<1>6. LoopInOrder'
  <2>1. ASSUME btf' # Nothing PROVE queue' = {} /\ Len(results) <= MaxDownloads
    <3>1. queue # {} /\ btf \in Kinds
      BY <1>2, <2>1 DEF TypeOK
    <3>2. queue' = {}
      BY <1>2, <2>1, <3>1 DEF TypeOK, Kinds, LoopInOrder
    <3>3. Len(results) <= attempt + 0 /\ attempt \in 0..MaxDownloads
      BY <3>1 DEF LoopInOrder, TypeOK
    <3> QED
      BY <3>2, <3>3, IncomingAssumption DEF TypeOK
  <2> QED
    BY <1>1, <1>2, <2>1, IncomingAssumption DEF LoopInOrder
<1> QED
  BY <1>4, <1>5, <1>6

\* A file has a number within the bound.
LEMMA FileNamed ==
    ASSUME IncomingInvariant, fetch = "pending" PROVE FileName \in Names
<1>1. /\ btf \in Kinds /\ attempt < MaxDownloads /\ attempt \in Nat
      /\ results \in Seq(Reports) /\ Len(results) \in Nat
  BY IncomingAssumption DEF IncomingInvariant, TypeOK, DownloadInOrder
<1>2. Len(results) <= attempt + MaxDownloads
  BY <1>1, IncomingAssumption, NothingAssumption DEF IncomingInvariant, LoopInOrder
<1>3. Len(results) + 1 \in 1..(MaxDownloads * Cardinality(Kinds))
  BY <1>1, <1>2, NumbersOfFiles, IncomingAssumption
<1> QED
  BY <1>1, <1>3 DEF FileName, Names

\* A file is written into the directory of the run; the one it replaces is remembered.
LEMMA FileWritten ==
    ASSUME IncomingInvariant, fetch = "pending", WriteFile
    PROVE  /\ DOMAIN raw' = Stamps
           /\ \A r \in Stamps : /\ DOMAIN raw'[r] \subseteq Names
                                /\ Range(raw'[r]) \subseteq Reports
           /\ overwritten' \subseteq Reports
           /\ report \in Range(raw'[target]) /\ target \in Stamps
           /\ overwritten \subseteq overwritten'
           /\ \A r \in Stamps : Range(raw[r]) \subseteq overwritten' \cup Range(raw'[r])
<1> USE DEF IncomingInvariant
<1> DEFINE files == raw[target]
           written == [n \in DOMAIN files \cup {FileName} |->
                          IF n = FileName THEN report ELSE files[n]]
<1>1. target \in Stamps /\ DOMAIN raw = Stamps
  BY DEF TypeOK, LoopInOrder, DownloadInOrder
<1>2. raw' = [raw EXCEPT ![target] = written]
  BY DEF WriteFile
<1>3. /\ FileName \in DOMAIN files => overwritten' = overwritten \cup {files[FileName]}
      /\ FileName \notin DOMAIN files => overwritten' = overwritten
  BY DEF WriteFile
<1>4. DOMAIN raw' = Stamps /\ \A r \in Stamps : raw'[r] = IF r = target THEN written ELSE raw[r]
  BY <1>1, <1>2
<1>5. report \in Reports
  BY DEF TypeOK, DownloadInOrder
<1>6. DOMAIN files \subseteq Names /\ Range(files) \subseteq Reports
  BY <1>1 DEF TypeOK
<1>7. DOMAIN written \subseteq Names /\ Range(written) \subseteq Range(files) \cup {report}
  BY <1>6, FileNamed DEF Range
<1>8. report \in Range(written)
  BY DEF Range
<1>9. Range(files) \subseteq overwritten' \cup Range(written)
  <2> SUFFICES ASSUME NEW n \in DOMAIN files PROVE files[n] \in overwritten' \cup Range(written)
    BY DEF Range
  <2>1. CASE n = FileName
    BY <1>3, <2>1
  <2>2. CASE n # FileName
    <3>1. n \in DOMAIN written /\ written[n] = files[n]
      BY <2>2
    <3> QED
      BY <3>1 DEF Range
  <2> QED
    BY <2>1, <2>2
<1>10. overwritten' \subseteq Reports
  BY <1>3, <1>6 DEF TypeOK, Range
<1> HIDE DEF written, files
<1>11. \A r \in Stamps : DOMAIN raw'[r] \subseteq Names /\ Range(raw'[r]) \subseteq Reports
  <2> TAKE r \in Stamps
  <2>1. CASE r = target
    BY <1>4, <1>5, <1>6, <1>7, <2>1
  <2>2. CASE r # target
    BY <1>4, <2>2 DEF TypeOK
  <2> QED
    BY <2>1, <2>2
<1>12. \A r \in Stamps : Range(raw[r]) \subseteq overwritten' \cup Range(raw'[r])
  <2> TAKE r \in Stamps
  <2>1. CASE r = target
    BY <1>4, <1>9, <2>1 DEF files
  <2>2. CASE r # target
    BY <1>4, <2>2
  <2> QED
    BY <2>1, <2>2
<1> QED
  BY <1>1, <1>3, <1>4, <1>8, <1>10, <1>11, <1>12

\* fetch begins.
LEMMA StartFetchKept == ASSUME IncomingInvariant, StartFetch PROVE IncomingInvariant'
<1> USE DEF IncomingInvariant, disk, uploading, loop, fetchVars, fetching, download, orders,
            mailbox
<1>1. /\ step = "down" /\ fetches < MaxFetches /\ fetches' = fetches + 1
      /\ target' \in runs /\ before' = gone /\ results' = <<>> /\ failures' = FALSE
      /\ run' = Nothing /\ outcome' = "failed" /\ NextOrderType(AvailableOrderTypes)
      /\ btf' = Nothing => verdict' = "nothing" /\ step' = "down"
      /\ btf' # Nothing => verdict' = "none" /\ step' = "fetching"
      /\ UNCHANGED <<runs, manifests, raw, overwritten, fetch, landed, consumed, report>>
      /\ UNCHANGED <<taken, inDoubt, unreported, waiting, gone>>
  BY DEF StartFetch, NoUpload
<1>2. /\ queue' \subseteq Kinds /\ btf' \in Kinds \cup {Nothing} /\ attempt' = 0
      /\ btf' = Nothing => queue' = {}
      /\ btf' \notin queue'
  BY <1>1, NextInOrder DEF AvailableOrderTypes
<1>3. TypeOK'
  <2>1. results' \in Seq(Reports) /\ attempt' \in 0..MaxDownloads /\ fetches' \in 0..MaxFetches
    BY <1>1, <1>2, IncomingAssumption DEF TypeOK
  <2> QED
    BY <1>1, <1>2, <2>1 DEF TypeOK, Verdicts
<1>4. RunsInOrder' /\ ReportsInOrder'
  BY <1>1 DEF RunsInOrder, ReportsInOrder
<1>5. DownloadInOrder'
  BY <1>1 DEF DownloadInOrder, LoopInOrder
<1>6. LoopInOrder'
  <2>1. target' # Nothing
    BY <1>1, NothingAssumption DEF TypeOK
  <2> QED
    BY <1>1, <1>2, <2>1, IncomingAssumption DEF LoopInOrder
<1> QED
  BY <1>3, <1>4, <1>5, <1>6

\* A download begins.
LEMMA BeginDownloadKept == ASSUME IncomingInvariant, BeginDownload PROVE IncomingInvariant'
<1> USE DEF IncomingInvariant, disk, uploading, loop, fetchVars, fetching, download, orders,
            mailbox, BeginDownload, Waiting
<1>1. TypeOK'
  BY DEF TypeOK
<1>2. DownloadInOrder'
  BY DEF DownloadInOrder, ReportsInOrder
<1> QED
  BY <1>1, <1>2 DEF RunsInOrder, LoopInOrder, ReportsInOrder

\* The order type is finished.
LEMMA OrderTypeEndsKept ==
    ASSUME IncomingInvariant, NothingLeft \/ StopAtLimit
    PROVE  IncomingInvariant'
<1>1. /\ EndOrderType(TRUE) \/ EndOrderType(FALSE)
      /\ step = "fetching" /\ btf # Nothing /\ fetch = "idle"
      /\ UNCHANGED <<step, disk, uploading, fetches, target, verdict, before, download, orders,
                     mailbox>>
  BY DEF NothingLeft, StopAtLimit, IncomingInvariant, TypeOK, LoopInOrder
<1>2. /\ DOMAIN raw' = Stamps
      /\ \A r \in Stamps : DOMAIN raw'[r] \subseteq Names /\ Range(raw'[r]) \subseteq Reports
      /\ overwritten' \subseteq Reports
  BY <1>1 DEF IncomingInvariant, TypeOK, disk
<1> QED
  BY <1>1, <1>2, LoopGoesOn DEF disk

\* The download fails.
LEMMA DownloadFailsKept == ASSUME IncomingInvariant, DownloadFails PROVE IncomingInvariant'
<1>1. /\ step = "fetching" /\ btf # Nothing /\ EndOrderType(TRUE) /\ NoDownload
      /\ UNCHANGED <<step, disk, uploading, fetches, target, verdict, before, orders, mailbox>>
  BY DEF DownloadFails, CountFailure, IncomingInvariant, LoopInOrder, DownloadInOrder, TypeOK
<1>2. /\ DOMAIN raw' = Stamps
      /\ \A r \in Stamps : DOMAIN raw'[r] \subseteq Names /\ Range(raw'[r]) \subseteq Reports
      /\ overwritten' \subseteq Reports
  BY <1>1 DEF IncomingInvariant, TypeOK, disk
<1> QED
  BY <1>1, <1>2, LoopGoesOn DEF disk

\* The hook stores the data, and accepts it or not.
LEMMA RunHookKept == ASSUME IncomingInvariant, RunHook PROVE IncomingInvariant'
<1>1. /\ fetch = "pending" /\ ~landed /\ WriteFile
      /\ UNCHANGED <<step, runs, manifests, uploading, fetches, target, verdict, before, orders,
                     mailbox>>
  BY DEF RunHook, StoreAndParse
<1>2. /\ DOMAIN raw' = Stamps
      /\ \A r \in Stamps : DOMAIN raw'[r] \subseteq Names /\ Range(raw'[r]) \subseteq Reports
      /\ overwritten' \subseteq Reports
  BY <1>1, FileWritten
<1>3. CASE report.readable /\ Download!Land /\ UNCHANGED <<loop, report>>
  <2> USE <1>1, <1>2, <1>3 DEF Download!Land, IncomingInvariant, uploading, loop, orders,
                               mailbox
  <2>1. TypeOK'
    BY DEF TypeOK
  <2>2. RunsInOrder' /\ ReportsInOrder' /\ LoopInOrder' /\ DownloadInOrder'
    BY DEF RunsInOrder, ReportsInOrder, LoopInOrder, DownloadInOrder
  <2> QED
    BY <2>1, <2>2
<1>4. CASE ~report.readable /\ EndOrderType(TRUE) /\ NoDownload
  <2>1. step = "fetching" /\ btf # Nothing
    BY <1>1 DEF IncomingInvariant, LoopInOrder, DownloadInOrder
  <2> QED
    BY <1>1, <1>2, <1>4, <2>1, LoopGoesOn
<1> QED
  BY <1>3, <1>4 DEF RunHook, StoreAndParse

\* The download returns.
LEMMA DownloadReturnsKept == ASSUME IncomingInvariant, DownloadReturns PROVE IncomingInvariant'
<1> USE DEF IncomingInvariant, disk, uploading, orders, mailbox, DownloadReturns, NoDownload
<1>1. /\ results \in Seq(Reports) /\ report \in Reports /\ attempt \in 0..MaxDownloads
      /\ attempt < MaxDownloads
  BY DEF TypeOK, DownloadInOrder
<1>2. results' \in Seq(Reports) /\ Len(results') = Len(results) + 1 /\ Len(results) \in Nat
  BY <1>1
<1>3. attempt' \in 0..MaxDownloads
  BY <1>1, IncomingAssumption
<1>4. TypeOK'
  BY <1>2, <1>3 DEF TypeOK
<1>5. RunsInOrder' /\ ReportsInOrder' /\ DownloadInOrder'
  BY DEF RunsInOrder, ReportsInOrder, DownloadInOrder
<1>6. LoopInOrder'
  BY <1>1, <1>2, IncomingAssumption DEF LoopInOrder
<1> QED
  BY <1>4, <1>5, <1>6

\* fetch ends, or any step dies.
LEMMA EndsKept == ASSUME IncomingInvariant, FinishFetch \/ Dies PROVE IncomingInvariant'
<1> USE DEF IncomingInvariant, disk, uploading, loop, fetchVars, fetching, download, orders,
            mailbox
<1>1. /\ step' = "down" /\ target' = Nothing /\ before' = {} /\ queue' = {} /\ btf' = Nothing
      /\ attempt' = 0 /\ results' = <<>> /\ failures' = FALSE /\ verdict' \in Verdicts
      /\ fetch' = "idle" /\ ~landed' /\ ~consumed' /\ report' = Nothing
      /\ landed' \in BOOLEAN /\ consumed' \in BOOLEAN
      /\ run' \in runs \cup {Nothing}
      /\ outcome' \in {"pending", "confirmed", "failed", "unconfirmed"}
      /\ UNCHANGED <<runs, manifests, raw, overwritten, fetches, taken, inDoubt>>
      /\ UNCHANGED <<unreported, waiting, gone>>
  <2>1. CASE FinishFetch
    BY <2>1 DEF FinishFetch, NoLoop, TypeOK, DownloadInOrder, Verdicts
  <2>2. CASE Dies
    BY <2>2 DEF Dies, NoUpload, NoLoop, NoDownload, Verdicts
  <2> QED
    BY <2>1, <2>2
<1>2. results' \in Seq(Reports) /\ attempt' \in 0..MaxDownloads
  BY <1>1, IncomingAssumption
<1>3. TypeOK'
  BY <1>1, <1>2 DEF TypeOK
<1>4. RunsInOrder' /\ ReportsInOrder' /\ LoopInOrder' /\ DownloadInOrder'
  BY <1>1 DEF RunsInOrder, ReportsInOrder, LoopInOrder, DownloadInOrder
<1> QED
  BY <1>3, <1>4

-----------------------------------------------------------------------------
(***************************************************************************)
(* Steps of the bank                                                       *)
(***************************************************************************)

\* The credits the bank books for a run are of this run.
LEMMA CreditsOfRun ==
    ASSUME NEW r \in Stamps, NEW paid \in SUBSET Payments, NEW style,
           NEW differing \in SUBSET Payments
    PROVE  /\ Credits(r, paid, style, differing) \subseteq Entries
           /\ \A e \in Credits(r, paid, style, differing) : e.run = r
<1> DEFINE groups == IF style = "single" THEN {{p} : p \in paid}
                     ELSE {paid \cap Of(product) : product \in Products} \ {{}}
           credit(g) == [run |-> r, payments |-> g, detailed |-> style # "unresolved",
                         differing |-> g \cap differing]
<1>1. \A g \in groups : g \in (SUBSET Payments) \ {{}}
  OBVIOUS
<1>2. Credits(r, paid, style, differing) = {credit(g) : g \in groups}
  BY DEF Credits
<1>3. ASSUME NEW g \in (SUBSET Payments) \ {{}} PROVE credit(g) \in Entries /\ credit(g).run = r
  <2>1. g \cap differing \in SUBSET Payments /\ (style # "unresolved") \in BOOLEAN
    OBVIOUS
  <2> QED
    BY <2>1 DEF Entries
<1> HIDE DEF groups, credit
<1> QED
  BY <1>1, <1>2, <1>3

\* The bank takes a file and books it.
LEMMA TakeFileKept ==
    ASSUME IncomingInvariant, NEW r \in Stamps, TakeFile(r)
    PROVE  IncomingInvariant'
<1> USE DEF IncomingInvariant, disk, uploading, loop, fetchVars, fetching, download
<1>1. /\ r \in inDoubt /\ taken' = taken \cup {r} /\ inDoubt' = inDoubt \ {r}
      /\ UNCHANGED <<step, runs, manifests, raw, overwritten, run, outcome, fetches, target>>
      /\ UNCHANGED <<queue, btf, attempt, results, failures, verdict, before>>
      /\ UNCHANGED <<fetch, landed, consumed, report, waiting, gone>>
  BY DEF TakeFile
<1>2. PICK b \in Bookings :
          unreported' = [k \in Kinds |-> unreported[k] \cup
                            Credits(r, Payments \ b.dropped, b[k], b.differing)]
  BY DEF TakeFile
<1>3. b.differing \in SUBSET Payments
  BY IncomingAssumption
<1> DEFINE credits(k) == Credits(r, Payments \ b.dropped, b[k], b.differing)
<1>4. \A k : credits(k) \subseteq Entries /\ \A e \in credits(k) : e.run = r
  BY <1>3, CreditsOfRun
<1>5. \A k \in Kinds : unreported'[k] = unreported[k] \cup credits(k)
  BY <1>2
<1>6. unreported' \in [Kinds -> SUBSET Entries]
  BY <1>2, <1>4 DEF TypeOK
<1> HIDE DEF credits
<1>7. r \notin taken /\ r \in runs
  BY <1>1 DEF RunsInOrder, TypeOK
<1>8. TypeOK'
  BY <1>1, <1>6, <1>7 DEF TypeOK
<1>9. RunsInOrder' /\ LoopInOrder' /\ DownloadInOrder'
  BY <1>1 DEF RunsInOrder, LoopInOrder, DownloadInOrder
<1>10. ReportsInOrder'
  <2>1. \A k \in Kinds : \A e \in unreported'[k] : e.run \in taken'
    BY <1>1, <1>4, <1>5 DEF ReportsInOrder
  <2>2. ASSUME NEW q \in waiting \cup gone, NEW e \in q.entries
        PROVE  e.run \in taken' /\ e \notin unreported'[q.kind]
    <3>1. q.kind \in Kinds
      BY DEF TypeOK, Reports
    <3> QED
      BY <1>1, <1>4, <1>5, <1>7, <3>1 DEF ReportsInOrder
  <2> QED
    BY <1>1, <2>1, <2>2 DEF ReportsInOrder
<1> QED
  BY <1>8, <1>9, <1>10

\* It issues a report, which it has not issued before.
LEMMA IssueKept ==
    ASSUME IncomingInvariant, NEW kind \in Kinds, Issue(kind)
    PROVE  IncomingInvariant'
<1> USE DEF IncomingInvariant, disk, uploading, loop, fetchVars, fetching, download, orders
<1>1. PICK readable \in BOOLEAN :
          waiting' = waiting \cup
              {[kind |-> kind, entries |-> unreported[kind], readable |-> readable]}
  BY DEF Issue
<1> DEFINE new == [kind |-> kind, entries |-> unreported[kind], readable |-> readable]
<1>2. /\ unreported[kind] # {} /\ unreported' = [unreported EXCEPT ![kind] = {}]
      /\ UNCHANGED <<step, runs, manifests, raw, overwritten, run, outcome, fetches, target>>
      /\ UNCHANGED <<queue, btf, attempt, results, failures, verdict, before>>
      /\ UNCHANGED <<fetch, landed, consumed, report, taken, inDoubt, gone>>
  BY DEF Issue
<1>3. /\ unreported' \in [Kinds -> SUBSET Entries]
      /\ \A k \in Kinds : unreported'[k] = IF k = kind THEN {} ELSE unreported[k]
  BY <1>2 DEF TypeOK
<1>4. new \in Reports
  BY DEF TypeOK, Reports
<1>5. new \notin gone
  BY <1>2 DEF ReportsInOrder
<1>6. TypeOK'
  BY <1>1, <1>2, <1>3, <1>4 DEF TypeOK
<1>7. RunsInOrder' /\ LoopInOrder' /\ DownloadInOrder'
  BY <1>1, <1>2 DEF RunsInOrder, LoopInOrder, DownloadInOrder
<1>8. ReportsInOrder'
  <2>1. waiting' \cap gone = {}
    BY <1>1, <1>5 DEF ReportsInOrder
  <2>2. ASSUME NEW q \in waiting' \cup gone, NEW e \in q.entries
        PROVE  e.run \in taken /\ e \notin unreported'[q.kind]
    <3>1. CASE q = new
      BY <1>3, <3>1 DEF ReportsInOrder
    <3>2. CASE q # new
      <4>1. q \in waiting \cup gone /\ q.kind \in Kinds
        BY <1>1, <3>2 DEF TypeOK, Reports
      <4> QED
        BY <1>3, <4>1 DEF ReportsInOrder
    <3> QED
      BY <3>1, <3>2
  <2>3. \A k \in Kinds : \A e \in unreported'[k] : e.run \in taken
    BY <1>3 DEF ReportsInOrder
  <2> QED
    BY <1>2, <2>1, <2>2, <2>3 DEF ReportsInOrder
<1> QED
  BY <1>6, <1>7, <1>8

\* It serves a report no more.
LEMMA ConsumeKept == ASSUME IncomingInvariant, Consume PROVE IncomingInvariant'
<1> USE DEF IncomingInvariant, disk, uploading, loop, fetchVars, fetching, orders, Consume,
            Download!Consume
<1>1. report \in waiting
  BY DEF DownloadInOrder
<1>2. TypeOK'
  BY <1>1 DEF TypeOK
<1>3. RunsInOrder' /\ LoopInOrder' /\ DownloadInOrder'
  BY <1>1 DEF RunsInOrder, LoopInOrder, DownloadInOrder
<1>4. ReportsInOrder'
  BY <1>1 DEF ReportsInOrder
<1> QED
  BY <1>2, <1>3, <1>4

\* Every step keeps the invariant.
LEMMA IncomingStep == ASSUME IncomingInvariant, [Next]_vars PROVE IncomingInvariant'
<1>1. CASE StartUpload \/ UploadReturns \/ UploadRaises \/ Record
  BY <1>1, UploadKept
<1>2. CASE StartFetch \/ BeginDownload \/ NothingLeft \/ StopAtLimit
  BY <1>2, StartFetchKept, BeginDownloadKept, OrderTypeEndsKept
<1>3. CASE RunHook \/ DownloadReturns \/ DownloadFails \/ Consume
  BY <1>3, RunHookKept, DownloadReturnsKept, DownloadFailsKept, ConsumeKept
<1>4. CASE FinishFetch \/ Dies
  BY <1>4, EndsKept
<1>5. CASE (\E r \in Stamps : TakeFile(r)) \/ \E k \in Kinds : Issue(k)
  BY <1>5, TakeFileKept, IssueKept
<1>6. CASE UNCHANGED vars
  BY <1>6 DEF vars, disk, uploading, loop, fetchVars, fetching, download, orders, mailbox,
              IncomingInvariant, TypeOK, RunsInOrder, LoopInOrder, DownloadInOrder,
              ReportsInOrder
<1> QED
  BY <1>1, <1>2, <1>3, <1>4, <1>5, <1>6 DEF Next

-----------------------------------------------------------------------------
(***************************************************************************)
(* What a fetch does to the bank's reports, and what it says of them       *)
(***************************************************************************)

\* The runs, the loop of a fetch and the bank's reports fit together in every state.
THEOREM IncomingInvariantHolds == Spec => []IncomingInvariant
  BY ToolInit, IncomingStep, PTL DEF Spec

\* Every action leaves the files and the download alone, but for the hook, and the reports the
\* bank serves no more, but for the receipt.
LEMMA OtherSteps ==
    ASSUME IncomingInvariant, [Next]_vars
    PROVE  \/ RunHook \/ Consume
           \/ /\ UNCHANGED <<raw, overwritten, gone>>
              /\ landed' => landed /\ report' = report
<1> USE DEF disk, uploading, loop, fetchVars, fetching, download, orders, mailbox
<1>1. CASE StartUpload \/ UploadReturns \/ UploadRaises \/ Record
  BY <1>1 DEF StartUpload, UploadReturns, UploadRaises, Record
<1>2. CASE StartFetch \/ BeginDownload
  BY <1>2 DEF StartFetch, BeginDownload
<1>3. CASE NothingLeft \/ StopAtLimit \/ FinishFetch
  BY <1>3 DEF NothingLeft, StopAtLimit, FinishFetch
<1>4. CASE DownloadReturns \/ DownloadFails \/ Dies
  BY <1>4 DEF DownloadReturns, DownloadFails, Dies, NoDownload
<1>5. CASE (\E r \in Stamps : TakeFile(r)) \/ \E k \in Kinds : Issue(k)
  BY <1>5 DEF TakeFile, Issue
<1>6. CASE UNCHANGED vars
  BY <1>6 DEF vars
<1> QED
  BY <1>1, <1>2, <1>3, <1>4, <1>5, <1>6 DEF Next

\* What the bank serves no more was parsed before the receipt, and is in a file unless a
\* later fetch replaced it.
THEOREM WhatWasConsumedWasRead == Spec => []ConsumedWasRead
<1> DEFINE Read == LandedWasRead /\ ConsumedWasRead
<1>1. Init => Read
  BY DEF Init, LandedWasRead, ConsumedWasRead
<1>2. ASSUME IncomingInvariant, Read, [Next]_vars PROVE Read'
  <2> USE <1>2
  <2>1. CASE RunHook
    <3>1. /\ fetch = "pending" /\ WriteFile /\ gone' = gone
          /\ landed' => report.readable /\ report' = report
      BY <2>1 DEF RunHook, StoreAndParse, NoDownload, mailbox
    <3>2. Stored \subseteq Stored' /\ report \in Stored'
      BY <3>1, FileWritten DEF Stored
    <3> QED
      BY <3>1, <3>2 DEF LandedWasRead, ConsumedWasRead
  <2>2. CASE Consume
    BY <2>2 DEF Consume, Download!Consume, LandedWasRead, ConsumedWasRead, Stored, disk
  <2>3. CASE /\ UNCHANGED <<raw, overwritten, gone>>
             /\ landed' => landed /\ report' = report
    BY <2>3 DEF LandedWasRead, ConsumedWasRead, Stored
  <2> QED
    BY <2>1, <2>2, <2>3, OtherSteps
<1> QED
  BY <1>1, <1>2, IncomingInvariantHolds, PTL DEF Spec

\* A fetch that exits with 0 has shown every report it made the bank drop.
THEOREM FetchHidesNothing == Spec => NothingHidden
<1>1. Init => ReadSoFar
  BY DEF Init, ReadSoFar
<1>2. ASSUME IncomingInvariant, ReadSoFar, [Next]_vars PROVE ReadSoFar'
  <2> USE <1>2 DEF disk, uploading, loop, fetchVars, fetching, download, orders, mailbox,
                   ReadSoFar
  <2>1. CASE StartUpload \/ UploadReturns \/ UploadRaises \/ Record
    BY <2>1 DEF StartUpload, UploadReturns, UploadRaises, Record
  <2>2. CASE StartFetch \/ BeginDownload
    BY <2>2 DEF StartFetch, BeginDownload, IncomingInvariant, DownloadInOrder
  <2>3. CASE NothingLeft \/ StopAtLimit
    <3>1. /\ failures' = failures \/ failures' = TRUE
          /\ UNCHANGED <<step, gone, before, results, consumed, report>>
      BY <2>3 DEF NothingLeft, StopAtLimit, EndOrderType, IncomingInvariant, TypeOK
    <3> QED
      BY <3>1
  <2>4. CASE RunHook
    <3>1. CASE Download!Land /\ UNCHANGED <<loop, report>>
      BY <2>4, <3>1 DEF RunHook, Download!Land
    <3>2. CASE EndOrderType(TRUE)
      BY <3>2 DEF EndOrderType
    <3> QED
      BY <2>4, <3>1, <3>2 DEF RunHook, StoreAndParse
  <2>5. CASE DownloadReturns
    <3>1. Range(results') = Range(results) \cup {report} /\ ~consumed'
      BY <2>5, RangeOfAppend DEF DownloadReturns, NoDownload, IncomingInvariant, TypeOK
    <3> QED
      BY <2>5, <3>1 DEF DownloadReturns
  <2>6. CASE DownloadFails
    BY <2>6 DEF DownloadFails, CountFailure, EndOrderType
  <2>7. CASE FinishFetch \/ Dies
    BY <2>7 DEF FinishFetch, Dies
  <2>8. CASE Consume
    BY <2>8 DEF Consume, Download!Consume
  <2>9. CASE (\E r \in Stamps : TakeFile(r)) \/ \E k \in Kinds : Issue(k)
    BY <2>9 DEF TakeFile, Issue
  <2>10. CASE UNCHANGED vars
    BY <2>10 DEF vars
  <2> QED
    BY <2>1, <2>2, <2>3, <2>4, <2>5, <2>6, <2>7, <2>8, <2>9, <2>10 DEF Next
<1>3. ASSUME IncomingInvariant, ReadSoFar
      PROVE  FinishFetch /\ verdict' # "failed" => gone \ before \subseteq Shown
  <2> SUFFICES ASSUME FinishFetch, verdict' # "failed" PROVE gone \ before \subseteq Shown
    OBVIOUS
  <2>1. step = "fetching" /\ btf = Nothing /\ ~failures
    BY DEF FinishFetch
  <2>2. ~consumed
    BY <1>3, <2>1 DEF IncomingInvariant, DownloadInOrder, TypeOK
  <2> QED
    BY <1>3, <2>1, <2>2 DEF ReadSoFar, Shown
<1> QED
  BY <1>1, <1>2, <1>3, IncomingInvariantHolds, PTL DEF Spec, NothingHidden

\* When the tool says that everything was found, what this fetch downloaded reports every
\* payment of this run as it was sent.
THEOREM FoundWasReported == Spec => FoundMeansReported
<1>1. ASSUME IncomingInvariant, FinishFetch, verdict' = "found", NEW p \in Payments
      PROVE  \E r \in Range(results) : \E e \in r.entries :
                 e.run = target /\ p \in e.payments \ e.differing
  <2> USE <1>1
  <2>1. target \in Stamps /\ Reconciled
    BY DEF FinishFetch, IncomingInvariant, TypeOK, LoopInOrder
  <2> DEFINE s == [run |-> target, payment |-> p]
  <2>2. s \in Manifest
    BY <2>1 DEF Manifest, Scenario, SentPayments
  <2>3. Found(s)
    BY <2>1, <2>2 DEF Reconciled
  <2>4. PICK r \in Range(results) :
            \E tx \in Transactions(r) : Identifies(tx, s) /\ ~Differs(tx, s)
    BY <2>3 DEF Found
  <2>5. PICK tx \in Transactions(r) : Identifies(tx, s) /\ ~Differs(tx, s)
    BY <2>4
  <2>6. PICK e \in r.entries : \E q \in e.payments :
            tx = [run |-> e.run, payment |-> q, differs |-> q \in e.differing]
    BY <2>5 DEF Transactions
  <2>7. PICK q \in e.payments :
            tx = [run |-> e.run, payment |-> q, differs |-> q \in e.differing]
    BY <2>6
  <2>8. q \in Payments
    <3>1. r \in Reports
      BY DEF IncomingInvariant, TypeOK, Range
    <3>2. e \in Entries
      BY <3>1 DEF Reports
    <3> QED
      BY <2>7, <3>2 DEF Entries
  <2>9. e.run = target /\ q = p
    <3>1. CASE Referenced(p)
      BY <2>5, <2>7, <3>1 DEF Identifies
    <3>2. CASE ~Referenced(p)
      BY <2>5, <2>7, <2>8, <3>2, IncomingAssumption DEF Identifies, Referenced
    <3> QED
      BY <3>1, <3>2
  <2>10. q \notin e.differing
    BY <2>5, <2>7 DEF Differs
  <2> QED
    BY <2>7, <2>9, <2>10
<1>2. IncomingInvariant =>
          (FinishFetch /\ verdict' = "found" =>
              \A p \in Payments : \E r \in Range(results) : \E e \in r.entries :
                  e.run = target /\ p \in e.payments \ e.differing)
  BY <1>1
<1> QED
  BY <1>2, IncomingInvariantHolds, PTL DEF FoundMeansReported
=============================================================================
