------------------------- MODULE PaymentRoundProofs -------------------------
(***************************************************************************)
(* PaymentRound for any set of payments and any number of files and        *)
(* uploads: a payment is made twice only after its file was sent again     *)
(* while the bank could still take an earlier upload of it, and only a     *)
(* failed run of status loses a report.                                    *)
(*                                                                         *)
(* A block goes into another file once a printed report names it among the *)
(* rejected transactions of the latest file it was in (EarlierOver). A     *)
(* rejection is final because the bank decides a block once and takes a    *)
(* file once, and the second fails as soon as a file is sent again early.  *)
(***************************************************************************)
EXTENDS PaymentRound, TLAPS

\* At the start there is no file and no report.
LEMMA PaymentInit == Init => PaymentInvariant
<1> SUFFICES ASSUME Init PROVE PaymentInvariant
  OBVIOUS
<1>1. TypeOK
  <2>1. /\ content \in [Files -> SUBSET Blocks]
        /\ taken \in [Files -> Nat] /\ late \in [Files -> Nat]
    BY DEF Init
  <2>2. file \in 0..MaxFiles /\ uploads \in 0..MaxUploads /\ orders \in 0..1
    BY PaymentAssumption DEF Init
  <2>3. /\ open \cup executed \subseteq Files \X Blocks /\ produced \subseteq Reports
        /\ batch \cup waiting \cup lost \cup printed \subseteq produced
    BY DEF Init
  <2> QED
    BY <2>1, <2>2, <2>3 DEF Init, TypeOK
<1>2. UploadOfFile /\ BatchInHand
  BY DEF Init, UploadOfFile, BatchInHand
<1>3. UploadInOrder /\ BooksInOrder /\ EarlierOver /\ ReportsTrue
  BY DEF Init, UploadInOrder, BooksInOrder, EarlierOver, ReportsTrue, Files
<1> QED
  BY <1>1, <1>2, <1>3 DEF PaymentInvariant

\* What the invariant says as long as no file was sent again early.
Orderly == UploadInOrder /\ BooksInOrder /\ EarlierOver /\ ReportsTrue

-----------------------------------------------------------------------------
(***************************************************************************)
(* Reports                                                                 *)
(***************************************************************************)

\* A report of file f that lists these transactions is one the bank may make.
LEMMA IsReport ==
    ASSUME NEW f \in Files, NEW group \in {"none", "ACTC", "ACCP", "PART", "RJCT"},
           NEW listed \in SUBSET Blocks, NEW transactions \in [listed -> Statuses]
    PROVE  [file |-> f, group |-> group, transactions |-> transactions] \in Reports
<1>1. transactions \in UNION {[S -> Statuses] : S \in SUBSET Blocks}
  OBVIOUS
<1> QED
  BY <1>1 DEF Reports

\* A decision of the bank on a file it works on, reported by r: it moves open blocks to the
\* executed ones, or drops them, and drops those that r rejects.
Decision(f, r) ==
    /\ r \in Reports /\ r.file = f
    /\ \E b : <<f, b>> \in open
    /\ produced' = produced \cup {r} /\ waiting' = waiting \cup {r} /\ lost' = lost
    /\ open' \subseteq open
    /\ executed \subseteq executed' /\ executed' \subseteq executed \cup (open \ open')
    /\ UNCHANGED <<script, uploading, reading, taken, early>>
    /\ \A b \in RejectedTransactions(r) :
          /\ <<f, b>> \in open \ open'
          /\ <<f, b>> \in executed' => <<f, b>> \in executed

\* The report of receipt decides nothing,
LEMMA ReceiptDecides ==
    ASSUME NEW f \in Files, ReportReceived(f)
    PROVE  \E r : Decision(f, r)
<1> DEFINE r == [file |-> f, group |-> "ACTC", transactions |-> Nothing]
<1>1. r \in Reports
  <2>1. Nothing \in [{} -> Statuses]
    BY DEF Nothing
  <2> QED
    BY <2>1, IsReport
<1>2. RejectedTransactions(r) = {}
  BY DEF RejectedTransactions, Nothing
<1>3. Decision(f, r)
  BY <1>1, <1>2 DEF ReportReceived, Undecided, Report, Decision, books
<1> QED
  BY <1>3

\* a verdict on the whole file decides all its blocks,
LEMMA FileDecides ==
    ASSUME TypeOK, NEW f \in Files, DecideFile(f)
    PROVE  \E r : Decision(f, r)
<1> DEFINE group(rejected) == CASE rejected = {}         -> "ACCP"
                                [] rejected = content[f] -> "RJCT"
                                [] OTHER                 -> "PART"
           report(rejected, listed) ==
               [file |-> f, group |-> group(rejected),
                transactions |-> [b \in listed |-> IF b \in rejected THEN "RJCT" ELSE "ACCP"]]
<1>1. PICK rejected \in SUBSET content[f] :
          /\ \E listed \in {{}, rejected, content[f]} : Report(report(rejected, listed))
          /\ executed' = executed \cup ({f} \X (content[f] \ rejected))
  BY DEF DecideFile
<1>2. PICK listed \in {{}, rejected, content[f]} : Report(report(rejected, listed))
  BY <1>1
<1> DEFINE r == report(rejected, listed)
<1>3. /\ content[f] # {} /\ content[f] \subseteq Blocks
      /\ \A b \in content[f] : <<f, b>> \in open
      /\ open' = open \ ({f} \X content[f])
      /\ UNCHANGED <<script, uploading, reading, taken, early>>
  BY DEF DecideFile, Undecided, TypeOK
<1>4. listed \subseteq content[f]
  BY <1>2
<1>5. r \in Reports /\ r.file = f
  <2>1. [b \in listed |-> IF b \in rejected THEN "RJCT" ELSE "ACCP"] \in [listed -> Statuses]
    BY DEF Statuses
  <2>2. group(rejected) \in {"none", "ACTC", "ACCP", "PART", "RJCT"}
    OBVIOUS
  <2> QED
    BY <1>3, <1>4, <2>1, <2>2, IsReport
<1>6. RejectedTransactions(r) \subseteq rejected
  BY DEF RejectedTransactions
<1>7. \A p \in {f} \X content[f] : p \in open \ open'
  BY <1>3
<1>8. ASSUME NEW b \in RejectedTransactions(r)
      PROVE  /\ <<f, b>> \in open \ open'
             /\ <<f, b>> \in executed' => <<f, b>> \in executed
  <2>1. b \in rejected /\ b \in content[f]
    BY <1>6
  <2>2. <<f, b>> \notin {f} \X (content[f] \ rejected)
    BY <2>1
  <2> QED
    BY <1>1, <1>7, <2>1, <2>2
<1>9. Decision(f, r)
  <2>1. produced' = produced \cup {r} /\ waiting' = waiting \cup {r} /\ lost' = lost
    BY <1>2 DEF Report
  <2>2. /\ open' \subseteq open
        /\ executed \subseteq executed' /\ executed' \subseteq executed \cup (open \ open')
    BY <1>1, <1>3, <1>7
  <2> QED
    BY <1>3, <1>5, <1>8, <2>1, <2>2 DEF Decision
<1> QED
  BY <1>9

\* and one on a block decides that block.
LEMMA BlockDecides ==
    ASSUME NEW f \in Files, NEW b \in Blocks, DecideBlock(f, b)
    PROVE  \E r : Decision(f, r)
<1> DEFINE report(status, listed) == [file |-> f, group |-> "none",
                                      transactions |-> [x \in listed |-> status]]
<1>1. PICK status \in Statuses, listed \in {{}, {b}} :
          /\ Report(report(status, listed))
          /\ executed' = IF status = "ACCP" THEN executed \cup {<<f, b>>} ELSE executed
  BY DEF DecideBlock
<1> DEFINE r == report(status, listed)
<1>2. /\ <<f, b>> \in open /\ open' = open \ {<<f, b>>}
      /\ UNCHANGED <<script, uploading, reading, taken, early>>
  BY DEF DecideBlock, Undecided
<1>3. r \in Reports /\ r.file = f
  <2>1. [x \in listed |-> status] \in [listed -> Statuses] /\ listed \in SUBSET Blocks
    OBVIOUS
  <2> QED
    BY <2>1, IsReport
<1>4. RejectedTransactions(r) = IF status = "RJCT" THEN listed ELSE {}
  BY DEF RejectedTransactions
<1>5. Decision(f, r)
  <2>1. \A x \in RejectedTransactions(r) : x = b /\ executed' = executed
    BY <1>1, <1>4
  <2>2. produced' = produced \cup {r} /\ waiting' = waiting \cup {r} /\ lost' = lost
    BY <1>1 DEF Report
  <2>3. /\ open' \subseteq open
        /\ executed \subseteq executed' /\ executed' \subseteq executed \cup (open \ open')
    BY <1>1, <1>2
  <2> QED
    BY <1>2, <1>3, <2>1, <2>2, <2>3 DEF Decision
<1> QED
  BY <1>5

\* The bank has taken the file of a block it works on.
LEMMA WorksOnTaken ==
    ASSUME BooksInOrder, NEW f, NEW b, <<f, b>> \in open \cup executed
    PROVE  taken[f] = 1 /\ b \in content[f]
<1>1. <<f, b>>[1] = f /\ <<f, b>>[2] = b
  OBVIOUS
<1> QED
  BY <1>1 DEF BooksInOrder

\* It works on no block of a file it has not taken, and reports nothing about it.
LEMMA Unknown ==
    ASSUME Orderly, NEW f \in Files, taken[f] = 0
    PROVE  /\ \A b : <<f, b>> \notin open \cup executed
           /\ \A r \in produced : r.file # f
<1>1. \A b : <<f, b>> \notin open \cup executed
  BY WorksOnTaken DEF Orderly
<1> QED
  BY <1>1 DEF Orderly, ReportsTrue

\* A decision leaves true what earlier reports say: no block is decided twice.
LEMMA DecisionKept ==
    ASSUME PaymentInvariant, NEW f \in Files, NEW r, Decision(f, r)
    PROVE  PaymentInvariant'
<1>1. open' \cup executed' \subseteq open \cup executed
  BY DEF Decision
<1>2. TypeOK' /\ UploadOfFile' /\ BatchInHand'
  BY <1>1 DEF PaymentInvariant, Decision, TypeOK, UploadOfFile, BatchInHand,
              script, uploading, reading
<1>3. ASSUME ~early
      PROVE  Orderly'
  <2> USE DEF Decision, script, uploading, reading
  <2>1. Orderly
    BY <1>3 DEF PaymentInvariant, Orderly
  <2>2. UploadInOrder'
    BY <2>1 DEF Orderly, UploadInOrder
  <2>3. BooksInOrder'
    BY <1>1, <2>1 DEF Orderly, BooksInOrder
  <2>4. EarlierOver'
    BY <1>1, <2>1 DEF Orderly, EarlierOver
  <2>5. taken[f] = 1
    BY <2>1, WorksOnTaken DEF Orderly
  <2>6. ASSUME NEW b \in RejectedTransactions(r)
        PROVE  <<f, b>> \notin open' \cup executed'
    BY <2>1, <2>6 DEF Orderly, BooksInOrder
  <2>7. ASSUME NEW q \in produced
        PROVE  /\ taken'[q.file] = 1
               /\ \A b \in RejectedTransactions(q) : <<q.file, b>> \notin open' \cup executed'
    BY <1>1, <2>1, <2>7 DEF Orderly, ReportsTrue
  <2>8. ReportsTrue'
    BY <2>5, <2>6, <2>7 DEF ReportsTrue, RejectedTransactions
  <2> QED
    BY <2>2, <2>3, <2>4, <2>8 DEF Orderly
<1>4. early' = early
  BY DEF Decision
<1> QED
  BY <1>2, <1>3, <1>4 DEF PaymentInvariant, Orderly
-----------------------------------------------------------------------------
(***************************************************************************)
(* The operator                                                            *)
(***************************************************************************)

\* A block that is written into a new file is over in all the earlier ones.
LEMMA ChosenIsOver ==
    ASSUME TypeOK, Orderly, NEW b \in Fresh \cup Rejected, NEW f \in Files, b \in content[f]
    PROVE  taken[f] = 1 /\ <<f, b>> \notin open \cup executed
<1>1. PICK r \in printed : Latest(r.file, b) /\ b \in RejectedTransactions(r)
  BY DEF Fresh, Rejected
<1>2. r \in produced /\ r.file \in Files /\ b \in Blocks
  BY <1>1 DEF TypeOK, Reports, Fresh, Rejected
<1>3. CASE f = r.file
  BY <1>1, <1>2, <1>3 DEF Orderly, ReportsTrue
<1>4. CASE f < r.file
  BY <1>1, <1>2, <1>4 DEF Orderly, EarlierOver, Latest
<1> QED
  BY <1>1, <1>2, <1>3, <1>4 DEF Files, Latest

\* As the latest upload becomes an earlier one, only its file can have one more order that
\* comes late.
LEMMA SupersedeFacts ==
    ASSUME TypeOK, UploadOfFile, Supersede
    PROVE  /\ late' \in [Files -> Nat]
           /\ ~Unfinished => late' = late
           /\ Unfinished => /\ file \in Files
                            /\ \A f \in Files : late'[f] = IF f = file THEN late[f] + 1 ELSE late[f]
  BY DEF Supersede, Unfinished, TypeOK, UploadOfFile, Files

\* A new file.
LEMMA WriteFileKept == ASSUME PaymentInvariant, WriteFile PROVE PaymentInvariant'
<1>1. PICK blocks \in (SUBSET (Fresh \cup Rejected)) \ {{}} :
          content' = [content EXCEPT ![file'] = blocks]
  BY DEF WriteFile
<1>2. /\ step = "down" /\ step' = step /\ outcome' = "unsent" /\ orders' = 0 /\ tx' = "closed"
      /\ file < MaxFiles /\ file' = file + 1 /\ outcome # "unsent"
      /\ UNCHANGED <<printed, uploads, fetch, landed, consumed, batch, early>>
      /\ UNCHANGED <<taken, open, executed, produced, waiting, lost>>
  BY DEF WriteFile, reading, books, mailbox
<1>3. TypeOK /\ UploadOfFile /\ Supersede
  BY DEF PaymentInvariant, WriteFile
<1>4. /\ file \in 0..MaxFiles /\ file' \in Files /\ file' \in 0..MaxFiles
      /\ content \in [Files -> SUBSET Blocks]
  BY <1>2, <1>3, PaymentAssumption DEF TypeOK, Files
<1>5. \A f \in Files : content'[f] = IF f = file' THEN blocks ELSE content[f]
  BY <1>1, <1>4
<1>6. TypeOK'
  <2>1. blocks \in SUBSET Blocks
    BY DEF Fresh, Rejected
  <2>2. content' \in [Files -> SUBSET Blocks]
    BY <1>1, <1>4, <2>1
  <2> QED
    BY <1>2, <1>3, <1>4, <2>2, SupersedeFacts DEF TypeOK
<1>7. UploadOfFile' /\ BatchInHand'
  BY <1>2 DEF PaymentInvariant, UploadOfFile, BatchInHand
<1>8. ASSUME ~early
      PROVE  Orderly'
  <2>1. Orderly
    BY <1>8 DEF PaymentInvariant, Orderly
  <2>2. taken[file'] = 0 /\ content[file'] = {}
    BY <1>2, <1>4, <2>1 DEF Orderly, UploadInOrder, Files
  <2>3. \A f \in Files : late'[f] > 0 => late'[f] = 1 /\ f < file' /\ taken[f] = 0
    <3>1. \A f \in Files : late[f] \in Nat /\ (late[f] > 0 => late[f] = 1 /\ f < file /\ taken[f] = 0)
      BY <1>3, <2>1 DEF TypeOK, Orderly, UploadInOrder
    <3>2. Unfinished => taken[file] = 0
      BY <1>3, <2>1 DEF Unfinished, UploadOfFile, TypeOK, Orderly, UploadInOrder
    <3>3. file \in Files => late[file] = 0
      BY <1>4, <3>1 DEF Files
    <3>4. \A f \in Files : f < file => f < file'
      BY <1>2, <1>4 DEF Files
    <3>5. CASE Unfinished
      BY <1>2, <1>3, <1>4, <3>1, <3>2, <3>3, <3>4, <3>5, SupersedeFacts DEF Files
    <3>6. CASE ~Unfinished
      BY <1>3, <3>1, <3>4, <3>6, SupersedeFacts
    <3> QED
      BY <3>5, <3>6
  <2>4. UploadInOrder'
    BY <1>2, <1>4, <1>5, <2>1, <2>2, <2>3 DEF Orderly, UploadInOrder, Files
  <2>5. BooksInOrder'
    <3>1. \A p \in open \cup executed : p[1] \in Files /\ p[1] # file'
      BY <1>3, <2>1, <2>2 DEF Orderly, BooksInOrder, TypeOK
    <3> QED
      BY <1>2, <1>5, <2>1, <3>1 DEF Orderly, BooksInOrder
  <2>6. EarlierOver'
    <3> SUFFICES ASSUME NEW b \in Blocks, NEW f \in Files, NEW g \in Files,
                        f < g, b \in content'[f], b \in content'[g]
                 PROVE  taken[f] = 1 /\ <<f, b>> \notin open \cup executed
      BY <1>2 DEF EarlierOver
    <3>1. CASE g = file'
      <4>1. b \in blocks /\ b \in content[f]
        BY <1>5, <3>1 DEF Files
      <4> QED
        BY <1>3, <2>1, <4>1, ChosenIsOver
    <3>2. CASE f = file'
      BY <1>2, <1>4, <1>5, <2>1, <3>2 DEF Orderly, UploadInOrder, Files
    <3>3. CASE f # file' /\ g # file'
      BY <1>5, <2>1, <3>3 DEF Orderly, EarlierOver
    <3> QED
      BY <3>1, <3>2, <3>3
  <2>7. ReportsTrue'
    BY <1>2, <2>1 DEF Orderly, ReportsTrue, RejectedTransactions
  <2> QED
    BY <2>4, <2>5, <2>6, <2>7 DEF Orderly
<1> QED
  BY <1>2, <1>6, <1>7, <1>8 DEF PaymentInvariant, Orderly

\* A step that leaves the files, the uploads and what the bank did alone.
LEMMA ReadingKept ==
    ASSUME PaymentInvariant, TypeOK', BatchInHand',
           UNCHANGED <<file, content, uploading, books, produced, early>>,
           step' = "paying" => step = "paying"
    PROVE  PaymentInvariant'
<1> USE DEF PaymentInvariant, uploading, books
<1>1. UploadOfFile' /\ (UploadInOrder => UploadInOrder')
  BY DEF UploadOfFile, UploadInOrder
<1>2. (BooksInOrder => BooksInOrder') /\ (EarlierOver => EarlierOver')
  BY DEF BooksInOrder, EarlierOver
<1>3. ReportsTrue => ReportsTrue'
  BY DEF ReportsTrue, RejectedTransactions
<1> QED
  BY <1>1, <1>2, <1>3

\* A run of status up to the end of its download,
LEMMA FetchKept ==
    ASSUME PaymentInvariant, FetchReports \/ Parsed \/ Returned \/ Consume
    PROVE  PaymentInvariant'
<1>1. /\ TypeOK' /\ BatchInHand'
      /\ UNCHANGED <<file, content, uploading, books, produced, early>>
      /\ step' # "paying"
  <2> USE DEF PaymentInvariant, TypeOK, BatchInHand, script, uploading, books, mailbox
  <2>1. CASE FetchReports
    BY <2>1 DEF FetchReports
  <2>2. CASE Parsed
    BY <2>2 DEF Parsed, Download!Land
  <2>3. CASE Returned
    BY <2>3 DEF Returned, Download!Return
  <2>4. CASE Consume
    BY <2>4 DEF Consume, Download!Consume
  <2> QED
    BY <2>1, <2>2, <2>3, <2>4
<1> QED
  BY <1>1, ReadingKept

\* and its end.
LEMMA StatusEndsKept ==
    ASSUME PaymentInvariant, PrintReports \/ FetchFails \/ Dies
    PROVE  PaymentInvariant'
<1>1. /\ TypeOK' /\ BatchInHand'
      /\ UNCHANGED <<file, content, uploading, books, produced, early>>
      /\ step' # "paying"
  <2> USE DEF PaymentInvariant, TypeOK, BatchInHand, EndStatus, uploading, books, mailbox
  <2>1. CASE PrintReports
    BY <2>1 DEF PrintReports, ReportsToPrint
  <2>2. ASSUME Drop PROVE waiting' \cup lost' \subseteq waiting \cup lost \cup batch
    BY <2>2 DEF Drop
  <2>3. CASE FetchFails
    BY <2>2, <2>3 DEF FetchFails
  <2>4. CASE Dies
    BY <2>2, <2>4 DEF Dies
  <2> QED
    BY <2>1, <2>3, <2>4
<1> QED
  BY <1>1, ReadingKept

-----------------------------------------------------------------------------
(***************************************************************************)
(* The upload                                                              *)
(***************************************************************************)

\* A step that changes no more than the run of pay and its upload.
LEMMA UploadingKept ==
    ASSUME PaymentInvariant, TypeOK', UploadOfFile', ~early' => ~early /\ UploadInOrder',
           step \in {"down", "paying"}, UNCHANGED <<file, content, reading, books, mailbox>>
    PROVE  PaymentInvariant'
<1> USE DEF PaymentInvariant, reading, books, mailbox
<1>1. /\ BatchInHand'
      /\ (BooksInOrder => BooksInOrder') /\ (EarlierOver => EarlierOver')
  BY DEF BooksInOrder, EarlierOver, BatchInHand
<1>2. ReportsTrue => ReportsTrue'
  BY DEF ReportsTrue, RejectedTransactions
<1> QED
  BY <1>1, <1>2

\* The latest file is uploaded, for the first time or again; a confirmed upload is not.
LEMMA PayKept == ASSUME PaymentInvariant, Pay PROVE PaymentInvariant'
<1>1. TypeOK /\ UploadOfFile /\ Supersede
  BY DEF PaymentInvariant, Pay
<1>2. TypeOK'
  BY <1>1, SupersedeFacts, PaymentAssumption DEF Pay, TypeOK, reading, books, mailbox
<1>3. UploadOfFile'
  BY DEF Pay, UploadOfFile
<1>4. ASSUME ~early'
      PROVE  ~early /\ UploadInOrder'
  <2>1. ~early /\ ~Unfinished /\ UploadInOrder
    BY <1>1, <1>4 DEF Pay, TypeOK, PaymentInvariant
  <2>2. late' = late
    BY <1>1, <2>1, SupersedeFacts
  <2>3. taken[file] = 0
    BY <1>1, <2>1 DEF Pay, MayRepeat, UploadInOrder, TypeOK
  <2> QED
    BY <2>1, <2>2, <2>3 DEF Pay, UploadInOrder, books
<1> QED
  BY <1>2, <1>3, <1>4, UploadingKept DEF Pay

\* The upload ends.
LEMMA UploadEndsKept == ASSUME PaymentInvariant, UploadEnds PROVE PaymentInvariant'
<1> USE DEF UploadEnds, Upload!Confirm, Upload!Fail, Upload!Doubt, PaymentInvariant
<1>1. UploadOfFile' /\ (UploadInOrder => UploadInOrder')
  BY DEF UploadOfFile, UploadInOrder, books
<1>2. TypeOK'
  BY DEF TypeOK, reading, books, mailbox
<1> QED
  BY <1>1, <1>2, UploadingKept

\* The transaction of the latest upload is over.
LEMMA CloseTransactionKept ==
    ASSUME PaymentInvariant, CloseTransaction PROVE PaymentInvariant'
<1> USE DEF PaymentInvariant, CloseTransaction, script, reading, books, mailbox
<1>1. TypeOK' /\ UploadOfFile' /\ BatchInHand'
  BY DEF TypeOK, UploadOfFile, BatchInHand
<1>2. /\ UploadInOrder => UploadInOrder'
      /\ BooksInOrder => BooksInOrder'
      /\ EarlierOver => EarlierOver'
  BY DEF UploadInOrder, BooksInOrder, EarlierOver
<1>3. ReportsTrue => ReportsTrue'
  BY DEF ReportsTrue, RejectedTransactions
<1> QED
  BY <1>1, <1>2, <1>3

\* The bank takes a file, of the latest upload or of an earlier one: in an orderly state it
\* had not taken it before.
LEMMA TakeKept ==
    ASSUME PaymentInvariant, NEW f \in Files, Take(f), late' \in [Files -> Nat],
           orders' \in 0..1, outcome' = outcome,
           ~early => taken[f] = 0 /\ UploadInOrder'
    PROVE  PaymentInvariant'
<1>1. /\ taken' = [taken EXCEPT ![f] = @ + 1] /\ open' = open \cup ({f} \X content[f])
      /\ UNCHANGED <<step, file, content, printed, tx, uploads, executed, early>>
      /\ UNCHANGED <<fetch, landed, consumed, batch, produced, waiting, lost>>
  BY DEF Take, script, reading, mailbox
<1>2. TypeOK
  BY DEF PaymentInvariant
<1>3. taken' \in [Files -> Nat] /\ open' \subseteq Files \X Blocks
  BY <1>1, <1>2 DEF TypeOK
<1>4. TypeOK'
  BY <1>1, <1>2, <1>3 DEF TypeOK
<1>5. UploadOfFile' /\ BatchInHand'
  BY <1>1 DEF PaymentInvariant, UploadOfFile, BatchInHand
<1>6. ASSUME ~early
      PROVE  Orderly'
  <2>1. Orderly /\ taken[f] = 0 /\ UploadInOrder'
    BY <1>6 DEF PaymentInvariant, Orderly
  <2>2. \A g \in Files : taken'[g] = IF g = f THEN 1 ELSE taken[g]
    BY <1>1, <1>2, <2>1 DEF TypeOK
  <2>3. \A b : <<f, b>> \notin open \cup executed
    BY <2>1, Unknown
  <2>4. BooksInOrder'
    <3>1. \A g \in Files : taken'[g] <= 1
      BY <2>1, <2>2 DEF Orderly, BooksInOrder
    <3>2. ASSUME NEW p \in open' \cup executed'
          PROVE  taken'[p[1]] = 1 /\ p[2] \in content[p[1]]
      <4>1. CASE p \in open \cup executed
        BY <1>2, <2>1, <2>2, <4>1 DEF Orderly, BooksInOrder, TypeOK
      <4>2. CASE p \in {f} \X content[f]
        BY <2>2, <4>2
      <4> QED
        BY <1>1, <3>2, <4>1, <4>2
    <3>3. open' \cap executed' = {}
      BY <1>1, <2>1, <2>3 DEF Orderly, BooksInOrder
    <3> QED
      BY <1>1, <3>1, <3>2, <3>3 DEF BooksInOrder
  <2>5. EarlierOver'
    <3> SUFFICES ASSUME NEW b \in Blocks, NEW e \in Files, NEW g \in Files,
                        e < g, b \in content[e], b \in content[g]
                 PROVE  taken'[e] = 1 /\ <<e, b>> \notin open' \cup executed
      BY <1>1 DEF EarlierOver
    <3>1. taken[e] = 1 /\ <<e, b>> \notin open \cup executed
      BY <2>1 DEF Orderly, EarlierOver
    <3> QED
      BY <1>1, <2>1, <2>2, <3>1
  <2>6. ReportsTrue'
    <3>1. \A r \in produced : r.file \in Files /\ r.file # f
      BY <1>2, <2>1, Unknown DEF TypeOK, Reports
    <3>2. ASSUME NEW r \in produced, NEW b
          PROVE  <<r.file, b>> \in open' <=> <<r.file, b>> \in open
      BY <1>1, <3>1
    <3> QED
      BY <1>1, <2>1, <2>2, <3>1, <3>2 DEF Orderly, ReportsTrue, RejectedTransactions
  <2> QED
    BY <2>1, <2>4, <2>5, <2>6 DEF Orderly
<1> QED
  BY <1>1, <1>4, <1>5, <1>6 DEF PaymentInvariant, Orderly

\* That is so for the order of the latest upload,
LEMMA TakeOrderKept == ASSUME PaymentInvariant, TakeOrder PROVE PaymentInvariant'
<1>1. /\ tx = "open" /\ outcome \in {"pending", "unconfirmed"}
      /\ orders = 0 /\ orders' = 1 /\ outcome' = outcome /\ late' = late /\ Take(file)
  BY DEF TakeOrder, Upload!TakeOrder
<1>2. TypeOK /\ file \in Files
  BY <1>1 DEF PaymentInvariant, TypeOK, UploadOfFile, Files
<1>3. ASSUME ~early
      PROVE  taken[file] = 0 /\ UploadInOrder'
  <2>1. UploadInOrder /\ taken[file] = 0
    BY <1>1, <1>2, <1>3 DEF PaymentInvariant, UploadInOrder, Files
  <2>2. \A f \in Files : taken'[f] = IF f = file THEN 1 ELSE taken[f]
    BY <1>1, <1>2, <2>1 DEF Take, TypeOK
  <2> QED
    BY <1>1, <1>2, <2>1, <2>2 DEF Take, script, UploadInOrder, Files
<1> QED
  BY <1>1, <1>2, <1>3, TakeKept DEF TypeOK

\* and for that of an earlier one.
LEMMA TakeLateOrderKept ==
    ASSUME PaymentInvariant, NEW f \in Files, TakeLateOrder(f)
    PROVE  PaymentInvariant'
<1>1. /\ late[f] > 0 /\ late' = [late EXCEPT ![f] = @ - 1] /\ Take(f)
      /\ outcome' = outcome /\ orders' = orders
  BY DEF TakeLateOrder
<1>2. TypeOK /\ late[f] \in Nat
  BY DEF PaymentInvariant, TypeOK
<1>3. late' \in [Files -> Nat]
  BY <1>1, <1>2 DEF TypeOK
<1>4. ASSUME ~early
      PROVE  taken[f] = 0 /\ UploadInOrder'
  <2>1. UploadInOrder /\ taken[f] = 0 /\ late[f] = 1 /\ f < file
    BY <1>1, <1>4 DEF PaymentInvariant, UploadInOrder
  <2>2. \A g \in Files : /\ taken'[g] = IF g = f THEN 1 ELSE taken[g]
                         /\ late'[g] = IF g = f THEN 0 ELSE late[g]
    BY <1>1, <1>2, <2>1 DEF Take, TypeOK
  <2>3. file \in Files
    BY <1>2, <2>1 DEF TypeOK, Files
  <2> QED
    BY <1>1, <2>1, <2>2, <2>3 DEF Take, script, UploadInOrder, Files
<1> QED
  BY <1>1, <1>2, <1>3, <1>4, TakeKept DEF TypeOK

-----------------------------------------------------------------------------
(***************************************************************************)
(* Properties                                                              *)
(***************************************************************************)

\* Every step keeps the invariant.
LEMMA PaymentStep ==
    ASSUME PaymentInvariant, [Next]_vars
    PROVE  PaymentInvariant'
<1>1. CASE WriteFile
  BY <1>1, WriteFileKept
<1>2. CASE Pay \/ UploadEnds
  BY <1>2, PayKept, UploadEndsKept
<1>3. CASE FetchReports \/ Parsed \/ Returned \/ Consume
  BY <1>3, FetchKept
<1>4. CASE PrintReports \/ FetchFails \/ Dies
  BY <1>4, StatusEndsKept
<1>5. CASE TakeOrder \/ CloseTransaction
  BY <1>5, TakeOrderKept, CloseTransactionKept
<1>6. CASE \E f \in Files : TakeLateOrder(f)
  BY <1>6, TakeLateOrderKept
<1>7. CASE \E f \in Files : \/ ReportReceived(f)
                            \/ DecideFile(f)
                            \/ \E b \in Blocks : DecideBlock(f, b)
  BY <1>7, ReceiptDecides, FileDecides, BlockDecides, DecisionKept DEF PaymentInvariant
<1>8. CASE UNCHANGED vars
  <2> USE <1>8 DEF vars, script, uploading, reading, books, mailbox, PaymentInvariant
  <2>1. TypeOK' /\ BatchInHand'
    BY DEF TypeOK, BatchInHand
  <2> QED
    BY <2>1, ReadingKept
<1> QED
  BY <1>1, <1>2, <1>3, <1>4, <1>5, <1>6, <1>7, <1>8 DEF Next

\* The files, the uploads, the bank's books and its reports fit together in every state.
THEOREM PaymentInvariantHolds == Spec => []PaymentInvariant
  BY PaymentInit, PaymentStep, PTL DEF Spec

\* As long as no file is sent again while the bank may still take an earlier upload of it,
\* the bank takes no file twice, and of the files a payment was in it executes, or may still
\* execute, at most one (UploadUnconfirmedError, PaymentStatusReport.rejected_transactions).
THEOREM EarlyRepetitionAlonePaysTwice == Spec => []PaidTwiceOnlyIfEarly
<1>1. PaymentInvariant => PaidTwiceOnlyIfEarly
  <2> SUFFICES ASSUME TypeOK, Orderly,
                      NEW p \in open \cup executed, NEW q \in open \cup executed, p[2] = q[2]
               PROVE  p = q
    BY DEF PaidTwiceOnlyIfEarly, PaidOnce, PaymentInvariant, Orderly, BooksInOrder
  <2> USE DEF Orderly
  <2>1. /\ p[1] \in Files /\ q[1] \in Files /\ p[2] \in Blocks
        /\ p = <<p[1], p[2]>> /\ q = <<q[1], q[2]>>
    BY DEF TypeOK
  <2>2. p[2] \in content[p[1]] /\ p[2] \in content[q[1]]
    BY DEF BooksInOrder
  <2>3. ~(p[1] < q[1]) /\ ~(q[1] < p[1])
    BY <2>1, <2>2 DEF EarlierOver
  <2> QED
    BY <2>1, <2>3 DEF Files
<1> QED
  BY <1>1, PaymentInvariantHolds, PTL

\* A report the bank serves no more was printed, or came in a run of status that failed or
\* died.
THEOREM ReportsLostOnlyByFailure == Spec => []LostOnlyByFailure
<1> USE DEF LostOnlyByFailure
<1>1. Init => LostOnlyByFailure
  BY DEF Init
<1>2. ASSUME PaymentInvariant, LostOnlyByFailure, [Next]_vars
      PROVE  LostOnlyByFailure'
  <2> USE <1>2 DEF script, mailbox, reading
  <2>1. CASE FetchReports
    BY <2>1 DEF FetchReports, PaymentInvariant, BatchInHand
  <2>2. CASE Parsed \/ Returned \/ Consume
    BY <2>2 DEF Parsed, Returned, Consume
  <2>3. CASE PrintReports
    BY <2>3 DEF PrintReports, EndStatus, ReportsToPrint
  <2>4. CASE FetchFails \/ Dies
    <3>1. Drop => waiting \cup lost \cup batch \subseteq waiting' \cup lost'
      BY DEF Drop
    <3> QED
      BY <2>4, <3>1 DEF FetchFails, Dies
  <2>5. CASE WriteFile \/ Pay \/ UploadEnds
    BY <2>5 DEF WriteFile, Pay, UploadEnds
  <2>6. CASE TakeOrder \/ CloseTransaction \/ \E f \in Files : TakeLateOrder(f)
    BY <2>6 DEF TakeOrder, CloseTransaction, TakeLateOrder, Take
  <2>7. CASE \E f \in Files : \/ ReportReceived(f)
                              \/ DecideFile(f)
                              \/ \E b \in Blocks : DecideBlock(f, b)
    <3>1. \E f \in Files : \E r : Decision(f, r)
      BY <2>7, ReceiptDecides, FileDecides, BlockDecides DEF PaymentInvariant
    <3> QED
      BY <3>1 DEF Decision
  <2>8. CASE UNCHANGED vars
    BY <2>8 DEF vars
  <2> QED
    BY <2>1, <2>2, <2>3, <2>4, <2>5, <2>6, <2>7, <2>8 DEF Next
<1> QED
  BY <1>1, <1>2, PaymentInvariantHolds, PTL DEF Spec
=============================================================================
