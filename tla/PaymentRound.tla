---------------------------- MODULE PaymentRound ----------------------------
(***************************************************************************)
(* The payment round trip of examples/04_pay_and_check_status.py: pain.001 *)
(* files go to the bank and pain.002 reports come back. The operator sends *)
(* a file again by the rule UploadUnconfirmedError documents, and puts     *)
(* payments into a new file that rejected_transactions of a report names.  *)
(* Each upload is an UploadPromise, each download of reports a             *)
(* DownloadPromise.                                                        *)
(*                                                                         *)
(* A file is numbered, and its number stands for its message ID. It holds  *)
(* payment blocks, of one transaction each.                                *)
(***************************************************************************)
EXTENDS Naturals

CONSTANTS Blocks,      \* the payments to be made
          MaxFiles,    \* bound: files written
          MaxUploads   \* bound: uploads, repeated ones included

ASSUME PaymentAssumption == MaxFiles \in Nat /\ MaxUploads \in Nat

Files == 1..MaxFiles

VARIABLES
    step,     \* the script: "down", "paying", "reading" or "printing"
    \* The operator
    file,     \* the latest file, 0 before the first
    content,  \* the blocks in each file
    printed,  \* the reports on paper
    \* The latest upload, see UploadPromise
    outcome,  \* also "unsent": the latest file has not been uploaded
    orders,
    tx,       \* "open" as long as the bank may still take the order, then "closed"
    uploads,  \* how many there were
    late,     \* for each file, how many earlier uploads the bank may still take
    \* The latest download of reports, see DownloadPromise
    fetch, landed, consumed,
    batch,    \* what the bank serves in it
    \* The bank
    taken,    \* the files it has taken, as a count for each
    open,     \* the blocks it has not decided on, as <<file, block>>
    executed, \* those it executes
    produced, \* its reports
    waiting,  \* those it will serve
    lost,     \* those it serves no more whose download failed, or whose process died
    \* History, which no action reads
    early     \* a file was sent again while the bank could still take an earlier upload of it

Upload   == INSTANCE UploadPromise
Download == INSTANCE DownloadPromise WITH outcome <- fetch, policy <- "ACKNOWLEDGE"

script    == <<step, file, content, printed>>
uploading == <<outcome, orders, tx, uploads, late>>
reading   == <<fetch, landed, consumed, batch>>
books     == <<taken, open, executed>>
mailbox   == <<produced, waiting, lost>>
vars      == <<script, uploading, reading, books, mailbox, early>>

\* A report answers one file: a group status or none (GrpSts), and the statuses of the
\* transactions it lists (TxSts), a block's under the name of the block. The status of a
\* block itself (PmtInfSts) is printed and read by nothing else; it is left out.
Statuses == {"ACCP", "RJCT"}
Reports  == [file         : Files,
             group        : {"none", "ACTC", "ACCP", "PART", "RJCT"},
             transactions : UNION {[S -> Statuses] : S \in SUBSET Blocks}]

TypeOK == /\ step \in {"down", "paying", "reading", "printing"}
          /\ file \in 0..MaxFiles
          /\ content \in [Files -> SUBSET Blocks]
          /\ outcome \in {"unsent", "pending", "confirmed", "failed", "unconfirmed"}
          /\ orders \in 0..1
          /\ tx \in {"open", "closed"}
          /\ uploads \in 0..MaxUploads /\ late \in [Files -> Nat]
          /\ fetch \in {"pending", "returned", "raised"}
          /\ landed \in BOOLEAN /\ consumed \in BOOLEAN
          /\ taken \in [Files -> Nat]
          /\ open \cup executed \subseteq Files \X Blocks
          /\ batch \cup waiting \cup lost \cup printed \subseteq produced
          /\ produced \subseteq Reports
          /\ early \in BOOLEAN

Init == /\ step = "down"
        /\ file = 0 /\ content = [f \in Files |-> {}] /\ printed = {}
        /\ outcome = "confirmed" /\ orders = 0 /\ tx = "closed" /\ uploads = 0
        /\ late = [f \in Files |-> 0] /\ early = FALSE
        /\ fetch = "returned" /\ landed = FALSE /\ consumed = FALSE /\ batch = {}
        /\ taken = [f \in Files |-> 0] /\ open = {} /\ executed = {}
        /\ produced = {} /\ waiting = {} /\ lost = {}

-----------------------------------------------------------------------------
\* The operator

InDoubt == outcome \in {"unconfirmed", "pending"}

\* Mutant: a file that no report answers has not arrived.
RepeatUnanswered ==
    outcome \in {"unsent", "failed"} \/ (InDoubt /\ \A r \in printed : r.file # file)
\* UploadUnconfirmedError: "Never send the order again automatically [...] Check first
\* whether it arrived": the bank's protocol or its e-banking shows that it has no order. A
\* process that died while it paid leaves the same doubt.
MayRepeat == outcome \in {"unsent", "failed"} \/ (InDoubt /\ orders = 0)

\* The order of the latest upload has not arrived, and its final segment still may.
Unfinished == InDoubt /\ tx = "open" /\ orders = 0

\* The latest upload becomes an earlier one. Nobody tells the bank to forget it.
Supersede == late' = IF Unfinished THEN [late EXCEPT ![file] = @ + 1] ELSE late

\* Mutant: every transaction the report lists.
ListedTransactions(r) == DOMAIN r.transactions
\* PaymentStatusReport.rejected_transactions
RejectedTransactions(r) == {b \in DOMAIN r.transactions : r.transactions[b] = "RJCT"}

Fresh    == {b \in Blocks : \A f \in Files : b \notin content[f]}
Latest(f, b) == b \in content[f] /\ \A g \in Files : g > f => b \notin content[g]
Rejected == {b \in Blocks : \E r \in printed : /\ Latest(r.file, b)
                                                /\ b \in RejectedTransactions(r)}

\* A new file, with payments that were in no file yet or were rejected in their latest one.
WriteFile == /\ step = "down"
             /\ file < MaxFiles
             /\ outcome # "unsent"
             /\ file' = file + 1
             /\ \E blocks \in (SUBSET (Fresh \cup Rejected)) \ {{}} :
                    content' = [content EXCEPT ![file'] = blocks]
             /\ Supersede
             /\ outcome' = "unsent" /\ orders' = 0 /\ tx' = "closed"
             /\ UNCHANGED <<step, printed, uploads, reading, books, mailbox, early>>

-----------------------------------------------------------------------------
\* pay

Pay == /\ step = "down"
       /\ file > 0 /\ uploads < MaxUploads
       /\ MayRepeat
       /\ step' = "paying" /\ uploads' = uploads + 1
       /\ Supersede /\ early' = (early \/ Unfinished)
       /\ outcome' = "pending" /\ orders' = 0 /\ tx' = "open"
       /\ UNCHANGED <<file, content, printed, reading, books, mailbox>>

\* The upload returns or raises, and the script ends.
UploadEnds == /\ step = "paying"
              /\ Upload!Confirm \/ Upload!Fail \/ Upload!Doubt
              /\ step' = "down"
              /\ UNCHANGED <<file, content, printed, tx, uploads, late, early>>
              /\ UNCHANGED <<reading, books, mailbox>>

-----------------------------------------------------------------------------
\* status

\* Nothing waiting is 090005, which says nothing.
FetchReports == /\ step = "down"
                /\ waiting # {}
                /\ step' = "reading"
                /\ batch' = waiting
                /\ fetch' = "pending" /\ landed' = FALSE /\ consumed' = FALSE
                /\ UNCHANGED <<file, content, printed, uploading, books, mailbox, early>>

\* pain002.parse has read every document.
Parsed == /\ step = "reading"
          /\ Download!Land
          /\ UNCHANGED <<script, uploading, batch, books, mailbox, early>>

Returned == /\ step = "reading"
            /\ Download!Return
            /\ step' = "printing"
            /\ UNCHANGED <<file, content, printed, uploading, batch, books, mailbox, early>>

\* Mutant: a report without a group status has nothing to print.
GroupReports == {r \in batch : r.group # "none"}
\* The loop of status prints every report, with or without a group status.
ReportsToPrint == batch

EndStatus == step' = "down" /\ batch' = {} /\ landed' = FALSE /\ consumed' = FALSE

PrintReports == /\ step = "printing"
                /\ printed' = printed \cup ReportsToPrint
                /\ EndStatus
                /\ UNCHANGED <<file, content, uploading, fetch, books, mailbox, early>>

\* A receipt that is in doubt when the call ends is taken or not; see StatementSync for one
\* that is taken during a later call.
Drop == /\ waiting' \in {waiting} \cup (IF landed THEN {waiting \ batch} ELSE {})
        /\ lost' = lost \cup (batch \ waiting')

\* The download raises: an unreadable document, a failed exchange.
FetchFails == /\ step = "reading"
              /\ fetch = "pending" /\ fetch' = "raised"
              /\ Drop
              /\ EndStatus
              /\ UNCHANGED <<file, content, printed, uploading, books, produced, early>>

\* The process dies: between the receipt and the printing what it fetched is lost.
Dies == /\ step # "down"
        /\ fetch' = IF step = "reading" THEN "raised" ELSE fetch
        /\ Drop
        /\ EndStatus
        /\ UNCHANGED <<file, content, printed, uploading, books, produced, early>>

-----------------------------------------------------------------------------
\* Bank (external)

\* It takes the payments of a file.
Take(f) == /\ taken' = [taken EXCEPT ![f] = @ + 1]
           /\ open' = open \cup ({f} \X content[f])
           /\ UNCHANGED <<script, tx, uploads, reading, executed, mailbox, early>>

\* It takes the order while it still can, also after the call has ended in doubt,
TakeOrder == /\ tx = "open"
             /\ Upload!TakeOrder
             /\ Take(file)
             /\ UNCHANGED late

\* and the order of an earlier upload, after a newer one has begun.
TakeLateOrder(f) == /\ late[f] > 0
                    /\ late' = [late EXCEPT ![f] = @ - 1]
                    /\ Take(f)
                    /\ UNCHANGED <<outcome, orders>>

CloseTransaction == /\ tx = "open"
                    /\ tx' = "closed"
                    /\ UNCHANGED <<outcome, orders, uploads, late, early>>
                    /\ UNCHANGED <<script, reading, books, mailbox>>

Report(r) == /\ produced' = produced \cup {r}
             /\ waiting' = waiting \cup {r}
             /\ UNCHANGED lost

Undecided(f) == {b \in Blocks : <<f, b>> \in open}

Nothing == [b \in {} |-> "ACCP"]

\* The file is technically valid.
ReportReceived(f) ==
    LET r == [file |-> f, group |-> "ACTC", transactions |-> Nothing]
    IN  /\ Undecided(f) # {}
        /\ r \notin produced
        /\ Report(r)
        /\ UNCHANGED <<script, uploading, reading, books, early>>

\* A verdict on the whole file. It lists every transaction, only the rejected ones or none.
DecideFile(f) ==
    /\ content[f] # {} /\ Undecided(f) = content[f]
    /\ \E rejected \in SUBSET content[f] :
           LET Listing(S) == [b \in S |-> IF b \in rejected THEN "RJCT" ELSE "ACCP"]
               group      == CASE rejected = {}         -> "ACCP"
                               [] rejected = content[f] -> "RJCT"
                               [] OTHER                 -> "PART"
           IN  /\ \E listed \in {{}, rejected, content[f]} :
                      Report([file |-> f, group |-> group, transactions |-> Listing(listed)])
               /\ executed' = executed \cup ({f} \X (content[f] \ rejected))
    /\ open' = open \ ({f} \X content[f])
    /\ UNCHANGED <<script, uploading, reading, taken, early>>

\* A verdict on one block, without a group status. It lists the transaction or not.
DecideBlock(f, b) ==
    /\ b \in Undecided(f)
    /\ \E status \in Statuses, listed \in {{}, {b}} :
           /\ Report([file |-> f, group |-> "none", transactions |-> [x \in listed |-> status]])
           /\ executed' = IF status = "ACCP" THEN executed \cup {<<f, b>>} ELSE executed
    /\ open' = open \ {<<f, b>>}
    /\ UNCHANGED <<script, uploading, reading, taken, early>>

\* It takes the positive receipt.
Consume == /\ step = "reading"
           /\ Download!Consume
           /\ waiting' = waiting \ batch
           /\ UNCHANGED <<script, uploading, batch, books, produced, lost, early>>

-----------------------------------------------------------------------------
Next == \/ WriteFile \/ Pay \/ UploadEnds
        \/ FetchReports \/ Parsed \/ Returned \/ PrintReports \/ FetchFails \/ Dies
        \/ TakeOrder \/ CloseTransaction \/ Consume
        \/ \E f \in Files : \/ TakeLateOrder(f)
                            \/ ReportReceived(f)
                            \/ DecideFile(f)
                            \/ \E b \in Blocks : DecideBlock(f, b)

Spec == Init /\ [][Next]_vars

-----------------------------------------------------------------------------
(***************************************************************************)
(* Properties                                                              *)
(***************************************************************************)

\* No payment is made twice: the bank takes each file at most once, and of all the files a
\* block was in it executes, or may still execute, at most one (UploadUnconfirmedError: "if
\* the bank has it, a second upload pays twice. Check first whether it arrived"). The code
\* and the rule break this: an order that has not arrived when the operator checks may
\* still do so after the second upload.
PaidOnce == /\ \A f \in Files : taken[f] <= 1
            /\ \A b \in Blocks : \A p, q \in open \cup executed :
                   p[2] = b /\ q[2] = b => p = q

\* In no other way is a payment made twice: the file was sent again while an earlier upload
\* of it could still take effect. New files, with what rejected_transactions names in the
\* reports printed so far, and repeated uploads of what failed or is over never do it.
PaidTwiceOnlyIfEarly == ~early => PaidOnce

\* A report the bank serves no more was printed, or came in a run of status that failed or
\* died: only such a run can lose a verdict.
LostOnlyByFailure == produced \subseteq waiting \cup batch \cup printed \cup lost
-----------------------------------------------------------------------------
\* An upload that may still be taken is one of a file.
UploadOfFile == tx = "open" => file > 0

\* Reports that were fetched are printed, or dropped, by the run of status that did so.
BatchInHand == batch # {} => step \in {"reading", "printing"}

\* The latest file was taken by its latest upload or not at all, and one whose upload may
\* come late has not been taken; later ones do not exist.
UploadInOrder == /\ \A f \in Files : f > file => content[f] = {} /\ taken[f] = 0
                 /\ \A f \in Files : late[f] > 0 => late[f] = 1 /\ f < file /\ taken[f] = 0
                 /\ file > 0 => taken[file] = orders
                 /\ outcome \in {"unsent", "failed"} => orders = 0
                 /\ outcome = "unsent" => tx = "closed"
                 /\ step = "paying" => outcome = "pending"
                 /\ file > 0 /\ outcome = "confirmed" => orders = 1

\* The bank works on the blocks of files it took, each once.
BooksInOrder == /\ \A f \in Files : taken[f] <= 1
                /\ \A p \in open \cup executed : taken[p[1]] = 1 /\ p[2] \in content[p[1]]
                /\ open \cap executed = {}

\* A block is in a second file only once it was rejected in every earlier one.
EarlierOver == \A b \in Blocks, f, g \in Files :
                   f < g /\ b \in content[f] /\ b \in content[g] =>
                       taken[f] = 1 /\ <<f, b>> \notin open \cup executed

\* Whether printed or not, what a report rejects is not executed, and never will be.
ReportsTrue ==
    \A r \in produced :
        /\ taken[r.file] = 1
        /\ \A b \in RejectedTransactions(r) : <<r.file, b>> \notin open \cup executed

\* What ties files, uploads, the bank's books and its reports together. It is inductive.
PaymentInvariant == /\ TypeOK
                    /\ UploadOfFile
                    /\ BatchInHand
                    /\ ~early => /\ UploadInOrder
                                 /\ BooksInOrder
                                 /\ EarlierOver
                                 /\ ReportsTrue
=============================================================================
