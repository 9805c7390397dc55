----------------------------- MODULE OrderData -----------------------------
(***************************************************************************)
(* One order's data from the sender to the reader: compressed, padded,     *)
(* encrypted, encoded and cut into segments (h005.prepare_upload, or the   *)
(* bank), carried by a transaction, then joined, decoded, decrypted and    *)
(* inflated under a ceiling (Client._run_download_transaction, crypto) and *)
(* split into documents (container.extract_documents). Each side mirrors   *)
(* the other, so one module models both directions.                        *)
(*                                                                         *)
(* Bytes are abstracted to their positions. What zlib keeps between two    *)
(* calls of decompress, and that nothing but its End code vouches for the  *)
(* data, are modelled as they are: the code depends on both.               *)
(***************************************************************************)
EXTENDS Naturals, Sequences, FiniteSets, SequencesExt

CONSTANTS Streams,      \* compressed streams: for each code, the size of the data up to it
          Contents,     \* what the data may be, see OrderDataAssumption
          Block,        \* codes in a block of the cipher
          SegmentSize,  \* _MAX_SEGMENT_CHARS
          Limit,        \* _MAX_INFLATED_BYTES
          Chunk,        \* _INFLATE_CHUNK_BYTES
          MaxRun,       \* the most bytes one code stands for
          MaxEntries,   \* _MAX_ENTRIES
          MaxEntryBytes,\* _MAX_TOTAL_UNCOMPRESSED_BYTES
          Defects       \* what may happen to the segments on their way, see Arrivals

Start(stream, code) == IF code = 1 THEN 0 ELSE stream[code - 1]
Size(stream) == Start(stream, Len(stream) + 1)

\* The data is one XML document or a ZIP container, whose entries have names (in the order
\* of numbers), distinct documents and sizes.
Entries == [name : Nat, document : STRING, bytes : Nat]

ASSUME OrderDataAssumption ==
    /\ Block \in Nat \ {0} /\ SegmentSize \in Nat \ {0} /\ Chunk \in Nat \ {0}
    /\ Limit \in Nat /\ MaxRun \in Nat \ {0} /\ MaxEntries \in Nat /\ MaxEntryBytes \in Nat
    /\ \A s \in Streams : /\ s \in Seq(Nat)
                          /\ \A i \in 1..Len(s) : s[i] - Start(s, i) \in 1..MaxRun
    /\ \A c \in Contents : /\ DOMAIN c = {"zip", "entries"} /\ c.zip \in BOOLEAN
                           /\ c.entries \in Seq(Entries)
                           /\ ~c.zip => Len(c.entries) = 1
                           /\ \A e, f \in 1..Len(c.entries) :
                                  c.entries[e].document = c.entries[f].document => e = f
    /\ Defects \subseteq {"short", "cut", "misplaced", "damaged", "key"}

VARIABLES
    status,    \* see Statuses
    stream,    \* the compressed stream; its End code, with the checksum, comes after it
    content,   \* the order data
    segments,  \* the segments sent, then those held under 1, 2, ... NumSegments
    defect,    \* what happened to them; no code reads it
    \* What decrypting leaves
    length,    \* codes in the decrypted data
    sound,     \* how many of them, from the first, are the sender's
    \* zlib's decompressor and the loop of _inflate_bounded
    next,      \* the code it reads next
    pending,   \* bytes of the last one that are still to come
    room,      \* bytes it may still put out in this call
    eof,       \* it has seen the End code
    out,       \* bytes put out
    faithful,  \* they are the beginning of the order data; no code reads it
    documents  \* what extract_documents returned

sealing   == <<stream, content>>
carriage  == <<segments, defect>>
cipher    == <<length, sound>>
inflating == <<next, pending, room, eof, out, faithful>>
vars      == <<status, sealing, carriage, cipher, inflating, documents>>

Statuses == {"plain", "sent", "received", "looping", "inflating", "opened", "extracted", "failed"}

\* The document of a data that is not whole.
Part == "part"

Init == /\ status = "plain"
        /\ stream \in Streams /\ content \in Contents
        /\ content.zip => Size(stream) > 0
        /\ segments = <<>> /\ defect = "none"
        /\ length = 0 /\ sound = 0
        /\ next = 1 /\ pending = 0 /\ room = 0 /\ eof = FALSE /\ out = 0 /\ faithful = TRUE
        /\ documents = <<>>

Refuse == status' = "failed"

-----------------------------------------------------------------------------
\* Sealing

\* Two base64 characters stand for a code; a segment may end between them.
CharsPerCode == 2

\* PKCS#7 always adds something, up to a whole block.
Pkcs7(codes) == Block - (codes % Block)

\* _split_segments: at least one segment, and only the last may be shorter than the others.
Split(chars) ==
    IF chars = 0 THEN <<(<<>>)>>
    ELSE [n \in 1..((chars + SegmentSize - 1) \div SegmentSize) |->
             [k \in 1..(IF n * SegmentSize <= chars THEN SegmentSize ELSE chars % SegmentSize) |->
                 (n - 1) * SegmentSize + k]]

Seal(pad) == /\ status = "plain"
             /\ segments' = Split((Len(stream) + 1 + pad) * CharsPerCode)
             /\ status' = "sent"
             /\ UNCHANGED <<sealing, defect, cipher, inflating, documents>>

PrepareUpload == Seal(Pkcs7(Len(stream) + 1))

\* The bank (external) fills the last block as it likes.
BankSeals == \E pad \in 0..Block : (Len(stream) + 1 + pad) % Block = 0 /\ Seal(pad)

-----------------------------------------------------------------------------
\* The way of the segments (external). The response signature covers the envelope of each,
\* not that they belong together.

\* "short": NumSegments is too small; "cut": the sender lost the end; "misplaced": the first
\* answer carries another segment, which the client keeps under 1 whatever number it bears;
\* "damaged": a character is not the sender's; "key": sealed for another E002 key.
Arrivals(what) ==
    CASE what = "short" -> {SubSeq(segments, 1, n) : n \in 1..(Len(segments) - 1)}
      [] what = "cut" -> {Split(n) : n \in 0..(Len(FlattenSeq(segments)) - 1)}
      [] what = "misplaced" -> {[segments EXCEPT ![1] = segments[n]] : n \in 2..Len(segments)}
      [] what = "damaged" -> UNION {{[segments EXCEPT ![n] = [@ EXCEPT ![k] = 0]] :
                                        k \in 1..Len(segments[n])} : n \in 1..Len(segments)}
      [] OTHER -> {segments}

Deliver == /\ status = "sent"
           /\ defect' \in Defects \cup {"none"}
           /\ segments' \in Arrivals(defect')
           /\ status' = "received"
           /\ UNCHANGED <<sealing, cipher, inflating, documents>>

-----------------------------------------------------------------------------
\* Opening

\* Mutant: every segment is decoded on its own.
DecodedEach == \A n \in 1..Len(segments) : Len(segments[n]) % CharsPerCode = 0
\* The segments are joined before they are decoded.
Decodable == Len(FlattenSeq(segments)) % CharsPerCode = 0

\* CBC: a block is what the sender encrypted if it and the block before it arrived as they
\* were sent. Behind the first that is not, nothing is where the decompressor expects it.
SoundBlocks(chars, n) ==
    LET sent(block) == \A k \in ((block - 1) * Block * CharsPerCode + 1)..(block * Block * CharsPerCode) :
                           k <= Len(chars) /\ chars[k] = k
    IN  (\A block \in 1..n : sent(block)) /\ ~sent(n + 1)

\* decrypt_order_data: an incomplete block is refused. A key that unwraps to something else
\* is refused or decrypts to nothing sound.
Decrypt == /\ status = "received"
           /\ LET chars == FlattenSeq(segments)
                  codes == Len(chars) \div CharsPerCode
              IN  \/ /\ (~Decodable \/ codes % Block # 0 \/ defect = "key")
                     /\ Refuse /\ UNCHANGED cipher
                  \/ /\ Decodable /\ codes % Block = 0
                     /\ length' = codes
                     /\ \E n \in 0..(codes \div Block) :
                           /\ sound' = n * Block
                           /\ IF defect = "key" THEN n = 0 ELSE SoundBlocks(chars, n)
                     /\ status' = "looping"
           /\ UNCHANGED <<sealing, carriage, inflating, documents>>

\* The loop of _inflate_bounded: unconsumed_tail is what decompress left of its input.
InputLeft == next <= length

\* Mutant: the ceiling, and a byte to see it exceeded, is all that caps a call.
UpToCeiling == room' = Limit + 1
CapOutput == room' = Chunk

Decompress == /\ status = "looping" /\ InputLeft /\ ~eof
              /\ CapOutput
              /\ status' = "inflating"
              /\ UNCHANGED <<sealing, carriage, cipher, next, pending, eof, out, faithful, documents>>

\* zlib (external) reads a code while it may put something out.
Reads == status = "inflating" /\ pending = 0 /\ room > 0 /\ ~eof /\ InputLeft

ReadCode == /\ Reads /\ next <= sound /\ next <= Len(stream)
            /\ pending' = stream[next] - Start(stream, next)
            /\ next' = next + 1
            /\ UNCHANGED <<status, sealing, carriage, cipher, room, eof, out, faithful, documents>>

\* The checksum holds: everything before it was sound.
ReadEnd == /\ Reads /\ next <= sound /\ next = Len(stream) + 1
           /\ eof' = TRUE
           /\ UNCHANGED <<status, sealing, carriage, cipher, next, pending, room, out, faithful, documents>>

\* Mutant: a raw stream has no checksum, so anything may look like its end.
GarbledUnchecked == eof' \in BOOLEAN /\ UNCHANGED status
\* What is not sound is an error or may pass for data, never for an end: its checksum fails.
Garbled == UNCHANGED eof /\ (Refuse \/ UNCHANGED status)

ReadGarbled == /\ Reads /\ next > sound
               /\ Garbled
               /\ pending' \in 0..MaxRun
               /\ next' = next + 1
               /\ faithful' = FALSE
               /\ UNCHANGED <<sealing, carriage, cipher, room, out, documents>>

PutOut == /\ status = "inflating" /\ pending > 0 /\ room > 0
          /\ out' = out + 1 /\ pending' = pending - 1 /\ room' = room - 1
          /\ UNCHANGED <<status, sealing, carriage, cipher, next, eof, faithful, documents>>

\* Mutant: the ceiling is checked once, after the loop.
GoOn == status' = "looping"
\* The ceiling is checked after every call.
CheckCeiling == IF out > Limit THEN Refuse ELSE status' = "looping"

DecompressReturns == /\ status = "inflating"
                     /\ (room = 0 \/ eof \/ (pending = 0 /\ ~InputLeft))
                     /\ CheckCeiling
                     /\ UNCHANGED <<sealing, carriage, cipher, inflating, documents>>

\* After the loop, flush puts out what is pending. Whether the End code was seen is not asked.
Flush == /\ status = "looping" /\ ~(InputLeft /\ ~eof)
         /\ out' = out + pending /\ pending' = 0
         /\ status' = IF out' > Limit THEN "failed" ELSE "opened"
         /\ UNCHANGED <<sealing, carriage, cipher, next, room, eof, faithful, documents>>

-----------------------------------------------------------------------------
\* Splitting into documents

Whole == faithful /\ out = Size(stream)

EntryCount == Len(content.entries)
Named(name) == {e \in 1..EntryCount : content.entries[e].name = name}
\* archive.open takes the last entry of a name.
Opened(name) == CHOOSE e \in Named(name) : \A f \in Named(name) : f <= e

ArchiveNames == [e \in 1..EntryCount |-> content.entries[e].name]
\* Mutant: the documents come as the archive lists them.
ArchiveOrder == ArchiveNames
\* sorted: a permutation of the names that puts none before a smaller one.
Sortings == {p \in Bijection(1..EntryCount, 1..EntryCount) :
                 \A m, n \in 1..EntryCount : m < n => ArchiveNames[p[m]] <= ArchiveNames[p[n]]}
NameOrder == LET sorting == CHOOSE p \in Sortings : TRUE
             IN  [n \in 1..EntryCount |-> ArchiveNames[sorting[n]]]

\* _read_entry for every name: a prefix is read whatever the size of the entry.
ReadEntries(prefixes) ==
    IF \/ EntryCount > MaxEntries
       \/ ~prefixes /\ \E n \in 1..EntryCount :
                          content.entries[Opened(ArchiveNames[n])].bytes > MaxEntryBytes
    THEN Refuse /\ UNCHANGED documents
    ELSE /\ documents' = [n \in 1..EntryCount |-> content.entries[Opened(NameOrder[n])].document]
         /\ status' = "extracted"

AsOneDocument == /\ documents' = <<IF Whole /\ ~content.zip THEN content.entries[1].document ELSE Part>>
                 /\ status' = "extracted"

\* Only data that begins like a ZIP is read as one, and its directory comes last: what lost
\* its end is refused. Of garbled data nothing is known.
Extract == /\ status = "opened"
           /\ \E prefixes \in BOOLEAN :
                 \/ /\ content.zip /\ Whole /\ ReadEntries(prefixes)
                 \/ /\ content.zip /\ ~Whole /\ (~faithful \/ out > 0) /\ Refuse /\ UNCHANGED documents
                 \/ /\ (~content.zip \/ ~faithful \/ (out = 0 /\ ~Whole))
                    /\ AsOneDocument
           /\ UNCHANGED <<sealing, carriage, cipher, inflating>>

-----------------------------------------------------------------------------
OpenData == \/ Decrypt
            \/ Decompress \/ ReadCode \/ ReadEnd \/ ReadGarbled \/ PutOut \/ DecompressReturns \/ Flush

Next == PrepareUpload \/ BankSeals \/ Deliver \/ OpenData \/ Extract

\* Opening is one call that nothing interrupts.
Spec == Init /\ [][Next]_vars /\ WF_vars(OpenData)

-----------------------------------------------------------------------------
(***************************************************************************)
(* Properties                                                              *)
(***************************************************************************)

TypeOK == /\ status \in Statuses
          /\ stream \in Streams /\ content \in Contents
          /\ segments \in Seq(Seq(Nat))
          /\ defect \in Defects \cup {"none"}
          /\ length \in Nat /\ sound \in 0..length
          /\ next \in 1..(length + 1) /\ pending \in 0..MaxRun /\ room \in 0..Chunk
          /\ eof \in BOOLEAN /\ out \in Nat /\ faithful \in BOOLEAN

\* Before anything is decrypted.
Early == {"plain", "sent", "received"}

\* What was put out and what is pending of the last code are where the sender's stream stood
\* after it, as long as the data is the sender's; and a call puts out no more than a chunk.
LoopInvariant == /\ next <= sound => faithful
                 /\ faithful => /\ next \in 1..(Len(stream) + 1)
                                /\ out + pending = Start(stream, next)
                 /\ status = "looping" => out <= Limit
                 /\ status = "inflating" => out + room <= Limit + Chunk

\* At no time does the client hold more than the ceiling and what one call, or one code,
\* may put out ("a decompression bomb is rejected rather than exhausting memory"); what it
\* returns is within the ceiling.
BoundedOutput == /\ out <= Limit + (IF Chunk > MaxRun THEN Chunk ELSE MaxRun)
                 /\ status \in {"opened", "extracted"} => out <= Limit

\* If the decompressor has seen the End code, what is returned is exactly the order data,
\* whatever happened to the segments on their way. Without it, it may be a part of it, or
\* no part of it: _inflate_bounded does not ask.
EndVouches == status \in {"opened", "extracted"} /\ eof => Whole

\* Data that is returned was read to its End code: a stream that lost it is an error
\* (_inflate_bounded, "Raises: CryptoError: the stream is not valid DEFLATE data"). The code
\* breaks this: the loop ends when its input does.
OpenedToItsEnd == status \in {"opened", "extracted"} /\ out > 0 => eof

\* What arrives as it was sent is opened to exactly the order data, or refused if that is
\* over the ceiling: a segment boundary within a base64 group or a block, a chunk that ends
\* within a code or with the input, and any padding make no difference.
OpensWhole ==
    [](status = "received" /\ defect = "none" =>
          <>(IF Size(stream) <= Limit THEN status = "opened" /\ eof /\ Whole
                                      ELSE status = "failed"))

\* The documents of a container come in the order of their names, as many as it has
\* entries. The last entry of each name is read as often as the name is listed; an earlier
\* one of the same name is never read. Only a whole container is split.
DocumentsRead ==
    status = "extracted" /\ content.zip /\ documents # <<Part>> =>
        /\ Whole
        /\ Len(documents) = EntryCount
        /\ \A e \in 1..EntryCount :
              LET entry == content.entries[e]
                  read == {n \in 1..EntryCount : documents[n] = entry.document}
              IN  /\ Cardinality(read) = IF e = Opened(entry.name)
                                         THEN Cardinality(Named(entry.name)) ELSE 0
                  /\ \A n \in read : Cardinality({f \in 1..EntryCount :
                                           content.entries[f].name < entry.name}) < n
-----------------------------------------------------------------------------
\* The state of the decompressor once it has seen the End code.
EndSeen == eof => faithful /\ next = Len(stream) + 1 /\ pending = 0 /\ out = Size(stream)

\* What has been put out before and after each step of the loop.
Ceiling == /\ status \in {"opened", "extracted"} => out <= Limit
           /\ status \in Early => out = 0 /\ faithful
           /\ out <= Limit + (IF Chunk > MaxRun THEN Chunk ELSE MaxRun)

\* Nothing is read before it arrives. What is sealed fills whole blocks, and is carried as
\* it was sealed unless it has a defect.
SealedInBlocks ==
    /\ status \in Early => next = 1 /\ length = 0
    /\ status \in {"plain", "sent"} => defect = "none"
    /\ status \in {"sent", "received"} /\ defect = "none" =>
           \E codes \in (Len(stream) + 1)..(Len(stream) + 1 + Block) :
               codes % Block = 0 /\ segments = Split(codes * CharsPerCode)

\* What has no defect is decrypted to the sender's stream, and opened to its End code.
OpenedAsSent ==
    defect = "none" =>
        /\ status \notin Early \cup {"failed"} => faithful /\ sound = length /\ length > Len(stream)
        /\ status \in {"opened", "extracted"} => eof /\ Whole
        /\ status = "failed" => Size(stream) > Limit \/ (eof /\ Whole)

\* A container that was split was whole, and its documents are in the order of its names.
SplitInOrder ==
    status = "extracted" /\ content.zip /\ documents # <<Part>> =>
        /\ Whole
        /\ documents = [n \in 1..EntryCount |-> content.entries[Opened(NameOrder[n])].document]

\* The inductive invariant: from prepare_upload to the documents.
OrderDataInvariant == /\ TypeOK
                      /\ LoopInvariant
                      /\ EndSeen
                      /\ Ceiling
                      /\ SealedInBlocks
                      /\ OpenedAsSent
                      /\ SplitInOrder
=============================================================================
