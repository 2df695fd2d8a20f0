------------------------------- MODULE Encoding -------------------------------
(***************************************************************************)
(* The bytes of a batch: columns are drawn from counter streams and turned *)
(* into Avro a block of rows at a time (corpus/values.py), the rows are    *)
(* framed (corpus/frames.py), and what was stored is read back             *)
(* (verify_batch of corpus/generate.py).                                   *)
(*                                                                         *)
(* A row has an id, a partition key, an integer, a text that is the Kafka  *)
(* key, and a payload. Words have WordBits bits and an encoded byte Bits   *)
(* bits of a value besides its continuation bit, as 64 and 7 in the code.  *)
(***************************************************************************)
EXTENDS Integers, FiniteSets, SequencesExt

CONSTANTS
  WordBits, Bits,
  Low, Span,     \* the integer column: its minimum and how many values follow
  NKeys,         \* partition_count
  Texts,         \* values of the text column, sequences of characters
  BlockBytes,    \* bytes of a block of the counter stream
  Width,         \* payload_width
  Batch, IdBlock,\* the batch, and the identifiers reserved for each
  P,             \* modulus of checksums
  BatchBytes,    \* batch_bytes
  RowBlocks,     \* values of row_block
  MaxRows        \* bound: rows of the streams that are looked at

EncodingAssumption ==
  /\ {WordBits, Bits, Span, NKeys, BlockBytes, IdBlock, P, BatchBytes, MaxRows} \subseteq Nat \ {0}
  /\ RowBlocks \subseteq Nat \ {0} /\ {Batch, Width} \subseteq Nat /\ Low \in Int

VARIABLES
  stream,   \* position -> the first word that each column's stream has for it
  rowBlock, \* row_block of this generation
  fill,     \* the rows, as fill_batch collects them
  stored,   \* the batch file and its key sidecar
  record,   \* the record of the batch
  state

vars == <<stream, rowBlock, fill, stored, record, state>>

Total(s) == FoldLeft(+, 0, s)
-----------------------------------------------------------------------------
(* Varints. The lengths are computed without encoding.                     *)
Zigzag(v) == LET twice == (2 * v) % 2^WordBits
             IN  IF v < 0 THEN 2^WordBits - 1 - twice ELSE twice

ZigzagLength(v) == 1 + Cardinality({s \in 1 .. WordBits - 1 : s % Bits = 0 /\ Zigzag(v) >= 2^s})

Varint[m \in Nat] == IF m < 2^Bits THEN <<m>> ELSE <<2^Bits + (m % 2^Bits)>> \o Varint[m \div 2^Bits]
AvroLong(v)       == Varint[Zigzag(v)]
AvroBytes(data)   == AvroLong(Len(data)) \o data

(* A segment holds a run of bytes for every row, and their lengths.        *)
VarintSegment(values, lengths) ==
  [payload |-> FlattenSeq([r \in DOMAIN values |->
                 [k \in 1 .. lengths[r] |-> ((Zigzag(values[r]) \div 2^(Bits * (k - 1))) % 2^Bits)
                                            + IF k < lengths[r] THEN 2^Bits ELSE 0]]),
   lengths |-> lengths]

Joined(cells) == [payload |-> FlattenSeq(cells), lengths |-> [r \in DOMAIN cells |-> Len(cells[r])]]

(* Characters below 8 are one byte in UTF-8, the others two.               *)
Utf8(text) == FlattenSeq([i \in DOMAIN text |->
                IF text[i] < 8 THEN <<text[i]>> ELSE <<text[i], text[i] - 8>>])

(* A column: the sizes of its cells and the segments that encode them.     *)
Encoded(sizes, segments) == [sizes |-> sizes, segments |-> segments]
LongColumn(values) ==
  LET lengths == [r \in DOMAIN values |-> ZigzagLength(values[r])]
  IN  Encoded(lengths, <<VarintSegment(values, lengths)>>)
CellColumn(cells) == Encoded(Joined(cells).lengths, <<Joined(cells)>>)
PrefixedColumn(payloads) ==
  Encoded([r \in DOMAIN payloads |-> Len(AvroLong(Width)) + Width],
          <<Joined([r \in DOMAIN payloads |-> AvroLong(Width)]), Joined(payloads)>>)

(* Texts are encoded in bulk when every character is one byte.             *)
BulkColumn(texts) ==
  LET lengths  == [r \in DOMAIN texts |-> Len(texts[r])]
      prefixes == [r \in DOMAIN texts |-> ZigzagLength(lengths[r])]
  IN  Encoded([r \in DOMAIN texts |-> prefixes[r] + lengths[r]],
              <<VarintSegment(lengths, prefixes),
                [payload |-> FlattenSeq([r \in DOMAIN texts |-> Utf8(texts[r])]), lengths |-> lengths]>>)
StringColumn(texts) ==
  IF \E r \in DOMAIN texts : Len(Utf8(texts[r])) # Len(texts[r])
  THEN CellColumn([r \in DOMAIN texts |-> AvroBytes(Utf8(texts[r]))])
  ELSE BulkColumn(texts)

(* concatenated_records puts the runs of each row next to each other.      *)
Run(segment, r) ==
  LET start == Total(SubSeq(segment.lengths, 1, r - 1))
  IN  [i \in 1 .. segment.lengths[r] |-> segment.payload[start + i]]
ConcatenatedRecords(segments, rows) ==
  FlattenSeq([r \in 1 .. rows |-> FlattenSeq([i \in DOMAIN segments |-> Run(segments[i], r)])])

-----------------------------------------------------------------------------
(* column_words: the stream of a column is read from the blocks of its row *)
(* on. By the mutant, from the start.                                      *)
WordsUnseeked(rowStart, rows, perRow) == [i \in 1 .. rows * perRow |-> i - 1]
ColumnWords(rowStart, rows, perRow)   == [i \in 1 .. rows * perRow |-> rowStart * perRow + i - 1]

Leading(field, rowStart, rows) ==
  [r \in 1 .. rows |-> stream[ColumnWords(rowStart, rows, 1)[r]][field]]

(* The payload takes as many blocks of its stream as its width needs. Its  *)
(* bytes are told apart by their place in the stream.                      *)
WordBlocks == IF Width <= BlockBytes THEN 1 ELSE (Width + BlockBytes - 1) \div BlockBytes
Payloads(rowStart, rows) ==
  LET blocks == ColumnWords(rowStart, rows, WordBlocks)
  IN  [r \in 1 .. rows |-> [i \in 1 .. Width |->
         blocks[(r - 1) * WordBlocks + 1 + ((i - 1) \div BlockBytes)] * BlockBytes + ((i - 1) % BlockBytes)]]

(* Identifiers of a batch start at its block.                              *)
IdAt(row) == Batch * IdBlock + row

Label(k)     == <<0, k>>
Number(word) == (word % Span) + Low

BuildRowBlock(rowStart, rows) ==
  LET ids     == [r \in 1 .. rows |-> IdAt(rowStart + r - 1)]
      keys    == Leading("key", rowStart, rows)
      words   == Leading("word", rowStart, rows)
      texts   == Leading("text", rowStart, rows)
      columns == <<LongColumn(ids), CellColumn([r \in 1 .. rows |-> AvroBytes(Label(keys[r]))]),
                   LongColumn([r \in 1 .. rows |-> Number(words[r])]), StringColumn(texts),
                   PrefixedColumn(Payloads(rowStart, rows))>>
  IN  [ids |-> ids, keys |-> keys, texts |-> texts,
       sizes   |-> [r \in 1 .. rows |-> Total([c \in DOMAIN columns |-> columns[c].sizes[r]])],
       records |-> ConcatenatedRecords(FlattenSeq([c \in DOMAIN columns |-> columns[c].segments]), rows)]

-----------------------------------------------------------------------------
(* Frames: a header, here one element, and as many bytes as it says.       *)
(* Reading stops at a truncated frame, which is an error.                  *)
RECURSIVE FrameStream(_, _)
FrameStream(bytes, sizes) ==
  IF sizes = <<>> THEN <<>>
  ELSE <<Head(sizes)>> \o SubSeq(bytes, 1, Head(sizes))
                       \o FrameStream(SubSeq(bytes, Head(sizes) + 1, Len(bytes)), Tail(sizes))

StringFrames(texts) ==
  FrameStream(FlattenSeq([i \in DOMAIN texts |-> Utf8(texts[i])]),
              [i \in DOMAIN texts |-> Len(Utf8(texts[i]))])

RECURSIVE IterFrames(_)
IterFrames(data) ==
  IF data = <<>> \/ Len(data) < 1 + Head(data) THEN <<>>
  ELSE <<SubSeq(data, 2, 1 + Head(data))>> \o IterFrames(SubSeq(data, 2 + Head(data), Len(data)))

NoneTruncated(data) ==
  Len(data) = Len(IterFrames(data)) + Len(FlattenSeq(IterFrames(data)))

(* The Avro reader: a value and the bytes behind it.                       *)
Take(s, n) == SubSeq(s, 1, IF n > Len(s) THEN Len(s) ELSE IF n < 0 THEN 0 ELSE n)
Drop(s, n) == SubSeq(s, IF n < 0 THEN 1 ELSE n + 1, Len(s))
ReadLong(s) ==
  LET ends == {i \in DOMAIN s : s[i] < 2^Bits}
      n    == IF ends = {} THEN Len(s) ELSE CHOOSE i \in ends : \A j \in ends : i <= j
      z    == Total([i \in 1 .. n |-> (s[i] % 2^Bits) * 2^(Bits * (i - 1))])
  IN  [value |-> IF z % 2 = 0 THEN z \div 2 ELSE -((z + 1) \div 2), rest |-> Drop(s, n)]
ReadBytes(s) ==
  LET size == ReadLong(s) IN [value |-> Take(size.rest, size.value), rest |-> Drop(size.rest, size.value)]

(* Fields are read one behind the other.                                   *)
Fields == <<"id", "label", "number", "text", "payload">>
ReadField(read, field) ==
  LET v == IF field \in {"id", "number"} THEN ReadLong(read.rest) ELSE ReadBytes(read.rest)
  IN  [row |-> (field :> v.value) @@ read.row, rest |-> v.rest]
ReadRow(frame) == FoldLeft(ReadField, [row |-> <<>>, rest |-> frame], Fields).row

-----------------------------------------------------------------------------
NoFill == [ids |-> <<>>, keys |-> <<>>, texts |-> <<>>, sizes |-> <<>>, records |-> <<>>]

Init ==
  /\ stream \in [0 .. MaxRows - 1 -> [word : 0 .. Span - 1, key : 0 .. NKeys - 1, text : Texts]]
  /\ rowBlock \in RowBlocks
  /\ fill = NoFill /\ stored = <<<<>>, <<>>>> /\ record = <<>> /\ state = "filling"

(* fill_batch takes whole blocks until the budget is reached.              *)
FillBlock ==
  /\ state = "filling" /\ Total(fill.sizes) < BatchBytes
  /\ Len(fill.ids) + rowBlock <= MaxRows
  /\ LET block == BuildRowBlock(Len(fill.ids), rowBlock)
     IN  fill' = [f \in DOMAIN fill |-> fill[f] \o block[f]]
  /\ UNCHANGED <<stream, rowBlock, stored, record, state>>

CountsOf(keys) == [k \in 0 .. NKeys - 1 |-> Cardinality({i \in DOMAIN keys : keys[i] = k})]

(* The file, its sidecar and the record are written, when the sizes add up.*)
WriteFrames ==
  /\ state = "filling" /\ Total(fill.sizes) >= BatchBytes
  /\ IF Total(fill.sizes) # Len(fill.records)
     THEN /\ state' = "rejected"
          /\ UNCHANGED <<stored, record>>
     ELSE /\ stored' = <<FrameStream(fill.records, fill.sizes), StringFrames(fill.texts)>>
          /\ record' = [rows |-> Len(fill.ids), min |-> Head(fill.ids), max |-> Last(fill.ids),
                        checksum |-> (((Head(fill.ids) + Last(fill.ids)) * Len(fill.ids)) \div 2) % P]
          /\ state' = "written"
  /\ UNCHANGED <<stream, rowBlock, fill>>

(* verify_batch on what was written.                                       *)
Verified ==
  LET rows    == [i \in DOMAIN IterFrames(stored[1]) |-> ReadRow(IterFrames(stored[1])[i])]
      sidecar == IterFrames(stored[2])
  IN  /\ NoneTruncated(stored[1]) /\ NoneTruncated(stored[2])
      /\ Len(rows) = record.rows /\ Len(sidecar) = record.rows
      /\ record.max = record.min + record.rows - 1
      /\ \A i \in DOMAIN rows : rows[i].id = record.min + i - 1 /\ rows[i].text = sidecar[i]
      /\ Total([i \in DOMAIN rows |-> rows[i].id]) % P = record.checksum
      /\ CountsOf([i \in DOMAIN rows |-> rows[i].label[2]]) = CountsOf(fill.keys)

Verify ==
  /\ state = "written"
  /\ state' = IF Verified THEN "published" ELSE "rejected"
  /\ UNCHANGED <<stream, rowBlock, fill, stored, record>>

Next == FillBlock \/ WriteFrames \/ Verify

Spec == Init /\ [][Next]_vars
-----------------------------------------------------------------------------

(* Sizes that were computed without encoding are those of the bytes, and   *)
(* the rows that are read back pass verify_batch: no batch is ever         *)
(* rejected for what the encoder wrote, whatever its values.               *)
NeverRejected == state # "rejected"

(* The row at a position of the batch, from the streams alone.             *)
RowAt(i) ==
  [id |-> Batch * IdBlock + i, label |-> Label(stream[i].key), number |-> Number(stream[i].word),
   text |-> Utf8(stream[i].text),
   payload |-> [j \in 1 .. Width |-> i * WordBlocks * BlockBytes + j - 1]]

(* A published file decodes to the rows of its positions, so that a row    *)
(* does not depend on row_block ("keeping values stable across block       *)
(* sizes", values.py:152), no two rows share stream bytes, and the key     *)
(* that the producer sends with a row is the row's.                        *)
StoredIsDrawn ==
  state = "published" =>
    LET frames == IterFrames(stored[1])
        keys   == IterFrames(stored[2])
    IN  \A i \in 1 .. record.rows :
          ReadRow(frames[i]) = RowAt(i - 1) /\ keys[i] = RowAt(i - 1).text
=============================================================================
