------------------------------ MODULE FileFormat ------------------------------
(***************************************************************************)
(* How SQLite writes a page, as a reference for RecordReader: the bytes of *)
(* a page are built from what is stored on it, and what is read back is    *)
(* compared with that.                                                     *)
(*                                                                         *)
(* A stored value is its serial type, its bytes and the number it stands   *)
(* for when it is one.  A page stored is its type, its right-most pointer  *)
(* and its cells: [rowid, values] on a table's leaf, [values] on an        *)
(* index's, [child, values] on an interior page of an index, [child, key]  *)
(* on one of a table.                                                      *)
(***************************************************************************)
EXTENDS RecordReader

LOCAL INSTANCE FiniteSetsExt

Digits(n, low) == [i \in 1 .. n |-> (low \div 2^((n - i) * ByteBits)) % 2^ByteBits]

\* n bytes of two's complement.
AsBytes(number, n) == Digits(n, number % 2^(n * ByteBits))

\* The shortest varint: groups of a bit less than a byte, or nine bytes of which
\* the last is whole.
AsVarint(number) ==
  LET fits(k) == number < 2^(k * (ByteBits - 1))
      group(k, i) == (number \div 2^((k - i) * (ByteBits - 1))) % MoreFollows
      long == number \div 2^ByteBits
  IN  IF \E k \in 1 .. 8 : fits(k)
        THEN LET k == Min({j \in 1 .. 8 : fits(j)})
             IN  [i \in 1 .. k |-> group(k, i) + IF i < k THEN MoreFollows ELSE 0]
        ELSE [i \in 1 .. 9 |->
                IF i < 9 THEN MoreFollows + ((long \div 2^((8 - i) * (ByteBits - 1))) % MoreFollows)
                         ELSE number % 2^ByteBits]

Flat(sequences) == FoldLeft(LAMBDA all, s : all \o s, <<>>, sequences)

RecordBytes(values) ==
  LET types == Flat([i \in DOMAIN values |-> AsVarint(values[i].serial)])
      size  == CHOOSE h \in Len(types) + 1 .. Len(types) + 9 : h = Len(types) + Len(AsVarint(h))
  IN  AsVarint(size) \o types \o Flat([i \in DOMAIN values |-> values[i].bytes])

\* How much of a payload stays on the page: all of it if it fits, or as much as
\* fits and fills the overflow pages, or else the minimum.
OnPage(type, size) ==
  LET fills == {n \in MinLocal .. MaxLocal(type) : (size - n) % (UsableSize - 4) = 0}
  IN  IF size <= MaxLocal(type) THEN size
      ELSE IF fills # {} THEN Max(fills) ELSE MinLocal

\* The first overflow page of the page's i-th cell.
ChainOf(i) == 300 + i

CellBytes(stored, i) ==
  LET c       == stored.cells[i]
      child   == IF stored.type \in Interior THEN AsBytes(c.child, 4) ELSE <<>>
      record  == RecordBytes(c.values)
      n       == OnPage(stored.type, Len(record))
      rowid   == IF stored.type = "leaf table" THEN AsVarint(c.rowid) ELSE <<>>
      pointer == IF n < Len(record) THEN AsBytes(ChainOf(i), 4) ELSE <<>>
  IN  IF stored.type = "interior table"
        THEN child \o AsVarint(c.key)
        ELSE child \o AsVarint(Len(record)) \o rowid \o SubSeq(record, 1, n) \o pointer

TypeByte(type) ==
  CASE type = "interior index" -> 2 [] type = "interior table" -> 5
    [] type = "leaf index"    -> 10 [] type = "leaf table"     -> 13

\* The place of the i-th cell: cells are written from the last to the first,
\* behind the header, the pointers and a gap of one byte.
PlaceOf(number, stored, i) ==
  (IF number = 1 THEN DatabaseHeaderSize ELSE 0)
    + (IF stored.type \in Interior THEN 12 ELSE 8) + 2 * Len(stored.cells) + 1
    + Len(Flat([j \in 1 .. Len(stored.cells) - i |-> CellBytes(stored, i + j)]))

\* A page and its overflow chains, as a file SQLite wrote has them.
Written(number, stored) ==
  LET n == Len(stored.cells)
      record(i) == RecordBytes(stored.cells[i].values)
      front == IF number = 1 THEN [i \in 1 .. DatabaseHeaderSize |-> 3] ELSE <<>>
      right == IF stored.type \in Interior THEN AsBytes(stored.right, 4) ELSE <<>>
  IN  [number |-> number, stored |-> stored,
       data |-> front \o <<TypeByte(stored.type), 0, 0>> \o AsBytes(n, 2) \o <<0, 0, 0>> \o right
                  \o Flat([i \in 1 .. n |-> AsBytes(PlaceOf(number, stored, i), 2)]) \o <<1>>
                  \o Flat([i \in 1 .. n |-> CellBytes(stored, n + 1 - i)]),
       overflow |-> IF stored.type = "interior table" THEN <<>>
                    ELSE [p \in {ChainOf(i) : i \in 1 .. n} |->
                            LET i == p - ChainOf(0)
                            IN  SubSeq(record(i), OnPage(stored.type, Len(record(i))) + 1,
                                       Len(record(i)))]]

-----------------------------------------------------------------------------
Stored == file.stored

StoredCell == Stored.cells[index]

IsNumber(v) == v.serial \in 1 .. 6 \cup {8, 9}

\* The text a value stands for where it is printed: it ends at a zero byte.
TextOf(v) ==
  LET zeros == {i \in DOMAIN v.bytes : v.bytes[i] = 0}
  IN  IF zeros = {} THEN v.bytes ELSE SubSeq(v.bytes, 1, Min(zeros) - 1)

\* The integers that are widened from a type C does not have.
OddWidths == {3, 5}

\* A value read is the one stored, and prints as it; of a negative number, which
\* %zu prints without its sign, the value is compared.  SignedAsStored is about the
\* negative numbers of odd widths.
AsStored(value, v) ==
  CASE v.serial = 0 -> value.type = "null"
    [] IsNumber(v) /\ v.number >= 0 -> Printed(value) = v.number
    [] IsNumber(v) /\ v.number < 0 -> v.serial \in OddWidths \/ value.value = v.number
    [] ~ IsNumber(v) /\ v.serial # 0 -> Printed(value) = TextOf(v)

HasRow == pc = "done" /\ Stored.type # "interior table"

\* A row read is the row stored (read_row_from_record, print_value): as many values,
\* each the one that was stored, whatever serial types stand next to it, wherever
\* the payload was split, and whatever the lengths of the varints in front; the rowid
\* of a table's row is the cell's, and a schema record's root page the one stored.
RowAsStored ==
  HasRow =>
    IF file.number = 1 THEN row.rowid = StoredCell.values[4].number
    ELSE /\ Len(row.values) = Len(StoredCell.values)
         /\ \A i \in DOMAIN row.values : AsStored(row.values[i], StoredCell.values[i])
         /\ Stored.type = "leaf table" => row.rowid = StoredCell.rowid

\* "Value is a big-endian 24-bit twos-complement integer." (record_parsing.c:131; of 48
\* bits: 141): a negative number of any width is read with its sign.  The casts of
\* decode_column (row_parsing.c:36, 46) are of an unsigned number that already fits
\* their wider types, and leave it positive.
SignedAsStored ==
  HasRow /\ file.number # 1 =>
    \A i \in DOMAIN row.values :
      IsNumber(StoredCell.values[i]) => row.values[i].value = StoredCell.values[i].number

\* The records no row can be read from: a float or a blob anywhere in the record, also
\* in a column the statement does not ask for; an index entry whose first column is
\* NULL or the number 0; rowid 0; and a schema record, such as a view's, without a
\* root page in bytes of its own.
NotReadable ==
  IF file.number = 1 THEN StoredCell.values[4].bytes = <<>>
  ELSE \/ \E i \in DOMAIN StoredCell.values :
            LET v == StoredCell.values[i]
            IN  v.serial = 7 \/ (v.serial >= 12 /\ v.serial % 2 = 0)
       \/ /\ Stored.type # "leaf table"
          /\ LET v == StoredCell.values[1]
             IN  v.serial = 0 \/ (IsNumber(v) /\ v.number = 0)
       \/ Stored.type = "leaf table" /\ StoredCell.rowid = 0

\* The process ends (decode_column, read_row_from_record, read_root_page) on exactly
\* those records, and never because a header or a type was misread.
ExitsOnUnreadable ==
  pc \in {"exit", "done"} =>
    (pc = "exit" <=> Stored.type # "interior table" /\ NotReadable)

\* The b-tree is read as it was written (read_page_header, read_cell): the page's type,
\* its cell count and right-most pointer, each cell's child and key, and of a payload
\* its size and the overflow page it goes on in, exactly when it does not fit.
TreeAsStored ==
  index # 0 =>
    /\ page_header.page_type = Stored.type
    /\ Len(offsets) = Len(Stored.cells)
    /\ page_header.right_most_pointer = IF Stored.type \in Interior THEN Stored.right ELSE 0
    /\ cell.type = Stored.type
    /\ Stored.type \in Interior => cell.left_child_pointer = StoredCell.child
    /\ IF Stored.type = "interior table" THEN cell.integer_key = StoredCell.key
       ELSE LET size == Len(RecordBytes(StoredCell.values))
            IN  /\ cell.payload_info.payload_size = size
                /\ cell.payload_info.overflow_page =
                     IF OnPage(Stored.type, size) < size THEN ChainOf(index) ELSE 0
=============================================================================
