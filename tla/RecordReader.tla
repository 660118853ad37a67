----------------------------- MODULE RecordReader -----------------------------
(***************************************************************************)
(* From the bytes of a page to a printed row (src/data_parsing): the page  *)
(* header and the cell pointers, one of the cells, its payload, the header *)
(* of the record in it, the columns copied one by one into a block of the  *)
(* record's own, and their values.  How a payload reaches the buffer       *)
(* through the page cache is PayloadReader's matter; here the bytes its    *)
(* overflow chain holds are part of the file.                              *)
(*                                                                         *)
(* Page 1 holds the schema, whose records are read with their root page    *)
(* and are not decoded further here.                                       *)
(***************************************************************************)
EXTENDS Bytes

CONSTANTS
  Files,               \* the pages read: [number, data, overflow, stored]
  DatabaseHeaderSize,  \* DATABASE_HEADER_SIZE, in front of page 1
  UsableSize           \* page_size - reserved_space

VARIABLES
  file,          \* chosen initially
  pc,            \* the step the reading code is at, or "exit" or "done"
  page_header,
  offsets,       \* the cell pointer array
  index,         \* the cell read, by its place in the array
  cell,
  payload,       \* payload_buffer
  header,        \* record_header
  bytes_read,
  body,          \* record_body: the block and the column pointers into it
  row            \* the values decoded and the rowid, or the schema's root page

reader_vars == <<file, pc, page_header, offsets, index, cell, payload, header, bytes_read, body, row>>

ReaderInit ==
  /\ file \in Files
  /\ pc = "page_header"
  /\ page_header = [page_type |-> "invalid", number_of_cells |-> 0, right_most_pointer |-> 0,
                    start_of_cell_pointer_array |-> 0]
  /\ offsets = <<>> /\ index = 0
  /\ cell = [type |-> "none"]
  /\ payload = <<>> /\ bytes_read = 0
  /\ header = [header_size |-> 0, columns |-> <<>>]
  /\ body = [data_block |-> <<>>, column_pointers |-> <<>>]
  /\ row = [values |-> <<>>, rowid |-> 0]

-----------------------------------------------------------------------------
PageType(byte) ==
  CASE byte = 2 -> "interior index" [] byte = 5 -> "interior table"
    [] byte = 10 -> "leaf index"    [] byte = 13 -> "leaf table"
    [] OTHER -> "invalid"

Interior == {"interior index", "interior table"}

HeaderSize(type) == IF type \in Interior THEN 12 ELSE 8

ReadPageHeader ==
  /\ pc = "page_header"
  /\ LET start == IF file.number = 1 THEN DatabaseHeaderSize ELSE 0
         type  == PageType(At(file.data, start))
     IN  page_header' =
           [page_type |-> type,
            number_of_cells |-> BigEndian(file.data, start + 3, 2),
            right_most_pointer |-> IF type \in Interior
                                     THEN BigEndian(file.data, start + 8, 4) ELSE 0,
            start_of_cell_pointer_array |-> start + HeaderSize(type)]
  /\ pc' = "pointers"
  /\ UNCHANGED <<file, offsets, index, cell, payload, header, bytes_read, body, row>>

ReadCellPointerArray ==
  /\ pc = "pointers"
  /\ offsets' = [i \in 1 .. page_header.number_of_cells |->
                   BigEndian(file.data,
                             page_header.start_of_cell_pointer_array + (i - 1) * 2, 2)]
  /\ pc' = "cell"
  /\ UNCHANGED <<file, page_header, index, cell, payload, header, bytes_read, body, row>>

-----------------------------------------------------------------------------
MinLocal == ((UsableSize - 12) * 32) \div 255 - 23

MaxLocal(type) ==
  IF type = "leaf table" THEN UsableSize - 35
                         ELSE ((UsableSize - 12) * 64) \div 255 - 23

\* Wrong: what does not fit an overflow page exactly is kept, however much it is.
LocalBytesUncapped(type, size) ==
  IF size <= MaxLocal(type) THEN size
                            ELSE MinLocal + ((size - MinLocal) % (UsableSize - 4))

LocalBytes(type, size) ==
  LET k == MinLocal + ((size - MinLocal) % (UsableSize - 4))
  IN  IF size <= MaxLocal(type) THEN size
      ELSE IF k > MaxLocal(type) THEN MinLocal ELSE k

\* payload_info, for a payload of a size whose first byte is at a place in the page.
PayloadInfo(type, size, place) ==
  LET local == LocalBytes(type, size)
  IN  [payload_size |-> size, payload_offset |-> place, local_bytes |-> local,
       overflow_page |-> IF local < size THEN BigEndian(file.data, place + local, 4) ELSE 0]

TableLeafCell(o) ==
  LET size  == Varint(file.data, o)
      rowid == Varint(file.data, size.next)
  IN  [type |-> "leaf table", row_id |-> rowid.value,
       payload_info |-> PayloadInfo("leaf table", size.value, rowid.next)]

TableInteriorCell(o) ==
  [type |-> "interior table", left_child_pointer |-> BigEndian(file.data, o, 4),
   integer_key |-> Varint(file.data, o + 4).value]

IndexLeafCell(o) ==
  LET size == Varint(file.data, o)
  IN  [type |-> "leaf index", payload_info |-> PayloadInfo("leaf index", size.value, size.next)]

IndexInteriorCell(o) ==
  LET size == Varint(file.data, o + 4)
  IN  [type |-> "interior index", left_child_pointer |-> BigEndian(file.data, o, 4),
       payload_info |-> PayloadInfo("interior index", size.value, size.next)]

CellAt(o) ==
  CASE page_header.page_type = "leaf table"     -> TableLeafCell(o)
    [] page_header.page_type = "interior table" -> TableInteriorCell(o)
    [] page_header.page_type = "leaf index"     -> IndexLeafCell(o)
    [] page_header.page_type = "interior index" -> IndexInteriorCell(o)

\* The walker looks at a cell it is interested in; of an interior table cell it
\* uses the key and the child only.
ReadCell ==
  /\ pc = "cell"
  /\ \E i \in DOMAIN offsets :
       /\ index' = i
       /\ cell' = IF page_header.page_type = "invalid" THEN cell ELSE CellAt(offsets[i])
  /\ pc' = CASE page_header.page_type = "invalid"        -> "exit"
             [] page_header.page_type = "interior table" -> "done"
             [] OTHER                                    -> "payload"
  /\ UNCHANGED <<file, page_header, offsets, payload, header, bytes_read, body, row>>

-----------------------------------------------------------------------------
\* The part of the payload on the page, and behind it what the chain holds.
ReadFullPayload ==
  /\ pc = "payload"
  /\ LET info == cell.payload_info
     IN  payload' = Bytes(file.data, info.payload_offset, info.local_bytes)
                      \o IF info.overflow_page = 0 THEN <<>> ELSE file.overflow[info.overflow_page]
  /\ pc' = "header"
  /\ UNCHANGED <<file, page_header, offsets, index, cell, header, bytes_read, body, row>>

ReadHeaderSize ==
  /\ pc = "header"
  /\ LET size == Varint(payload, 0)
     IN  /\ header' = [header EXCEPT !.header_size = size.value]
         /\ bytes_read' = size.next
  /\ pc' = "types"
  /\ UNCHANGED <<file, page_header, offsets, index, cell, payload, body, row>>

\* content_size of serial_type_to_content_type.
ContentSize(serial_type) ==
  CASE serial_type \in {0, 8, 9} -> 0
    [] serial_type \in 1 .. 4    -> serial_type
    [] serial_type = 5           -> 6
    [] serial_type \in {6, 7}    -> 8
    [] serial_type > 9 /\ serial_type % 2 = 0 -> (serial_type - 12) \div 2
    [] serial_type > 9 /\ serial_type % 2 = 1 -> (serial_type - 13) \div 2

\* The types reserved for SQLite's own use, on which the process exits.
ReservedTypes == {10, 11}

ReadSerialType ==
  /\ pc = "types" /\ bytes_read < header.header_size
  /\ LET type == Varint(payload, bytes_read)
     IN  /\ bytes_read' = type.next
         /\ IF type.value \in ReservedTypes
              THEN pc' = "exit" /\ UNCHANGED header
              ELSE pc' = pc /\ header' = [header EXCEPT !.columns = Append(@, type.value)]
  /\ UNCHANGED <<file, page_header, offsets, index, cell, payload, body, row>>

\* All types read, which must have taken exactly the header.
EndRecordHeader ==
  /\ pc = "types" /\ bytes_read >= header.header_size
  /\ pc' = IF bytes_read = header.header_size THEN "body" ELSE "exit"
  /\ UNCHANGED <<file, page_header, offsets, index, cell, payload, header, bytes_read, body, row>>

\* One turn of read_record_body: a column goes from the payload, where bytes_read
\* is now the place data points to, to the block, with a NUL byte behind it.
CopyColumn ==
  /\ pc = "body" /\ Len(body.column_pointers) < Len(header.columns)
  /\ LET size == ContentSize(header.columns[Len(body.column_pointers) + 1])
     IN  /\ body' = [data_block |-> body.data_block \o Bytes(payload, bytes_read, size) \o <<0>>,
                     column_pointers |-> Append(body.column_pointers, Len(body.data_block))]
         /\ bytes_read' = bytes_read + size
  /\ UNCHANGED <<file, pc, page_header, offsets, index, cell, payload, header, row>>

EndRecordBody ==
  /\ pc = "body" /\ Len(body.column_pointers) = Len(header.columns)
  /\ pc' = IF file.number = 1 THEN "schema" ELSE "decode"
  /\ UNCHANGED <<file, page_header, offsets, index, cell, payload, header, bytes_read, body, row>>

-----------------------------------------------------------------------------
\* read_root_page, which is given the size of the column where it names a serial type.
RootPage(place, size) ==
  CASE size = 1       -> Signed(BigEndian(body.data_block, place, 1), 1)
    [] size \in 2 .. 4 -> BigEndian(body.data_block, place, size)
    [] size = 5       -> BigEndian(body.data_block, place, 6)
    [] size = 6       -> BigEndian(body.data_block, place, 8)
    [] OTHER          -> size - 8

RootPageSizes == 1 .. 6 \cup {8, 9}

\* interpret_record_as_schema_record.
InterpretAsSchema ==
  /\ pc = "schema"
  /\ LET size == ContentSize(header.columns[4])
     IN  IF Len(header.columns) # 5 \/ size \notin RootPageSizes
           THEN pc' = "exit" /\ UNCHANGED row
           ELSE /\ pc' = "done"
                /\ row' = [row EXCEPT !.rowid = RootPage(body.column_pointers[4], size)]
  /\ UNCHANGED <<file, page_header, offsets, index, cell, payload, header, bytes_read, body>>

-----------------------------------------------------------------------------
\* Wrong: 16-bit integers are widened without their sign, as the wider ones are.
IntegerUnsigned(serial_type, place) ==
  LET n == ContentSize(serial_type)
      value == BigEndian(body.data_block, place, n)
  IN  IF serial_type \in {2, 3, 5} THEN value ELSE Signed(value, n)

\* The casts of decode_column: there is no type of 24 or of 48 bits to cast to.
Integer(serial_type, place) ==
  LET n == ContentSize(serial_type)
      value == BigEndian(body.data_block, place, n)
  IN  IF serial_type \in {3, 5} THEN value ELSE Signed(value, n)

Decoded(serial_type, place) ==
  CASE serial_type = 0       -> [type |-> "null"]
    [] serial_type \in {8, 9} -> [type |-> "int", value |-> serial_type - 8]
    [] serial_type \in 1 .. 6 -> [type |-> "int", value |-> Integer(serial_type, place)]
    [] OTHER -> [type |-> "text", start |-> place, len |-> ContentSize(serial_type)]

\* Wrong: a float is decoded as text would be.
DecodesAllButBlobs(serial_type) == serial_type < 12 \/ serial_type % 2 = 1

\* The types decode_column has a case for: no floats, no blobs.
Decodes(serial_type) == serial_type # 7 /\ (serial_type < 12 \/ serial_type % 2 = 1)

DecodeColumn ==
  /\ pc = "decode" /\ Len(row.values) < Len(header.columns)
  /\ LET i == Len(row.values) + 1
     IN  IF Decodes(header.columns[i])
           THEN /\ row' = [row EXCEPT !.values =
                             Append(@, Decoded(header.columns[i], body.column_pointers[i]))]
                /\ UNCHANGED pc
           ELSE pc' = "exit" /\ UNCHANGED row
  /\ UNCHANGED <<file, page_header, offsets, index, cell, payload, header, bytes_read, body>>

\* A value read as an integer, whatever it is: NULL reads as 0, a text as the
\* address of its bytes, which is not 0.
AsInteger(value) ==
  CASE value.type = "int"  -> value.value
    [] value.type = "null" -> 0
    [] value.type = "text" -> value.start + 1

TakeRowid ==
  /\ pc = "decode" /\ Len(row.values) = Len(header.columns)
  /\ LET rowid == IF cell.type = "leaf table" THEN cell.row_id ELSE AsInteger(row.values[1])
     IN  /\ row' = [row EXCEPT !.rowid = rowid]
         /\ pc' = IF rowid = 0 THEN "exit" ELSE "done"
  /\ UNCHANGED <<file, page_header, offsets, index, cell, payload, header, bytes_read, body>>

Step ==
  \/ ReadPageHeader \/ ReadCellPointerArray \/ ReadCell
  \/ ReadFullPayload \/ ReadHeaderSize \/ ReadSerialType \/ EndRecordHeader
  \/ CopyColumn \/ EndRecordBody \/ InterpretAsSchema
  \/ DecodeColumn \/ TakeRowid

Ended == pc \in {"done", "exit"} /\ UNCHANGED reader_vars

ReaderNext == Step \/ Ended

ReaderSpec == ReaderInit /\ [][ReaderNext]_reader_vars

-----------------------------------------------------------------------------
\* What print_value prints of a value: %zu of an integer, which is its unsigned
\* reading, and at most len bytes of a text, up to the first that is 0.
Printed(value) ==
  CASE value.type = "null" -> "NULL"
    [] value.type = "int"  -> value.value % 2^(8 * ByteBits)
    [] value.type = "text" ->
         LET bytes == Bytes(body.data_block, value.start, value.len)
             nul == SelectInSeq(bytes, LAMBDA b : b = 0)
         IN  IF nul = 0 THEN bytes ELSE SubSeq(bytes, 1, nul - 1)
=============================================================================
