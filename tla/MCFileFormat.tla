----------------------------- MODULE MCFileFormat -----------------------------
(***************************************************************************)
(* Pages for RecordReader, with bytes of three bits: rows of one or two    *)
(* values of every serial type at and around its limits, texts that make a *)
(* payload of up to, exactly and just over what fits, schema records, and  *)
(* interior pages.                                                         *)
(***************************************************************************)
EXTENDS FileFormat

Number(number, n, serial) == [serial |-> serial, bytes |-> AsBytes(number, n), number |-> number]

Constant(serial) == [serial |-> serial, bytes |-> <<>>, number |-> serial - 8]

Text(bytes) == [serial |-> 13 + 2 * Len(bytes), bytes |-> bytes]

Values ==
  {[serial |-> 0, bytes |-> <<>>], Constant(8), Constant(9),
   [serial |-> 7, bytes |-> AsBytes(5, 8)], [serial |-> 14, bytes |-> <<6>>],
   [serial |-> 12, bytes |-> <<>>]}
  \cup {Number(i, 1, 1) : i \in {-4, -1, 0, 3}}
  \cup {Number(i, 2, 2) : i \in {-32, -5, 4, 31}}
  \cup {Number(i, 3, 3) : i \in {-33, 32, 255}}
  \cup {Number(i, 4, 4) : i \in {-257, 256}}
  \cup {Number(i, 6, 5) : i \in {-2049, 2048}}
  \cup {Number(i, 8, 6) : i \in {-131073, 131072}}
  \cup {Text(<<>>), Text(<<5>>), Text(<<1, 0, 2>>), Text(<<7, 7, 7, 7>>)}

Rows == UNION {[1 .. n -> Values] : n \in 1 .. 2}

\* Texts whose records are near the limits: 94 and 445 bytes fit an index's and a
\* table's page, and 540 leave more than the minimum there.
LongText(n) == Text([i \in 1 .. n |-> (i % 7) + 1])

LongRows == {<<LongText(n)>> : n \in 86 .. 92 \cup 436 .. 442 \cup {540, 569}}
              \cup {<<Text(<<1>>), LongText(n), Number(-5, 2, 2)>> : n \in {300, 500}}

Rowids == {0, 1, 3, 4, 70000, 2^19 - 1}

Small == <<Text(<<4>>)>>

StoredPage(type, first, second) == [type |-> type, right |-> 1000, cells |-> <<first, second>>]

TablePages ==
  {StoredPage("leaf table", [rowid |-> 5, values |-> r], [rowid |-> 6, values |-> Small]) :
     r \in Rows \cup LongRows}
  \cup {StoredPage("leaf table", [rowid |-> i, values |-> Small], [rowid |-> 6, values |-> Small]) :
          i \in Rowids}

IndexPages ==
  {StoredPage("leaf index", [values |-> r], [values |-> Small]) : r \in LongRows \cup [1 .. 1 -> Values]}
  \cup {StoredPage("interior index", [child |-> 700, values |-> r], [child |-> 9, values |-> Small]) :
          r \in LongRows \cup {<<v, Number(3, 1, 1)>> : v \in Values}}

InteriorPages ==
  {StoredPage("interior table", [child |-> 2, key |-> i], [child |-> 4000, key |-> i + 1]) :
     i \in {1, 3, 255, 70000}}

SchemaRecord(root) == <<Text(<<1>>), Text(<<2>>), Text(<<2, 3>>), root, Text(<<5, 5>>)>>

SchemaPages ==
  {StoredPage("leaf table", [rowid |-> 1, values |-> SchemaRecord(root)],
                      [rowid |-> 2, values |-> SchemaRecord(Number(2, 1, 1))]) :
     root \in {Number(2, 1, 1), Number(5, 2, 2), Number(200, 3, 3), Number(1500, 4, 4),
               [serial |-> 0, bytes |-> <<>>], Constant(8)}}

MCFiles ==
  {Written(2, p) : p \in TablePages \cup IndexPages \cup InteriorPages}
    \cup {Written(1, p) : p \in SchemaPages}
=============================================================================
