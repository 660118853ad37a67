-------------------------------- MODULE Bytes --------------------------------
(***************************************************************************)
(* Numbers in a file (src/data_parsing/byte_reader.c).  A byte has         *)
(* ByteBits bits, 8 in the code: with fewer, every width is smaller in the *)
(* same proportion, and what separates the widths stays as it is.          *)
(***************************************************************************)
EXTENDS Integers, Sequences, SequencesExt

CONSTANT ByteBits

ASSUME ByteBitsAssumption == ByteBits \in Nat /\ ByteBits >= 2

\* The byte at an offset counted from 0, as the code counts.
At(data, offset) == data[offset + 1]

Bytes(data, offset, n) == SubSeq(data, offset + 1, offset + n)

\* read_big_endian of n bytes.
BigEndian(data, offset, n) ==
  FoldLeft(LAMBDA value, byte : value * 2^ByteBits + byte, 0, Bytes(data, offset, n))

\* A cast of n bytes to the signed type of that width.
Signed(value, n) ==
  IF value < 2^(n * ByteBits - 1) THEN value ELSE value - 2^(n * ByteBits)

\* The high bit of a byte: in the first eight of a varint, that more bytes follow.
MoreFollows == 2^(ByteBits - 1)

\* read_varint from an offset: its value, and where reading goes on.
Varint(data, offset) ==
  LET read[i \in 0 .. 8, value \in Nat] ==
        LET byte == At(data, offset + i)
        IN  IF i = 8
              THEN [value |-> value * 2^ByteBits + byte, next |-> offset + 9]
            ELSE IF byte < MoreFollows
              THEN [value |-> value * MoreFollows + byte, next |-> offset + i + 1]
            ELSE read[i + 1, value * MoreFollows + byte - MoreFollows]
  IN  read[0, 0]
=============================================================================
