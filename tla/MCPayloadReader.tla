--------------------------- MODULE MCPayloadReader ---------------------------
(***************************************************************************)
(* A small instance of PayloadReader: a cache of two slots, and cells with *)
(* no overflow, a chain of three pages (longer than the cache, so that the *)
(* held page loses its slot), a chain that is exactly full and one the     *)
(* file does not hold.                                                     *)
(***************************************************************************)
EXTENDS PayloadReader

MCPages    == 1 .. 7
MCReadable == 1 .. 6
MCLink     == <<0, 3, 4, 0, 0, 0, 0>>

MCCells ==
  { [page |-> 1, offset |-> 0, payload_size |-> 1, local_bytes |-> 1, overflow_page |-> 0],
    [page |-> 1, offset |-> 1, payload_size |-> 6, local_bytes |-> 1, overflow_page |-> 2],
    [page |-> 5, offset |-> 0, payload_size |-> 2, local_bytes |-> 2, overflow_page |-> 0],
    [page |-> 5, offset |-> 2, payload_size |-> 3, local_bytes |-> 1, overflow_page |-> 6],
    [page |-> 5, offset |-> 3, payload_size |-> 2, local_bytes |-> 0, overflow_page |-> 7] }

\* The cells' chains, from their first overflow pages.
MCChain ==
  [c \in MCCells |-> CASE c.overflow_page = 0 -> <<>>
                       [] c.overflow_page = 2 -> <<2, 3, 4>>
                       [] c.overflow_page = 6 -> <<6>>
                       [] c.overflow_page = 7 -> <<7>>]
=============================================================================
