---------------------------- MODULE PayloadReader ----------------------------
(***************************************************************************)
(* read_cell_and_record (src/data_parsing/record_parsing.c): the cell is   *)
(* read from its page, then its payload is assembled from the part on that *)
(* page and from the overflow pages the part is continued on.  Every byte  *)
(* comes through the page cache, module Pager, and the cell's page is held *)
(* while the overflow pages go through the same cache.                     *)
(*                                                                         *)
(* A payload is counted in units; the unit of page p at offset o is the    *)
(* pair <<p, o>>.  A slot's bytes are those of the page that was read into *)
(* it last, so what is read through a handle is taken from pages[...].data *)
(* and not from the page the handle was asked for.                         *)
(***************************************************************************)
EXTENDS Pager

CONSTANTS
  Cells,              \* the cells of the file's b-tree pages
  Link,               \* next page number at the start of each page, 0 for none
  Chain,              \* the overflow pages of each cell's payload, in their order
  PageSize,           \* units of the buffer a slot has for its page
  OverflowCapacity,   \* payload units of one overflow page
  MaxReads,           \* bound on the number of payloads read, in checked runs
  None

Cell == [page : Pages, offset : Nat, payload_size : Nat, local_bytes : Nat,
         overflow_page : Pages \cup {0}]

CellPages == {c.page : c \in Cells}

ASSUME BoundsAssumption == PageSize \in Nat /\ OverflowCapacity \in Nat \ {0} /\ MaxReads \in Nat

\* A well-formed file: a b-tree page is on no overflow chain; a payload that
\* continues, and only such a payload, names the first page of its chain, each
\* page of the chain links the next, and the chain has room for the payload.
ASSUME CellsAssumption ==
  /\ Cells \subseteq Cell
  /\ None \notin Cells
  /\ Link \in [Pages -> (Pages \cup {0})]
  /\ Chain \in [Cells -> Seq(Pages)]
  /\ \A p \in Pages : Link[p] \notin CellPages
  /\ \A c \in Cells :
       /\ c.overflow_page \notin CellPages
       /\ c.local_bytes <= c.payload_size /\ c.offset + c.local_bytes <= PageSize
       /\ c.overflow_page = 0 <=> c.local_bytes = c.payload_size
       /\ c.overflow_page = IF Chain[c] = <<>> THEN 0 ELSE Chain[c][1]
       /\ \A i \in 1 .. Len(Chain[c]) - 1 : Link[Chain[c][i]] = Chain[c][i + 1]
       /\ c.payload_size <= c.local_bytes + Len(Chain[c]) * OverflowCapacity
  /\ \A c, d \in Cells : c.page = d.page /\ c.offset = d.offset => c = d
VARIABLES
  pc,              \* where the reading code is
  request,         \* the cell asked for, None between calls
  cell,            \* the struct Cell read_cell filled in
  buffer,          \* payload_buffer
  bytes_read,
  overflow_page,
  reads            \* payloads asked for so far

reader_vars == <<pc, request, cell, buffer, bytes_read, overflow_page, reads>>

all_vars == <<vars, reader_vars>>

ReaderInit ==
  /\ Init
  /\ pc = "idle"
  /\ request = None /\ cell = None /\ buffer = None
  /\ bytes_read = 0 /\ overflow_page = 0
  /\ reads = 0

\* A unit the copy took from beyond the cell's part of the page.
Unspecified == <<0, 0>>

\* What the bytes of page p at offset o say, read as a cell.
CellAt(p, o) ==
  IF \E c \in Cells : c.page = p /\ c.offset = o
    THEN CHOOSE c \in Cells : c.page = p /\ c.offset = o
    ELSE None

\* The page whose bytes are in the slot got last.
SeenPage == pages[LastHeld.slot].data

-----------------------------------------------------------------------------
ReadCellAndRecord(c) ==
  /\ exit = "no"
  /\ pc = "idle" /\ reads < MaxReads
  /\ request' = c
  /\ reads' = reads + 1
  /\ pc' = "read_cell"
  /\ UNCHANGED <<vars, cell, buffer, bytes_read, overflow_page>>

\* read_cell up to the return of its get_page.
GetPageOfCell ==
  /\ pc = "read_cell"
  /\ GetPage(request.page)
  /\ pc' = "parse_cell"
  /\ UNCHANGED <<request, cell, buffer, bytes_read, overflow_page, reads>>

\* The rest of read_cell: decode the cell from the slot, release the page.
ReadCell ==
  /\ pc = "parse_cell"
  /\ cell' = CellAt(SeenPage, request.offset)
  /\ Release
  /\ pc' = "get_payload"
  /\ UNCHANGED <<request, buffer, bytes_read, overflow_page, reads>>

\* read_full_payload gets the cell's page again.
GetPageOfPayload ==
  /\ pc = "get_payload"
  /\ GetPage(cell.page)
  /\ pc' = "copy_local"
  /\ UNCHANGED <<request, cell, buffer, bytes_read, overflow_page, reads>>

\* The memcpy of read_full_payload: payload_size units from the cell's page,
\* of which only local_bytes are the cell's; the rest, of this slot, of the slots
\* behind it or of what lies behind the cache, is for overflow to replace.
CopyLocal ==
  /\ exit = "no"
  /\ pc = "copy_local"
  /\ buffer' = [j \in 1 .. cell.payload_size |->
                  IF j <= cell.local_bytes THEN <<SeenPage, cell.offset + j>>
                                           ELSE Unspecified]
  /\ bytes_read' = cell.local_bytes
  /\ overflow_page' = cell.overflow_page
  /\ pc' = "overflow"
  /\ UNCHANGED <<vars, request, cell, reads>>

\* The slots' buffers are one block, and what is copied ends behind it.
PastCache ==
  LastHeld.slot * PageSize + cell.offset + cell.payload_size > cache_capacity * PageSize

\* Reading behind the block is undefined: it gives some bytes, or ends the process.
CrashInCopy ==
  /\ exit = "no"
  /\ pc = "copy_local" /\ PastCache
  /\ pc' = "crash"
  /\ UNCHANGED <<vars, request, cell, buffer, bytes_read, overflow_page, reads>>

\* Wrong: one unit is taken to be read already.
MoreToReadShort == bytes_read + 1 < cell.payload_size /\ overflow_page # 0

\* The test of read_payload_overflow's loop; it is false at once for a cell
\* without overflow, for which the loop is not called.
MoreToRead == bytes_read < cell.payload_size /\ overflow_page # 0

GetOverflowPage ==
  /\ pc = "overflow" /\ MoreToRead
  /\ GetPage(overflow_page)
  /\ pc' = "copy_overflow"
  /\ UNCHANGED <<request, cell, buffer, bytes_read, overflow_page, reads>>

\* Wrong: the last overflow page is taken to be full.
FullOverflowPage == OverflowCapacity

BytesToRead ==
  LET left == cell.payload_size - bytes_read
  IN  IF left > OverflowCapacity THEN OverflowCapacity ELSE left

\* Wrong: the loop does not advance.
AdvancedBy0(n) == bytes_read

AdvancedBy(n) == bytes_read + n

\* Wrong: the overflow page is kept.
CopyOverflowKeeping ==
  /\ exit = "no" /\ pc = "copy_overflow"
  /\ overflow_page' = Link[SeenPage]
  /\ buffer' = buffer
  /\ bytes_read' = AdvancedBy(BytesToRead)
  /\ pc' = "overflow"
  /\ UNCHANGED <<vars, request, cell, reads>>

\* The body of the loop after get_page: the next page number is read from the
\* page, its units are copied and the page is released.
CopyOverflow ==
  /\ pc = "copy_overflow"
  /\ overflow_page' = Link[SeenPage]
  /\ buffer' = [j \in DOMAIN buffer |->
                  IF j \in bytes_read + 1 .. bytes_read + BytesToRead
                    THEN <<SeenPage, j - bytes_read>>
                    ELSE buffer[j]]
  /\ bytes_read' = AdvancedBy(BytesToRead)
  /\ Release
  /\ pc' = "overflow"
  /\ UNCHANGED <<request, cell, reads>>

\* read_full_payload releases the cell's page and returns the buffer.
ReleasePageOfPayload ==
  /\ pc = "overflow" /\ ~MoreToRead
  /\ Release
  /\ pc' = "done"
  /\ UNCHANGED <<request, cell, buffer, bytes_read, overflow_page, reads>>

\* read_record has copied what it needs and frees the buffer.
FreePayloadBuffer ==
  /\ exit = "no"
  /\ pc = "done"
  /\ pc' = "idle"
  /\ request' = None /\ cell' = None /\ buffer' = None
  /\ bytes_read' = 0 /\ overflow_page' = 0
  /\ UNCHANGED <<vars, reads>>

ReaderStep ==
  \/ GetPageOfCell \/ ReadCell
  \/ GetPageOfPayload \/ CopyLocal \/ CrashInCopy
  \/ GetOverflowPage \/ CopyOverflow
  \/ ReleasePageOfPayload \/ FreePayloadBuffer

\* Nothing more to do: the process ended, or the bound on reads is reached.
Finished ==
  /\ exit # "no" \/ pc = "crash" \/ (pc = "idle" /\ reads = MaxReads)
  /\ UNCHANGED all_vars

ReaderNext == ReaderStep \/ Finished \/ \E c \in Cells : ReadCellAndRecord(c)

\* The code that reads is sequential and never waits: it keeps stepping.
ReaderSpec == ReaderInit /\ [][ReaderNext]_all_vars /\ WF_all_vars(ReaderStep)
-----------------------------------------------------------------------------
\* The payload of cell c, by the file format: its part of the cell's page, then
\* OverflowCapacity units of each page of the chain.
PayloadOf(c) ==
  [j \in 1 .. c.payload_size |->
     IF j <= c.local_bytes
       THEN <<c.page, c.offset + j>>
       ELSE LET k == j - c.local_bytes - 1
            IN  <<Chain[c][(k \div OverflowCapacity) + 1], (k % OverflowCapacity) + 1>>]

\* None stands for no buffer, and no payload is taken for it.
ASSUME NoneAssumption == \A c \in Cells : PayloadOf(c) # None

Pcs == {"idle", "read_cell", "parse_cell", "get_payload", "copy_local", "overflow",
        "copy_overflow", "done", "crash"}

ReaderTypeOK ==
  /\ TypeOK
  /\ pc \in Pcs
  /\ request \in Cells \cup {None} /\ cell \in Cells \cup {None}
  /\ overflow_page \in Pages \cup {0}
  /\ bytes_read \in Nat /\ reads \in Nat
  /\ cell # None => bytes_read <= cell.payload_size
  /\ buffer # None => DOMAIN buffer = 1 .. cell.payload_size

\* A payload handed on is the cell's, unit by unit, although the cell's page may
\* lose its slot while the overflow chain goes through the cache, and although
\* the first copy takes units that are not the cell's.
PayloadExact == pc = "done" => buffer = PayloadOf(request)

\* Between two reads no page is held and no slot is pinned: every get_page of the
\* reader has been matched by a release of the same page's slot.
IdlePinsNothing ==
  pc \in {"idle", "done"} /\ exit = "no" =>
    held = <<>> /\ \A i \in Slots : pages[i].pin_count = 0

\* The reader uses the cache as Pager assumes of its callers: calls nest, at most
\* two pages are held and they are different pages.
UsesPagerAsAssumed == Spec

Store == INSTANCE PayloadStore WITH
  Contents <- PayloadOf,
  request  <- request,
  payload  <- IF pc = "done" THEN buffer ELSE None,
  failed   <- exit # "no" \/ pc = "crash"

\* Reading through the cache implements reading from a store that has the payloads
\* ready: each read ends, with the right payload or with the end of the process.
ImplementsStore == Store!Spec
=============================================================================
