-------------------------- MODULE PayloadReaderProofs --------------------------
(***************************************************************************)
(* Theorems about PayloadReader, for every well-formed file and every      *)
(* cache pager_open can choose.  The reader is first shown to be one of    *)
(* the callers Pager allows, so that what PagerProofs proves holds of it.  *)
(***************************************************************************)
EXTENDS PayloadReader, PagerProofs

\* What is held at each point of the reading code, and which page was got last.
\* (A get_page that ends the process leaves pc where it would have gone.)
HeldAtPc ==
  exit = "no" =>
    /\ pc \in {"idle", "read_cell", "get_payload", "done"} => held = <<>>
    /\ pc \in {"parse_cell", "copy_local", "overflow"} =>
         Len(held) = 1 /\ held[1].page = request.page
    /\ pc \in {"parse_cell", "copy_local"} => asked[request.page] = clock
    /\ pc = "copy_overflow" =>
         /\ Len(held) = 2 /\ held[1].page = request.page
         /\ held[2].page = overflow_page
         /\ overflow_page # 0 /\ asked[overflow_page] = clock

\* The cell decoded is the one asked for, and no overflow page is a cell's page.
CellAtPc ==
  /\ pc \in Pcs
  /\ pc # "idle" => request \in Cells
  /\ pc \in {"get_payload", "copy_local", "overflow", "copy_overflow", "done"} => cell = request
  /\ overflow_page \in (Pages \cup {0}) \ CellPages

RInv == IInv /\ HeldAtPc /\ CellAtPc
-----------------------------------------------------------------------------
LEMMA CellTypes ==
  ASSUME NEW c \in Cells
  PROVE  /\ c.page \in Pages /\ c.page \in CellPages
         /\ c.overflow_page \in (Pages \cup {0}) \ CellPages
         /\ CellAt(c.page, c.offset) = c
<1>1. c \in Cell
  BY CellsAssumption
<1>2. CellAt(c.page, c.offset) = c
  BY CellsAssumption DEF CellAt
<1> QED
  BY <1>1, <1>2, CellsAssumption DEF Cell, CellPages

LEMMA ZeroIsNoCellPage == 0 \notin CellPages
  BY CellTypes, PagesAssumption DEF CellPages

\* A step of the cache that hands out p while the handles below it are for other
\* pages is a step of Pager's caller.
LEMMA GetIsCall ==
  ASSUME NEW p \in Pages, GetPage(p), Len(held) < MaxHeld,
         \A k \in DOMAIN held : held[k].page # p
  PROVE  Next
  BY DEF CallerGets, Next

\* What get_page leaves when it returns.
LEMMA GetHolds ==
  ASSUME TypeOK, NEW p \in Pages, GetPage(p), Len(held) < MaxHeld, exit' = "no"
  PROVE  /\ Len(held') = Len(held) + 1
         /\ held'[Len(held')].page = p
         /\ \A k \in DOMAIN held : held'[k] = held[k]
         /\ asked'[p] = clock'
<1>1. \E i \in Slots, b \in BOOLEAN : HandOut(i, p, b) /\ clock' = clock + 1
  <2>1. CASE Hit(p)
    BY <2>1 DEF Hit, Caching
  <2>2. CASE Miss(p)
    <3>1. \E i \in Suitable : HandOut(i, p, TRUE) /\ clock' = clock + 1
      BY <2>2 DEF Miss
    <3> QED
      BY <3>1 DEF Suitable, Free, Evictable
  <2> QED
    BY <2>1, <2>2 DEF GetPage
<1>2. PICK i \in Slots, b \in BOOLEAN : HandOut(i, p, b) /\ clock' = clock + 1
  BY <1>1
<1>3. /\ Len(held') = Len(held) + 1
      /\ held'[Len(held')] = [slot |-> i, page |-> p, loaded |-> b]
      /\ \A k \in DOMAIN held : held'[k] = held[k]
      /\ asked'[p] = clock + 1
  BY <1>2, HandOutHeld
<1> QED
  BY <1>2, <1>3

LEMMA ReleaseHolds ==
  ASSUME TypeOK, Release
  PROVE  /\ held # <<>> /\ exit = "no" /\ exit' = "no"
         /\ Len(held') = Len(held) - 1
         /\ \A k \in 1 .. Len(held) - 1 : held'[k] = held[k]
         /\ UNCHANGED <<clock, asked>>
<1>1. held \in Seq(Handle) /\ held # <<>> /\ held' = SubSeq(held, 1, Len(held) - 1)
  BY DEF Release, TypeOK
<1>2. Len(held) \in Nat \ {0}
  BY <1>1, EmptySeq
<1>3. Len(held') = Len(held) - 1 /\ \A k \in 1 .. Len(held) - 1 : held'[k] = held[k]
  <2> DEFINE n == Len(held) - 1
  <2>1. n \in Nat /\ \A k \in 1 .. n : held[k] \in Handle
    BY <1>1, <1>2
  <2>2. held' = SubSeq(held, 1, n)
    BY <1>1
  <2> HIDE DEF n
  <2>3. /\ Len(SubSeq(held, 1, n)) = IF 1 <= n THEN n - 1 + 1 ELSE 0
        /\ \A k \in 1 .. n - 1 + 1 : SubSeq(held, 1, n)[k] = held[1 + k - 1]
    BY <2>1, SubSeqProperties
  <2>4. Len(held') = n /\ \A k \in 1 .. n : held'[k] = held[k]
    BY <2>1, <2>2, <2>3
  <2> QED
    BY <2>4 DEF n
<1> QED
  BY <1>1, <1>3 DEF Release
-----------------------------------------------------------------------------
\* Each step of the reader is a step of the cache's most general caller, or
\* leaves the cache alone.
LEMMA ReaderStepsPager == RInv /\ [ReaderNext]_all_vars => [Next]_vars
<1> SUFFICES ASSUME RInv, [ReaderNext]_all_vars PROVE [Next]_vars
  OBVIOUS
<1> USE DEF RInv
<1>1. CASE GetPageOfCell
  <2>1. request.page \in Pages /\ exit = "no" /\ held = <<>>
    BY <1>1, CellTypes DEF GetPageOfCell, GetPage, HeldAtPc, CellAtPc
  <2> QED
    BY <1>1, <2>1, GetIsCall DEF GetPageOfCell, MaxHeld
<1>2. CASE ReadCell
  BY <1>2 DEF ReadCell, Next
<1>3. CASE GetPageOfPayload
  <2>1. cell.page \in Pages /\ exit = "no" /\ held = <<>>
    BY <1>3, CellTypes DEF GetPageOfPayload, GetPage, HeldAtPc, CellAtPc
  <2> QED
    BY <1>3, <2>1, GetIsCall DEF GetPageOfPayload, MaxHeld
<1>4. CASE GetOverflowPage
  <2>1. overflow_page \in Pages \ CellPages
    BY <1>4 DEF GetOverflowPage, MoreToRead, CellAtPc
  <2>2. Len(held) = 1 /\ held[1].page = request.page /\ request.page \in CellPages
    BY <1>4, CellTypes DEF GetOverflowPage, GetPage, HeldAtPc, CellAtPc
  <2>3. \A k \in DOMAIN held : held[k].page # overflow_page
    <3>1. held \in Seq(Handle)
      BY DEF IInv, TypeOK
    <3>2. \A k \in DOMAIN held : k = 1
      BY <2>2, <3>1
    <3> QED
      BY <2>1, <2>2, <3>2
  <2> QED
    BY <1>4, <2>1, <2>2, <2>3, GetIsCall DEF GetOverflowPage, MaxHeld
<1>5. CASE CopyOverflow \/ ReleasePageOfPayload
  BY <1>5 DEF CopyOverflow, ReleasePageOfPayload, Next
<1>6. CASE CopyLocal \/ CrashInCopy \/ FreePayloadBuffer \/ Finished
           \/ \E c \in Cells : ReadCellAndRecord(c)
  BY <1>6 DEF CopyLocal, CrashInCopy, FreePayloadBuffer, Finished, ReadCellAndRecord, all_vars
<1>7. CASE UNCHANGED all_vars
  BY <1>7 DEF all_vars
<1> QED
  BY <1>1, <1>2, <1>3, <1>4, <1>5, <1>6, <1>7 DEF ReaderNext, ReaderStep

\* Whoever got a page last sees that page's bytes.
LEMMA LatestIsSeen ==
  ASSUME IInv, exit = "no", NEW n \in 1 .. 2, Len(held) = n, asked[held[n].page] = clock
  PROVE  SeenPage = held[n].page
<1>1. held # <<>> /\ LastHeld = held[n]
  BY EmptySeq DEF LastHeld
<1> QED
  BY <1>1 DEF SeenPage, IInv, LatestGetCurrent

LEMMA InitRInv == ReaderInit => RInv
<1> SUFFICES ASSUME ReaderInit PROVE RInv
  OBVIOUS
<1>1. IInv
  BY InitIInv DEF ReaderInit
<1>2. HeldAtPc /\ CellAtPc
  BY ZeroIsNoCellPage DEF ReaderInit, Init, HeldAtPc, CellAtPc, Pcs
<1> QED
  BY <1>1, <1>2 DEF RInv

\* What the reader must establish at every step, beyond the cache's invariant.
LEMMA ReaderStepKeepsPlace ==
  RInv /\ [ReaderNext]_all_vars => HeldAtPc' /\ CellAtPc'
<1> SUFFICES ASSUME RInv, [ReaderNext]_all_vars PROVE HeldAtPc' /\ CellAtPc'
  OBVIOUS
<1> USE DEF RInv
<1>t. TypeOK
  BY DEF IInv
<1>1. ASSUME NEW c \in Cells, ReadCellAndRecord(c) PROVE HeldAtPc' /\ CellAtPc'
  BY <1>1 DEF ReadCellAndRecord, HeldAtPc, CellAtPc, vars, Pcs
<1>2. CASE GetPageOfCell
  <2>1. /\ request.page \in Pages /\ exit = "no" /\ held = <<>> /\ request \in Cells
        /\ Len(held) = 0
    BY <1>2, CellTypes DEF GetPageOfCell, GetPage, HeldAtPc, CellAtPc
  <2>2. HeldAtPc'
    <3>1. SUFFICES ASSUME exit' = "no" PROVE HeldAtPc'
      BY DEF HeldAtPc
    <3>2. Len(held') = 1 /\ held'[1].page = request.page /\ asked'[request.page] = clock'
      BY <1>2, <1>t, <2>1, <3>1, GetHolds DEF GetPageOfCell, MaxHeld
    <3> QED
      BY <1>2, <3>2 DEF GetPageOfCell, HeldAtPc
  <2> QED
    BY <1>2, <2>1, <2>2 DEF GetPageOfCell, CellAtPc, Pcs
<1>3. CASE ReadCell
  <2>1. /\ exit = "no" /\ Len(held) = 1 /\ held[1].page = request.page
        /\ asked[request.page] = clock /\ request \in Cells
    BY <1>3 DEF ReadCell, Release, HeldAtPc, CellAtPc
  <2>2. SeenPage = request.page
    <3>1. asked[held[1].page] = clock
      BY <2>1
    <3> QED
      BY <2>1, <3>1, LatestIsSeen
  <2>3. cell' = request
    BY <1>3, <2>1, <2>2, CellTypes DEF ReadCell
  <2>4. held' = <<>>
    <3>1. Release
      BY <1>3 DEF ReadCell
    <3>2. Len(held') = 0 /\ held' = SubSeq(held, 1, Len(held) - 1)
      BY <1>t, <2>1, <3>1, ReleaseHolds DEF Release
    <3> QED
      BY <2>1, <3>2
  <2> QED
    BY <1>3, <2>1, <2>3, <2>4 DEF ReadCell, HeldAtPc, CellAtPc, Pcs
<1>4. CASE GetPageOfPayload
  <2>1. /\ cell = request /\ request.page \in Pages /\ exit = "no" /\ held = <<>>
        /\ request \in Cells /\ Len(held) = 0
    BY <1>4, CellTypes DEF GetPageOfPayload, GetPage, HeldAtPc, CellAtPc
  <2>2. HeldAtPc'
    <3>1. SUFFICES ASSUME exit' = "no" PROVE HeldAtPc'
      BY DEF HeldAtPc
    <3>2. Len(held') = 1 /\ held'[1].page = request.page /\ asked'[request.page] = clock'
      BY <1>4, <1>t, <2>1, <3>1, GetHolds DEF GetPageOfPayload, MaxHeld
    <3> QED
      BY <1>4, <3>2 DEF GetPageOfPayload, HeldAtPc
  <2> QED
    BY <1>4, <2>1, <2>2 DEF GetPageOfPayload, CellAtPc, Pcs
<1>5. CASE CopyLocal
  <2>1. request \in Cells /\ cell = request
    BY <1>5 DEF CopyLocal, CellAtPc
  <2>2. cell.overflow_page \in (Pages \cup {0}) \ CellPages
    BY <2>1, CellTypes
  <2> QED
    BY <1>5, <2>1, <2>2 DEF CopyLocal, HeldAtPc, CellAtPc, Pcs, vars
<1>6. CASE GetOverflowPage
  <2>1. /\ overflow_page \in Pages /\ overflow_page # 0 /\ exit = "no" /\ request \in Cells
        /\ Len(held) = 1 /\ held[1].page = request.page
    BY <1>6 DEF GetOverflowPage, MoreToRead, GetPage, HeldAtPc, CellAtPc
  <2>2. HeldAtPc'
    <3>1. SUFFICES ASSUME exit' = "no" PROVE HeldAtPc'
      BY DEF HeldAtPc
    <3>2. /\ Len(held') = 2 /\ held'[2].page = overflow_page
          /\ asked'[overflow_page] = clock' /\ \A k \in DOMAIN held : held'[k] = held[k]
      BY <1>6, <1>t, <2>1, <3>1, GetHolds DEF GetOverflowPage, MaxHeld
    <3>3. 1 \in DOMAIN held
      <4>1. held \in Seq(Handle)
        BY <1>t DEF TypeOK
      <4> QED
        BY <4>1, <2>1
    <3> QED
      BY <1>6, <2>1, <3>2, <3>3 DEF GetOverflowPage, HeldAtPc
  <2> QED
    BY <1>6, <2>1, <2>2 DEF GetOverflowPage, CellAtPc, Pcs
<1>7. CASE CopyOverflow
  <2>1. /\ exit = "no" /\ Len(held) = 2 /\ held[1].page = request.page
        /\ held[2].page = overflow_page /\ asked[overflow_page] = clock
        /\ overflow_page \in Pages /\ request \in Cells /\ cell = request
    BY <1>7 DEF CopyOverflow, Release, HeldAtPc, CellAtPc
  <2>2. SeenPage = overflow_page
    <3>1. asked[held[2].page] = clock
      BY <2>1
    <3>2. SeenPage = held[2].page
      BY <2>1, <3>1, LatestIsSeen
    <3> QED
      BY <2>1, <3>2
  <2>3. overflow_page' \in (Pages \cup {0}) \ CellPages
    BY <1>7, <2>1, <2>2, CellsAssumption DEF CopyOverflow
  <2>4. Len(held') = 1 /\ held'[1] = held[1]
    BY <1>7, <1>t, <2>1, ReleaseHolds DEF CopyOverflow
  <2> QED
    BY <1>7, <2>1, <2>3, <2>4 DEF CopyOverflow, HeldAtPc, CellAtPc, Pcs
<1>8. CASE ReleasePageOfPayload
  <2>1. exit = "no" /\ Len(held) = 1 /\ request \in Cells /\ cell = request
    BY <1>8 DEF ReleasePageOfPayload, Release, HeldAtPc, CellAtPc
  <2>2. held' = <<>>
    BY <1>8, <2>1 DEF ReleasePageOfPayload, Release
  <2> QED
    BY <1>8, <2>1, <2>2 DEF ReleasePageOfPayload, HeldAtPc, CellAtPc, Pcs
<1>9. CASE FreePayloadBuffer
  BY <1>9, ZeroIsNoCellPage DEF FreePayloadBuffer, HeldAtPc, CellAtPc, vars, Pcs
<1>10. CASE CrashInCopy \/ Finished \/ UNCHANGED all_vars
  BY <1>10 DEF CrashInCopy, Pcs, Finished, all_vars, reader_vars, vars, HeldAtPc, CellAtPc
<1> QED
  BY <1>1, <1>2, <1>3, <1>4, <1>5, <1>6, <1>7, <1>8, <1>9, <1>10
     DEF ReaderNext, ReaderStep

LEMMA ReaderStepKeepsRInv == RInv /\ [ReaderNext]_all_vars => RInv'
<1>1. RInv /\ [ReaderNext]_all_vars => IInv'
  BY ReaderStepsPager, StepKeepsIInv DEF RInv
<1> QED
  BY <1>1, ReaderStepKeepsPlace DEF RInv
-----------------------------------------------------------------------------
\* The cache's invariant and the reader's place in its calls hold throughout.
THEOREM ReaderInvariant == ReaderSpec => []RInv
<1> QED
  BY InitRInv, ReaderStepKeepsRInv, PTL DEF ReaderSpec

\* read_cell_and_record is one of the callers the cache is proved correct for:
\* its calls nest, it holds at most two pages, and they are different pages.
THEOREM ReaderIsCaller == ReaderSpec => UsesPagerAsAssumed
<1>1. ReaderInit => Init
  BY DEF ReaderInit
<1> QED
  BY <1>1, ReaderInvariant, ReaderStepsPager, PTL DEF ReaderSpec, UsesPagerAsAssumed, Spec

\* read_cell_and_record leaves the cache as it found it: no page held, no pin.
THEOREM IdleReaderPinsNothing == ReaderSpec => []IdlePinsNothing
<1>1. RInv => IdlePinsNothing
  <2> SUFFICES ASSUME RInv, pc \in {"idle", "done"}, exit = "no"
               PROVE  held = <<>> /\ \A i \in Slots : pages[i].pin_count = 0
    BY DEF IdlePinsNothing
  <2>1. held = <<>>
    BY DEF RInv, HeldAtPc
  <2>2. DOMAIN held = {}
    BY <2>1
  <2> QED
    BY <2>1, <2>2 DEF RInv, IInv, PinsExact
<1> QED
  BY <1>1, ReaderInvariant, PTL

\* Reading payloads never finds every slot of the cache pinned.
THEOREM ReaderNeverExhausts == ReaderSpec => []NeverExhausted
<1> QED
  BY ReaderIsCaller, CacheNeverExhausted, PTL DEF UsesPagerAsAssumed
-----------------------------------------------------------------------------
(***************************************************************************)
(* The payload itself.                                                     *)
(***************************************************************************)

\* The units copied so far are the payload's.
PayloadSoFar ==
  pc \in {"overflow", "copy_overflow", "done"} =>
    /\ bytes_read \in 0 .. request.payload_size
    /\ buffer = [j \in 1 .. request.payload_size |-> buffer[j]]
    /\ \A j \in 1 .. bytes_read : buffer[j] = PayloadOf(request)[j]
    /\ pc = "copy_overflow" => bytes_read < request.payload_size
    /\ pc = "done" => bytes_read = request.payload_size

\* While some are missing, the next overflow page is the one they continue on
\* and the overflow pages before it were used in full.
OnChain ==
  pc \in {"overflow", "copy_overflow"} /\ bytes_read < request.payload_size =>
    \E n \in Nat :
      /\ n < Len(Chain[request])
      /\ bytes_read = request.local_bytes + n * OverflowCapacity
      /\ overflow_page = Chain[request][n + 1]

PInv == PayloadSoFar /\ OnChain

LEMMA FewerPages ==
  ASSUME NEW C \in Nat \ {0}, NEW a \in Nat, NEW b \in Nat, a * C < b * C
  PROVE  a < b
<1> SUFFICES ASSUME b <= a PROVE b * C <= a * C
  <2>1. a * C \in Int /\ b * C \in Int
    OBVIOUS
  <2> QED
    BY <2>1
<1>1. PICK d \in Nat : a = b + d
  <2>1. a - b \in Nat /\ a = b + (a - b)
    OBVIOUS
  <2> QED
    BY <2>1
<1>2. a * C = b * C + d * C
  BY <1>1, SMT
<1>3. d * C >= 0
  BY <1>1, SMT
<1> QED
  BY <1>2, <1>3

LEMMA Division ==
  ASSUME NEW C \in Nat \ {0}, NEW n \in Nat, NEW r \in Nat, r < C
  PROVE  (n * C + r) \div C = n /\ (n * C + r) % C = r
OBVIOUS

\* What the file format says of the fields of a cell.
LEMMA CellFields ==
  ASSUME NEW c \in Cells
  PROVE  /\ c.payload_size \in Nat /\ c.local_bytes \in 0 .. c.payload_size /\ c.offset \in Nat
         /\ Chain[c] \in Seq(Pages) /\ Len(Chain[c]) \in Nat
         /\ c.payload_size <= c.local_bytes + Len(Chain[c]) * OverflowCapacity
         /\ c.local_bytes < c.payload_size =>
              Len(Chain[c]) > 0 /\ c.overflow_page = Chain[c][1]
<1>1. c \in Cell /\ Chain[c] \in Seq(Pages)
  BY CellsAssumption
<1>2. c.payload_size \in Nat /\ c.local_bytes \in Nat /\ c.offset \in Nat
  BY <1>1 DEF Cell
<1>3. /\ c.local_bytes <= c.payload_size
      /\ c.payload_size <= c.local_bytes + Len(Chain[c]) * OverflowCapacity
      /\ c.overflow_page = 0 <=> c.local_bytes = c.payload_size
      /\ c.overflow_page = IF Chain[c] = <<>> THEN 0 ELSE Chain[c][1]
  BY CellsAssumption
<1>4. Len(Chain[c]) \in Nat /\ (Chain[c] # <<>> => Len(Chain[c]) > 0)
  BY <1>1, EmptySeq
<1> QED
  BY <1>1, <1>2, <1>3, <1>4

LEMMA LocalUnit ==
  ASSUME NEW c \in Cells, NEW j \in 1 .. c.local_bytes
  PROVE  PayloadOf(c)[j] = <<c.page, c.offset + j>>
BY CellFields DEF PayloadOf

LEMMA ChainUnit ==
  ASSUME NEW c \in Cells, NEW n \in Nat, NEW r \in 0 .. OverflowCapacity - 1,
         c.local_bytes + n * OverflowCapacity + r + 1 <= c.payload_size
  PROVE  PayloadOf(c)[c.local_bytes + n * OverflowCapacity + r + 1] =
           <<Chain[c][n + 1], r + 1>>
<1> DEFINE C == OverflowCapacity
           k == n * C + r
           j == c.local_bytes + k + 1
<1>1. C \in Nat \ {0} /\ n * C \in Nat /\ r \in Nat /\ r < C
  BY BoundsAssumption
<1>2. k \div C = n /\ k % C = r /\ k \in Nat
  <2> HIDE DEF C
  <2>1. (n * C + r) \div C = n /\ (n * C + r) % C = r
    BY <1>1, Division
  <2> QED
    BY <1>1, <2>1
<1>3. j \in 1 .. c.payload_size /\ ~(j <= c.local_bytes) /\ j - c.local_bytes - 1 = k
  BY <1>1, <1>2, CellFields
<1>4. j = c.local_bytes + n * OverflowCapacity + r + 1
  BY <1>1, CellFields
<1> HIDE DEF j, k
<1>5. PayloadOf(c)[j] = <<Chain[c][(k \div C) + 1], (k % C) + 1>>
  BY <1>3 DEF PayloadOf
<1> QED
  BY <1>2, <1>4, <1>5

\* What CopyOverflow is given and what it leaves.
LEMMA CopyOverflowFacts ==
  ASSUME RInv, PInv, CopyOverflow
  PROVE  \E n \in Nat :
           /\ request \in Cells /\ cell = request
           /\ n < Len(Chain[request])
           /\ bytes_read = request.local_bytes + n * OverflowCapacity
           /\ bytes_read \in 0 .. request.payload_size - 1
           /\ SeenPage = Chain[request][n + 1]
<1>1. /\ exit = "no" /\ pc = "copy_overflow" /\ Len(held) = 2
      /\ held[2].page = overflow_page /\ asked[overflow_page] = clock
      /\ request \in Cells /\ cell = request
  BY DEF CopyOverflow, Release, RInv, HeldAtPc, CellAtPc
<1>2. SeenPage = overflow_page
  <2>1. asked[held[2].page] = clock /\ IInv
    BY <1>1 DEF RInv
  <2>2. SeenPage = held[2].page
    BY <1>1, <2>1, LatestIsSeen
  <2> QED
    BY <1>1, <2>2
<1>3. bytes_read \in 0 .. request.payload_size - 1
  BY <1>1, CellFields DEF PInv, PayloadSoFar
<1>4. bytes_read < request.payload_size
  BY <1>1 DEF PInv, PayloadSoFar
<1> QED
  BY <1>1, <1>2, <1>3, <1>4 DEF PInv, OnChain

LEMMA CopyOverflowKeepsPInv ==
  ASSUME RInv, PInv, CopyOverflow
  PROVE  PInv'
<1>1. PICK n \in Nat :
           /\ request \in Cells /\ cell = request
           /\ n < Len(Chain[request])
           /\ bytes_read = request.local_bytes + n * OverflowCapacity
           /\ bytes_read \in 0 .. request.payload_size - 1
           /\ SeenPage = Chain[request][n + 1]
  BY CopyOverflowFacts
<1> DEFINE C == OverflowCapacity
           size == request.payload_size
           local == request.local_bytes
<1>2. /\ C \in Nat \ {0} /\ n * C \in Nat /\ size \in Nat /\ local \in 0 .. size
      /\ Len(Chain[request]) \in Nat /\ size <= local + Len(Chain[request]) * C
  BY <1>1, BoundsAssumption, CellFields
<1>3. BytesToRead = IF size - bytes_read > C THEN C ELSE size - bytes_read
  BY <1>1 DEF BytesToRead
<1>4. /\ BytesToRead \in 1 .. C /\ bytes_read + BytesToRead <= size
      /\ bytes_read + BytesToRead < size => BytesToRead = C
  <2>1. bytes_read \in Nat /\ bytes_read < size /\ C \in Nat \ {0} /\ size \in Nat
    BY <1>1, <1>2
  <2> HIDE DEF C, size
  <2> QED
    BY <1>3, <2>1
<1>5. /\ pc = "copy_overflow" /\ pc' = "overflow" /\ request' = request
      /\ bytes_read' = bytes_read + BytesToRead
      /\ overflow_page' = Link[SeenPage]
      /\ buffer' = [j \in DOMAIN buffer |->
                      IF j \in bytes_read + 1 .. bytes_read + BytesToRead
                        THEN <<SeenPage, j - bytes_read>> ELSE buffer[j]]
  BY DEF CopyOverflow, AdvancedBy
<1>6. /\ buffer = [j \in 1 .. size |-> buffer[j]]
      /\ \A j \in 1 .. bytes_read : buffer[j] = PayloadOf(request)[j]
  BY <1>5 DEF PInv, PayloadSoFar
<1>7. DOMAIN buffer = 1 .. size
  BY <1>6
<1>8. ASSUME NEW j \in 1 .. bytes_read' PROVE buffer'[j] = PayloadOf(request)[j]
  <2>1. j \in 1 .. size /\ j \in 1 .. bytes_read + BytesToRead
        /\ j \in Int /\ bytes_read \in Int /\ BytesToRead \in Int
    BY <1>1, <1>2, <1>4, <1>5
  <2>2. CASE j <= bytes_read
    <3>1. j \in 1 .. bytes_read /\ j \notin bytes_read + 1 .. bytes_read + BytesToRead
      BY <2>1, <2>2
    <3>2. buffer'[j] = buffer[j]
      BY <1>5, <1>7, <2>1, <3>1
    <3> QED
      BY <1>6, <3>1, <3>2
  <2>3. CASE j > bytes_read
    <3> DEFINE r == j - bytes_read - 1
    <3>1. r \in 0 .. C - 1 /\ j = local + n * C + r + 1 /\ r + 1 = j - bytes_read
      <4>1. bytes_read \in Nat /\ bytes_read = local + n * C /\ n * C \in Nat /\ local \in Nat
        BY <1>1, <1>2
      <4> HIDE DEF C, local
      <4> QED
        BY <1>2, <1>4, <2>1, <2>3, <4>1
    <3> HIDE DEF r
    <3>2. PayloadOf(request)[local + n * C + r + 1] = <<Chain[request][n + 1], r + 1>>
      <4>1. local + n * C + r + 1 <= size
        BY <1>2, <2>1, <3>1
      <4> QED
        BY <1>1, <3>1, <4>1, ChainUnit
    <3>3. buffer'[j] = <<SeenPage, j - bytes_read>>
      BY <1>1, <1>4, <1>5, <1>7, <2>1, <2>3
    <3> QED
      BY <1>1, <3>1, <3>2, <3>3
  <2> QED
    BY <1>1, <2>1, <2>2, <2>3
<1>9. PayloadSoFar'
  <2>1. bytes_read' \in 0 .. size
    BY <1>1, <1>2, <1>4, <1>5
  <2>2. buffer' = [j \in 1 .. size |-> buffer'[j]]
    BY <1>5, <1>7
  <2>3. PayloadOf(request)' = PayloadOf(request)
    BY <1>5 DEF PayloadOf
  <2> QED
    BY <1>5, <1>8, <2>1, <2>2, <2>3 DEF PayloadSoFar
<1>10. OnChain'
  <2> SUFFICES ASSUME bytes_read' < size
               PROVE  /\ n + 1 \in Nat /\ n + 1 < Len(Chain[request])
                      /\ bytes_read' = local + (n + 1) * C
                      /\ overflow_page' = Chain[request][n + 1 + 1]
    BY <1>5 DEF OnChain
  <2>1. bytes_read' = local + (n + 1) * C
    <3>1. (n + 1) * C = n * C + C
      BY <1>2
    <3> QED
      BY <1>1, <1>2, <1>4, <1>5, <3>1
  <2>2. n + 1 < Len(Chain[request])
    <3>1. (n + 1) * C < Len(Chain[request]) * C
      <4>1. (n + 1) * C \in Int /\ Len(Chain[request]) * C \in Int
        BY <1>2
      <4> QED
        BY <1>2, <2>1, <4>1
    <3> HIDE DEF C
    <3> QED
      BY <1>2, <3>1, FewerPages
  <2>3. overflow_page' = Chain[request][n + 1 + 1]
    <3>1. n + 1 \in 1 .. Len(Chain[request]) - 1
      BY <1>2, <2>2
    <3> QED
      BY <1>1, <1>5, <3>1, CellsAssumption
  <2> QED
    BY <2>1, <2>2, <2>3
<1> QED
  BY <1>9, <1>10 DEF PInv

\* The copy from the cell's page gives exactly the cell's part of the payload.
LEMMA CopyLocalEstablishesPInv ==
  ASSUME RInv, CopyLocal
  PROVE  PInv'
<1>1. /\ exit = "no" /\ pc = "copy_local" /\ Len(held) = 1 /\ held[1].page = request.page
      /\ asked[request.page] = clock /\ request \in Cells /\ cell = request /\ IInv
  BY DEF CopyLocal, RInv, HeldAtPc, CellAtPc
<1>2. SeenPage = request.page
  <2>1. asked[held[1].page] = clock
    BY <1>1
  <2> QED
    BY <1>1, <2>1, LatestIsSeen
<1>3. /\ request.payload_size \in Nat /\ request.local_bytes \in 0 .. request.payload_size
      /\ request.local_bytes < request.payload_size =>
           Len(Chain[request]) > 0 /\ request.overflow_page = Chain[request][1]
  BY <1>1, CellFields
<1>4. /\ pc' = "overflow" /\ request' = request /\ PayloadOf(request)' = PayloadOf(request)
      /\ bytes_read' = request.local_bytes /\ overflow_page' = request.overflow_page
      /\ buffer' = [j \in 1 .. request.payload_size |->
                      IF j <= request.local_bytes THEN <<SeenPage, request.offset + j>>
                                                  ELSE Unspecified]
  BY <1>1 DEF CopyLocal, PayloadOf
<1>5. \A j \in 1 .. request.local_bytes : buffer'[j] = PayloadOf(request)[j]
  <2> SUFFICES ASSUME NEW j \in 1 .. request.local_bytes
               PROVE  buffer'[j] = PayloadOf(request)[j]
    OBVIOUS
  <2>1. PayloadOf(request)[j] = <<request.page, request.offset + j>>
    BY <1>1, LocalUnit
  <2>2. j \in 1 .. request.payload_size /\ j <= request.local_bytes
    BY <1>3
  <2>3. buffer'[j] = <<SeenPage, request.offset + j>>
    BY <1>4, <2>2
  <2> QED
    BY <1>2, <2>1, <2>3
<1>6. buffer' = [j \in 1 .. request.payload_size |-> buffer'[j]]
  BY <1>4
<1>7. PayloadSoFar'
  BY <1>3, <1>4, <1>5, <1>6 DEF PayloadSoFar
<1>8. OnChain'
  <2> SUFFICES ASSUME request.local_bytes < request.payload_size
               PROVE  /\ 0 < Len(Chain[request])
                      /\ request.local_bytes = request.local_bytes + 0 * OverflowCapacity
                      /\ request.overflow_page = Chain[request][0 + 1]
    BY <1>4 DEF OnChain
  <2> QED
    BY <1>3, BoundsAssumption
<1> QED
  BY <1>7, <1>8 DEF PInv

LEMMA ReaderStepKeepsPInv == RInv /\ PInv /\ [ReaderNext]_all_vars => PInv'
<1> SUFFICES ASSUME RInv, PInv, [ReaderNext]_all_vars PROVE PInv'
  OBVIOUS
<1>1. CASE CopyLocal
  BY <1>1, CopyLocalEstablishesPInv
<1>2. CASE CopyOverflow
  BY <1>2, CopyOverflowKeepsPInv
<1>3. CASE GetOverflowPage
  BY <1>3 DEF GetOverflowPage, MoreToRead, CellAtPc, RInv, PInv, PayloadSoFar, OnChain, PayloadOf
<1>4. CASE ReleasePageOfPayload
  <2>1. request \in Cells /\ cell = request /\ pc = "overflow" /\ ~MoreToRead
    BY <1>4 DEF ReleasePageOfPayload, RInv, CellAtPc
  <2>2. bytes_read \in 0 .. request.payload_size /\ request.payload_size \in Nat
    BY <2>1, CellFields DEF PInv, PayloadSoFar
  <2>3. bytes_read = request.payload_size
    <3> SUFFICES ASSUME bytes_read < request.payload_size PROVE overflow_page # 0
      BY <2>1, <2>2 DEF MoreToRead
    <3>1. PICK n \in Nat : n < Len(Chain[request]) /\ overflow_page = Chain[request][n + 1]
      BY <2>1 DEF PInv, OnChain
    <3>2. n + 1 \in 1 .. Len(Chain[request]) /\ Chain[request] \in Seq(Pages)
      BY <2>1, <3>1, CellFields
    <3> QED
      BY <3>1, <3>2, PagesAssumption
  <2> QED
    BY <1>4, <2>1, <2>3 DEF ReleasePageOfPayload, PInv, PayloadSoFar, OnChain, PayloadOf
<1>5. CASE \/ GetPageOfCell \/ ReadCell \/ GetPageOfPayload \/ FreePayloadBuffer
           \/ \E c \in Cells : ReadCellAndRecord(c)
  BY <1>5 DEF GetPageOfCell, ReadCell, GetPageOfPayload, FreePayloadBuffer, ReadCellAndRecord,
              PInv, PayloadSoFar, OnChain
<1>6. CASE CrashInCopy \/ Finished \/ UNCHANGED all_vars
  BY <1>6 DEF CrashInCopy, Finished, all_vars, reader_vars, PInv, PayloadSoFar, OnChain, PayloadOf
<1> QED
  BY <1>1, <1>2, <1>3, <1>4, <1>5, <1>6 DEF ReaderNext, ReaderStep

LEMMA ExactFromPInv == RInv /\ PInv => PayloadExact
<1> SUFFICES ASSUME RInv, PInv, pc = "done" PROVE buffer = PayloadOf(request)
  BY DEF PayloadExact
<1>1. /\ request \in Cells /\ bytes_read = request.payload_size
      /\ buffer = [j \in 1 .. request.payload_size |-> buffer[j]]
      /\ \A j \in 1 .. request.payload_size : buffer[j] = PayloadOf(request)[j]
  BY DEF RInv, CellAtPc, PInv, PayloadSoFar
<1> QED
  BY <1>1 DEF PayloadOf

\* read_full_payload returns the payload the file format assigns to the cell, of
\* any size, over a chain of any length, with a cache of any capacity.
THEOREM PayloadsAreExact == ReaderSpec => []PayloadExact
<1>1. ReaderInit => PInv
  BY DEF ReaderInit, PInv, PayloadSoFar, OnChain
<1>2. ReaderSpec => [](RInv /\ PInv)
  BY <1>1, InitRInv, ReaderStepKeepsRInv, ReaderStepKeepsPInv, PTL DEF ReaderSpec
<1> QED
  BY <1>2, ExactFromPInv, PTL
-----------------------------------------------------------------------------
(***************************************************************************)
(* Types.                                                                  *)
(***************************************************************************)

\* Before the payload is copied there is no buffer, before read_cell no cell,
\* and nothing is left over from an earlier read.
FreshInv ==
  /\ request \in Cells \cup {None} /\ cell \in Cells \cup {None}
  /\ reads \in Nat
  /\ pc = "idle" => request = None
  /\ pc \in {"idle", "read_cell", "parse_cell"} => cell = None
  /\ pc \in {"idle", "read_cell", "parse_cell", "get_payload", "copy_local", "crash"} =>
       buffer = None /\ bytes_read = 0

LEMMA ReaderStepKeepsFresh == RInv /\ FreshInv /\ [ReaderNext]_all_vars => FreshInv'
<1> SUFFICES ASSUME RInv, FreshInv, [ReaderNext]_all_vars PROVE FreshInv'
  OBVIOUS
<1>1. CASE ReadCell
  <2>1. cell' \in Cells \cup {None}
    BY <1>1 DEF ReadCell, CellAt
  <2> QED
    BY <1>1, <2>1 DEF ReadCell, FreshInv
<1>2. CASE \/ GetPageOfCell \/ GetPageOfPayload \/ CopyLocal \/ CrashInCopy \/ GetOverflowPage
           \/ CopyOverflow \/ ReleasePageOfPayload \/ FreePayloadBuffer
  BY <1>2 DEF GetPageOfCell, GetPageOfPayload, CopyLocal, CrashInCopy, GetOverflowPage, CopyOverflow,
              ReleasePageOfPayload, FreePayloadBuffer, FreshInv
<1>3. CASE \E c \in Cells : ReadCellAndRecord(c)
  BY <1>3 DEF ReadCellAndRecord, FreshInv
<1>4. CASE Finished \/ UNCHANGED all_vars
  BY <1>4 DEF Finished, all_vars, reader_vars, FreshInv
<1> QED
  BY <1>1, <1>2, <1>3, <1>4 DEF ReaderNext, ReaderStep

\* The reader's state is well typed; in particular the copies never pass the end
\* of the payload buffer, whatever the cell.
THEOREM ReaderTypeCorrect == ReaderSpec => []ReaderTypeOK
<1>1. ReaderInit => PInv /\ FreshInv
  BY DEF ReaderInit, PInv, PayloadSoFar, OnChain, FreshInv
<1>2. ReaderSpec => [](RInv /\ PInv /\ FreshInv)
  BY <1>1, InitRInv, ReaderStepKeepsRInv, ReaderStepKeepsPInv, ReaderStepKeepsFresh, PTL
     DEF ReaderSpec
<1>3. RInv /\ PInv /\ FreshInv => ReaderTypeOK
  <2> SUFFICES ASSUME RInv, PInv, FreshInv PROVE ReaderTypeOK
    OBVIOUS
  <2>1. /\ TypeOK /\ pc \in Pcs /\ overflow_page \in Pages \cup {0}
        /\ request \in Cells \cup {None} /\ cell \in Cells \cup {None} /\ reads \in Nat
    BY DEF RInv, IInv, CellAtPc, FreshInv
  <2>2. CASE pc \in {"overflow", "copy_overflow", "done"}
    <3>1. request \in Cells /\ cell = request /\ request.payload_size \in Nat
      BY <2>2, CellFields DEF RInv, CellAtPc
    <3>2. bytes_read \in 0 .. request.payload_size
          /\ buffer = [j \in 1 .. request.payload_size |-> buffer[j]]
      BY <2>2 DEF PInv, PayloadSoFar
    <3>3. DOMAIN buffer = 1 .. cell.payload_size /\ bytes_read \in Nat
          /\ bytes_read <= cell.payload_size
      BY <3>1, <3>2
    <3> QED
      BY <2>1, <3>3 DEF ReaderTypeOK
  <2>3. CASE pc \in {"idle", "read_cell", "parse_cell", "get_payload", "copy_local", "crash"}
    <3>1. buffer = None /\ bytes_read = 0
      BY <2>3 DEF FreshInv
    <3>2. cell # None => cell.payload_size \in Nat
      BY <2>1, CellFields
    <3> QED
      BY <2>1, <3>1, <3>2 DEF ReaderTypeOK
  <2> QED
    BY <2>1, <2>2, <2>3 DEF Pcs
<1> QED
  BY <1>2, <1>3, PTL
-----------------------------------------------------------------------------
(***************************************************************************)
(* The refinement of PayloadStore.                                         *)
(***************************************************************************)

\* What the store's payload is before the reader is done, and after.
LEMMA StorePayload ==
  ASSUME RInv, PInv
  PROVE  pc = "done" => buffer = PayloadOf(request) /\ buffer # None
<1> SUFFICES ASSUME pc = "done" PROVE buffer = PayloadOf(request) /\ buffer # None
  OBVIOUS
<1>1. buffer = PayloadOf(request) /\ request \in Cells
  BY ExactFromPInv DEF PayloadExact, RInv, CellAtPc
<1> QED
  BY <1>1, NoneAssumption

\* A get_page that returns changes nothing the store knows of; one that ends the
\* process gives the request up.
LEMMA GetImplementsStore ==
  ASSUME NEW p, GetPage(p), request \in Cells, request' = request,
         pc \notin {"done", "crash"}, pc' \notin {"done", "crash"}
  PROVE  [Store!Next]_Store!vars
<1>1. exit = "no" /\ request # None
  BY CellsAssumption DEF GetPage
<1>2. CASE exit' = "no"
  BY <1>1, <1>2 DEF Store!vars
<1>3. CASE exit' # "no"
  <2>1. Store!GiveUp
    BY <1>1, <1>3 DEF Store!GiveUp
  <2> QED
    BY <2>1 DEF Store!Next
<1> QED
  BY <1>2, <1>3

LEMMA ReaderStepsStore ==
  RInv /\ PInv /\ FreshInv /\ [ReaderNext]_all_vars => [Store!Next]_Store!vars
<1> SUFFICES ASSUME RInv, PInv, FreshInv, [ReaderNext]_all_vars
             PROVE  [Store!Next]_Store!vars
  OBVIOUS
<1>t. pc # "idle" => request \in Cells /\ request # None
  BY CellsAssumption DEF RInv, CellAtPc
<1>1. ASSUME NEW c \in Cells, ReadCellAndRecord(c) PROVE [Store!Next]_Store!vars
  <2>1. exit = "no" /\ exit' = "no" /\ request = None /\ request' = c
        /\ pc = "idle" /\ pc' = "read_cell"
    BY <1>1 DEF ReadCellAndRecord, FreshInv, vars
  <2>2. Store!Ask(c)
    BY <2>1 DEF Store!Ask
  <2> QED
    BY <2>2 DEF Store!Next
<1>2. CASE GetPageOfCell
  <2>1. GetPage(request.page) /\ request' = request /\ pc = "read_cell" /\ pc' = "parse_cell"
    BY <1>2 DEF GetPageOfCell
  <2> QED
    BY <1>t, <2>1, GetImplementsStore
<1>3. CASE GetPageOfPayload
  <2>1. GetPage(cell.page) /\ request' = request /\ pc = "get_payload" /\ pc' = "copy_local"
    BY <1>3 DEF GetPageOfPayload
  <2> QED
    BY <1>t, <2>1, GetImplementsStore
<1>4. CASE GetOverflowPage
  <2>1. GetPage(overflow_page) /\ request' = request /\ pc = "overflow" /\ pc' = "copy_overflow"
    BY <1>4 DEF GetOverflowPage
  <2> QED
    BY <1>t, <2>1, GetImplementsStore
<1>5. CASE ReleasePageOfPayload
  <2>1. /\ exit = "no" /\ exit' = "no" /\ pc = "overflow" /\ pc' = "done"
        /\ request' = request /\ buffer' = buffer
    BY <1>5 DEF ReleasePageOfPayload, Release
  <2>2. buffer' = PayloadOf(request)
    <3>1. RInv' /\ PInv'
      BY <1>5, ReaderStepKeepsRInv, ReaderStepKeepsPInv
    <3>2. (RInv /\ PInv => PayloadExact)'
      BY ExactFromPInv, PTL
    <3>3. buffer' = PayloadOf(request)'
      BY <2>1, <3>1, <3>2 DEF PayloadExact
    <3> QED
      BY <2>1, <3>3 DEF PayloadOf
  <2>3. Store!Answer
    BY <1>t, <2>1, <2>2 DEF Store!Answer
  <2> QED
    BY <2>3 DEF Store!Next
<1>6. CASE FreePayloadBuffer
  <2>1. /\ exit = "no" /\ exit' = "no" /\ pc = "done" /\ pc' = "idle"
        /\ request' = None
    BY <1>6 DEF FreePayloadBuffer, vars
  <2>2. buffer # None
    BY <2>1, StorePayload
  <2>3. Store!Take
    BY <2>1, <2>2 DEF Store!Take
  <2> QED
    BY <2>3 DEF Store!Next
<1>7. CASE ReadCell \/ CopyLocal \/ CopyOverflow
  <2>1. request' = request /\ exit' = exit /\ {pc, pc'} \cap {"done", "crash"} = {}
    BY <1>7 DEF ReadCell, CopyLocal, CopyOverflow, Release, vars
  <2> QED
    BY <2>1 DEF Store!vars
<1>8. CASE Finished \/ UNCHANGED all_vars
  <2>1. request' = request /\ exit' = exit /\ pc' = pc /\ buffer' = buffer
    BY <1>8 DEF Finished, all_vars, reader_vars, vars
  <2> QED
    BY <2>1 DEF Store!vars
<1>9. CASE CrashInCopy
  <2>1. Store!GiveUp
    BY <1>t, <1>9 DEF CrashInCopy, vars, Store!GiveUp
  <2> QED
    BY <2>1 DEF Store!Next
<1> QED
  BY <1>1, <1>2, <1>3, <1>4, <1>5, <1>6, <1>7, <1>8, <1>9 DEF ReaderNext, ReaderStep

\* Reading through the cache does nothing that reading from a store of ready-made
\* payloads could not do: every step is the store's or is invisible to it, so no
\* read ends with anything but its cell's payload or the exit of the process.
THEOREM ReaderImplementsStore == ReaderSpec => Store!SafetySpec
<1>1. ReaderInit => PInv /\ FreshInv /\ Store!Init
  <2> SUFFICES ASSUME ReaderInit PROVE PInv /\ FreshInv /\ Store!Init
    OBVIOUS
  <2>1. PInv /\ FreshInv
    BY DEF ReaderInit, PInv, PayloadSoFar, OnChain, FreshInv
  <2>2. Store!Init
    BY DEF ReaderInit, Init, Store!Init
  <2> QED
    BY <2>1, <2>2
<1>2. ReaderSpec => [](RInv /\ PInv /\ FreshInv)
  BY <1>1, InitRInv, ReaderStepKeepsRInv, ReaderStepKeepsPInv, ReaderStepKeepsFresh, PTL
     DEF ReaderSpec
<1> QED
  BY <1>1, <1>2, ReaderStepsStore, PTL DEF ReaderSpec, Store!SafetySpec
=============================================================================
