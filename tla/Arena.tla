--------------------------------- MODULE Arena ---------------------------------
(***************************************************************************)
(* The arena the syntax trees are allocated in (src/arena.c): one buffer,  *)
(* of which the first `offset` bytes are handed out.  Growing it may move  *)
(* the buffer; a buffer is known by the number of moves before it.  Where  *)
(* NULL is returned for a block, the two callers end the process           *)
(* (arena.c:92-99, parser.c:595-599).                                      *)
(***************************************************************************)
EXTENDS Integers, FiniteSets

CONSTANTS
  ArenaSizeMax,          \* SIZE_MAX
  MinArenaCapacity,      \* MIN_ARENA_CAPACITY
  ArenaRequests,         \* the capacities asked of arena_new
  Sizes, Alignments,
  MaxMoves, MaxBlocks    \* bound the moves of the buffer and the blocks handed out

ASSUME ArenaAssumption ==
  /\ ArenaSizeMax \in Nat /\ MinArenaCapacity \in 1 .. ArenaSizeMax
  /\ ArenaRequests \subseteq 0 .. ArenaSizeMax
  /\ Sizes \subseteq 0 .. ArenaSizeMax
  /\ Alignments \subseteq 1 .. ArenaSizeMax

VARIABLES
  buffer, capacity, offset,
  blocks,          \* what was handed out and not taken back
  arena_status     \* "open", "refused" (the last allocation), "freed", "hung" or "exited"

arena == <<buffer, capacity, offset, blocks, arena_status>>

\* The least number of the form capacity * 2^k that is at least target.
GrowArenaCapacity(target) ==
  LET f[c \in 1 .. ArenaSizeMax] ==
        IF c >= target THEN c
        ELSE IF c > ArenaSizeMax \div 2 THEN ArenaSizeMax ELSE f[2 * c]
  IN f[capacity]

Aligned(alignment) == ((offset + alignment - 1) \div alignment) * alignment

-----------------------------------------------------------------------------
Null == -1   \* no buffer

\* arena_new: when malloc fails, the empty arena it prepares is overwritten, and
\* the capacity is that of a buffer there is not.
ArenaInit ==
  /\ buffer \in {Null, 0}
  /\ \E size \in ArenaRequests :
       capacity = IF size < MinArenaCapacity THEN MinArenaCapacity ELSE size
  /\ offset = 0
  /\ blocks = {}
  /\ arena_status = "open"

\* Wrong: the bytes skipped for the alignment are not asked for.
NeededUnaligned(size, alignment) == size

\* What arena_alloc_aligned asks ensure_arena_has_enough_capacity for.
Needed(size, alignment) == size + Aligned(alignment) - offset

Overflows(size, alignment) ==
  \/ offset > ArenaSizeMax - (alignment - 1)
  \/ size > ArenaSizeMax - Aligned(alignment)

Fits(size, alignment) == Needed(size, alignment) <= capacity - offset

HandOut(size, alignment) ==
  /\ Cardinality(blocks) < MaxBlocks
  /\ blocks' = blocks \cup {[at |-> Aligned(alignment), size |-> size,
                             alignment |-> alignment, buffer |-> buffer']}
  /\ offset' = Aligned(alignment) + size
  /\ arena_status' = "open"

Refuse == arena_status' = "refused" /\ UNCHANGED <<buffer, capacity, offset, blocks>>

Usable == arena_status \in {"open", "refused"}

Allocate(size, alignment) ==
  /\ Usable
  /\ ~ Overflows(size, alignment)
  /\ Fits(size, alignment)
  /\ buffer # Null
  /\ UNCHANGED <<buffer, capacity>>
  /\ HandOut(size, alignment)

\* The first block of no buffer is at NULL.
AllocateFromNull(size, alignment) ==
  /\ Usable \/ arena_status = "freed"
  /\ ~ Overflows(size, alignment)
  /\ Fits(size, alignment)
  /\ buffer = Null
  /\ offset' = Aligned(alignment) + size
  /\ arena_status' = "exited"
  /\ UNCHANGED <<buffer, capacity, blocks>>

\* grow_arena: realloc gives the first buffer, moves it, does not, or fails.
GrowAndAllocate(size, alignment) ==
  /\ Usable
  /\ ~ Overflows(size, alignment)
  /\ ~ Fits(size, alignment)
  /\ capacity' = GrowArenaCapacity(offset + Needed(size, alignment))
  /\ buffer' \in {buffer, buffer + 1} \cap 0 .. MaxMoves
  /\ HandOut(size, alignment)

RefuseToAllocate(size, alignment) ==
  /\ Usable
  /\ Overflows(size, alignment) \/ ~ Fits(size, alignment)
  /\ Refuse

ArenaReset ==
  /\ Usable
  /\ offset' = 0
  /\ blocks' = {}
  /\ UNCHANGED <<buffer, capacity, arena_status>>

ArenaFree ==
  /\ Usable
  /\ buffer' = Null
  /\ capacity' = 0
  /\ offset' = 0
  /\ blocks' = {}
  /\ arena_status' = "freed"

\* A capacity of 0 never reaches the target by doubling.
AllocateFromFreed(size, alignment) ==
  /\ arena_status = "freed"
  /\ size > 0
  /\ arena_status' = "hung"
  /\ UNCHANGED <<buffer, capacity, offset, blocks>>

ArenaNext ==
  \/ \E size \in Sizes, alignment \in Alignments :
       \/ Allocate(size, alignment) \/ AllocateFromNull(size, alignment)
       \/ GrowAndAllocate(size, alignment)
       \/ RefuseToAllocate(size, alignment) \/ AllocateFromFreed(size, alignment)
  \/ ArenaReset \/ ArenaFree

ArenaSpec == ArenaInit /\ [][ArenaNext]_arena

-----------------------------------------------------------------------------
\* The blocks handed out lie in a buffer there is, at their alignment, and no two
\* of them share a byte, however the arena grew between them (arena.c:10-90).
BlocksApart ==
  /\ offset <= capacity /\ capacity <= ArenaSizeMax
  /\ \A b \in blocks :
       b.buffer # Null /\ b.at % b.alignment = 0 /\ b.at + b.size <= offset
  /\ \A a, b \in blocks : a # b => a.at + a.size <= b.at \/ b.at + b.size <= a.at
=============================================================================
