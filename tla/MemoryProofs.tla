----------------------------- MODULE MemoryProofs -----------------------------
(***************************************************************************)
(* Theorems about Arena, for every arena size, every alignment and every   *)
(* sequence of calls, and about HashMap, for every hash function, load     *)
(* factor, capacity and set of keys, growth included.                      *)
(***************************************************************************)
EXTENDS Arena, HashMap, NumberLemmas, SequenceTheorems, FiniteSetTheorems

ArenaBlock == [at : Nat, size : Nat, alignment : Nat \ {0}, buffer : Nat]

\* An arena that can be used has a capacity to double.
ArenaTypeOK ==
  /\ buffer \in Nat \cup {Null} /\ capacity \in Nat /\ offset \in Nat
  /\ arena_status \in {"open", "refused", "freed", "hung", "exited"}
  /\ Usable => capacity > 0
  /\ blocks \subseteq ArenaBlock

ArenaInv == ArenaTypeOK /\ BlocksApart
-----------------------------------------------------------------------------
\* Doubling the capacity ends at the target or beyond, within SIZE_MAX.
LEMMA GrowArenaCapacityReaches ==
  ASSUME capacity \in 1 .. ArenaSizeMax, NEW target \in 0 .. ArenaSizeMax
  PROVE  GrowArenaCapacity(target) \in target .. ArenaSizeMax
<1> DEFINE D == 1 .. ArenaSizeMax
           Stop == {c \in D : c >= target \/ c > ArenaSizeMax \div 2}
           value == [c \in D |-> IF c >= target THEN c ELSE ArenaSizeMax]
           next == [c \in D |-> 2 * c]
           rank == [c \in D |-> ArenaSizeMax - c]
           Body(f, c) == IF c >= target THEN c
                         ELSE IF c > ArenaSizeMax \div 2 THEN ArenaSizeMax ELSE f[2 * c]
           F == CHOOSE f : f = [c \in D |-> Body(f, c)]
<1>1. ArenaSizeMax \in Nat
  BY ArenaAssumption
<1>2. Descends(D, Stop, next, rank, ArenaSizeMax)
  BY <1>1 DEF Descends
<1>3. \A f : [c \in D |-> Body(f, c)] = [c \in D |-> IF c \in Stop THEN value[c] ELSE f[next[c]]]
  OBVIOUS
<1>4. Recurses(F, D, Stop, value, next)
  <2>1. \E f : Recurses(f, D, Stop, value, next)
    <3> HIDE DEF D, Stop, value, next, rank
    <3> QED
      BY <1>2, TailRecursion
  <2>2. F = [c \in D |-> Body(F, c)]
    <3>1. \E f : f = [c \in D |-> Body(f, c)]
      <4> HIDE DEF D, Stop, value, next, Body
      <4> QED
        BY <1>3, <2>1 DEF Recurses
    <3> HIDE DEF Body
    <3> QED
      BY <3>1
  <2> HIDE DEF D, Stop, value, next, Body, F
  <2> QED
    BY <1>3, <2>2 DEF Recurses
<1>5. \A c \in D : F[c] \in target .. ArenaSizeMax
  <2>1. Keeps(D, Stop, value, next, D, target .. ArenaSizeMax)
    BY <1>1 DEF Keeps
  <2> HIDE DEF D, Stop, value, next, rank, F
  <2> QED
    BY <1>2, <1>4, <2>1, TailRecursionResult
<1>6. GrowArenaCapacity(target) = F[capacity]
  BY DEF GrowArenaCapacity
<1> QED
  BY <1>5, <1>6

\* The place a block gets is aligned and not before what is handed out.
LEMMA AlignedIsBehind ==
  ASSUME offset \in Nat, NEW alignment \in Nat \ {0}
  PROVE  /\ Aligned(alignment) \in Nat
         /\ Aligned(alignment) >= offset
         /\ Aligned(alignment) % alignment = 0
<1> DEFINE q == (offset + alignment - 1) \div alignment
<1>1. q \in Nat /\ q * alignment >= offset
  OBVIOUS
<1>2. (q * alignment) % alignment = 0
  BY <1>1
<1> QED
  BY <1>1, <1>2 DEF Aligned

LEMMA ArenaInitInv == ArenaInit => ArenaInv
  BY ArenaAssumption DEF ArenaInit, ArenaInv, ArenaTypeOK, BlocksApart, Usable

\* A block handed out behind the others, in an arena large enough.
LEMMA HandOutInv ==
  ASSUME ArenaInv, NEW size \in Sizes, NEW alignment \in Alignments,
         HandOut(size, alignment), buffer' \in Nat, capacity' \in Nat \ {0},
         capacity' <= ArenaSizeMax, Aligned(alignment) + size <= capacity'
  PROVE  ArenaInv'
<1> DEFINE new == [at |-> Aligned(alignment), size |-> size,
                   alignment |-> alignment, buffer |-> buffer']
<1>1. size \in Nat /\ alignment \in Nat \ {0}
  BY ArenaAssumption
<1>2. offset \in Nat /\ blocks \subseteq ArenaBlock
  BY DEF ArenaInv, ArenaTypeOK
<1>3. /\ Aligned(alignment) \in Nat /\ Aligned(alignment) >= offset
      /\ Aligned(alignment) % alignment = 0
  BY <1>1, <1>2, AlignedIsBehind
<1>4. blocks' = blocks \cup {new} /\ offset' = Aligned(alignment) + size
      /\ arena_status' = "open"
  BY DEF HandOut
<1>5. ArenaTypeOK'
  BY <1>1, <1>2, <1>3, <1>4 DEF ArenaTypeOK, ArenaBlock, Usable
<1>6. \A b \in blocks' :
        b.buffer # Null /\ b.at % b.alignment = 0 /\ b.at + b.size <= offset'
  BY <1>1, <1>2, <1>3, <1>4 DEF ArenaInv, BlocksApart, ArenaBlock, Null
<1>7. \A a, b \in blocks' : a # b => a.at + a.size <= b.at \/ b.at + b.size <= a.at
  <2>1. \A b \in blocks : b.at + b.size <= new.at
    BY <1>2, <1>3 DEF ArenaInv, BlocksApart, ArenaBlock
  <2> HIDE DEF new
  <2> QED
    BY <1>4, <2>1 DEF ArenaInv, BlocksApart
<1> QED
  BY <1>4, <1>5, <1>6, <1>7 DEF ArenaInv, BlocksApart

LEMMA ArenaNextInv == ArenaInv /\ [ArenaNext]_arena => ArenaInv'
<1> SUFFICES ASSUME ArenaInv, [ArenaNext]_arena PROVE ArenaInv'
  OBVIOUS
<1> USE DEF ArenaInv, ArenaTypeOK
<1>1. ASSUME NEW size \in Sizes, NEW alignment \in Alignments, Allocate(size, alignment)
      PROVE  ArenaInv'
  <2>1. Aligned(alignment) + size <= capacity /\ capacity > 0 /\ capacity <= ArenaSizeMax
    <3>1. Aligned(alignment) \in Nat /\ size \in Nat
      BY ArenaAssumption, AlignedIsBehind
    <3> QED
      BY <1>1, <3>1 DEF Allocate, Fits, Needed, Usable, BlocksApart
  <2>2. HandOut(size, alignment) /\ buffer' \in Nat /\ capacity' = capacity
    BY <1>1 DEF Allocate
  <2> QED
    BY <2>1, <2>2, HandOutInv
<1>2. ASSUME NEW size \in Sizes, NEW alignment \in Alignments,
             GrowAndAllocate(size, alignment)
      PROVE  ArenaInv'
  <2> DEFINE target == offset + Needed(size, alignment)
  <2>1. ArenaSizeMax \in Nat /\ Aligned(alignment) \in Nat /\ size \in Nat
    BY ArenaAssumption, AlignedIsBehind
  <2>2. target = size + Aligned(alignment) /\ target \in 0 .. ArenaSizeMax
    BY <1>2, <2>1 DEF GrowAndAllocate, Needed, Overflows
  <2>3. capacity \in 1 .. ArenaSizeMax
    BY <1>2, <2>1 DEF GrowAndAllocate, Usable, BlocksApart
  <2>4. GrowArenaCapacity(target) \in target .. ArenaSizeMax
    BY <2>2, <2>3, GrowArenaCapacityReaches
  <2>5. HandOut(size, alignment) /\ buffer' \in Nat /\ capacity' = GrowArenaCapacity(target)
    BY <1>2 DEF GrowAndAllocate
  <2>6. capacity' > 0
    BY <1>2, <2>1, <2>2, <2>3, <2>4, <2>5 DEF GrowAndAllocate, Fits, Needed
  <2> QED
    BY <2>1, <2>2, <2>4, <2>5, <2>6, HandOutInv
<1>3. ASSUME NEW size \in Sizes, NEW alignment \in Alignments,
             \/ RefuseToAllocate(size, alignment) \/ AllocateFromFreed(size, alignment)
      PROVE  ArenaInv'
  BY <1>3 DEF RefuseToAllocate, Refuse, AllocateFromFreed, BlocksApart, Usable
<1>6. ASSUME NEW size \in Sizes, NEW alignment \in Alignments,
             AllocateFromNull(size, alignment)
      PROVE  ArenaInv'
  <2>1. /\ size \in Nat /\ Aligned(alignment) \in Nat /\ Aligned(alignment) >= offset
        /\ Aligned(alignment) + size <= capacity
    <3>1. /\ Aligned(alignment) \in Nat /\ Aligned(alignment) >= offset /\ size \in Nat
      BY ArenaAssumption, AlignedIsBehind
    <3> QED
      BY <1>6, <3>1 DEF AllocateFromNull, Fits, Needed
  <2>2. \A b \in blocks : b.at + b.size <= offset + size
    BY <2>1 DEF BlocksApart, ArenaBlock
  <2> QED
    BY <1>6, <2>1, <2>2 DEF AllocateFromNull, BlocksApart, Usable, ArenaBlock
<1>4. ASSUME ArenaReset \/ ArenaFree
      PROVE  ArenaInv'
  BY <1>4, ArenaAssumption DEF ArenaReset, ArenaFree, BlocksApart, Usable
<1>5. CASE UNCHANGED arena
  BY <1>5 DEF arena, BlocksApart, Usable
<1> QED
  BY <1>1, <1>2, <1>3, <1>4, <1>5, <1>6 DEF ArenaNext

THEOREM ArenaInvariant == ArenaSpec => []ArenaInv
  BY ArenaInitInv, ArenaNextInv, PTL DEF ArenaSpec

\* The blocks handed out lie within the arena, aligned as asked, and no two of
\* them share a byte, for every limit of the sizes and every way the arena grows
\* (arena.c:10-90).
THEOREM BlocksNeverOverlap == ArenaSpec => []BlocksApart
<1>1. ArenaInv => BlocksApart
  BY DEF ArenaInv
<1> QED
  BY <1>1, ArenaInvariant, PTL
-----------------------------------------------------------------------------
(***************************************************************************)
(* The hash map.  What is proved of an array of chains is stated of any    *)
(* capacity: the array a growth builds is of another one.                  *)
(***************************************************************************)

Node == [key : Keys, value : Values]

Chains(size) == [0 .. size - 1 -> Seq(Node)]

Has(nodes, node) == \E i \in 1 .. Len(nodes) : nodes[i] = node

NoKeyTwice(nodes) == \A i, j \in 1 .. Len(nodes) : nodes[i].key = nodes[j].key => i = j

Lacks(nodes, key) == \A i \in 1 .. Len(nodes) : nodes[i].key # key

\* Every node is in the chain its key hashes to, and no chain has a key twice.
IsMap(chains, size) ==
  /\ size \in Nat \ {0} /\ chains \in Chains(size)
  /\ \A b \in 0 .. size - 1 :
       /\ NoKeyTwice(chains[b])
       /\ \A i \in 1 .. Len(chains[b]) : Bucket(chains[b][i].key, size) = b

InMap(chains, size, node) == \E b \in 0 .. size - 1 : Has(chains[b], node)

-----------------------------------------------------------------------------
LEMMA BucketIsIndex ==
  ASSUME NEW key \in Keys, NEW size \in Nat \ {0}
  PROVE  Bucket(key, size) \in 0 .. size - 1
<1>1. Hash[key] \in Nat
  BY HashMapAssumption
<1> QED
  BY <1>1 DEF Bucket

LEMMA NodeTypes ==
  ASSUME NEW nodes \in Seq(Node), NEW i \in 1 .. Len(nodes)
  PROVE  nodes[i] \in Node /\ nodes[i].key \in Keys /\ nodes[i].value \in Values
<1>1. nodes[i] \in Node
  BY ElementOfSeq
<1> QED
  BY <1>1 DEF Node

\* Two chains one after the other.
LEMMA TwoChains ==
  ASSUME NEW s \in Seq(Node), NEW t \in Seq(Node)
  PROVE  /\ s \o t \in Seq(Node) /\ Len(s \o t) = Len(s) + Len(t)
         /\ \A node : Has(s \o t, node) <=> Has(s, node) \/ Has(t, node)
         /\ NoKeyTwice(s) /\ NoKeyTwice(t)
            /\ (\A i \in 1 .. Len(s) : Lacks(t, s[i].key)) => NoKeyTwice(s \o t)
<1> DEFINE m == Len(s)
           n == Len(t)
           st == s \o t
<1>1. /\ st \in Seq(Node) /\ m \in Nat /\ n \in Nat /\ Len(st) = m + n
      /\ \A i \in 1 .. m : st[i] = s[i]
      /\ \A i \in m + 1 .. m + n : st[i] = t[i - m]
  <2> HIDE DEF Node
  <2>1. /\ st \in Seq(Node) /\ m \in Nat /\ n \in Nat /\ Len(st) = m + n
        /\ \A i \in 1 .. m + n : st[i] = IF i <= m THEN s[i] ELSE t[i - m]
    BY ConcatProperties
  <2> HIDE DEF st, m, n
  <2> QED
    BY <2>1
<1> HIDE DEF st
<1>2. ASSUME NEW node
      PROVE  Has(st, node) <=> Has(s, node) \/ Has(t, node)
  <2>1. ASSUME Has(st, node) PROVE Has(s, node) \/ Has(t, node)
    <3>1. PICK i \in 1 .. m + n : st[i] = node
      BY <1>1, <2>1 DEF Has
    <3>2. CASE i \in 1 .. m
      BY <1>1, <3>1, <3>2 DEF Has
    <3>3. CASE i \in m + 1 .. m + n
      <4>1. i - m \in 1 .. n /\ t[i - m] = node
        BY <1>1, <3>1, <3>3
      <4> QED
        BY <4>1 DEF Has
    <3> HIDE DEF m, n
    <3> QED
      BY <1>1, <3>2, <3>3
  <2>2. ASSUME NEW i \in 1 .. m, s[i] = node PROVE Has(st, node)
    <3>1. i \in 1 .. m + n
      BY <1>1
    <3> QED
      BY <1>1, <2>2, <3>1 DEF Has
  <2>3. ASSUME NEW i \in 1 .. n, t[i] = node PROVE Has(st, node)
    <3> HIDE DEF m, n
    <3>1. m + i \in m + 1 .. m + n /\ m + i \in 1 .. m + n /\ (m + i) - m = i
      BY <1>1
    <3>2. st[m + i] = node
      BY <1>1, <2>3, <3>1
    <3> QED
      BY <1>1, <3>1, <3>2 DEF Has
  <2> QED
    BY <2>1, <2>2, <2>3 DEF Has
<1>3. ASSUME NoKeyTwice(s), NoKeyTwice(t), \A i \in 1 .. m : Lacks(t, s[i].key)
      PROVE  NoKeyTwice(st)
  <2> SUFFICES ASSUME NEW i \in 1 .. m + n, NEW j \in 1 .. m + n, st[i].key = st[j].key
               PROVE  i = j
    BY <1>1 DEF NoKeyTwice
  <2>0. (i \in 1 .. m \/ i \in m + 1 .. m + n) /\ (j \in 1 .. m \/ j \in m + 1 .. m + n)
    <3> HIDE DEF m, n
    <3> QED
      BY <1>1
  <2>4. ASSUME NEW k \in m + 1 .. m + n PROVE k - m \in 1 .. n
    <3> HIDE DEF m, n
    <3> QED
      BY <1>1
  <2>1. CASE i \in 1 .. m /\ j \in 1 .. m
    BY <1>1, <1>3, <2>1 DEF NoKeyTwice
  <2>2. CASE i \in m + 1 .. m + n /\ j \in m + 1 .. m + n
    <3>1. i - m = j - m
      BY <1>1, <1>3, <2>2, <2>4 DEF NoKeyTwice
    <3> HIDE DEF m, n
    <3> QED
      BY <1>1, <3>1
  <2>3. CASE i \in 1 .. m /\ j \in m + 1 .. m + n
    BY <1>1, <1>3, <2>3, <2>4 DEF Lacks
  <2>5. CASE j \in 1 .. m /\ i \in m + 1 .. m + n
    BY <1>1, <1>3, <2>5, <2>4 DEF Lacks
  <2> QED
    BY <2>0, <2>1, <2>2, <2>3, <2>5
<1> QED
  BY <1>1, <1>2, <1>3 DEF st

\* A chain with a node put in front.
LEMMA NodeInFront ==
  ASSUME NEW node \in Node, NEW chain \in Seq(Node)
  PROVE  /\ <<node>> \o chain \in Seq(Node) /\ Len(<<node>> \o chain) = Len(chain) + 1
         /\ \A x : Has(<<node>> \o chain, x) <=> x = node \/ Has(chain, x)
         /\ NoKeyTwice(chain) /\ Lacks(chain, node.key) => NoKeyTwice(<<node>> \o chain)
         /\ <<node>> \o chain # <<>>
<1>1. <<node>> \in Seq(Node) /\ Len(<<node>>) = 1 /\ <<node>>[1] = node
  <2> HIDE DEF Node
  <2> QED
    OBVIOUS
<1>2. NoKeyTwice(<<node>>) /\ \A x : Has(<<node>>, x) <=> x = node
  BY <1>1 DEF NoKeyTwice, Has
<1>3. Len(chain) \in Nat
  BY LenProperties
<1>4. Len(<<node>> \o chain) = Len(chain) + 1
  BY <1>1, <1>3, TwoChains
<1>5. <<node>> \o chain # <<>>
  BY <1>3, <1>4, EmptySeq
<1>6. Lacks(chain, node.key) => \A i \in 1 .. Len(<<node>>) : Lacks(chain, <<node>>[i].key)
  BY <1>1
<1> QED
  BY <1>1, <1>2, <1>4, <1>5, <1>6, TwoChains

-----------------------------------------------------------------------------
\* The recursion of AllNodes.
LEMMA AllNodesRecursion ==
  ASSUME NEW size \in Nat, NEW chains \in Chains(size)
  PROVE  \E f \in [0 .. size -> Seq(Node)] :
           /\ f[0] = <<>> /\ \A b \in 1 .. size : f[b] = f[b - 1] \o chains[b - 1]
           /\ AllNodes(chains, size) = f[size]
<1> DEFINE D == Seq(Node)
           Body(f, b) == IF b = 0 THEN <<>> ELSE f[b - 1] \o chains[b - 1]
           F == CHOOSE f : f = [b \in 0 .. size |-> Body(f, b)]
           step == [x \in D \X (1 .. size) |-> x[1] \o chains[x[2] - 1]]
<1>1. \A b \in 1 .. size : chains[b - 1] \in D
  <2> SUFFICES ASSUME NEW b \in 1 .. size PROVE chains[b - 1] \in D
    OBVIOUS
  <2>1. b - 1 \in 0 .. size - 1
    OBVIOUS
  <2> QED
    BY <2>1 DEF Chains
<1>2. step \in [D \X (1 .. size) -> D] /\ <<>> \in D
  <2>1. \A x \in D \X (1 .. size) : x[1] \o chains[x[2] - 1] \in D
    BY <1>1, TwoChains
  <2>2. <<>> \in D
    <3> HIDE DEF Node
    <3> QED
      OBVIOUS
  <2> QED
    BY <2>1, <2>2
<1>3. \E f : f = [b \in 0 .. size |-> Body(f, b)]
  <2>1. PICK f \in [0 .. size -> D] :
          f[0] = <<>> /\ \A b \in 1 .. size : f[b] = step[<<f[b - 1], b>>]
    <3> DEFINE empty == <<>>
    <3>1. empty \in D /\ IsStep(step, D, size)
      BY <1>2 DEF IsStep
    <3> HIDE DEF D, step, empty
    <3>2. \E f : Iterates(f, D, size, empty, step)
      BY <3>1, Iteration
    <3> QED
      BY <3>2 DEF empty, Iterates
  <2>2. ASSUME NEW b \in 0 .. size PROVE f[b] = Body(f, b)
    <3>1. CASE b = 0
      BY <2>1, <3>1
    <3>2. CASE b # 0
      <4>1. b \in 1 .. size /\ b - 1 \in 0 .. size
        BY <3>2
      <4>2. <<f[b - 1], b>> \in D \X (1 .. size)
        BY <2>1, <4>1
      <4>3. f[b] = f[b - 1] \o chains[b - 1]
        BY <2>1, <4>1, <4>2
      <4> QED
        BY <3>2, <4>3
    <3> QED
      BY <3>1, <3>2
  <2>3. f = [b \in 0 .. size |-> Body(f, b)]
    <3> HIDE DEF Body, D
    <3> QED
      BY <2>1, <2>2
  <2> QED
    BY <2>3
<1>4. F = [b \in 0 .. size |-> Body(F, b)]
  <2> HIDE DEF Body
  <2> QED
    BY <1>3
<1>5. F[0] = <<>> /\ \A b \in 1 .. size : F[b] = F[b - 1] \o chains[b - 1]
  <2>1. \A b \in 0 .. size : F[b] = Body(F, b)
    <3> HIDE DEF F, Body
    <3> QED
      BY <1>4
  <2> HIDE DEF F
  <2>2. 0 \in 0 .. size /\ \A b \in 1 .. size : b \in 0 .. size /\ b # 0
    OBVIOUS
  <2> QED
    BY <2>1, <2>2
<1>6. \A b \in 0 .. size : F[b] \in D
  <2> DEFINE S == {b \in 0 .. size : F[b] \in D}
  <2> HIDE DEF F
  <2>1. 0 \in S
    <3> HIDE DEF D
    <3> QED
      BY <1>2, <1>5
  <2>2. ASSUME NEW b \in 0 .. size - 1, b \in S PROVE b + 1 \in S
    <3>1. b + 1 \in 1 .. size /\ b + 1 \in 0 .. size /\ (b + 1) - 1 = b
      OBVIOUS
    <3>2. F[b + 1] = F[b] \o chains[b] /\ chains[b] \in D
      BY <1>1, <1>5, <3>1
    <3>3. F[b] \o chains[b] \in D
      BY <2>2, <3>2, TwoChains
    <3> HIDE DEF D
    <3> QED
      BY <3>1, <3>2, <3>3
  <2>3. \A b \in 0 .. size : b \in S
    <3> HIDE DEF S
    <3> QED
      BY <2>1, <2>2, UpTo
  <2> QED
    BY <2>3
<1>7. F \in [0 .. size -> D]
  <2> HIDE DEF F, Body, D
  <2> QED
    BY <1>4, <1>6
<1>8. AllNodes(chains, size) = F[size]
  BY DEF AllNodes
<1> HIDE DEF F
<1> QED
  BY <1>5, <1>7, <1>8

\* The nodes of all chains are the nodes of the map, and no key is among them twice.
LEMMA AllNodesAre ==
  ASSUME NEW size, NEW chains, IsMap(chains, size)
  PROVE  /\ AllNodes(chains, size) \in Seq(Node)
         /\ NoKeyTwice(AllNodes(chains, size))
         /\ \A node : Has(AllNodes(chains, size), node) <=> InMap(chains, size, node)
<1>1. size \in Nat /\ chains \in Chains(size)
  BY DEF IsMap
<1>2. PICK f \in [0 .. size -> Seq(Node)] :
        /\ f[0] = <<>> /\ \A b \in 1 .. size : f[b] = f[b - 1] \o chains[b - 1]
        /\ AllNodes(chains, size) = f[size]
  BY <1>1, AllNodesRecursion
<1> DEFINE Before(b, node) == \E c \in 0 .. b - 1 : Has(chains[c], node)
           P(b) == NoKeyTwice(f[b]) /\ \A node : Has(f[b], node) <=> Before(b, node)
           S == {b \in 0 .. size : P(b)}
<1>3. 0 \in S
  <2>1. Len(f[0]) = 0
    BY <1>2
  <2>2. P(0)
    BY <2>1 DEF NoKeyTwice, Has
  <2> QED
    BY <1>1, <2>2
<1>4. ASSUME NEW b \in 0 .. size - 1, b \in S PROVE b + 1 \in S
  <2>1. /\ b \in 0 .. size /\ b + 1 \in 1 .. size /\ b + 1 \in 0 .. size
        /\ (b + 1) - 1 = b /\ b \in Nat
    BY <1>1
  <2>2. f[b] \in Seq(Node) /\ chains[b] \in Seq(Node) /\ f[b + 1] = f[b] \o chains[b]
    BY <1>1, <1>2, <2>1 DEF Chains
  <2>3. P(b)
    BY <1>4
  <2>4. NoKeyTwice(chains[b])
    BY DEF IsMap
  <2>5. ASSUME NEW i \in 1 .. Len(f[b]) PROVE Lacks(chains[b], f[b][i].key)
    <3>1. PICK c \in 0 .. b - 1 : Has(chains[c], f[b][i])
      BY <2>3 DEF Has
    <3>2. PICK k \in 1 .. Len(chains[c]) : chains[c][k] = f[b][i]
      BY <3>1 DEF Has
    <3>3. c \in 0 .. size - 1 /\ c # b
      BY <1>1, <2>1
    <3>4. Bucket(f[b][i].key, size) = c
      BY <3>2, <3>3 DEF IsMap
    <3>5. \A j \in 1 .. Len(chains[b]) : Bucket(chains[b][j].key, size) = b
      BY DEF IsMap
    <3> QED
      BY <3>3, <3>4, <3>5 DEF Lacks
  <2>6. NoKeyTwice(f[b + 1])
    <3>1. NoKeyTwice(f[b])
      BY <2>3
    <3>2. NoKeyTwice(f[b] \o chains[b])
      BY <2>2, <2>4, <2>5, <3>1, TwoChains
    <3> QED
      BY <2>2, <3>2
  <2>7. \A node : Has(f[b + 1], node) <=> Has(f[b], node) \/ Has(chains[b], node)
    BY <2>2, TwoChains
  <2>8. \A node : Before(b + 1, node) <=> Before(b, node) \/ Has(chains[b], node)
    <3>1. \A c : c \in 0 .. (b + 1) - 1 <=> c \in 0 .. b - 1 \/ c = b
      BY <2>1
    <3> QED
      BY <3>1
  <2>9. P(b + 1)
    <3> HIDE DEF Before
    <3> QED
      BY <2>3, <2>6, <2>7, <2>8
  <2> QED
    BY <2>1, <2>9
<1>5. size \in S
  <2>1. \A b \in 0 .. size : b \in S
    <3> HIDE DEF S
    <3> QED
      BY <1>1, <1>3, <1>4, UpTo
  <2>2. size \in 0 .. size
    BY <1>1
  <2> HIDE DEF S
  <2> QED
    BY <2>1, <2>2
<1> QED
  BY <1>1, <1>2, <1>5 DEF InMap

\* When one chain gets d nodes longer there are d more nodes.
LEMMA AllNodesCount ==
  ASSUME NEW size \in Nat, NEW chains \in Chains(size), NEW longer \in Chains(size),
         NEW bucket \in 0 .. size - 1, NEW d \in Nat,
         Len(longer[bucket]) = Len(chains[bucket]) + d,
         \A b \in 0 .. size - 1 : b # bucket => Len(longer[b]) = Len(chains[b])
  PROVE  Len(AllNodes(longer, size)) = Len(AllNodes(chains, size)) + d
<1>1. PICK f \in [0 .. size -> Seq(Node)] :
        /\ f[0] = <<>> /\ \A b \in 1 .. size : f[b] = f[b - 1] \o chains[b - 1]
        /\ AllNodes(chains, size) = f[size]
  BY AllNodesRecursion
<1>2. PICK g \in [0 .. size -> Seq(Node)] :
        /\ g[0] = <<>> /\ \A b \in 1 .. size : g[b] = g[b - 1] \o longer[b - 1]
        /\ AllNodes(longer, size) = g[size]
  BY AllNodesRecursion
<1> DEFINE P(b) == Len(g[b]) = Len(f[b]) + IF b <= bucket THEN 0 ELSE d
           S == {b \in 0 .. size : P(b)}
<1>3. 0 \in S
  <2>1. f[0] = <<>> /\ g[0] = <<>> /\ 0 <= bucket
    BY <1>1, <1>2
  <2>2. Len(f[0]) = 0 /\ Len(g[0]) = 0
    BY <2>1
  <2> QED
    BY <2>1, <2>2
<1>4. ASSUME NEW b \in 0 .. size - 1, b \in S PROVE b + 1 \in S
  <2>1. /\ b \in 0 .. size /\ b + 1 \in 1 .. size /\ b + 1 \in 0 .. size
        /\ (b + 1) - 1 = b /\ b \in Int /\ bucket \in Int
    OBVIOUS
  <2>2. /\ f[b] \in Seq(Node) /\ chains[b] \in Seq(Node) /\ f[b + 1] = f[b] \o chains[b]
        /\ g[b] \in Seq(Node) /\ longer[b] \in Seq(Node) /\ g[b + 1] = g[b] \o longer[b]
    BY <1>1, <1>2, <2>1 DEF Chains
  <2>3. /\ Len(f[b + 1]) = Len(f[b]) + Len(chains[b])
        /\ Len(g[b + 1]) = Len(g[b]) + Len(longer[b])
    BY <2>2, TwoChains
  <2>4. /\ Len(f[b]) \in Nat /\ Len(g[b]) \in Nat /\ Len(chains[b]) \in Nat
        /\ Len(longer[b]) \in Nat
    BY <2>2, LenProperties
  <2>5. Len(longer[b]) = Len(chains[b]) + IF b = bucket THEN d ELSE 0
    <3>1. CASE b = bucket
      BY <3>1
    <3>2. CASE b # bucket
      BY <2>4, <3>2
    <3> QED
      BY <3>1, <3>2
  <2>6. P(b)
    BY <1>4
  <2>7. P(b + 1)
    <3> DEFINE F == Len(f[b])
               G == Len(g[b])
               L == Len(chains[b])
               M == Len(longer[b])
    <3>1. /\ F \in Nat /\ G \in Nat /\ L \in Nat /\ M \in Nat
          /\ G = F + (IF b <= bucket THEN 0 ELSE d) /\ M = L + (IF b = bucket THEN d ELSE 0)
      BY <2>4, <2>5, <2>6
    <3>2. b < bucket \/ b = bucket \/ b > bucket
      BY <2>1
    <3>3. G + M = F + L + (IF b + 1 <= bucket THEN 0 ELSE d)
      <4> HIDE DEF F, G, L, M
      <4> QED
        BY <2>1, <3>1, <3>2
    <3> QED
      BY <2>3, <3>3
  <2> QED
    BY <2>1, <2>7
<1>5. size \in S
  <2>1. \A b \in 0 .. size : b \in S
    <3> HIDE DEF S
    <3> QED
      BY <1>3, <1>4, UpTo
  <2>2. size \in 0 .. size
    OBVIOUS
  <2> HIDE DEF S
  <2> QED
    BY <2>1, <2>2
<1>6. ~(size <= bucket)
  OBVIOUS
<1> QED
  BY <1>1, <1>2, <1>5, <1>6

-----------------------------------------------------------------------------
\* What a node put in front of its chain does to the map.
LEMMA PutInMap ==
  ASSUME NEW size, NEW chains, NEW used, NEW node \in Node,
         IsMap(chains, size), used = UsedBuckets(chains),
         Lacks(chains[Bucket(node.key, size)], node.key),
         NEW array, array = Put([chains |-> chains, used |-> used], node, size)
  PROVE  /\ array = [chains |-> array.chains, used |-> array.used]
         /\ IsMap(array.chains, size) /\ array.used = UsedBuckets(array.chains)
         /\ array.used \in Nat
         /\ Len(AllNodes(array.chains, size)) = Len(AllNodes(chains, size)) + 1
         /\ \A x : InMap(array.chains, size, x) <=> x = node \/ InMap(chains, size, x)
<1> DEFINE bucket == Bucket(node.key, size)
           new == [chains EXCEPT ![bucket] = <<node>> \o chains[bucket]]
<1>1. /\ array = [chains |-> new, used |-> UsedAfter(used, chains[bucket])]
      /\ array.chains = new /\ array.used = UsedAfter(used, chains[bucket])
  BY DEF Put
<1>2. size \in Nat \ {0} /\ chains \in Chains(size) /\ bucket \in 0 .. size - 1
  BY BucketIsIndex DEF IsMap, Node
<1>3. \A b \in 0 .. size - 1 : chains[b] \in Seq(Node)
  BY <1>2 DEF Chains
<1> HIDE DEF bucket
<1>4. /\ <<node>> \o chains[bucket] \in Seq(Node)
      /\ Len(<<node>> \o chains[bucket]) = Len(chains[bucket]) + 1
      /\ \A x : Has(<<node>> \o chains[bucket], x) <=> x = node \/ Has(chains[bucket], x)
      /\ NoKeyTwice(<<node>> \o chains[bucket])
      /\ <<node>> \o chains[bucket] # <<>>
  BY <1>2, <1>3, NodeInFront DEF IsMap, bucket
<1>5. /\ new \in Chains(size) /\ new[bucket] = <<node>> \o chains[bucket]
      /\ \A b \in 0 .. size - 1 : b # bucket => new[b] = chains[b]
      /\ DOMAIN new = 0 .. size - 1 /\ DOMAIN chains = 0 .. size - 1
  BY <1>2, <1>4 DEF Chains
<1> HIDE DEF new
<1>6. IsMap(new, size)
  <2> SUFFICES ASSUME NEW b \in 0 .. size - 1
               PROVE  /\ NoKeyTwice(new[b])
                      /\ \A i \in 1 .. Len(new[b]) : Bucket(new[b][i].key, size) = b
    BY <1>2, <1>5 DEF IsMap
  <2>1. NoKeyTwice(new[b])
    BY <1>4, <1>5 DEF IsMap
  <2>2. ASSUME NEW i \in 1 .. Len(new[b]) PROVE Bucket(new[b][i].key, size) = b
    <3>1. CASE b # bucket
      BY <1>5, <2>2, <3>1 DEF IsMap
    <3>2. CASE b = bucket
      <4>1. Has(<<node>> \o chains[bucket], new[b][i])
        BY <1>5, <2>2, <3>2 DEF Has
      <4>2. new[b][i] = node \/ Has(chains[bucket], new[b][i])
        BY <1>4, <4>1
      <4>3. CASE new[b][i] = node
        BY <3>2, <4>3 DEF bucket
      <4>4. CASE Has(chains[bucket], new[b][i])
        <5>1. PICK k \in 1 .. Len(chains[bucket]) : chains[bucket][k] = new[b][i]
          BY <4>4 DEF Has
        <5>2. Bucket(chains[bucket][k].key, size) = bucket
          BY <1>2 DEF IsMap
        <5> QED
          BY <3>2, <5>1, <5>2
      <4> QED
        BY <4>2, <4>3, <4>4
    <3> QED
      BY <3>1, <3>2
  <2> QED
    BY <2>1, <2>2
<1>7. Len(AllNodes(new, size)) = Len(AllNodes(chains, size)) + 1
  <2>1. /\ size \in Nat /\ 1 \in Nat /\ Len(new[bucket]) = Len(chains[bucket]) + 1
        /\ \A b \in 0 .. size - 1 : b # bucket => Len(new[b]) = Len(chains[b])
    BY <1>2, <1>4, <1>5
  <2> QED
    BY <1>2, <1>5, <2>1, AllNodesCount
<1>8. \A x : InMap(new, size, x) <=> x = node \/ InMap(chains, size, x)
  <2> SUFFICES ASSUME NEW x
               PROVE  InMap(new, size, x) <=> x = node \/ InMap(chains, size, x)
    OBVIOUS
  <2>1. Has(new[bucket], x) <=> x = node \/ Has(chains[bucket], x)
    BY <1>4, <1>5
  <2>2. \A b \in 0 .. size - 1 : b # bucket => (Has(new[b], x) <=> Has(chains[b], x))
    BY <1>5
  <2> QED
    BY <1>2, <2>1, <2>2 DEF InMap
<1>9. UsedBuckets(new) = UsedAfter(used, chains[bucket]) /\ UsedBuckets(new) \in Nat
  <2> DEFINE U == {b \in DOMAIN chains : chains[b] # <<>>}
             V == {b \in DOMAIN new : new[b] # <<>>}
  <2>1. IsFiniteSet(U)
    <3>1. U \subseteq 0 .. size - 1
      BY <1>5
    <3>2. IsFiniteSet(0 .. size - 1)
      BY <1>2, FS_Interval
    <3> QED
      BY <3>1, <3>2, FS_Subset
  <2>2. V = U \cup {bucket}
    BY <1>2, <1>4, <1>5
  <2>3. bucket \in U <=> chains[bucket] # <<>>
    BY <1>2, <1>5
  <2> HIDE DEF U, V
  <2>4. Cardinality(V) = IF bucket \in U THEN Cardinality(U) ELSE Cardinality(U) + 1
    BY <2>1, <2>2, FS_AddElement
  <2>5. Cardinality(U) \in Nat
    BY <2>1, FS_CardinalityType
  <2> QED
    BY <2>3, <2>4, <2>5 DEF UsedBuckets, UsedAfter, U, V
<1> QED
  BY <1>1, <1>6, <1>7, <1>8, <1>9

-----------------------------------------------------------------------------
Arrays(size) == [chains : Chains(size), used : Nat]

LEMMA PutType ==
  ASSUME NEW size \in Nat \ {0}, NEW array \in Arrays(size), NEW node \in Node
  PROVE  Put(array, node, size) \in Arrays(size)
<1> DEFINE bucket == Bucket(node.key, size)
           new == [array.chains EXCEPT ![bucket] = <<node>> \o array.chains[bucket]]
<1>1. bucket \in 0 .. size - 1
  BY BucketIsIndex DEF Node
<1>2. array.chains \in Chains(size) /\ array.used \in Nat
  BY DEF Arrays
<1> HIDE DEF bucket
<1>3. array.chains[bucket] \in Seq(Node)
  BY <1>1, <1>2 DEF Chains
<1>4. <<node>> \o array.chains[bucket] \in Seq(Node)
  BY <1>3, NodeInFront
<1>5. new \in Chains(size)
  BY <1>2, <1>4 DEF Chains
<1>6. UsedAfter(array.used, array.chains[bucket]) \in Nat
  BY <1>2 DEF UsedAfter
<1> HIDE DEF new
<1>7. [chains |-> new, used |-> UsedAfter(array.used, array.chains[bucket])] \in Arrays(size)
  BY <1>5, <1>6 DEF Arrays
<1>8. Put(array, node, size) =
        [chains |-> new, used |-> UsedAfter(array.used, array.chains[bucket])]
  BY DEF Put, new, bucket
<1> QED
  BY <1>7, <1>8

LEMMA NoBucketsIsMap ==
  ASSUME NEW size \in Nat \ {0}
  PROVE  /\ IsMap(NoBuckets(size), size) /\ UsedBuckets(NoBuckets(size)) = 0
         /\ Len(AllNodes(NoBuckets(size), size)) = 0
         /\ \A x : ~ InMap(NoBuckets(size), size, x)
         /\ [chains |-> NoBuckets(size), used |-> 0] \in Arrays(size)
<1> DEFINE chains == NoBuckets(size)
<1>1. /\ chains \in Chains(size) /\ DOMAIN chains = 0 .. size - 1
      /\ \A b \in 0 .. size - 1 : chains[b] = <<>>
  <2>1. <<>> \in Seq(Node)
    <3> HIDE DEF Node
    <3> QED
      OBVIOUS
  <2> QED
    BY <2>1 DEF NoBuckets, Chains
<1>2. \A b \in 0 .. size - 1 : Len(chains[b]) = 0
  <2>1. Len(<<>>) = 0
    OBVIOUS
  <2> QED
    BY <1>1, <2>1
<1> HIDE DEF chains
<1>3. IsMap(chains, size)
  BY <1>1, <1>2 DEF IsMap, NoKeyTwice
<1>4. UsedBuckets(chains) = 0
  <2>1. {b \in DOMAIN chains : chains[b] # <<>>} = {}
    BY <1>1
  <2> QED
    BY <2>1, FS_EmptySet DEF UsedBuckets
<1>5. \A x : ~ InMap(chains, size, x)
  BY <1>2 DEF InMap, Has
<1>6. Len(AllNodes(chains, size)) = 0
  <2> DEFINE all == AllNodes(chains, size)
  <2>1. all \in Seq(Node) /\ \A node : ~ Has(all, node)
    BY <1>3, <1>5, AllNodesAre
  <2> HIDE DEF all
  <2>2. Len(all) \in Nat /\ 1 \notin 1 .. Len(all)
    BY <2>1, LenProperties DEF Has
  <2>3. Len(all) = 0
    <3> DEFINE n == Len(all)
    <3>1. n \in Nat /\ 1 \notin 1 .. n
      BY <2>2
    <3> HIDE DEF n
    <3>2. n = 0
      BY <3>1
    <3> QED
      BY <3>2 DEF n
  <2> QED
    BY <2>3 DEF all
<1>7. [chains |-> chains, used |-> 0] \in Arrays(size)
  BY <1>1 DEF Arrays
<1> QED
  BY <1>3, <1>4, <1>5, <1>6, <1>7 DEF chains

\* The recursion of Rehashed.
LEMMA RehashedRecursion ==
  ASSUME NEW nodes \in Seq(Node), NEW size \in Nat \ {0}
  PROVE  \E f : /\ f[0] = [chains |-> NoBuckets(size), used |-> 0]
                /\ \A n \in 1 .. Len(nodes) : f[n] = Put(f[n - 1], nodes[n], size)
                /\ Rehashed(nodes, size) = f[Len(nodes)]
<1> DEFINE D == Arrays(size)
           start == [chains |-> NoBuckets(size), used |-> 0]
           count == Len(nodes)
           Body(f, n) == IF n = 0 THEN start ELSE Put(f[n - 1], nodes[n], size)
           F == CHOOSE f : f = [n \in 0 .. count |-> Body(f, n)]
           step == [x \in D \X (1 .. count) |-> Put(x[1], nodes[x[2]], size)]
<1>1. count \in Nat /\ start \in D
  BY LenProperties, NoBucketsIsMap
<1>2. IsStep(step, D, count)
  <2>1. \A x \in D \X (1 .. count) : Put(x[1], nodes[x[2]], size) \in D
    <3> SUFFICES ASSUME NEW x \in D \X (1 .. count)
                 PROVE  Put(x[1], nodes[x[2]], size) \in D
      OBVIOUS
    <3>1. x[1] \in D /\ x[2] \in 1 .. count
      OBVIOUS
    <3>2. nodes[x[2]] \in Node
      BY <3>1, NodeTypes
    <3> QED
      BY <3>1, <3>2, PutType
  <2> HIDE DEF D
  <2> QED
    BY <2>1 DEF IsStep
<1>3. \E f : f = [n \in 0 .. count |-> Body(f, n)]
  <2>1. PICK f : Iterates(f, D, count, start, step)
    <3> HIDE DEF D, start, count, step
    <3> QED
      BY <1>1, <1>2, Iteration
  <2>2. /\ f \in [0 .. count -> D] /\ f[0] = start
        /\ \A n \in 1 .. count : f[n] = step[<<f[n - 1], n>>]
    <3> HIDE DEF D, start, count, step
    <3> QED
      BY <2>1 DEF Iterates
  <2>3. ASSUME NEW n \in 0 .. count PROVE f[n] = Body(f, n)
    <3>1. CASE n = 0
      BY <2>2, <3>1
    <3>2. CASE n # 0
      <4>1. n \in 1 .. count /\ n - 1 \in 0 .. count
        <5> HIDE DEF count
        <5> QED
          BY <1>1, <3>2
      <4>2. <<f[n - 1], n>> \in D \X (1 .. count)
        BY <2>2, <4>1
      <4>3. f[n] = Put(f[n - 1], nodes[n], size)
        <5>1. f[n] = step[<<f[n - 1], n>>]
          BY <2>2, <4>1
        <5>2. step[<<f[n - 1], n>>] = Put(f[n - 1], nodes[n], size)
          BY <4>2
        <5> QED
          BY <5>1, <5>2
      <4> QED
        BY <3>2, <4>3
    <3> QED
      BY <3>1, <3>2
  <2>4. f = [n \in 0 .. count |-> Body(f, n)]
    <3> HIDE DEF Body, D, start, count, step
    <3> QED
      BY <2>2, <2>3
  <2> QED
    BY <2>4
<1>4. F = [n \in 0 .. count |-> Body(F, n)]
  <2> HIDE DEF Body, count
  <2> QED
    BY <1>3
<1>5. F[0] = start /\ \A n \in 1 .. count : F[n] = Put(F[n - 1], nodes[n], size)
  <2>1. \A n \in 0 .. count : F[n] = Body(F, n)
    <3> HIDE DEF F, Body, count
    <3> QED
      BY <1>4
  <2> HIDE DEF F, start, count
  <2>2. 0 \in 0 .. count /\ \A n \in 1 .. count : n \in 0 .. count /\ n # 0
    BY <1>1
  <2> QED
    BY <2>1, <2>2
<1>6. Rehashed(nodes, size) = F[count]
  BY DEF Rehashed
<1> HIDE DEF F
<1> QED
  BY <1>5, <1>6

\* Growing loses no node and keeps the counter of used buckets true.
LEMMA RehashedIsMap ==
  ASSUME NEW nodes \in Seq(Node), NoKeyTwice(nodes), NEW size \in Nat \ {0},
         NEW array, array = Rehashed(nodes, size)
  PROVE  /\ IsMap(array.chains, size) /\ array.used = UsedBuckets(array.chains)
         /\ array.used \in Nat
         /\ Len(AllNodes(array.chains, size)) = Len(nodes)
         /\ \A x : InMap(array.chains, size, x) <=> Has(nodes, x)
<1> DEFINE count == Len(nodes)
<1>1. PICK f : /\ f[0] = [chains |-> NoBuckets(size), used |-> 0]
               /\ \A n \in 1 .. count : f[n] = Put(f[n - 1], nodes[n], size)
               /\ array = f[count]
  BY RehashedRecursion
<1> DEFINE Moved(n, x) == \E i \in 1 .. n : nodes[i] = x
           P(n) == /\ f[n] = [chains |-> f[n].chains, used |-> f[n].used]
                   /\ IsMap(f[n].chains, size) /\ f[n].used = UsedBuckets(f[n].chains)
                   /\ f[n].used \in Nat
                   /\ Len(AllNodes(f[n].chains, size)) = n
                   /\ \A x : InMap(f[n].chains, size, x) <=> Moved(n, x)
           S == {n \in 0 .. count : P(n)}
<1>2. count \in Nat
  BY LenProperties
<1>3. 0 \in S
  <2>1. f[0].chains = NoBuckets(size) /\ f[0].used = 0
    BY <1>1
  <2>2. P(0)
    <3>1. \A x : ~ Moved(0, x)
      OBVIOUS
    <3>2. f[0] = [chains |-> f[0].chains, used |-> f[0].used]
      BY <1>1, <2>1
    <3>3. /\ IsMap(f[0].chains, size) /\ UsedBuckets(f[0].chains) = 0
          /\ Len(AllNodes(f[0].chains, size)) = 0
          /\ \A x : ~ InMap(f[0].chains, size, x)
      BY <2>1, NoBucketsIsMap
    <3>4. f[0].used = UsedBuckets(f[0].chains) /\ f[0].used \in Nat
      BY <2>1, <3>3
    <3> HIDE DEF Moved
    <3> QED
      BY <3>1, <3>2, <3>3, <3>4
  <2> HIDE DEF P, count
  <2> QED
    BY <1>2, <2>2
<1>4. ASSUME NEW n \in 0 .. count - 1, n \in S PROVE n + 1 \in S
  <2>1. /\ n \in 0 .. count /\ n + 1 \in 1 .. count /\ n + 1 \in 0 .. count
        /\ (n + 1) - 1 = n /\ n \in Nat
    <3> HIDE DEF count
    <3> QED
      BY <1>2
  <2>2. P(n)
    BY <1>4
  <2> DEFINE node == nodes[n + 1]
             chains == f[n].chains
             used == f[n].used
  <2>3. node \in Node /\ node.key \in Keys
    BY <2>1, NodeTypes
  <2>4. f[n + 1] = Put([chains |-> chains, used |-> used], node, size)
    <3>1. f[n + 1] = Put(f[n], node, size)
      BY <1>1, <2>1
    <3>2. f[n] = [chains |-> chains, used |-> used]
      BY <2>2
    <3> QED
      BY <3>1, <3>2
  <2>5. Lacks(chains[Bucket(node.key, size)], node.key)
    <3> SUFFICES ASSUME NEW i \in 1 .. Len(chains[Bucket(node.key, size)]),
                        chains[Bucket(node.key, size)][i].key = node.key
                 PROVE  FALSE
      BY DEF Lacks
    <3> DEFINE x == chains[Bucket(node.key, size)][i]
    <3>1. InMap(chains, size, x)
      BY <2>3, BucketIsIndex DEF InMap, Has
    <3>2. PICK k \in 1 .. n : nodes[k] = x
      <4> HIDE DEF x
      <4> QED
        BY <2>2, <3>1
    <3>3. k \in 1 .. count /\ k # n + 1
      <4> HIDE DEF count
      <4> QED
        BY <1>2, <2>1
    <3>4. nodes[k].key = nodes[n + 1].key
      BY <3>2
    <3> QED
      BY <2>1, <3>3, <3>4 DEF NoKeyTwice
  <2>6. /\ f[n + 1] = [chains |-> f[n + 1].chains, used |-> f[n + 1].used]
        /\ IsMap(f[n + 1].chains, size) /\ f[n + 1].used = UsedBuckets(f[n + 1].chains)
        /\ f[n + 1].used \in Nat
        /\ Len(AllNodes(f[n + 1].chains, size)) = Len(AllNodes(chains, size)) + 1
        /\ \A x : InMap(f[n + 1].chains, size, x) <=> x = node \/ InMap(chains, size, x)
    <3>1. IsMap(chains, size) /\ used = UsedBuckets(chains)
      BY <2>2
    <3> HIDE DEF chains, used, node
    <3> QED
      BY <2>3, <2>4, <2>5, <3>1, PutInMap
  <2>7. \A x : Moved(n + 1, x) <=> x = node \/ Moved(n, x)
    <3>1. \A i : i \in 1 .. n + 1 <=> i \in 1 .. n \/ i = n + 1
      BY <2>1
    <3> QED
      BY <3>1
  <2>8. P(n + 1)
    <3> HIDE DEF Moved, node
    <3> QED
      BY <2>2, <2>6, <2>7
  <2> HIDE DEF P, count
  <2> QED
    BY <2>1, <2>8
<1>5. P(count)
  <2>1. \A n \in 0 .. count : n \in S
    <3> HIDE DEF S, count
    <3> QED
      BY <1>2, <1>3, <1>4, UpTo
  <2>2. count \in 0 .. count
    <3> HIDE DEF count
    <3> QED
      BY <1>2
  <2>3. count \in S
    <3> HIDE DEF S
    <3> QED
      BY <2>1, <2>2
  <2> HIDE DEF P, count
  <2> QED
    BY <2>3
<1> QED
  BY <1>1, <1>5 DEF Has

-----------------------------------------------------------------------------
\* While the map can be used it is one, and its counters are true; a freed map is
\* empty.
MapInv ==
  /\ map_status \in {"open", "freed", "exited"}
  /\ map_status = "freed" =>
       buckets_capacity = 0 /\ data = NoBuckets(0) /\ buckets_used = 0 /\ element_count = 0
  /\ map_status # "freed" =>
       /\ IsMap(data, buckets_capacity)
       /\ buckets_used = UsedBuckets(data) /\ buckets_used \in Nat
       /\ element_count = Len(AllNodes(data, buckets_capacity))

LEMMA MapInitInv == MapInit => MapInv
<1> SUFFICES ASSUME MapInit PROVE MapInv
  OBVIOUS
<1>1. InitialCapacity \in Nat \ {0}
  BY HashMapAssumption
<1> QED
  BY <1>1, NoBucketsIsMap DEF MapInit, MapInv

LEMMA ConsistentFromMapInv == MapInv => ChainsConsistent
<1> SUFFICES ASSUME MapInv PROVE ChainsConsistent
  OBVIOUS
<1>1. CASE map_status # "freed"
  <2>1. IsMap(data, buckets_capacity)
    BY <1>1 DEF MapInv
  <2>2. DOMAIN data = 0 .. buckets_capacity - 1
    BY <2>1 DEF IsMap, Chains
  <2>3. \A b \in DOMAIN data : \A i \in 1 .. Len(data[b]) :
          Bucket(data[b][i].key, buckets_capacity) = b
    BY <2>1, <2>2 DEF IsMap
  <2>4. \A b \in DOMAIN data : \A i, j \in 1 .. Len(data[b]) :
          data[b][i].key = data[b][j].key => i = j
    BY <2>1, <2>2 DEF IsMap, NoKeyTwice
  <2> QED
    BY <1>1, <2>2, <2>3, <2>4 DEF MapInv, ChainsConsistent
<1>2. CASE map_status = "freed"
  <2>1. buckets_capacity = 0 /\ data = NoBuckets(0) /\ buckets_used = 0 /\ element_count = 0
    BY <1>2 DEF MapInv
  <2>2. DOMAIN data = 0 .. buckets_capacity - 1 /\ DOMAIN data = {}
    BY <2>1 DEF NoBuckets
  <2>3. UsedBuckets(data) = 0
    <3>1. {b \in DOMAIN data : data[b] # <<>>} = {}
      BY <2>2
    <3> QED
      BY <3>1, FS_EmptySet DEF UsedBuckets
  <2>4. Len(AllNodes(data, buckets_capacity)) = 0
    <3>1. data \in Chains(0)
      BY <2>1 DEF NoBuckets, Chains
    <3>2. AllNodes(data, 0) = <<>>
      BY <3>1, AllNodesRecursion
    <3> QED
      BY <2>1, <3>2
  <2> QED
    BY <2>1, <2>2, <2>3, <2>4 DEF ChainsConsistent
<1> QED
  BY <1>1, <1>2

-----------------------------------------------------------------------------
Pair(k, v) == [key |-> k, value |-> v]

\* What is looked up is what the map holds, and it holds at most one value of a key.
LookupExact ==
  map_status # "freed" =>
    \A k \in Keys :
      /\ Lookup(k) \in Values \cup {NoValue}
      /\ \A v \in Values : Lookup(k) = v <=> InMap(data, buckets_capacity, Pair(k, v))
      /\ Places(k) = {} <=> Lookup(k) = NoValue

LEMMA LookupFromMapInv == MapInv => LookupExact
<1> SUFFICES ASSUME MapInv, map_status # "freed", NEW k \in Keys
             PROVE  /\ Lookup(k) \in Values \cup {NoValue}
                    /\ \A v \in Values :
                         Lookup(k) = v <=> InMap(data, buckets_capacity, Pair(k, v))
                    /\ Places(k) = {} <=> Lookup(k) = NoValue
  BY DEF LookupExact
<1> DEFINE bucket == Bucket(k, buckets_capacity)
           chain == data[bucket]
<1>1. IsMap(data, buckets_capacity)
  BY DEF MapInv
<1>2. bucket \in 0 .. buckets_capacity - 1 /\ chain \in Seq(Node) /\ NoKeyTwice(chain)
  <2>1. bucket \in 0 .. buckets_capacity - 1
    BY <1>1, BucketIsIndex DEF IsMap
  <2> HIDE DEF bucket
  <2> QED
    BY <1>1, <2>1 DEF IsMap, Chains
<1>3. \A v : InMap(data, buckets_capacity, Pair(k, v)) <=> Has(chain, Pair(k, v))
  <2> SUFFICES ASSUME NEW v, InMap(data, buckets_capacity, Pair(k, v))
               PROVE  Has(chain, Pair(k, v))
    BY <1>2 DEF InMap
  <2>1. PICK b \in 0 .. buckets_capacity - 1 : Has(data[b], Pair(k, v))
    BY DEF InMap
  <2>2. PICK i \in 1 .. Len(data[b]) : data[b][i] = Pair(k, v)
    BY <2>1 DEF Has
  <2>3. data[b][i].key = k
    BY <2>2 DEF Pair
  <2>4. Bucket(k, buckets_capacity) = b
    BY <1>1, <2>3 DEF IsMap
  <2> QED
    BY <2>1, <2>4
<1>4. Places(k) = {i \in 1 .. Len(chain) : chain[i].key = k}
  BY DEF Places
<1> HIDE DEF chain, bucket
<1>5. CASE Places(k) = {}
  <2>1. Lookup(k) = NoValue
    BY <1>5 DEF Lookup
  <2>2. \A v \in Values : ~ Has(chain, Pair(k, v))
    BY <1>4, <1>5 DEF Has, Pair
  <2> QED
    BY <1>3, <1>5, <2>1, <2>2, HashMapAssumption
<1>6. CASE Places(k) # {}
  <2> DEFINE i == CHOOSE i \in Places(k) : TRUE
  <2>1. i \in Places(k) /\ Lookup(k) = chain[i].value
    BY <1>6 DEF Lookup, chain, bucket
  <2> HIDE DEF i
  <2>2. i \in 1 .. Len(chain) /\ chain[i].key = k
    BY <1>4, <2>1
  <2>3. chain[i] \in Node
    BY <1>2, <2>2, NodeTypes
  <2>4. Lookup(k) \in Values /\ Lookup(k) # NoValue /\ chain[i] = Pair(k, Lookup(k))
    BY <2>1, <2>2, <2>3, HashMapAssumption DEF Node, Pair
  <2>5. \A v \in Values : Lookup(k) = v => Has(chain, Pair(k, v))
    BY <2>2, <2>4 DEF Has
  <2>6. ASSUME NEW v \in Values, Has(chain, Pair(k, v)) PROVE Lookup(k) = v
    <3>1. PICK j \in 1 .. Len(chain) : chain[j] = Pair(k, v)
      BY <2>6 DEF Has
    <3>2. chain[j].key = k /\ chain[j].value = v
      BY <3>1 DEF Pair
    <3>3. j = i
      BY <1>2, <2>2, <3>2 DEF NoKeyTwice
    <3> QED
      BY <2>1, <3>2, <3>3
  <2> QED
    BY <1>3, <1>6, <2>4, <2>5, <2>6
<1> QED
  BY <1>5, <1>6

LEMMA GrowCapacityType ==
  ASSUME NEW size \in Nat \ {0}
  PROVE  GrowCapacity(size) \in Nat \ {0}
<1>1. MinCapacity \in Nat \ {0} /\ SizeMax \in Nat \ {0}
  BY HashMapAssumption
<1> QED
  BY <1>1 DEF GrowCapacity

\* What a call of hash_map_set leaves: the pair, and every pair of another key.
SetKeeps(k, v) ==
  \A x \in Node : InMap(data', buckets_capacity', x)
                    <=> x = Pair(k, v) \/ (InMap(data, buckets_capacity, x) /\ x.key # k)

LEMMA InsertKeeps ==
  ASSUME MapInv, NEW k \in Keys, NEW v \in Values, map_status = "open", Places(k) = {},
         Insert(k, v)
  PROVE  MapInv' /\ (map_status' = "open" => SetKeeps(k, v))
<1> DEFINE bucket == Bucket(k, buckets_capacity)
           node == Pair(k, v)
           first == Put([chains |-> data, used |-> buckets_used], node, buckets_capacity)
           all == AllNodes(first.chains, buckets_capacity)
           size == GrowCapacity(buckets_capacity)
           array == Rehashed(all, size)
<1>1. /\ IsMap(data, buckets_capacity) /\ buckets_used = UsedBuckets(data)
      /\ element_count = Len(AllNodes(data, buckets_capacity))
      /\ buckets_capacity \in Nat \ {0}
  BY DEF MapInv, IsMap
<1>2. node \in Node /\ node.key = k
  BY DEF Node, Pair
<1>3. Lacks(data[bucket], k)
  BY DEF Places, Lacks
<1>4. /\ IsMap(first.chains, buckets_capacity) /\ first.used = UsedBuckets(first.chains)
      /\ first.used \in Nat
      /\ Len(all) = element_count + 1
      /\ \A x : InMap(first.chains, buckets_capacity, x)
                  <=> x = node \/ InMap(data, buckets_capacity, x)
  <2> HIDE DEF node, first
  <2>1. first = Put([chains |-> data, used |-> buckets_used], node, buckets_capacity)
    BY DEF first
  <2>2. Lacks(data[Bucket(node.key, buckets_capacity)], node.key)
    BY <1>2, <1>3
  <2> QED
    BY <1>1, <1>2, <2>1, <2>2, PutInMap
<1>5. \A x \in Node : InMap(data, buckets_capacity, x) => x.key # k
  <2> SUFFICES ASSUME NEW x \in Node, InMap(data, buckets_capacity, x), x.key = k
               PROVE  FALSE
    OBVIOUS
  <2>1. x = Pair(k, x.value) /\ x.value \in Values
    BY DEF Node, Pair
  <2>2. Lookup(k) = NoValue
    BY LookupFromMapInv DEF LookupExact
  <2>3. Lookup(k) = x.value
    BY <2>1, LookupFromMapInv DEF LookupExact
  <2> QED
    BY <2>1, <2>2, <2>3, HashMapAssumption
<1>6. element_count \in Nat
  <2>1. AllNodes(data, buckets_capacity) \in Seq(Node)
    BY <1>1, AllNodesAre
  <2> QED
    BY <1>1, <2>1, LenProperties
<1>7. CASE first.used * LoadDenominator >= buckets_capacity * LoadNumerator
  <2>1. Grow(first.chains, k, v)
    BY <1>7 DEF Insert, Pair
  <2>2. size \in Nat \ {0}
    BY <1>1, GrowCapacityType
  <2>3. CASE size = SizeMax
    <3>1. /\ map_status' = "exited" /\ data' = data /\ buckets_used' = buckets_used
          /\ buckets_capacity' = buckets_capacity /\ element_count' = element_count
      BY <2>1, <2>3 DEF Grow
    <3> QED
      BY <3>1 DEF MapInv
  <2>4. CASE size # SizeMax
    <3>1. /\ data' = array.chains /\ buckets_used' = array.used
          /\ buckets_capacity' = size /\ element_count' = element_count + 1
          /\ map_status' = map_status
      BY <2>1, <2>4 DEF Grow
    <3>2. /\ all \in Seq(Node) /\ NoKeyTwice(all)
          /\ \A x : Has(all, x) <=> InMap(first.chains, buckets_capacity, x)
      <4> HIDE DEF first
      <4> QED
        BY <1>4, AllNodesAre
    <3>3. /\ IsMap(array.chains, size) /\ array.used = UsedBuckets(array.chains)
          /\ array.used \in Nat
          /\ Len(AllNodes(array.chains, size)) = Len(all)
          /\ \A x : InMap(array.chains, size, x) <=> Has(all, x)
      <4> HIDE DEF all, size
      <4> QED
        BY <2>2, <3>2, RehashedIsMap
    <3> HIDE DEF array, all, size, first
    <3>4. MapInv'
      BY <1>4, <3>1, <3>3 DEF MapInv
    <3>5. SetKeeps(k, v)
      BY <1>4, <1>5, <3>1, <3>2, <3>3 DEF SetKeeps
    <3> QED
      BY <3>4, <3>5
  <2> QED
    BY <2>3, <2>4
<1>8. CASE ~ (first.used * LoadDenominator >= buckets_capacity * LoadNumerator)
  <2>1. /\ data' = first.chains /\ buckets_used' = first.used
        /\ buckets_capacity' = buckets_capacity /\ element_count' = element_count + 1
        /\ map_status' = map_status
    BY <1>8 DEF Insert, Pair
  <2> HIDE DEF first
  <2>2. MapInv'
    BY <1>4, <2>1 DEF MapInv
  <2>3. SetKeeps(k, v)
    BY <1>4, <1>5, <2>1 DEF SetKeeps
  <2> QED
    BY <2>2, <2>3
<1> QED
  BY <1>7, <1>8

LEMMA ReplaceKeeps ==
  ASSUME MapInv, NEW k \in Keys, NEW v \in Values, map_status = "open", Places(k) # {},
         Replace(k, v)
  PROVE  MapInv' /\ SetKeeps(k, v)
<1> DEFINE size == buckets_capacity
           bucket == Bucket(k, size)
           i == CHOOSE i \in Places(k) : TRUE
           chain == data[bucket]
           new == [data EXCEPT ![bucket] = [chain EXCEPT ![i] = [chain[i] EXCEPT !.value = v]]]
<1>1. /\ IsMap(data, size) /\ buckets_used = UsedBuckets(data) /\ buckets_used \in Nat
      /\ element_count = Len(AllNodes(data, size)) /\ size \in Nat \ {0}
  BY DEF MapInv, IsMap
<1>2. bucket \in 0 .. size - 1
  BY <1>1, BucketIsIndex
<1>3. i \in Places(k)
  OBVIOUS
<1>4. i \in 1 .. Len(chain) /\ chain[i].key = k
  <2> HIDE DEF i
  <2> QED
    BY <1>3 DEF Places
<1>5. data' = new /\ UNCHANGED <<buckets_used, buckets_capacity, element_count, map_status>>
  BY DEF Replace
<1> DEFINE pair == Pair(k, v)
           longer == [chain EXCEPT ![i] = pair]
<1> HIDE DEF i
<1>6. /\ data \in Chains(size) /\ \A b \in 0 .. size - 1 : data[b] \in Seq(Node)
      /\ chain \in Seq(Node) /\ NoKeyTwice(chain) /\ pair \in Node
  <2>1. \A b \in 0 .. size - 1 : data[b] \in Seq(Node) /\ NoKeyTwice(data[b])
    BY <1>1 DEF IsMap, Chains
  <2> HIDE DEF bucket
  <2> QED
    BY <1>1, <1>2, <2>1 DEF IsMap, Pair, Node
<1>7. [chain[i] EXCEPT !.value = v] = pair
  <2>1. chain[i] \in Node
    BY <1>4, <1>6, NodeTypes
  <2>2. chain[i].key = k
    BY <1>4
  <2> HIDE DEF chain
  <2> QED
    BY <2>1, <2>2 DEF Node, Pair
<1> HIDE DEF bucket, pair
<1>8. new = [data EXCEPT ![bucket] = longer]
  BY <1>7
<1>9. /\ longer \in Seq(Node) /\ Len(longer) = Len(chain) /\ longer[i] = pair
      /\ \A j \in 1 .. Len(chain) : j # i => longer[j] = chain[j]
  <2> HIDE DEF chain
  <2>1. Len(chain) \in Nat /\ DOMAIN chain = 1 .. Len(chain)
    BY <1>6, LenProperties
  <2>2. longer \in Seq(Node) /\ Len(longer) = Len(chain)
    <3>1. i \in 1 .. Len(chain)
      BY <1>4
    <3> HIDE DEF Node
    <3> QED
      BY <1>6, <3>1, ExceptSeq
  <2> QED
    BY <1>4, <2>1, <2>2
<1> HIDE DEF new
<1>10. /\ new \in Chains(size) /\ new[bucket] = longer
       /\ \A b \in 0 .. size - 1 : b # bucket => new[b] = data[b]
       /\ DOMAIN new = 0 .. size - 1 /\ DOMAIN data = 0 .. size - 1
  <2> HIDE DEF chain, longer
  <2> QED
    BY <1>2, <1>6, <1>8, <1>9 DEF Chains
<1>11. pair.key = k /\ pair.value = v
  BY DEF pair, Pair
<1>12. \A j \in 1 .. Len(chain) : longer[j].key = chain[j].key
  <2> HIDE DEF longer, chain
  <2> QED
    BY <1>4, <1>9, <1>11
<1> HIDE DEF longer
<1>13. IsMap(new, size)
  <2> SUFFICES ASSUME NEW b \in 0 .. size - 1
               PROVE  /\ NoKeyTwice(new[b])
                      /\ \A j \in 1 .. Len(new[b]) : Bucket(new[b][j].key, size) = b
    BY <1>1, <1>10 DEF IsMap
  <2>1. CASE b # bucket
    BY <1>1, <1>10, <2>1 DEF IsMap
  <2>2. CASE b = bucket
    <3>1. NoKeyTwice(longer)
      BY <1>6, <1>9, <1>12 DEF NoKeyTwice
    <3>2. \A j \in 1 .. Len(chain) : Bucket(chain[j].key, size) = bucket
      BY <1>1, <1>2 DEF IsMap
    <3> HIDE DEF chain
    <3>3. \A j \in 1 .. Len(longer) : Bucket(longer[j].key, size) = bucket
      BY <1>9, <1>12, <3>2
    <3> QED
      BY <1>10, <2>2, <3>1, <3>3
  <2> QED
    BY <2>1, <2>2
<1>14. Len(AllNodes(new, size)) = Len(AllNodes(data, size))
  <2>1. /\ size \in Nat /\ 0 \in Nat /\ Len(new[bucket]) = Len(data[bucket]) + 0
        /\ \A b \in 0 .. size - 1 : b # bucket => Len(new[b]) = Len(data[b])
    <3>1. Len(chain) \in Nat
      BY <1>6, LenProperties
    <3> QED
      BY <1>1, <1>9, <1>10, <3>1
  <2>2. Len(AllNodes(new, size)) = Len(AllNodes(data, size)) + 0
    BY <1>2, <1>6, <1>10, <2>1, AllNodesCount
  <2>3. Len(AllNodes(data, size)) \in Nat
    <3>1. AllNodes(data, size) \in Seq(Node)
      BY <1>1, AllNodesAre
    <3> QED
      BY <3>1, LenProperties
  <2> QED
    BY <2>2, <2>3
<1>15. UsedBuckets(new) = UsedBuckets(data)
  <2>1. chain # <<>> /\ longer # <<>>
    <3>1. Len(chain) # 0 /\ Len(longer) # 0
      <4> DEFINE n == Len(chain)
      <4>1. i \in 1 .. n /\ n \in Nat
        BY <1>4, <1>6, LenProperties
      <4> HIDE DEF n
      <4>2. n # 0
        BY <4>1
      <4> QED
        BY <1>9, <4>2 DEF n
    <3> QED
      BY <1>6, <1>9, <3>1, EmptySeq
  <2>2. \A b \in 0 .. size - 1 : new[b] # <<>> <=> data[b] # <<>>
    BY <1>10, <2>1
  <2>3. {b \in DOMAIN new : new[b] # <<>>} = {b \in DOMAIN data : data[b] # <<>>}
    BY <1>10, <2>2
  <2> QED
    BY <2>3 DEF UsedBuckets
<1>16. MapInv'
  BY <1>1, <1>5, <1>13, <1>14, <1>15 DEF MapInv
<1>17. SetKeeps(k, v)
  <2>1. ASSUME NEW x \in Node
        PROVE  InMap(new, size, x) <=> x = pair \/ (InMap(data, size, x) /\ x.key # k)
    <3>1. ASSUME NEW b \in 0 .. size - 1, Has(new[b], x), x # pair
          PROVE  InMap(data, size, x) /\ x.key # k
      <4>1. PICK j \in 1 .. Len(new[b]) : new[b][j] = x
        BY <3>1 DEF Has
      <4>2. CASE b # bucket
        <5>1. Has(data[b], x) /\ data[b][j] = x /\ j \in 1 .. Len(data[b])
          BY <1>10, <3>1, <4>1, <4>2
        <5>2. Bucket(x.key, size) = b
          BY <1>1, <5>1 DEF IsMap
        <5>3. x.key # k
          BY <4>2, <5>2 DEF bucket
        <5> QED
          BY <5>1, <5>3 DEF InMap
      <4>3. CASE b = bucket
        <5>1. j \in 1 .. Len(chain) /\ j # i /\ chain[j] = x
          BY <1>9, <1>10, <3>1, <4>1, <4>3
        <5>2. x.key # k
          BY <1>4, <1>6, <5>1 DEF NoKeyTwice
        <5> QED
          BY <1>2, <5>1, <5>2 DEF InMap, Has
      <4> QED
        BY <4>2, <4>3
    <3>2. InMap(new, size, pair)
      <4>1. Has(longer, pair)
        BY <1>4, <1>9 DEF Has
      <4> QED
        BY <1>2, <1>10, <4>1 DEF InMap
    <3>3. ASSUME NEW b \in 0 .. size - 1, Has(data[b], x), x.key # k
          PROVE  InMap(new, size, x)
      <4>1. PICK j \in 1 .. Len(data[b]) : data[b][j] = x
        BY <3>3 DEF Has
      <4>2. CASE b # bucket
        BY <1>10, <3>3, <4>2 DEF InMap
      <4>3. CASE b = bucket
        <5>1. j # i /\ j \in 1 .. Len(longer) /\ longer[j] = x
          BY <1>4, <1>9, <3>3, <4>1, <4>3
        <5> QED
          BY <1>2, <1>10, <5>1 DEF InMap, Has
      <4> QED
        BY <4>2, <4>3
    <3> QED
      BY <3>1, <3>2, <3>3 DEF InMap
  <2> QED
    BY <1>5, <2>1 DEF SetKeeps, pair
<1> QED
  BY <1>16, <1>17

LEMMA SetKeepsMapInv ==
  ASSUME MapInv, NEW k \in Keys, NEW v \in Values, MapSet(k, v)
  PROVE  MapInv' /\ (map_status' = "open" => SetKeeps(k, v))
BY InsertKeeps, ReplaceKeeps DEF MapSet

LEMMA MapNextInv == MapInv /\ [MapNext]_map => MapInv'
<1> SUFFICES ASSUME MapInv, [MapNext]_map PROVE MapInv'
  OBVIOUS
<1>1. ASSUME NEW k \in Keys, NEW v \in Values, MapSet(k, v) PROVE MapInv'
  BY <1>1, SetKeepsMapInv
<1>2. ASSUME NEW k \in Keys, MapGet(k) \/ MapContains(k) PROVE MapInv'
  BY <1>2 DEF MapGet, MapContains, Answer, MapInv
<1>3. CASE GetKeysAlloc
  BY <1>3 DEF GetKeysAlloc, Answer, MapInv
<1>4. CASE MapFree
  BY <1>4 DEF MapFree, MapInv
<1>5. CASE UNCHANGED map
  BY <1>5 DEF map, MapInv
<1> QED
  BY <1>1, <1>2, <1>3, <1>4, <1>5 DEF MapNext

THEOREM MapInvariant == MapSpec => []MapInv
  BY MapInitInv, MapNextInv, PTL DEF MapSpec

\* Whatever is set and however often the array grows, the counters tell the truth,
\* every node is in the chain its key hashes to, and no key is there twice, for
\* every hash function and every load factor (hash_map.c:72-173).
THEOREM ChainsStayConsistent == MapSpec => []ChainsConsistent
  BY MapInvariant, ConsistentFromMapInv, PTL

-----------------------------------------------------------------------------
(***************************************************************************)
(* The refinement of Dictionary.                                           *)
(***************************************************************************)

LEMMA ContentsLookup ==
  ASSUME map_status # "freed"
  PROVE  Contents = [k \in Keys |-> Lookup(k)]
BY DEF Contents

\* hash_map_set changes what the caller set and nothing else.
LEMMA SetImplements ==
  ASSUME MapInv, NEW k \in Keys, NEW v \in Values, MapSet(k, v)
  PROVE  Promise!Next
<1>1. MapInv' /\ map_status = "open" /\ (map_status' = "open" => SetKeeps(k, v))
  BY SetKeepsMapInv DEF MapSet
<1>2. LookupExact /\ LookupExact'
  <2>1. (MapInv => LookupExact)'
    BY LookupFromMapInv, PTL
  <2> QED
    BY <1>1, <2>1, LookupFromMapInv
<1>3. CASE map_status' = "exited"
  <2>1. answer' = <<"exited">> /\ data' = data /\ buckets_capacity' = buckets_capacity
    <3>1. Insert(k, v)
      BY <1>1, <1>3 DEF MapSet, Replace
    <3> QED
      BY <1>1, <1>3, <3>1 DEF Insert, Grow
  <2>2. \A j \in Keys : Lookup(j)' = Lookup(j)
    BY <2>1 DEF Lookup, Places
  <2>3. Contents' = Contents
    BY <1>1, <1>3, <2>2 DEF Contents
  <2>4. Promise!Exit
    BY <2>1, <2>3 DEF Promise!Exit
  <2> QED
    BY <2>4 DEF Promise!Next
<1>4. CASE map_status' = "open"
  <2>1. SetKeeps(k, v)
    BY <1>1, <1>4
  <2>2. ASSUME NEW j \in Keys
        PROVE  Lookup(j)' = IF j = k THEN v ELSE Lookup(j)
    <3>1. /\ Lookup(j) \in Values \cup {NoValue}
          /\ \A w \in Values : Lookup(j) = w <=> InMap(data, buckets_capacity, Pair(j, w))
      BY <1>1, <1>2 DEF LookupExact
    <3>2. /\ Lookup(j)' \in Values \cup {NoValue}
          /\ \A w \in Values : Lookup(j)' = w <=> InMap(data', buckets_capacity', Pair(j, w))
      BY <1>2, <1>4 DEF LookupExact
    <3>3. \A w \in Values : Pair(j, w) \in Node /\ Pair(j, w).key = j
                            /\ (Pair(j, w) = Pair(k, v) <=> j = k /\ w = v)
      BY DEF Pair, Node
    <3>4. CASE j = k
      <4>1. InMap(data', buckets_capacity', Pair(j, v))
        BY <2>1, <3>3, <3>4 DEF SetKeeps
      <4> QED
        BY <3>2, <3>4, <4>1
    <3>5. CASE j # k
      <4>1. \A w \in Values : InMap(data', buckets_capacity', Pair(j, w))
                                <=> InMap(data, buckets_capacity, Pair(j, w))
        BY <2>1, <3>3, <3>5 DEF SetKeeps
      <4>2. \A w \in Values : Lookup(j)' = w <=> Lookup(j) = w
        BY <3>1, <3>2, <4>1
      <4> QED
        BY <3>1, <3>2, <3>5, <4>2
    <3> QED
      BY <3>4, <3>5
  <2>3. answer' = <<"set", k, v>>
    BY <1>1, <1>4 DEF MapSet, Replace, Insert, Grow
  <2>4. Contents = [j \in Keys |-> Lookup(j)] /\ Contents' = [j \in Keys |-> Lookup(j)']
    BY <1>1, <1>4 DEF Contents
  <2>5. Contents' = [Contents EXCEPT ![k] = v]
    BY <2>2, <2>4
  <2>6. Promise!Set(k, v)
    BY <2>3, <2>5 DEF Promise!Set
  <2> QED
    BY <2>6 DEF Promise!Next
<1> QED
  BY <1>1, <1>3, <1>4 DEF MapInv, Insert, Replace, Grow, MapSet

\* A call that only answers changes nothing a caller can know of.
LEMMA AnswerKeepsContents ==
  ASSUME NEW result, Answer(result)
  PROVE  Contents' = Contents /\ answer' = result
<1>1. \A k \in Keys : Lookup(k)' = Lookup(k)
  BY DEF Answer, Lookup, Places
<1> QED
  BY <1>1 DEF Answer, Contents

\* The keys handed out are those that have a value, each once.
LEMMA KeysImplement ==
  ASSUME MapInv, GetKeysAlloc
  PROVE  Promise!GetKeys
<1> DEFINE all == AllNodes(data, buckets_capacity)
           n == Len(all)
           keys == [i \in 1 .. n |-> all[i].key]
           H == {k \in Keys : Contents[k] # NoValue}
<1>1. /\ map_status = "open" /\ IsMap(data, buckets_capacity)
      /\ Contents' = Contents /\ answer' = <<"keys", keys>>
  BY AnswerKeepsContents DEF GetKeysAlloc, MapInv
<1>2. /\ all \in Seq(Node) /\ NoKeyTwice(all) /\ n \in Nat
      /\ \A x : Has(all, x) <=> InMap(data, buckets_capacity, x)
  BY <1>1, AllNodesAre, LenProperties
<1> HIDE DEF all
<1>3. \A i \in 1 .. n : all[i] \in Node /\ all[i].key \in Keys
  BY <1>2, NodeTypes
<1>4. ASSUME NEW k \in Keys
      PROVE  k \in H <=> \E i \in 1 .. n : all[i].key = k
  <2>1. Contents[k] = Lookup(k)
    BY <1>1 DEF Contents
  <2>2. /\ Lookup(k) \in Values \cup {NoValue}
        /\ \A w \in Values : Lookup(k) = w <=> InMap(data, buckets_capacity, Pair(k, w))
    BY <1>1, LookupFromMapInv DEF LookupExact
  <2>3. ASSUME Lookup(k) # NoValue PROVE \E i \in 1 .. n : all[i].key = k
    <3>1. Has(all, Pair(k, Lookup(k)))
      BY <1>2, <2>2, <2>3
    <3>2. PICK i \in 1 .. n : all[i] = Pair(k, Lookup(k))
      BY <3>1 DEF Has
    <3> QED
      BY <3>2 DEF Pair
  <2>4. ASSUME NEW i \in 1 .. n, all[i].key = k PROVE Lookup(k) # NoValue
    <3>1. all[i] = Pair(k, all[i].value) /\ all[i].value \in Values
      BY <1>3, <2>4 DEF Node, Pair
    <3>2. Has(all, Pair(k, all[i].value))
      BY <3>1 DEF Has
    <3>3. Lookup(k) = all[i].value
      BY <1>2, <2>2, <3>1, <3>2
    <3> QED
      BY <3>1, <3>3, HashMapAssumption
  <2> QED
    BY <2>1, <2>3, <2>4
<1>5. {keys[i] : i \in 1 .. n} = H
  <2>1. H \subseteq Keys
    OBVIOUS
  <2> HIDE DEF H, n
  <2> QED
    BY <1>3, <1>4, <2>1
<1>6. \A i, j \in 1 .. n : keys[i] = keys[j] => i = j
  BY <1>2 DEF NoKeyTwice
<1>7. Len(keys) = n
  BY <1>2
<1>8. Promise!Held = H
  BY DEF Promise!Held
<1>9. answer'[1] = "keys" /\ answer'[2] = keys
  BY <1>1
<1> HIDE DEF H, n, keys
<1>10. {answer'[2][i] : i \in 1 .. Len(answer'[2])} = Promise!Held
  BY <1>5, <1>7, <1>8, <1>9
<1>11. \A i, j \in 1 .. Len(answer'[2]) : answer'[2][i] = answer'[2][j] => i = j
  BY <1>6, <1>7, <1>9
<1> QED
  BY <1>1, <1>9, <1>10, <1>11 DEF Promise!GetKeys

LEMMA MapStepsDictionary ==
  MapInv /\ [MapNext]_map => [Promise!Next]_<<Contents, answer>>
<1> SUFFICES ASSUME MapInv, [MapNext]_map PROVE [Promise!Next]_<<Contents, answer>>
  OBVIOUS
<1>1. ASSUME NEW k \in Keys, NEW v \in Values, MapSet(k, v) PROVE Promise!Next
  BY <1>1, SetImplements
<1>2. ASSUME NEW k \in Keys, MapGet(k) PROVE Promise!Next
  <2>1. map_status = "open" /\ Contents' = Contents /\ answer' = <<"value", k, Lookup(k)>>
    BY <1>2, AnswerKeepsContents DEF MapGet
  <2>2. Contents[k] = Lookup(k)
    BY <2>1 DEF Contents
  <2>3. Promise!Get(k)
    BY <2>1, <2>2 DEF Promise!Get
  <2> QED
    BY <2>3 DEF Promise!Next
<1>3. ASSUME NEW k \in Keys, MapContains(k) PROVE Promise!Next
  <2>1. /\ map_status = "open" /\ Contents' = Contents
        /\ answer' = <<"contains", k, Places(k) # {}>>
    BY <1>3, AnswerKeepsContents DEF MapContains
  <2>2. Contents[k] = Lookup(k)
    BY <2>1 DEF Contents
  <2>3. Places(k) = {} <=> Lookup(k) = NoValue
    BY <2>1, LookupFromMapInv DEF LookupExact
  <2>4. k \in Promise!Held <=> Contents[k] # NoValue
    BY DEF Promise!Held
  <2>5. (Places(k) # {}) = (k \in Promise!Held)
    BY <2>2, <2>3, <2>4
  <2>6. Promise!ContainsKey(k)
    BY <2>1, <2>5 DEF Promise!ContainsKey
  <2> QED
    BY <2>6 DEF Promise!Next
<1>4. CASE GetKeysAlloc
  BY <1>4, KeysImplement DEF Promise!Next
<1>5. CASE MapFree
  <2>1. map_status' = "freed" /\ answer' = <<"new">>
    BY <1>5 DEF MapFree
  <2>2. Contents' = Promise!Empty
    BY <2>1 DEF Contents, Promise!Empty
  <2>3. Promise!New
    BY <2>1, <2>2 DEF Promise!New
  <2> QED
    BY <2>3 DEF Promise!Next
<1>6. CASE UNCHANGED map
  <2>1. \A k \in Keys : Lookup(k)' = Lookup(k)
    BY <1>6 DEF map, Lookup, Places
  <2> QED
    BY <1>6, <2>1 DEF map, Contents
<1> QED
  BY <1>1, <1>2, <1>3, <1>4, <1>5, <1>6 DEF MapNext

\* The map answers every call like the function that was set, whatever the hash
\* function and however often the array grows (hash_map.c:112-281).
THEOREM MapImplementsDictionary == MapSpec => ImplementsDictionary
<1>1. MapInit => Promise!Init
  <2> SUFFICES ASSUME MapInit PROVE Promise!Init
    OBVIOUS
  <2>1. \A k \in Keys : Lookup(k) = NoValue
    <3> SUFFICES ASSUME NEW k \in Keys PROVE Lookup(k) = NoValue
      OBVIOUS
    <3>1. InitialCapacity \in Nat \ {0}
      BY HashMapAssumption
    <3>2. Bucket(k, InitialCapacity) \in 0 .. InitialCapacity - 1
      BY <3>1, BucketIsIndex
    <3>3. data[Bucket(k, buckets_capacity)] = <<>>
      BY <3>2 DEF MapInit, NoBuckets
    <3>4. Places(k) = {}
      BY <3>3 DEF Places
    <3> QED
      BY <3>4 DEF Lookup
  <2>2. Contents = Promise!Empty /\ answer = <<"new">>
    BY <2>1 DEF MapInit, Contents, Promise!Empty
  <2> QED
    BY <2>2 DEF Promise!Init
<1> QED
  BY <1>1, MapInvariant, MapStepsDictionary, PTL DEF MapSpec, ImplementsDictionary, Promise!Spec
=============================================================================
