-------------------------------- MODULE HashMap --------------------------------
(***************************************************************************)
(* The chained hash map of src/utilities/hash_map.c.  A chain is the       *)
(* sequence of its nodes from the head on; new nodes go in front.  After   *)
(* an insertion that brings the share of used buckets to the load factor   *)
(* every node moves to an array of twice the size.                         *)
(***************************************************************************)
EXTENDS Integers, Sequences, SequencesExt

CONSTANTS
  Keys, Values, NoValue,
  Hash,                  \* hash_function, of every key
  InitialCapacity,
  LoadNumerator, LoadDenominator,   \* load_factor
  MinCapacity,           \* MIN_CAPACITY
  SizeMax                \* SIZE_MAX: no block of that many buckets can be had

ASSUME HashMapAssumption ==
  /\ Hash \in [Keys -> Nat]
  /\ {InitialCapacity, LoadNumerator, LoadDenominator, MinCapacity} \subseteq Nat \ {0}
  /\ SizeMax \in Nat /\ InitialCapacity < SizeMax /\ MinCapacity < SizeMax
  /\ NoValue \notin Values

VARIABLES
  data,              \* the chains
  buckets_used, buckets_capacity, element_count,
  answer,            \* the last call, with what it returned
  map_status         \* "open", "freed" or "exited"

map == <<data, buckets_used, buckets_capacity, element_count, answer, map_status>>

NoBuckets(capacity) == [b \in 0 .. capacity - 1 |-> <<>>]

Bucket(key, capacity) == Hash[key] % capacity

\* The places of a chain that hold the key: at most one.
Places(key) ==
  LET chain == data[Bucket(key, buckets_capacity)] IN
  {i \in 1 .. Len(chain) : chain[i].key = key}

Lookup(key) ==
  IF Places(key) = {} THEN NoValue
  ELSE data[Bucket(key, buckets_capacity)][CHOOSE i \in Places(key) : TRUE].value

-----------------------------------------------------------------------------
\* hash_map_init.
MapInit ==
  /\ data = NoBuckets(InitialCapacity)
  /\ buckets_used = 0
  /\ buckets_capacity = InitialCapacity
  /\ element_count = 0
  /\ answer = <<"new">>
  /\ map_status = "open"

\* grow_capacity.
GrowCapacity(capacity) ==
  IF capacity < MinCapacity THEN MinCapacity
  ELSE IF capacity > SizeMax \div 2 THEN SizeMax ELSE capacity * 2

\* The nodes of all chains, bucket by bucket, each from its head.
AllNodes(chains, capacity) ==
  LET nodes[b \in 0 .. capacity] == IF b = 0 THEN <<>> ELSE nodes[b - 1] \o chains[b - 1]
  IN nodes[capacity]

\* Wrong: a bucket is counted for every node put into it.
UsedAfterEveryInsert(used, chain) == used + 1

UsedAfter(used, chain) == used + (IF chain = <<>> THEN 1 ELSE 0)

\* A node becomes the head of its chain.
Put(array, node, capacity) ==
  LET bucket == Bucket(node.key, capacity) IN
  [chains |-> [array.chains EXCEPT ![bucket] = <<node>> \o @],
   used   |-> UsedAfter(array.used, array.chains[bucket])]

\* The loop of hash_map_grow: the nodes move one by one.
Rehashed(nodes, capacity) ==
  LET moved[n \in 0 .. Len(nodes)] ==
        IF n = 0 THEN [chains |-> NoBuckets(capacity), used |-> 0]
        ELSE Put(moved[n - 1], nodes[n], capacity)
  IN moved[Len(nodes)]

\* hash_map_grow, on the array with the new node in it.
Grow(chains, key, value) ==
  LET capacity == GrowCapacity(buckets_capacity)
      array    == Rehashed(AllNodes(chains, buckets_capacity), capacity)
  IN IF capacity = SizeMax
     THEN map_status' = "exited" /\ answer' = <<"exited">>
          /\ UNCHANGED <<data, buckets_used, buckets_capacity, element_count>>
     ELSE /\ data' = array.chains
          /\ buckets_used' = array.used
          /\ buckets_capacity' = capacity
          /\ element_count' = element_count + 1
          /\ answer' = <<"set", key, value>>
          /\ UNCHANGED map_status

\* Wrong: the first node of the chain is taken for the key's.
ReplaceFirst(key, value) ==
  LET bucket == Bucket(key, buckets_capacity) IN
  /\ data' = [data EXCEPT ![bucket][1].value = value]
  /\ answer' = <<"set", key, value>>
  /\ UNCHANGED <<buckets_used, buckets_capacity, element_count, map_status>>

Replace(key, value) ==
  LET bucket == Bucket(key, buckets_capacity) IN
  /\ data' = [data EXCEPT ![bucket][CHOOSE i \in Places(key) : TRUE].value = value]
  /\ answer' = <<"set", key, value>>
  /\ UNCHANGED <<buckets_used, buckets_capacity, element_count, map_status>>

Insert(key, value) ==
  LET array == Put([chains |-> data, used |-> buckets_used],
                   [key |-> key, value |-> value], buckets_capacity)
  IN IF array.used * LoadDenominator >= buckets_capacity * LoadNumerator
     THEN Grow(array.chains, key, value)
     ELSE /\ data' = array.chains
          /\ buckets_used' = array.used
          /\ element_count' = element_count + 1
          /\ answer' = <<"set", key, value>>
          /\ UNCHANGED <<buckets_capacity, map_status>>

MapSet(key, value) ==
  /\ map_status = "open"
  /\ IF Places(key) # {} THEN Replace(key, value) ELSE Insert(key, value)

Answer(result) ==
  /\ answer' = result
  /\ UNCHANGED <<data, buckets_used, buckets_capacity, element_count, map_status>>

MapGet(key) == map_status = "open" /\ Answer(<<"value", key, Lookup(key)>>)

MapContains(key) == map_status = "open" /\ Answer(<<"contains", key, Places(key) # {}>>)

\* hash_map_get_keys_alloc: the array has room for element_count keys, and
\* that many are said to be in it.
GetKeysAlloc ==
  /\ map_status = "open"
  /\ LET all == AllNodes(data, buckets_capacity) IN
     Answer(<<"keys", [i \in 1 .. element_count |-> all[i].key]>>)

MapFree ==
  /\ map_status = "open"
  /\ data' = NoBuckets(0)
  /\ buckets_used' = 0
  /\ buckets_capacity' = 0
  /\ element_count' = 0
  /\ answer' = <<"new">>
  /\ map_status' = "freed"

MapNext ==
  \/ \E key \in Keys, value \in Values : MapSet(key, value)
  \/ \E key \in Keys : MapGet(key) \/ MapContains(key)
  \/ GetKeysAlloc \/ MapFree

MapSpec == MapInit /\ [][MapNext]_map
-----------------------------------------------------------------------------
UsedBuckets(chains) == Cardinality({b \in DOMAIN chains : chains[b] # <<>>})

\* What three separate updates keep in step, through every growth: the two
\* counters tell the truth, every node is in the bucket its key hashes to, and
\* no chain, and therefore not the map, has a key twice (hash_map.c:72-173).
ChainsConsistent ==
  /\ DOMAIN data = 0 .. buckets_capacity - 1
  /\ buckets_used = UsedBuckets(data)
  /\ element_count = Len(AllNodes(data, buckets_capacity))
  /\ \A b \in DOMAIN data : \A i \in 1 .. Len(data[b]) :
       Bucket(data[b][i].key, buckets_capacity) = b
  /\ \A b \in DOMAIN data : \A i, j \in 1 .. Len(data[b]) :
       data[b][i].key = data[b][j].key => i = j

\* The contents a caller can know of.
Contents == [key \in Keys |-> IF map_status = "freed" THEN NoValue ELSE Lookup(key)]

Promise == INSTANCE Dictionary WITH contents <- Contents

\* Whatever is set, in whatever order and through whatever growth, the map
\* answers like the function that was set (hash_map.c:112-281).
ImplementsDictionary == Promise!Spec
=============================================================================
