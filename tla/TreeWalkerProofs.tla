--------------------------- MODULE TreeWalkerProofs ---------------------------
(***************************************************************************)
(* Theorems about the scans, for every well-formed file and every          *)
(* predicate.                                                              *)
(***************************************************************************)
EXTENDS TreeWalker, NumberLemmas, SequenceTheorems

-----------------------------------------------------------------------------
\* The assumption on the files, in its parts.
LEMMA Trees ==
  /\ \A d \in Databases :
       /\ 0 \notin DOMAIN d.pages
       /\ d.table \in DOMAIN d.pages
       /\ d.index \in (DOMAIN d.pages \cup {0}) \ {d.table}
       /\ \A p \in DOMAIN d.pages : IsPage(d.pages[p], DOMAIN d.pages)
  /\ \A forest \in {<<Links(d), Roots(d)>> : d \in Databases} : IsForest(forest[1], forest[2])
  BY TreesAssumption DEF WellFormedTrees

-----------------------------------------------------------------------------
LEMMA MidBetween ==
  ASSUME NEW lo \in Int, NEW hi \in Int
  PROVE  /\ lo <= hi => Mid(lo, hi) \in lo .. hi
         /\ lo < hi => Mid(lo, hi) < hi
         /\ lo > hi => Mid(lo, hi) = lo
  BY DEF Mid

\* The search of interior_table_step ends within the cells not passed yet and, when
\* the keys are in order, leaves out only cells whose key is below the rowid.
LEMMA FirstKeyAtLeastRange ==
  ASSUME CountOf(table_list) \in Nat, NEW rowid,
         Top(table_list).current_index \in 0 .. CountOf(table_list)
  PROVE  /\ FirstKeyAtLeast(rowid)
              \in {-1} \cup Top(table_list).current_index .. CountOf(table_list) - 1
         /\ (\A i, j \in 0 .. CountOf(table_list) - 1 :
               i <= j /\ CellAt(table_list, i).key >= rowid => CellAt(table_list, j).key >= rowid)
            => \A i \in Top(table_list).current_index .. CountOf(table_list) - 1 :
                 FirstKeyAtLeast(rowid) = -1 \/ i < FirstKeyAtLeast(rowid)
                   => ~ (CellAt(table_list, i).key >= rowid)
<1> DEFINE n == CountOf(table_list)
           lo0 == Top(table_list).current_index
           D == [lo : 0 .. n, hi : -1 .. n - 1, result : -1 .. n - 1]
           Key(s) == CellAt(table_list, Mid(s.lo, s.hi)).key
           Below(s) == [lo |-> s.lo, hi |-> Mid(s.lo, s.hi) - 1, result |-> Mid(s.lo, s.hi)]
           Above(s) == [lo |-> Mid(s.lo, s.hi) + 1, hi |-> s.hi, result |-> s.result]
           Body(f, s) == IF s.lo > s.hi THEN s.result
                         ELSE IF Key(s) >= rowid THEN f[Below(s)] ELSE f[Above(s)]
           F == CHOOSE f : f = [s \in D |-> Body(f, s)]
           Stop == {s \in D : s.lo > s.hi}
           value == [s \in D |-> s.result]
           next == [s \in D |-> IF Key(s) >= rowid THEN Below(s) ELSE Above(s)]
           rank == [s \in D |-> n + 1 + s.hi - s.lo]
           InReach(i) == CellAt(table_list, i).key >= rowid
           Upward == \A i, j \in 0 .. n - 1 : i <= j /\ InReach(i) => InReach(j)
           Within == {s \in D : /\ lo0 <= s.lo /\ s.result \in {-1} \cup lo0 .. n - 1
                                /\ IF s.result = -1 THEN s.hi = n - 1 ELSE s.result = s.hi + 1
                                /\ Upward => \A i \in lo0 .. n - 1 : i < s.lo => ~ InReach(i)}
           start == [lo |-> lo0, hi |-> n - 1, result |-> -1]
           Results == {r \in {-1} \cup lo0 .. n - 1 :
                         Upward => \A i \in lo0 .. n - 1 : r = -1 \/ i < r => ~ InReach(i)}
<1>1. \A s \in D : s.lo <= s.hi => Mid(s.lo, s.hi) \in s.lo .. s.hi
  BY MidBetween
<1>2. Descends(D, Stop, next, rank, 2 * n)
  <2>1. rank \in [D -> 0 .. 2 * n]
    OBVIOUS
  <2>2. ASSUME NEW s \in D, s \notin Stop
        PROVE  next[s] \in D /\ rank[next[s]] < rank[s]
    <3>1. Below(s) \in D /\ rank[Below(s)] < rank[s]
      BY <1>1, <2>2
    <3>2. Above(s) \in D /\ rank[Above(s)] < rank[s]
      BY <1>1, <2>2
    <3> QED
      BY <3>1, <3>2
  <2> QED
    BY <2>1, <2>2 DEF Descends
<1>3. Recurses(F, D, Stop, value, next)
  <2>1. \A f : [s \in D |-> Body(f, s)] = [s \in D |-> IF s \in Stop THEN value[s] ELSE f[next[s]]]
    OBVIOUS
  <2>2. \E f : Recurses(f, D, Stop, value, next)
    <3> HIDE DEF D, Stop, value, next, rank
    <3> QED
      BY <1>2, TailRecursion
  <2> HIDE DEF D, Stop, value, next, Body
  <2>3. \E f : f = [s \in D |-> Body(f, s)]
    BY <2>1, <2>2 DEF Recurses
  <2>4. F = [s \in D |-> Body(F, s)]
    BY <2>3
  <2> HIDE DEF F
  <2> QED
    BY <2>1, <2>4 DEF Recurses
<1>4. Keeps(D, Stop, value, next, Within, Results)
  <2>1. ASSUME NEW s \in Within, s \notin Stop
        PROVE  next[s] \in Within
    <3> DEFINE mid == Mid(s.lo, s.hi)
    <3>1. mid \in s.lo .. s.hi /\ mid \in lo0 .. n - 1
      BY <1>1, <2>1
    <3>2. CASE InReach(mid)
      <4>1. next[s] = Below(s) /\ Below(s) \in D
        BY <1>1, <2>1, <3>2
      <4> QED
        BY <2>1, <3>1, <4>1
    <3>3. CASE ~ InReach(mid)
      <4>1. next[s] = Above(s) /\ Above(s) \in D
        BY <1>1, <2>1, <3>3
      <4>2. ASSUME Upward, NEW i \in lo0 .. n - 1, i < mid + 1
            PROVE  ~ InReach(i)
        <5>1. i \in 0 .. n - 1 /\ mid \in 0 .. n - 1 /\ i <= mid
          BY <3>1, <4>2
        <5> HIDE DEF mid, InReach, n
        <5> QED
          BY <3>3, <4>2, <5>1
      <4> HIDE DEF InReach, Upward
      <4> QED
        BY <2>1, <3>1, <4>1, <4>2
    <3> QED
      BY <3>2, <3>3
  <2>2. ASSUME NEW s \in Within, s \in Stop
        PROVE  value[s] \in Results
    BY <2>2
  <2> QED
    BY <2>1, <2>2, Zenon DEF Keeps
<1>5. F[start] \in Results
  <2>1. start \in Within
    OBVIOUS
  <2> HIDE DEF D, Stop, value, next, rank, Within, F, Results, start
  <2>2. \A s \in Within : F[s] \in Results
    BY <1>2, <1>3, <1>4, TailRecursionResult
  <2> QED
    BY <2>1, <2>2
<1>6. FirstKeyAtLeast(rowid) = F[start]
  BY DEF FirstKeyAtLeast
<1> HIDE DEF F, start, D, Stop, value, next, rank, Within
<1> QED
  BY <1>5, <1>6

\* The position leaf_table_step looked at last is not one passed before and, when
\* the rowids ascend, is the row's if it is there.
LEMMA LastProbeRange ==
  ASSUME CountOf(table_list) \in Nat, NEW rowid,
         Top(table_list).current_index \in 0 .. CountOf(table_list) - 1
  PROVE  /\ LastProbe(rowid) \in Top(table_list).current_index .. CountOf(table_list) - 1
         /\ /\ rowid \in Nat
            /\ \A i \in 0 .. CountOf(table_list) - 1 : CellAt(table_list, i).rowid \in Nat
            /\ \A i, j \in 0 .. CountOf(table_list) - 1 :
                 i < j => CellAt(table_list, i).rowid < CellAt(table_list, j).rowid
            => \A i \in Top(table_list).current_index .. CountOf(table_list) - 1 :
                 CellAt(table_list, i).rowid = rowid => LastProbe(rowid) = i
<1> DEFINE n == CountOf(table_list)
           lo0 == Top(table_list).current_index
           D == [lo : 0 .. n, hi : -1 .. n - 1, last : 0 .. n]
           At(s) == CellAt(table_list, Mid(s.lo, s.hi)).rowid
           Above(s) == [lo |-> Mid(s.lo, s.hi) + 1, hi |-> s.hi, last |-> Mid(s.lo, s.hi)]
           Below(s) == [lo |-> s.lo, hi |-> Mid(s.lo, s.hi) - 1, last |-> Mid(s.lo, s.hi)]
           Body(f, s) == IF s.lo > s.hi THEN s.last
                         ELSE IF At(s) = rowid THEN Mid(s.lo, s.hi)
                         ELSE IF At(s) < rowid THEN f[Above(s)] ELSE f[Below(s)]
           F == CHOOSE f : f = [s \in D |-> Body(f, s)]
           Stop == {s \in D : s.lo > s.hi \/ At(s) = rowid}
           value == [s \in D |-> IF s.lo > s.hi THEN s.last ELSE Mid(s.lo, s.hi)]
           next == [s \in D |-> IF At(s) < rowid THEN Above(s) ELSE Below(s)]
           rank == [s \in D |-> n + 1 + s.hi - s.lo]
           Rowid(i) == CellAt(table_list, i).rowid
           Ascending == /\ rowid \in Nat /\ \A i \in 0 .. n - 1 : Rowid(i) \in Nat
                        /\ \A i, j \in 0 .. n - 1 : i < j => Rowid(i) < Rowid(j)
           Within == {s \in D : /\ lo0 <= s.lo /\ s.last \in lo0 .. n - 1
                                /\ Ascending => \A i \in lo0 .. n - 1 :
                                     Rowid(i) = rowid => i \in s.lo .. s.hi}
           start == [lo |-> lo0, hi |-> n - 1, last |-> Mid(lo0, n - 1)]
           Results == {r \in lo0 .. n - 1 :
                         Ascending => \A i \in lo0 .. n - 1 : Rowid(i) = rowid => r = i}
<1>1. \A s \in D : s.lo <= s.hi => Mid(s.lo, s.hi) \in s.lo .. s.hi
  BY MidBetween
<1>2. Descends(D, Stop, next, rank, 2 * n)
  <2>1. rank \in [D -> 0 .. 2 * n]
    OBVIOUS
  <2>2. ASSUME NEW s \in D, s \notin Stop
        PROVE  next[s] \in D /\ rank[next[s]] < rank[s]
    <3>1. Below(s) \in D /\ rank[Below(s)] < rank[s]
      BY <1>1, <2>2
    <3>2. Above(s) \in D /\ rank[Above(s)] < rank[s]
      BY <1>1, <2>2
    <3> QED
      BY <3>1, <3>2
  <2> QED
    BY <2>1, <2>2 DEF Descends
<1>3. Recurses(F, D, Stop, value, next)
  <2>1. \A f : [s \in D |-> Body(f, s)] = [s \in D |-> IF s \in Stop THEN value[s] ELSE f[next[s]]]
    OBVIOUS
  <2>2. \E f : Recurses(f, D, Stop, value, next)
    <3> HIDE DEF D, Stop, value, next, rank
    <3> QED
      BY <1>2, TailRecursion
  <2> HIDE DEF D, Stop, value, next, Body
  <2>3. \E f : f = [s \in D |-> Body(f, s)]
    BY <2>1, <2>2 DEF Recurses
  <2>4. F = [s \in D |-> Body(F, s)]
    BY <2>3
  <2> HIDE DEF F
  <2> QED
    BY <2>1, <2>4 DEF Recurses
<1>4. Keeps(D, Stop, value, next, Within, Results)
  <2>1. ASSUME NEW s \in Within, s \notin Stop
        PROVE  next[s] \in Within
    <3> DEFINE mid == Mid(s.lo, s.hi)
    <3>1. mid \in s.lo .. s.hi /\ mid \in lo0 .. n - 1 /\ Rowid(mid) # rowid
      BY <1>1, <2>1
    <3>2. CASE Rowid(mid) < rowid
      <4>1. next[s] = Above(s) /\ Above(s) \in D
        BY <1>1, <2>1, <3>2
      <4>2. ASSUME Ascending, NEW i \in lo0 .. n - 1, Rowid(i) = rowid
            PROVE  i \in mid + 1 .. s.hi
        <5>1. i \in s.lo .. s.hi /\ i \in 0 .. n - 1 /\ mid \in 0 .. n - 1
          BY <2>1, <3>1, <4>2
        <5>2. ~ (i <= mid)
          <6> HIDE DEF mid, n, Rowid
          <6> QED
            BY <3>1, <3>2, <4>2, <5>1
        <5> QED
          BY <3>1, <5>1, <5>2
      <4> HIDE DEF Rowid, Ascending
      <4> QED
        BY <2>1, <3>1, <4>1, <4>2
    <3>3. CASE ~ (Rowid(mid) < rowid)
      <4>1. next[s] = Below(s) /\ Below(s) \in D
        BY <1>1, <2>1, <3>3
      <4>2. ASSUME Ascending, NEW i \in lo0 .. n - 1, Rowid(i) = rowid
            PROVE  i \in s.lo .. mid - 1
        <5>1. i \in s.lo .. s.hi /\ i \in 0 .. n - 1 /\ mid \in 0 .. n - 1
          BY <2>1, <3>1, <4>2
        <5>2. ~ (i >= mid)
          <6> HIDE DEF mid, n, Rowid
          <6> QED
            BY <3>1, <3>3, <4>2, <5>1
        <5> QED
          BY <3>1, <5>1, <5>2
      <4> HIDE DEF Rowid, Ascending
      <4> QED
        BY <2>1, <3>1, <4>1, <4>2
    <3> QED
      BY <3>2, <3>3
  <2>2. ASSUME NEW s \in Within, s \in Stop
        PROVE  value[s] \in Results
    <3>1. CASE s.lo > s.hi
      BY <2>2, <3>1
    <3>2. CASE ~ (s.lo > s.hi)
      <4> DEFINE mid == Mid(s.lo, s.hi)
      <4>1. value[s] = mid /\ mid \in s.lo .. s.hi /\ mid \in lo0 .. n - 1 /\ Rowid(mid) = rowid
        BY <1>1, <2>2, <3>2
      <4>2. ASSUME Ascending, NEW i \in lo0 .. n - 1, Rowid(i) = rowid
            PROVE  mid = i
        <5>1. i \in 0 .. n - 1 /\ mid \in 0 .. n - 1
          BY <4>1
        <5> HIDE DEF mid, n, Rowid
        <5> QED
          BY <4>1, <4>2, <5>1
      <4> HIDE DEF mid, Rowid, Ascending
      <4> QED
        BY <4>1, <4>2
    <3> QED
      BY <3>1, <3>2
  <2> QED
    BY <2>1, <2>2, Zenon DEF Keeps
<1>5. F[start] \in Results
  <2>1. start \in Within
    <3>1. n \in Nat /\ lo0 \in 0 .. n - 1 /\ Mid(lo0, n - 1) \in lo0 .. n - 1
      BY MidBetween
    <3> HIDE DEF n, lo0
    <3> QED
      BY <3>1
  <2> HIDE DEF n, lo0, D, Stop, value, next, rank, Within, F, Results, start
  <2>2. \A s \in Within : F[s] \in Results
    BY <1>2, <1>3, <1>4, TailRecursionResult
  <2> QED
    BY <2>1, <2>2
<1>6. LastProbe(rowid) = F[start]
  BY DEF LastProbe
<1> HIDE DEF F, start, D, Stop, value, next, rank, Within
<1> QED
  BY <1>5, <1>6

\* The searches of interior_index_step and leaf_index_step end within the cells,
\* and the position looked at last is not one passed before.  When the keys are in
\* order the cells before either are refused, and the one where the search ended
\* is accepted or the last.
LEMMA IndexSearchRange ==
  ASSUME CountOf(index_list) \in Nat \ {0},
         Top(index_list).current_index \in 0 .. CountOf(index_list)
  PROVE  /\ IndexSearch \in [hi : 0 .. CountOf(index_list) - 1,
                             mid : Top(index_list).current_index .. CountOf(index_list),
                             exit : BOOLEAN]
         /\ Top(index_list).current_index <= IndexSearch.hi + 1
         /\ Top(index_list).current_index <= IndexSearch.hi
              \/ Top(index_list).current_index = CountOf(index_list)
         /\ IndexSearch.exit => \E i \in 0 .. CountOf(index_list) - 1 : Unreadable(i)
         /\ IndexSearch.hi = CountOf(index_list) - 1 \/ Accepts(CellAt(index_list, IndexSearch.hi).key)
         /\ (\A i, j \in 0 .. CountOf(index_list) - 1 :
               i <= j /\ Accepts(CellAt(index_list, i).key) => Accepts(CellAt(index_list, j).key))
            => \A i \in Top(index_list).current_index .. CountOf(index_list) - 1 :
                 ~ IndexSearch.exit /\ (i < IndexSearch.hi \/ i < IndexSearch.mid)
                   => ~ Accepts(CellAt(index_list, i).key)
<1> DEFINE n == CountOf(index_list)
           lo0 == Top(index_list).current_index
           D == [lo : 0 .. n, hi : 0 .. n - 1, mid : 0 .. n]
           Key(s) == CellAt(index_list, Mid(s.lo, s.hi)).key
           Stops(s) == [hi |-> s.hi, mid |-> s.mid, exit |-> FALSE]
           Exits(s) == [hi |-> s.hi, mid |-> Mid(s.lo, s.hi), exit |-> TRUE]
           Below(s) == [lo |-> s.lo, hi |-> Mid(s.lo, s.hi), mid |-> Mid(s.lo, s.hi)]
           Above(s) == [lo |-> Mid(s.lo, s.hi) + 1, hi |-> s.hi, mid |-> Mid(s.lo, s.hi)]
           Body(f, s) == IF ~ (s.lo < s.hi) THEN Stops(s)
                         ELSE IF Unreadable(Mid(s.lo, s.hi)) THEN Exits(s)
                         ELSE IF Accepts(Key(s)) THEN f[Below(s)] ELSE f[Above(s)]
           F == CHOOSE f : f = [s \in D |-> Body(f, s)]
           Stop == {s \in D : ~ (s.lo < s.hi) \/ Unreadable(Mid(s.lo, s.hi))}
           value == [s \in D |-> IF ~ (s.lo < s.hi) THEN Stops(s) ELSE Exits(s)]
           next == [s \in D |-> IF Accepts(Key(s)) THEN Below(s) ELSE Above(s)]
           rank == [s \in D |-> n + s.hi - s.lo]
           Accepted(i) == Accepts(CellAt(index_list, i).key)
           Upward == \A i, j \in 0 .. n - 1 : i <= j /\ Accepted(i) => Accepted(j)
           Within == {s \in D : /\ lo0 <= s.lo /\ lo0 <= s.hi + 1 /\ s.mid \in lo0 .. n
                                /\ s.lo < s.hi \/ s.mid <= s.lo
                                /\ lo0 <= s.hi \/ lo0 = n
                                /\ s.hi = n - 1 \/ Accepted(s.hi)
                                /\ Upward => \A i \in lo0 .. n - 1 : i < s.lo => ~ Accepted(i)}
           start == [lo |-> lo0, hi |-> n - 1, mid |-> Mid(lo0, n - 1)]
           Results == {r \in [hi : 0 .. n - 1, mid : lo0 .. n, exit : BOOLEAN] :
                         /\ lo0 <= r.hi + 1 /\ (lo0 <= r.hi \/ lo0 = n)
                         /\ r.exit => \E i \in 0 .. n - 1 : Unreadable(i)
                         /\ r.hi = n - 1 \/ Accepted(r.hi)
                         /\ Upward => \A i \in lo0 .. n - 1 :
                              ~ r.exit /\ (i < r.hi \/ i < r.mid) => ~ Accepted(i)}
<1>1. \A s \in D : s.lo < s.hi => Mid(s.lo, s.hi) \in s.lo .. s.hi - 1
  BY MidBetween
<1>2. Descends(D, Stop, next, rank, 2 * n)
  <2>1. rank \in [D -> 0 .. 2 * n]
    OBVIOUS
  <2>2. ASSUME NEW s \in D, s \notin Stop
        PROVE  next[s] \in D /\ rank[next[s]] < rank[s]
    <3>1. Below(s) \in D /\ rank[Below(s)] < rank[s]
      BY <1>1, <2>2
    <3>2. Above(s) \in D /\ rank[Above(s)] < rank[s]
      BY <1>1, <2>2
    <3> QED
      BY <3>1, <3>2
  <2> QED
    BY <2>1, <2>2 DEF Descends
<1>3. Recurses(F, D, Stop, value, next)
  <2>1. \A f : [s \in D |-> Body(f, s)] = [s \in D |-> IF s \in Stop THEN value[s] ELSE f[next[s]]]
    OBVIOUS
  <2>2. \E f : Recurses(f, D, Stop, value, next)
    <3> HIDE DEF D, Stop, value, next, rank
    <3> QED
      BY <1>2, TailRecursion
  <2> HIDE DEF D, Stop, value, next, Body
  <2>3. \E f : f = [s \in D |-> Body(f, s)]
    BY <2>1, <2>2 DEF Recurses
  <2>4. F = [s \in D |-> Body(F, s)]
    BY <2>3
  <2> HIDE DEF F
  <2> QED
    BY <2>1, <2>4 DEF Recurses
<1>4. Keeps(D, Stop, value, next, Within, Results)
  <2>1. ASSUME NEW s \in Within, s \notin Stop
        PROVE  next[s] \in Within
    <3> DEFINE mid == Mid(s.lo, s.hi)
    <3>1. mid \in s.lo .. s.hi - 1 /\ mid \in lo0 .. n - 1 /\ s.lo < s.hi
      BY <1>1, <2>1
    <3>2. CASE Accepted(mid)
      <4>1. next[s] = Below(s) /\ Below(s) \in D
        BY <1>1, <2>1, <3>2
      <4> HIDE DEF Accepted, Upward
      <4> QED
        BY <2>1, <3>1, <3>2, <4>1
    <3>3. CASE ~ Accepted(mid)
      <4>1. next[s] = Above(s) /\ Above(s) \in D
        BY <1>1, <2>1, <3>3
      <4>2. ASSUME Upward, NEW i \in lo0 .. n - 1, i < mid + 1
            PROVE  ~ Accepted(i)
        <5>1. i \in 0 .. n - 1 /\ mid \in 0 .. n - 1 /\ i <= mid
          BY <3>1, <4>2
        <5> HIDE DEF mid, Accepted, n
        <5> QED
          BY <3>3, <4>2, <5>1
      <4> HIDE DEF Accepted, Upward
      <4> QED
        BY <2>1, <3>1, <4>1, <4>2
    <3> QED
      BY <3>2, <3>3
  <2>2. ASSUME NEW s \in Within, s \in Stop
        PROVE  value[s] \in Results
    <3>1. CASE s.lo < s.hi
      <4>1. value[s] = Exits(s) /\ Unreadable(Mid(s.lo, s.hi))
        BY <2>2, <3>1
      <4>2. Mid(s.lo, s.hi) \in 0 .. n - 1 /\ Mid(s.lo, s.hi) \in lo0 .. n
        BY <1>1, <2>2, <3>1
      <4> HIDE DEF Accepted, Upward
      <4> QED
        BY <2>2, <4>1, <4>2
    <3>2. CASE ~ (s.lo < s.hi)
      <4>1. value[s] = Stops(s)
        BY <2>2, <3>2
      <4> HIDE DEF Accepted
      <4> QED
        BY <2>2, <3>2, <4>1
    <3> QED
      BY <3>1, <3>2
  <2> QED
    BY <2>1, <2>2, Zenon DEF Keeps
<1>5. F[start] \in Results
  <2>1. start \in Within
    <3>1. n \in Nat \ {0} /\ lo0 \in 0 .. n
      OBVIOUS
    <3> HIDE DEF n, lo0
    <3>2. Mid(lo0, n - 1) \in lo0 .. n
      <4>1. lo0 \in Int /\ n - 1 \in Int
        BY <3>1
      <4>2. /\ lo0 <= n - 1 => Mid(lo0, n - 1) \in lo0 .. n - 1
            /\ lo0 > n - 1 => Mid(lo0, n - 1) = lo0
        BY <4>1, MidBetween, Zenon
      <4> QED
        BY <3>1, <4>2
    <3>3. lo0 < n - 1 \/ Mid(lo0, n - 1) <= lo0
      <4>1. lo0 \in Int /\ n - 1 \in Int
        BY <3>1
      <4>2. lo0 > n - 1 => Mid(lo0, n - 1) = lo0
        BY <4>1, MidBetween
      <4>3. lo0 = n - 1 => Mid(lo0, n - 1) = lo0
        BY <4>1 DEF Mid
      <4> QED
        BY <3>1, <4>2, <4>3
    <3> HIDE DEF Accepted
    <3> QED
      BY <3>1, <3>2, <3>3
  <2> HIDE DEF D, Stop, value, next, rank, Within, F, Results, start
  <2>2. \A s \in Within : F[s] \in Results
    BY <1>2, <1>3, <1>4, TailRecursionResult
  <2> QED
    BY <2>1, <2>2
<1>6. IndexSearch = F[start]
  BY DEF IndexSearch
<1> HIDE DEF F, start, D, Stop, value, next, rank, Within
<1> QED
  BY <1>5, <1>6

-----------------------------------------------------------------------------
SubWalkersOf(d) == [page : DOMAIN d.pages, current_index : Nat]

\* A stack of sub-walkers: none is past its last cell, those below the top are
\* on interior pages.
IsStack(d, list) ==
  /\ list \in Seq(SubWalkersOf(d))
  /\ \A k \in 1 .. Len(list) : list[k].current_index <= Len(d.pages[list[k].page].cells)
  /\ \A k \in 1 .. Len(list) - 1 : d.pages[list[k].page].right # 0

\* A stack is a path down from a root (StacksArePaths, for one stack).
IsPath(d, spine, root, list) ==
  /\ list # <<>> => root \in DOMAIN d.pages /\ list[1].page \in spine[root]
  /\ \A k \in 1 .. Len(list) - 1 :
       LET cells == d.pages[list[k].page].cells
       IN  /\ list[k].current_index \in DOMAIN cells
           /\ list[k + 1].page \in spine[cells[list[k].current_index].child]

\* The pages of a stack are walked, those its sub-walkers have not passed are not.
IsAhead(links, list, seen) ==
  \A k \in 1 .. Len(list) :
    /\ list[k].page \in seen
    /\ \A i \in DOMAIN links[list[k].page] :
         i > list[k].current_index => links[list[k].page][i] \notin seen
    /\ \A l \in 1 .. Len(list) : list[k].page = list[l].page => k = l

\* Both stacks are ahead of what is walked, on pages of their own, and with a page
\* the page above it is walked.
BothAhead(links, mine, other, seen) ==
  /\ IsAhead(links, mine, seen) /\ IsAhead(links, other, seen)
  /\ \A k \in 1 .. Len(mine), l \in 1 .. Len(other) : mine[k].page # other[l].page
  /\ \A p \in DOMAIN links : \A i \in DOMAIN links[p] : links[p][i] \in seen => p \in seen

\* The step down to the j-th child of the top page.
Descended(d, list, j) ==
  Append(IF j <= Len(d.pages[Top(list).page].cells) THEN Advance(list, j) ELSE Pop(list),
         SubWalker(Links(d)[Top(list).page][j]))

\* What is left of a list when its last sub-walker is done or goes on at i.
IsNarrowed(d, list, i, rest) ==
  /\ rest \in Seq(SubWalkersOf(d)) /\ Len(rest) \in {Len(list) - 1, Len(list)}
  /\ \A k \in 1 .. Len(list) - 1 : rest[k] = list[k]
  /\ Len(rest) = Len(list) => rest[Len(list)] = [page |-> list[Len(list)].page, current_index |-> i]

\* A list with a sub-walker more.
IsPushed(d, rest, page, longer) ==
  /\ longer \in Seq(SubWalkersOf(d)) /\ Len(longer) = Len(rest) + 1
  /\ \A k \in 1 .. Len(rest) : longer[k] = rest[k]
  /\ longer[Len(rest) + 1] = [page |-> page, current_index |-> 0]

-----------------------------------------------------------------------------
\* What the lists' operators leave on a list.
LEMMA LastInList ==
  ASSUME NEW W, NEW list \in Seq(W), list # <<>>
  PROVE  Len(list) \in Nat \ {0} /\ Top(list) \in W
  BY DEF Top

LEMMA Popped ==
  ASSUME NEW W, NEW list \in Seq(W), list # <<>>
  PROVE  /\ Pop(list) \in Seq(W) /\ Len(Pop(list)) = Len(list) - 1
         /\ \A k \in 1 .. Len(list) - 1 : Pop(list)[k] = list[k]
<1> DEFINE n == Len(list) - 1
<1>1. n \in Nat /\ \A k \in 1 .. n : list[k] \in W
  BY LastInList
<1> HIDE DEF n
<1>2. SubSeq(list, 1, n) \in Seq(W)
  BY <1>1, SubSeqProperties
<1>3. Len(SubSeq(list, 1, n)) = n
  BY <1>1, SubSeqProperties
<1>4. \A k \in 1 .. n : SubSeq(list, 1, n)[k] = list[k]
  BY <1>1, SubSeqProperties
<1> QED
  BY <1>2, <1>3, <1>4 DEF Pop, n

LEMMA StackShape ==
  ASSUME NEW d, NEW list, IsStack(d, list)
  PROVE  /\ Len(list) \in Nat /\ DOMAIN list = 1 .. Len(list)
         /\ \A k \in 1 .. Len(list) : list[k].page \in DOMAIN d.pages /\ list[k].current_index \in Nat
         /\ list # <<>> => /\ Len(list) \in Nat \ {0} /\ Top(list) = list[Len(list)]
                           /\ Top(list) \in SubWalkersOf(d)
                           /\ Top(list).page \in DOMAIN d.pages
<1>1. list \in Seq(SubWalkersOf(d))
  BY DEF IsStack
<1>2. \A k \in 1 .. Len(list) : list[k] \in SubWalkersOf(d)
  BY <1>1
<1>3. list # <<>> => Len(list) \in Nat \ {0}
  BY <1>1
<1> QED
  BY <1>1, <1>2, <1>3 DEF SubWalkersOf, Top

LEMMA NarrowedBy ==
  ASSUME NEW d, NEW list, IsStack(d, list), list # <<>>, NEW i \in Nat
  PROVE  IsNarrowed(d, list, i, Pop(list)) /\ IsNarrowed(d, list, i, Advance(list, i))
<1> DEFINE w == [page |-> Top(list).page, current_index |-> i]
<1>1. /\ list \in Seq(SubWalkersOf(d)) /\ Len(list) \in Nat \ {0}
      /\ Top(list) = list[Len(list)] /\ Top(list) \in SubWalkersOf(d)
  BY StackShape DEF IsStack
<1>2. IsNarrowed(d, list, i, Pop(list))
  BY <1>1, Popped DEF IsNarrowed
<1>3. [list[Len(list)] EXCEPT !.current_index = i] = w /\ w \in SubWalkersOf(d)
  BY <1>1 DEF SubWalkersOf
<1>4. Advance(list, i) = [list EXCEPT ![Len(list)] = w]
  <2>1. Advance(list, i) = [list EXCEPT ![Len(list)] = [list[Len(list)] EXCEPT !.current_index = i]]
    BY DEF Advance
  <2> QED
    BY <1>3, <2>1, Zenon
<1> HIDE DEF w
<1>5. /\ Advance(list, i) \in Seq(SubWalkersOf(d)) /\ Len(Advance(list, i)) = Len(list)
      /\ \A k \in 1 .. Len(list) : Advance(list, i)[k] = IF k = Len(list) THEN w ELSE list[k]
  BY <1>1, <1>3, <1>4, ExceptSeq
<1>6. IsNarrowed(d, list, i, Advance(list, i))
  BY <1>1, <1>5 DEF IsNarrowed, w
<1> QED
  BY <1>2, <1>6

LEMMA PushedBy ==
  ASSUME NEW d, NEW rest \in Seq(SubWalkersOf(d)), NEW p \in DOMAIN d.pages
  PROVE  IsPushed(d, rest, p, Append(rest, SubWalker(p)))
<1>1. SubWalker(p) \in SubWalkersOf(d)
  BY DEF SubWalkersOf, SubWalker
<1>2. /\ Append(rest, SubWalker(p)) \in Seq(SubWalkersOf(d))
      /\ Len(Append(rest, SubWalker(p))) = Len(rest) + 1
      /\ \A k \in 1 .. Len(rest) : Append(rest, SubWalker(p))[k] = rest[k]
      /\ Append(rest, SubWalker(p))[Len(rest) + 1] = SubWalker(p)
  BY <1>1, AppendProperties
<1> QED
  BY <1>2 DEF IsPushed, SubWalker

\* The children of a page.
LEMMA Children ==
  ASSUME NEW d \in Databases, NEW p \in DOMAIN d.pages
  PROVE  /\ d.pages[p].right \in DOMAIN d.pages \cup {0}
         /\ d.pages[p].right # 0 <=> d.pages[p].type \in {"interior_table", "interior_index"}
         /\ DOMAIN d.pages[p].cells = 1 .. Len(d.pages[p].cells) /\ Len(d.pages[p].cells) \in Nat
         /\ d.pages[p].right = 0 => DOMAIN Links(d)[p] = {}
         /\ d.pages[p].right # 0 =>
              /\ DOMAIN Links(d)[p] = 1 .. Len(d.pages[p].cells) + 1
              /\ \A i \in 1 .. Len(d.pages[p].cells) : Links(d)[p][i] = d.pages[p].cells[i].child
              /\ Links(d)[p][Len(d.pages[p].cells) + 1] = d.pages[p].right
         /\ \A i \in DOMAIN Links(d)[p] : Links(d)[p][i] \in DOMAIN d.pages
<1>1. IsPage(d.pages[p], DOMAIN d.pages) /\ 0 \notin DOMAIN d.pages
  BY Trees
<1>2. /\ d.pages[p].type \in {"interior_table", "leaf_table", "interior_index", "leaf_index"}
      /\ d.pages[p].cells \in Seq(CellsOfType(DOMAIN d.pages)[d.pages[p].type])
      /\ d.pages[p].right \in IF d.pages[p].type \in {"leaf_table", "leaf_index"} THEN {0} ELSE DOMAIN d.pages
  BY <1>1 DEF IsPage, CellsOfType
<1>3. d.pages[p].right # 0 => \A i \in 1 .. Len(d.pages[p].cells) :
                                 d.pages[p].cells[i].child \in DOMAIN d.pages
  <2>1. CASE d.pages[p].type = "interior_table"
    <3>1. d.pages[p].cells \in Seq([child : DOMAIN d.pages, key : Nat])
      BY <1>2, <2>1 DEF CellsOfType
    <3>2. \A i \in 1 .. Len(d.pages[p].cells) : d.pages[p].cells[i] \in [child : DOMAIN d.pages, key : Nat]
      BY <3>1, ElementOfSeq, Zenon
    <3> QED
      BY <3>2
  <2>2. CASE d.pages[p].type = "interior_index"
    <3>1. d.pages[p].cells \in Seq([key : Nat, rowid : Nat, child : DOMAIN d.pages, readable : BOOLEAN])
      BY <1>2, <2>2 DEF CellsOfType
    <3>2. \A i \in 1 .. Len(d.pages[p].cells) : d.pages[p].cells[i] \in [key : Nat, rowid : Nat, child : DOMAIN d.pages, readable : BOOLEAN]
      BY <3>1, ElementOfSeq, Zenon
    <3> QED
      BY <3>2
  <2> QED
    BY <1>2, <2>1, <2>2
<1>4. DOMAIN d.pages[p].cells = 1 .. Len(d.pages[p].cells) /\ Len(d.pages[p].cells) \in Nat
  BY <1>2
<1>5. CASE d.pages[p].right = 0
  <2>1. Links(d)[p] = <<>>
    BY <1>5 DEF Links
  <2>2. DOMAIN Links(d)[p] = {}
    BY <2>1, SMTT(30)
  <2> QED
    BY <1>1, <1>2, <1>4, <1>5, <2>2
<1>6. CASE d.pages[p].right # 0
  <2>1. Links(d)[p] = [i \in 1 .. Len(d.pages[p].cells) + 1 |->
                         IF i <= Len(d.pages[p].cells) THEN d.pages[p].cells[i].child
                                                       ELSE d.pages[p].right]
    BY <1>6 DEF Links
  <2> QED
    BY <1>1, <1>2, <1>3, <1>4, <1>6, <2>1
<1> QED
  BY <1>5, <1>6

\* A step down, in its two parts.
LEMMA DescendedBy ==
  ASSUME NEW d \in Databases, NEW list, IsStack(d, list), list # <<>>,
         NEW j \in DOMAIN Links(d)[Top(list).page]
  PROVE  /\ d.pages[Top(list).page].right # 0 /\ j \in 1 .. Len(d.pages[Top(list).page].cells) + 1
         /\ Links(d)[Top(list).page][j] \in DOMAIN d.pages
         /\ \E rest :
              /\ IsNarrowed(d, list, j, rest)
              /\ Len(rest) = IF j <= Len(d.pages[Top(list).page].cells) THEN Len(list) ELSE Len(list) - 1
              /\ IsPushed(d, rest, Links(d)[Top(list).page][j], Descended(d, list, j))
<1> DEFINE top == Top(list).page
           rest == IF j <= Len(d.pages[top].cells) THEN Advance(list, j) ELSE Pop(list)
<1>1. list \in Seq(SubWalkersOf(d)) /\ top \in DOMAIN d.pages
  BY StackShape DEF IsStack
<1>2. d.pages[top].right # 0 /\ Len(d.pages[top].cells) \in Nat
  BY <1>1, Children
<1>3. j \in 1 .. Len(d.pages[top].cells) + 1 /\ Links(d)[top][j] \in DOMAIN d.pages
  BY <1>1, <1>2, Children
<1>4. IsNarrowed(d, list, j, Advance(list, j)) /\ IsNarrowed(d, list, j, Pop(list))
  BY <1>3, NarrowedBy
<1>5. IsNarrowed(d, list, j, rest) /\ rest \in Seq(SubWalkersOf(d))
  BY <1>4 DEF IsNarrowed
<1>6. Len(rest) = IF j <= Len(d.pages[top].cells) THEN Len(list) ELSE Len(list) - 1
  <2>1. Len(Advance(list, j)) = Len(list)
    BY <1>1 DEF Advance
  <2>2. Len(Pop(list)) = Len(list) - 1
    BY <1>1, Popped
  <2> QED
    BY <2>1, <2>2
<1>7. IsPushed(d, rest, Links(d)[top][j], Descended(d, list, j))
  BY <1>3, <1>5, PushedBy DEF Descended
<1> HIDE DEF rest
<1> QED
  BY <1>2, <1>3, <1>5, <1>6, <1>7


-----------------------------------------------------------------------------
LEMMA StackNarrowed ==
  ASSUME NEW d, NEW list, IsStack(d, list), list # <<>>,
         NEW i \in Nat, i <= Len(d.pages[Top(list).page].cells),
         NEW rest, IsNarrowed(d, list, i, rest)
  PROVE  IsStack(d, rest)
<1>1. Len(list) \in Nat \ {0} /\ Top(list) = list[Len(list)]
  BY StackShape
<1>2. /\ rest \in Seq(SubWalkersOf(d)) /\ Len(rest) \in {Len(list) - 1, Len(list)}
      /\ \A k \in 1 .. Len(list) - 1 : rest[k] = list[k]
      /\ Len(rest) = Len(list) => /\ rest[Len(list)].page = Top(list).page
                                 /\ rest[Len(list)].current_index = i
  BY <1>1 DEF IsNarrowed
<1>3. ASSUME NEW k \in 1 .. Len(rest)
      PROVE  rest[k].current_index <= Len(d.pages[rest[k].page].cells)
  <2>1. CASE k \in 1 .. Len(list) - 1
    BY <1>2, <2>1 DEF IsStack
  <2>2. CASE k = Len(list)
    BY <1>1, <1>2, <2>2
  <2> QED
    BY <1>1, <1>2, <2>1, <2>2
<1>4. ASSUME NEW k \in 1 .. Len(rest) - 1
      PROVE  d.pages[rest[k].page].right # 0
  BY <1>1, <1>2 DEF IsStack
<1> QED
  BY <1>2, <1>3, <1>4 DEF IsStack

LEMMA StackDescended ==
  ASSUME NEW d \in Databases, NEW list, IsStack(d, list), list # <<>>,
         NEW j \in DOMAIN Links(d)[Top(list).page]
  PROVE  IsStack(d, Descended(d, list, j))
<1> DEFINE top == Top(list).page
           child == Links(d)[top][j]
<1>1. PICK rest : /\ IsNarrowed(d, list, j, rest)
                  /\ Len(rest) = IF j <= Len(d.pages[top].cells) THEN Len(list) ELSE Len(list) - 1
                  /\ IsPushed(d, rest, child, Descended(d, list, j))
  BY DescendedBy
<1>2. d.pages[top].right # 0 /\ j \in 1 .. Len(d.pages[top].cells) + 1 /\ child \in DOMAIN d.pages
  BY DescendedBy
<1>3. Len(list) \in Nat \ {0} /\ Top(list) = list[Len(list)] /\ top \in DOMAIN d.pages
  BY StackShape
<1>4. Len(d.pages[top].cells) \in Nat /\ Len(d.pages[child].cells) \in Nat
  BY <1>2, <1>3, Children
<1>5. \A k \in 1 .. Len(rest) : /\ rest[k].current_index <= Len(d.pages[rest[k].page].cells)
                                /\ d.pages[rest[k].page].right # 0
  BY <1>1, <1>2, <1>3, <1>4, SMTT(20) DEF IsStack, IsNarrowed
<1>6. Len(rest) \in Nat
  BY <1>1, <1>3
<1> DEFINE longer == Descended(d, list, j)
<1> HIDE DEF child, longer
<1>7. /\ longer \in Seq(SubWalkersOf(d)) /\ Len(longer) = Len(rest) + 1
      /\ \A k \in 1 .. Len(rest) : longer[k] = rest[k]
      /\ longer[Len(rest) + 1].page = child /\ longer[Len(rest) + 1].current_index = 0
  BY <1>1 DEF IsPushed, longer
<1>8. ASSUME NEW k \in 1 .. Len(longer)
      PROVE  longer[k].current_index <= Len(d.pages[longer[k].page].cells)
  BY <1>4, <1>5, <1>6, <1>7
<1>9. ASSUME NEW k \in 1 .. Len(longer) - 1
      PROVE  d.pages[longer[k].page].right # 0
  BY <1>5, <1>6, <1>7
<1>10. IsStack(d, longer)
  BY <1>7, <1>8, <1>9, SMTT(20) DEF IsStack
<1> QED
  BY <1>10 DEF longer

LEMMA PathNarrowed ==
  ASSUME NEW d, NEW spine, NEW root, NEW list, IsStack(d, list), list # <<>>,
         IsPath(d, spine, root, list), NEW i, NEW rest, IsNarrowed(d, list, i, rest)
  PROVE  IsPath(d, spine, root, rest)
<1>1. Len(list) \in Nat \ {0} /\ Top(list) = list[Len(list)]
  BY StackShape
<1>2. rest # <<>> => Len(rest) # 0
  BY EmptySeq DEF IsNarrowed
<1>3. /\ Len(rest) \in {Len(list) - 1, Len(list)}
      /\ \A k \in 1 .. Len(list) - 1 : rest[k] = list[k]
      /\ \A k \in 1 .. Len(rest) : rest[k].page = list[k].page
  BY <1>1 DEF IsNarrowed
<1>4. rest # <<>> => root \in DOMAIN d.pages /\ rest[1].page \in spine[root]
  BY <1>1, <1>2, <1>3 DEF IsPath
<1>5. ASSUME NEW k \in 1 .. Len(rest) - 1
      PROVE  /\ rest[k].current_index = list[k].current_index
             /\ rest[k].page = list[k].page /\ rest[k + 1].page = list[k + 1].page
             /\ k \in 1 .. Len(list) - 1
  BY <1>1, <1>3
<1> QED
  BY <1>4, <1>5, Zenon DEF IsPath

\* The right-most page below a page of the spine is on it.
IsSpine(d, spine) ==
  \A p \in DOMAIN d.pages :
    /\ p \in spine[p]
    /\ \A q \in DOMAIN d.pages :
         q \in spine[p] /\ d.pages[q].right # 0 => d.pages[q].right \in spine[p]

LEMMA PathDescended ==
  ASSUME NEW d \in Databases, NEW spine, IsSpine(d, spine), NEW root,
         NEW list, IsStack(d, list), list # <<>>, IsPath(d, spine, root, list),
         NEW j \in DOMAIN Links(d)[Top(list).page]
  PROVE  IsPath(d, spine, root, Descended(d, list, j))
<1> DEFINE top == Top(list).page
           cells == d.pages[top].cells
           child == Links(d)[top][j]
           longer == Descended(d, list, j)
<1>1. PICK rest : /\ IsNarrowed(d, list, j, rest)
                  /\ Len(rest) = IF j <= Len(cells) THEN Len(list) ELSE Len(list) - 1
                  /\ IsPushed(d, rest, child, longer)
  BY DescendedBy
<1>2. d.pages[top].right # 0 /\ j \in 1 .. Len(cells) + 1 /\ child \in DOMAIN d.pages
  BY DescendedBy
<1>3. Len(list) \in Nat \ {0} /\ Top(list) = list[Len(list)] /\ top \in DOMAIN d.pages
  BY StackShape
<1>4. Len(cells) \in Nat /\ DOMAIN cells = 1 .. Len(cells)
  BY <1>2, <1>3, Children
<1>5. IsPath(d, spine, root, rest)
  BY <1>1, PathNarrowed
<1>6. CASE j <= Len(cells)
  <2>1. Len(rest) = Len(list) /\ Len(longer) = Len(list) + 1
    BY <1>1, <1>6 DEF IsPushed
  <2>2. longer[Len(list)] = [page |-> top, current_index |-> j] /\ longer[Len(list) + 1].page = child
    BY <1>1, <1>3, <2>1 DEF IsPushed, IsNarrowed
  <2>3. child = cells[j].child /\ j \in DOMAIN cells
    BY <1>2, <1>3, <1>4, <1>6, Children, SMTT(20)
  <2>4. child \in spine[child]
    BY <1>2 DEF IsSpine
  <2>5. \A k \in 1 .. Len(rest) : longer[k] = rest[k]
    BY <1>1 DEF IsPushed
  <2> HIDE DEF child, longer, cells, top
  <2>6. rest # <<>>
    BY <1>3, <2>1
  <2>7. longer # <<>> => root \in DOMAIN d.pages /\ longer[1].page \in spine[root]
    <3>1. root \in DOMAIN d.pages /\ rest[1].page \in spine[root]
      BY <1>5, <2>6, Zenon DEF IsPath
    <3>2. 1 \in 1 .. Len(rest)
      BY <1>3, <2>1
    <3>3. longer[1] = rest[1]
      BY <2>5, <3>2, Zenon
    <3> QED
      BY <3>1, <3>3, Zenon
  <2> DEFINE linked(k) ==
               LET below == d.pages[longer[k].page].cells
               IN  /\ longer[k].current_index \in DOMAIN below
                   /\ longer[k + 1].page \in spine[below[longer[k].current_index].child]
  <2>8. ASSUME NEW k \in 1 .. Len(longer) - 1
        PROVE  linked(k)
    <3>1. CASE k = Len(list)
      BY <2>1, <2>2, <2>3, <2>4, <2>5, <3>1, SMTT(20) DEF cells
    <3>2. CASE k \in 1 .. Len(rest) - 1
      <4>1. longer[k] = rest[k] /\ longer[k + 1] = rest[k + 1]
        BY <1>3, <2>1, <2>5, <3>2, SMTT(20)
      <4> QED
        BY <1>5, <3>2, <4>1, Zenon DEF IsPath
    <3>3. k = Len(list) \/ k \in 1 .. Len(rest) - 1
      BY <1>3, <2>1
    <3> HIDE DEF linked
    <3> QED
      BY <3>1, <3>2, <3>3, SMTT(30)
  <2>9. IsPath(d, spine, root, longer)
    BY <2>7, <2>8, Zenon DEF IsPath
  <2> QED
    BY <2>9 DEF longer
<1>7. CASE j = Len(cells) + 1
  <2>1. Len(rest) = Len(list) - 1 /\ Len(longer) = Len(list)
    <3>1. Len(longer) = Len(rest) + 1
      BY <1>1 DEF IsPushed
    <3>2. ~ (j <= Len(cells))
      <4> DEFINE m == Len(cells)
      <4>1. m \in Nat /\ j = m + 1
        BY <1>4, <1>7
      <4> HIDE DEF m
      <4>2. ~ (j <= m)
        BY <4>1
      <4> QED
        BY <4>2 DEF m
    <3> QED
      BY <1>1, <1>3, <3>1, <3>2
  <2>2. longer[Len(list)].page = child /\ \A k \in 1 .. Len(list) - 1 : longer[k] = list[k]
    BY <1>1, <1>3, <2>1, SMTT(20) DEF IsPushed, IsNarrowed
  <2>3. child = d.pages[top].right
    <3>1. Links(d)[top][Len(d.pages[top].cells) + 1] = d.pages[top].right
      BY <1>2, <1>3, Children, Zenon
    <3> QED
      BY <1>7, <3>1, Zenon
  <2>4. \A p \in DOMAIN d.pages : list[Len(list)].page \in spine[p] => child \in spine[p]
    BY <1>2, <1>3, <2>3, SMTT(30) DEF IsSpine
  <2>5. \A k \in 1 .. Len(list) - 1 :
           d.pages[list[k].page].cells[list[k].current_index].child \in DOMAIN d.pages
    <3> TAKE k \in 1 .. Len(list) - 1
    <3>1. list[k].page \in DOMAIN d.pages /\ d.pages[list[k].page].right # 0
      BY <1>3, StackShape DEF IsStack
    <3>2. list[k].current_index \in DOMAIN d.pages[list[k].page].cells
      BY DEF IsPath
    <3> DEFINE i == list[k].current_index
               p == list[k].page
    <3>3. i \in 1 .. Len(d.pages[p].cells) /\ Len(d.pages[p].cells) \in Nat
      BY <3>1, <3>2, Children
    <3> HIDE DEF i, p
    <3>4. i \in DOMAIN Links(d)[p] /\ Links(d)[p][i] = d.pages[p].cells[i].child
      BY <3>1, <3>3, Children, SMTT(30) DEF p
    <3> QED
      BY <3>1, <3>4, Children DEF i, p
  <2>6. root \in DOMAIN d.pages /\ list[1].page \in spine[root]
    BY DEF IsPath
  <2> HIDE DEF child, longer, cells, top
  <2>7. longer # <<>> => root \in DOMAIN d.pages /\ longer[1].page \in spine[root]
    BY <1>3, <2>2, <2>4, <2>6, SMTT(20)
  <2>8. ASSUME NEW k \in 1 .. Len(longer) - 1
        PROVE  LET below == d.pages[longer[k].page].cells
               IN  /\ longer[k].current_index \in DOMAIN below
                   /\ longer[k + 1].page \in spine[below[longer[k].current_index].child]
    <3>1. k \in 1 .. Len(list) - 1 /\ longer[k] = list[k]
      BY <2>1, <2>2
    <3>2. longer[k + 1].page = list[k + 1].page \/ (k + 1 = Len(list) /\ longer[k + 1].page = child)
      BY <1>3, <2>2, <3>1, SMTT(30)
    <3>3. /\ list[k].current_index \in DOMAIN d.pages[list[k].page].cells
          /\ list[k + 1].page \in spine[d.pages[list[k].page].cells[list[k].current_index].child]
      BY <3>1, SMTT(30) DEF IsPath
    <3> QED
      BY <2>4, <2>5, <3>1, <3>2, <3>3, Zenon
  <2>9. IsPath(d, spine, root, longer)
    BY <2>7, <2>8 DEF IsPath
  <2> QED
    BY <2>9 DEF longer
<1>8. j <= Len(cells) \/ j = Len(cells) + 1
  <2> DEFINE m == Len(cells)
  <2>1. m \in Nat /\ j \in 1 .. m + 1
    BY <1>2, <1>4
  <2> HIDE DEF m
  <2>2. j <= m \/ j = m + 1
    BY <2>1
  <2> QED
    BY <2>2 DEF m
<1> HIDE DEF longer, cells, child, top
<1>9. IsPath(d, spine, root, longer)
  BY <1>6, <1>7, <1>8 DEF longer
<1> QED
  BY <1>9 DEF longer


-----------------------------------------------------------------------------
LEMMA BothAheadSymmetric ==
  ASSUME NEW links, NEW mine, NEW other, NEW seen, BothAhead(links, mine, other, seen)
  PROVE  BothAhead(links, other, mine, seen)
  BY DEF BothAhead

LEMMA BothAheadNarrowed ==
  ASSUME NEW d \in Databases, NEW mine, NEW other, NEW seen,
         IsStack(d, mine), mine # <<>>, BothAhead(Links(d), mine, other, seen),
         NEW i \in Nat, i >= Top(mine).current_index,
         NEW rest, IsNarrowed(d, mine, i, rest)
  PROVE  /\ BothAhead(Links(d), rest, other, seen)
         /\ \A k \in 1 .. Len(rest) : \E l \in 1 .. Len(mine) :
              /\ rest[k].page = mine[l].page
              /\ mine[l].current_index <= rest[k].current_index
              /\ l = Len(mine) => rest[k].current_index = i
<1>1. Len(mine) \in Nat \ {0} /\ Top(mine) = mine[Len(mine)]
  BY StackShape
<1>2. \A k \in 1 .. Len(mine) : mine[k].page \in DOMAIN d.pages /\ mine[k].current_index \in Nat
  BY StackShape
<1>3. /\ Len(rest) \in {Len(mine) - 1, Len(mine)}
      /\ \A k \in 1 .. Len(mine) - 1 : rest[k] = mine[k]
      /\ Len(rest) = Len(mine) => /\ rest[Len(mine)].page = Top(mine).page
                                 /\ rest[Len(mine)].current_index = i
  BY <1>1 DEF IsNarrowed
<1>4. \A k \in 1 .. Len(rest) :
        /\ k \in 1 .. Len(mine) /\ rest[k].page = mine[k].page
        /\ mine[k].current_index <= rest[k].current_index
        /\ k = Len(mine) => rest[k].current_index = i
        /\ rest[k].current_index \in Nat
  BY <1>1, <1>2, <1>3
<1>5. IsAhead(Links(d), rest, seen)
  <2> SUFFICES ASSUME NEW k \in 1 .. Len(rest)
               PROVE  /\ rest[k].page \in seen
                      /\ \A n \in DOMAIN Links(d)[rest[k].page] :
                           n > rest[k].current_index => Links(d)[rest[k].page][n] \notin seen
                      /\ \A l \in 1 .. Len(rest) : rest[k].page = rest[l].page => k = l
    BY DEF IsAhead
  <2>1. /\ mine[k].page \in seen
        /\ \A n \in DOMAIN Links(d)[mine[k].page] :
             n > mine[k].current_index => Links(d)[mine[k].page][n] \notin seen
        /\ \A l \in 1 .. Len(mine) : mine[k].page = mine[l].page => k = l
    BY <1>4 DEF BothAhead, IsAhead
  <2>2. \A n \in DOMAIN Links(d)[mine[k].page] : n \in Nat
    <3>1. mine[k].page \in DOMAIN d.pages
      BY <1>2, <1>4
    <3> QED
      BY <3>1, Children
  <2> QED
    BY <1>2, <1>4, <2>1, <2>2
<1> QED
  BY <1>4, <1>5 DEF BothAhead

LEMMA BothAheadDescended ==
  ASSUME NEW d \in Databases, NEW mine, NEW other, NEW seen,
         IsStack(d, mine), mine # <<>>, IsStack(d, other), BothAhead(Links(d), mine, other, seen),
         NEW j \in DOMAIN Links(d)[Top(mine).page], j > Top(mine).current_index
  PROVE  LET child == Links(d)[Top(mine).page][j]
         IN  /\ child \notin seen
             /\ BothAhead(Links(d), Descended(d, mine, j), other, seen \cup {child})
<1> DEFINE top == Top(mine).page
           child == Links(d)[top][j]
           links == Links(d)
           longer == Descended(d, mine, j)
           more == seen \cup {child}
<1>1. PICK rest : /\ IsNarrowed(d, mine, j, rest)
                  /\ Len(rest) = IF j <= Len(d.pages[top].cells) THEN Len(mine) ELSE Len(mine) - 1
                  /\ IsPushed(d, rest, child, longer)
  BY DescendedBy
<1>2. Len(mine) \in Nat \ {0} /\ Top(mine) = mine[Len(mine)] /\ top \in DOMAIN d.pages
  BY StackShape
<1>3. j \in Nat /\ child \in DOMAIN d.pages
  BY DescendedBy
<1>4. /\ DOMAIN links = DOMAIN d.pages
      /\ \A p \in DOMAIN links : \A i \in DOMAIN links[p] : i \in Nat
      /\ \A p, q \in DOMAIN links : \A i \in DOMAIN links[p], k \in DOMAIN links[q] :
           links[p][i] = links[q][k] => p = q /\ i = k
  <2>1. IsForest(links, Roots(d))
    <3>1. <<Links(d), Roots(d)>> \in {<<Links(e), Roots(e)>> : e \in Databases}
      OBVIOUS
    <3> QED
      BY <3>1, Trees, Zenon
  <2>2. DOMAIN links = DOMAIN d.pages
    BY DEF Links
  <2>3. \A p \in DOMAIN links : \A i \in DOMAIN links[p] : i \in Nat
    BY <2>2, Children
  <2> QED
    BY <2>1, <2>2, <2>3 DEF IsForest
<1>5. top \in seen /\ child \notin seen
  BY <1>2 DEF BothAhead, IsAhead
<1>6. /\ BothAhead(links, rest, other, seen)
      /\ \A k \in 1 .. Len(rest) : \E l \in 1 .. Len(mine) :
           /\ rest[k].page = mine[l].page
           /\ mine[l].current_index <= rest[k].current_index
           /\ l = Len(mine) => rest[k].current_index = j
  <2>1. j >= Top(mine).current_index
    BY <1>2, <1>3, StackShape DEF SubWalkersOf
  <2>2. IsNarrowed(d, mine, j, rest)
    BY <1>1
  <2> HIDE DEF links
  <2> QED
    BY <1>3, <2>1, <2>2, BothAheadNarrowed DEF links
<1>7. /\ \A k \in 1 .. Len(mine) : mine[k].page \in DOMAIN d.pages
      /\ \A k \in 1 .. Len(other) : other[k].page \in DOMAIN d.pages
  BY StackShape
\* No other sub-walker has the child ahead of it.
<1>8. ASSUME NEW k \in 1 .. Len(rest), NEW i \in DOMAIN links[rest[k].page], i > rest[k].current_index
      PROVE  links[rest[k].page][i] # child
  <2>1. PICK l \in 1 .. Len(mine) : /\ rest[k].page = mine[l].page
                                    /\ l = Len(mine) => rest[k].current_index = j
    BY <1>6
  <2>2. links[rest[k].page][i] = child => rest[k].page = top /\ i = j
    BY <1>2, <1>4, <1>7, <2>1
  <2>3. rest[k].page = top => l = Len(mine)
    <3>1. \A m \in 1 .. Len(mine) : mine[l].page = mine[m].page => l = m
      BY DEF BothAhead, IsAhead
    <3>2. Len(mine) \in 1 .. Len(mine) /\ top = mine[Len(mine)].page
      BY <1>2
    <3> QED
      BY <2>1, <3>1, <3>2
  <2> QED
    BY <1>3, <1>8, <2>1, <2>2, <2>3
<1>9. ASSUME NEW k \in 1 .. Len(other), NEW i \in DOMAIN links[other[k].page]
      PROVE  links[other[k].page][i] # child
  <2>1. links[other[k].page][i] = child => other[k].page = top
    BY <1>2, <1>4, <1>7
  <2>2. other[k].page # top
    BY <1>2 DEF BothAhead
  <2> QED
    BY <2>1, <2>2
<1>10. \A i \in DOMAIN links[child] : links[child][i] \notin more
  <2> TAKE i \in DOMAIN links[child]
  <2>1. links[child][i] \notin seen
    BY <1>3, <1>4, <1>5 DEF BothAhead
  <2>2. links[child][i] # child
    BY <1>2, <1>3, <1>4, <1>5
  <2> QED
    BY <2>1, <2>2
<1>11. /\ Len(rest) \in Nat /\ Len(longer) = Len(rest) + 1
       /\ \A k \in 1 .. Len(rest) : longer[k] = rest[k]
       /\ longer[Len(rest) + 1].page = child
  BY <1>1, <1>2 DEF IsPushed
<1> HIDE DEF child, longer, more, links, top
<1>12. \A p \in DOMAIN links : \A i \in DOMAIN links[p] : links[p][i] \in more => p \in more
  <2> SUFFICES ASSUME NEW p \in DOMAIN links, NEW i \in DOMAIN links[p], links[p][i] \in more
               PROVE  p \in more
    OBVIOUS
  <2>1. CASE links[p][i] \in seen
    BY <1>6, <2>1 DEF BothAhead, more
  <2>2. CASE links[p][i] = child
    BY <1>2, <1>4, <1>5, <2>2 DEF child, more, links, top
  <2> QED
    BY <2>1, <2>2 DEF more
<1>13. IsAhead(links, longer, more)
  <2>1. ASSUME NEW k \in 1 .. Len(rest)
        PROVE  /\ rest[k].page \in more /\ rest[k].page # child
               /\ \A i \in DOMAIN links[rest[k].page] :
                    i > rest[k].current_index => links[rest[k].page][i] \notin more
               /\ \A l \in 1 .. Len(rest) : rest[k].page = rest[l].page => k = l
    BY <1>5, <1>6, <1>8 DEF BothAhead, IsAhead, more
  <2> QED
    BY <1>10, <1>11, <2>1 DEF IsAhead, more
<1>14. IsAhead(links, other, more) /\ \A k \in 1 .. Len(other) : other[k].page # child
  <2>1. IsAhead(links, other, seen)
    BY <1>6 DEF BothAhead
  <2>2. \A k \in 1 .. Len(other) : other[k].page \in seen /\ other[k].page # child
    BY <1>5, <2>1 DEF IsAhead
  <2>3. \A k \in 1 .. Len(other) : \A i \in DOMAIN links[other[k].page] :
          i > other[k].current_index => links[other[k].page][i] \notin more
    BY <1>9, <2>1 DEF IsAhead, more
  <2> QED
    BY <2>1, <2>2, <2>3 DEF IsAhead, more
<1>15. \A k \in 1 .. Len(longer), l \in 1 .. Len(other) : longer[k].page # other[l].page
  <2>1. \A k \in 1 .. Len(rest), l \in 1 .. Len(other) : rest[k].page # other[l].page
    BY <1>6 DEF BothAhead
  <2> QED
    BY <1>11, <1>14, <2>1
<1>16. BothAhead(links, longer, other, more)
  BY <1>12, <1>13, <1>14, <1>15 DEF BothAhead
<1> QED
  BY <1>5, <1>16 DEF child, longer, more, links, top


-----------------------------------------------------------------------------
IsSpineOf(P, right, spine) ==
  spine = [p \in P |-> {p} \cup IF right[p] = 0 THEN {} ELSE spine[right[p]]]

\* The recursion that defines the spines has a solution: the pages that are in
\* every set that holds the page and, with a page, the right-most one below it.
LEMMA SpinesExist ==
  ASSUME NEW P, NEW right, 0 \notin P, \A p \in P : right[p] \in P \cup {0}
  PROVE  \E spine : IsSpineOf(P, right, spine)
<1> DEFINE Closed(S) == \A p \in S : right[p] # 0 => right[p] \in S
           g == [p \in P |-> {q \in P : \A S \in SUBSET P : Closed(S) /\ p \in S => q \in S}]
<1>1. ASSUME NEW p \in P
      PROVE  p \in g[p] /\ Closed(g[p]) /\ g[p] \subseteq P
  <2>1. p \in g[p] /\ g[p] \subseteq P
    OBVIOUS
  <2>2. ASSUME NEW q \in g[p], right[q] # 0
        PROVE  right[q] \in g[p]
    <3>1. q \in P /\ right[q] \in P
      BY <2>2
    <3>2. \A S \in SUBSET P : Closed(S) /\ p \in S => q \in S
      OBVIOUS
    <3>3. \A S \in SUBSET P : Closed(S) /\ p \in S => right[q] \in S
      BY <2>2, <3>2
    <3> QED
      BY <3>1, <3>3
  <2> QED
    BY <2>1, <2>2
<1>2. ASSUME NEW p \in P, NEW S \in SUBSET P, Closed(S), p \in S
      PROVE  g[p] \subseteq S
  BY <1>2
<1>3. ASSUME NEW p \in P
      PROVE  g[p] = {p} \cup IF right[p] = 0 THEN {} ELSE g[right[p]]
  <2> DEFINE T == {p} \cup IF right[p] = 0 THEN {} ELSE g[right[p]]
  <2>1. right[p] # 0 => right[p] \in P
    OBVIOUS
  <2> HIDE DEF g
  <2>2. T \in SUBSET P /\ p \in T
    BY <1>1, <2>1
  <2>3. ASSUME NEW q \in T, right[q] # 0
        PROVE  right[q] \in T
    BY <1>1, <2>1, <2>3
  <2>4. g[p] \subseteq T
    <3> HIDE DEF T
    <3> QED
      BY <1>2, <2>2, <2>3
  <2>5. right[p] # 0 => g[right[p]] \subseteq g[p]
    BY <1>1, <1>2, <2>1
  <2>6. T \subseteq g[p]
    BY <1>1, <2>5
  <2> QED
    BY <2>4, <2>6
<1>4. g = [p \in P |-> g[p]]
  OBVIOUS
<1> HIDE DEF g
<1>5. IsSpineOf(P, right, g)
  BY <1>3, <1>4 DEF IsSpineOf
<1> QED
  BY <1>5

LEMMA RightSpineIsSpine ==
  ASSUME db \in Databases
  PROVE  IsSpine(db, RightSpine)
<1> DEFINE P == DOMAIN db.pages
           right == [p \in P |-> db.pages[p].right]
           spine == RightSpine
<1>1. 0 \notin P /\ \A p \in P : right[p] \in P \cup {0}
  BY Children, Trees
<1>2. spine = [p \in P |-> {p} \cup IF db.pages[p].right = 0 THEN {} ELSE spine[db.pages[p].right]]
  <2>1. \E f : IsSpineOf(P, right, f)
    <3> HIDE DEF P, right
    <3> QED
      BY <1>1, SpinesExist
  <2>2. \E f : f = [p \in P |-> {p} \cup IF db.pages[p].right = 0 THEN {} ELSE f[db.pages[p].right]]
    BY <2>1 DEF IsSpineOf
  <2> QED
    BY <2>2, Zenon DEF RightSpine
<1> HIDE DEF spine
<1>3. \A p \in P : spine[p] = {p} \cup IF right[p] = 0 THEN {} ELSE spine[right[p]]
  BY <1>2, Zenon
<1> DEFINE Bad == {p \in P : \E q \in P : q \in spine[p] /\ right[q] # 0 /\ right[q] \notin spine[p]}
<1>4. Bad = {}
  <2> SUFFICES ASSUME Bad # {} PROVE FALSE
    OBVIOUS
  <2>1. \A p \in P : right[p] # 0 => \E i \in DOMAIN Links(db)[p] : Links(db)[p][i] = right[p]
    <3> SUFFICES ASSUME NEW p \in P, right[p] # 0
                 PROVE  \E i \in DOMAIN Links(db)[p] : Links(db)[p][i] = right[p]
      OBVIOUS
    <3>1. Len(db.pages[p].cells) + 1 \in DOMAIN Links(db)[p]
      BY Children
    <3>2. Links(db)[p][Len(db.pages[p].cells) + 1] = right[p]
      BY Children
    <3> QED
      BY <3>1, <3>2
  <2>2. \E p \in Bad : \A i \in DOMAIN Links(db)[p] : Links(db)[p][i] \notin Bad
    <3>1. IsForest(Links(db), Roots(db))
      <4>1. <<Links(db), Roots(db)>> \in {<<Links(e), Roots(e)>> : e \in Databases}
        OBVIOUS
      <4> QED
        BY <4>1, Trees, Zenon
    <3>2. DOMAIN Links(db) = P
      BY DEF Links
    <3> QED
      BY <3>1, <3>2, Zenon DEF IsForest
  <2>3. PICK p \in Bad : right[p] # 0 => right[p] \notin Bad
    <3> HIDE DEF right
    <3>1. Bad \subseteq P
      OBVIOUS
    <3> HIDE DEF Bad
    <3> QED
      BY <2>1, <2>2, <3>1
  <2>4. PICK q \in P : q \in spine[p] /\ right[q] # 0 /\ right[q] \notin spine[p]
    OBVIOUS
  <2>5. CASE q = p
    <3>1. right[p] \in P /\ right[p] \in spine[right[p]]
      BY <1>1, <1>3, <2>4, <2>5
    <3> QED
      BY <1>3, <2>4, <2>5, <3>1, Zenon
  <2>6. CASE q # p
    <3>1. right[p] # 0 /\ q \in spine[right[p]]
      BY <1>3, <2>4, <2>6
    <3>2. right[p] \in P /\ right[p] \notin Bad
      BY <1>1, <2>3, <3>1
    <3>3. right[q] \in spine[right[p]]
      BY <2>4, <3>1, <3>2
    <3>4. spine[right[p]] \subseteq spine[p]
      <4>1. p \in P
        OBVIOUS
      <4>2. spine[p] = {p} \cup spine[right[p]]
        BY <1>3, <3>1, <4>1, Zenon
      <4> QED
        BY <4>2
    <3> QED
      BY <2>4, <3>3, <3>4
  <2> QED
    BY <2>5, <2>6
<1>5. ASSUME NEW p \in P, NEW q \in P, q \in spine[p], db.pages[q].right # 0
      PROVE  db.pages[q].right \in spine[p]
  BY <1>4, <1>5
<1> QED
  BY <1>3, <1>5, Zenon DEF IsSpine, spine


-----------------------------------------------------------------------------
\* While the scan has not failed, the pages of a stack have cells, and the top one
\* of a table's leaf is at one of them.
IsFit(d, list) ==
  /\ \A k \in 1 .. Len(list) : d.pages[list[k].page].cells # <<>>
  /\ list # <<>> /\ d.pages[Top(list).page].type = "leaf_table"
       => Top(list).current_index < Len(d.pages[Top(list).page].cells)

LEMMA FitPopped ==
  ASSUME NEW d \in Databases, NEW list, IsStack(d, list), list # <<>>, IsFit(d, list)
  PROVE  IsFit(d, Pop(list))
<1>1. /\ Len(list) \in Nat \ {0} /\ list \in Seq(SubWalkersOf(d))
      /\ \A k \in 1 .. Len(list) : list[k].page \in DOMAIN d.pages
  BY StackShape DEF IsStack
<1>2. /\ Len(Pop(list)) = Len(list) - 1 /\ Pop(list) \in Seq(SubWalkersOf(d))
      /\ \A k \in 1 .. Len(list) - 1 : Pop(list)[k] = list[k]
  BY <1>1, Popped
<1>3. \A k \in 1 .. Len(Pop(list)) : d.pages[Pop(list)[k].page].cells # <<>>
  BY <1>1, <1>2 DEF IsFit
<1>4. ASSUME Pop(list) # <<>>
      PROVE  d.pages[Top(Pop(list)).page].type # "leaf_table"
  <2> DEFINE k == Len(list) - 1
  <2>1. k \in 1 .. Len(list) - 1 /\ Top(Pop(list)) = list[k]
    BY <1>1, <1>2, <1>4, LastInList DEF Top
  <2>2. d.pages[list[k].page].right # 0 /\ list[k].page \in DOMAIN d.pages
    BY <1>1, <2>1 DEF IsStack
  <2>3. d.pages[list[k].page].type \in {"interior_table", "interior_index"}
    BY <2>2, Children
  <2> QED
    BY <2>1, <2>3
<1> QED
  BY <1>3, <1>4 DEF IsFit

LEMMA FitAdvanced ==
  ASSUME NEW d \in Databases, NEW list, IsStack(d, list), list # <<>>, IsFit(d, list),
         NEW i \in Nat,
         d.pages[Top(list).page].type = "leaf_table" => i < Len(d.pages[Top(list).page].cells)
  PROVE  IsFit(d, Advance(list, i))
<1>1. Len(list) \in Nat \ {0} /\ Top(list) = list[Len(list)]
  BY StackShape
<1>2. IsNarrowed(d, list, i, Advance(list, i))
  BY NarrowedBy
<1>3. Len(Advance(list, i)) = Len(list)
  BY DEF Advance, IsStack
<1>4. /\ Top(Advance(list, i)).page = Top(list).page /\ Top(Advance(list, i)).current_index = i
      /\ \A k \in 1 .. Len(list) : Advance(list, i)[k].page = list[k].page
  BY <1>1, <1>2, <1>3 DEF IsNarrowed, Top
<1> QED
  BY <1>3, <1>4 DEF IsFit

LEMMA FitDescended ==
  ASSUME NEW d \in Databases, NEW list, IsStack(d, list), list # <<>>, IsFit(d, list),
         NEW j \in DOMAIN Links(d)[Top(list).page],
         d.pages[Links(d)[Top(list).page][j]].cells # <<>>
  PROVE  IsFit(d, Descended(d, list, j))
<1> DEFINE child == Links(d)[Top(list).page][j]
           longer == Descended(d, list, j)
<1>1. PICK rest : /\ IsNarrowed(d, list, j, rest)
                  /\ IsPushed(d, rest, child, longer)
  BY DescendedBy
<1>2. Len(list) \in Nat \ {0} /\ child \in DOMAIN d.pages
  BY StackShape, DescendedBy
<1>3. Len(d.pages[child].cells) \in Nat \ {0}
  <2>1. IsPage(d.pages[child], DOMAIN d.pages)
    BY <1>2, Trees
  <2>2. d.pages[child].cells \in Seq(CellsOfType(DOMAIN d.pages)[d.pages[child].type])
    BY <2>1 DEF IsPage
  <2> QED
    BY <2>2, EmptySeq
<1> HIDE DEF child, longer
<1>4. /\ Len(rest) \in Nat /\ Len(longer) = Len(rest) + 1
      /\ \A k \in 1 .. Len(rest) : longer[k].page = list[k].page /\ k \in 1 .. Len(list)
      /\ longer[Len(longer)].page = child /\ longer[Len(longer)].current_index = 0
  BY <1>1, <1>2 DEF IsNarrowed, IsPushed
<1>5. \A k \in 1 .. Len(longer) : d.pages[longer[k].page].cells # <<>>
  <2>1. d.pages[child].cells # <<>>
    BY DEF child
  <2> QED
    BY <1>4, <2>1 DEF IsFit
<1>6. Top(longer).page = child /\ Top(longer).current_index = 0
  BY <1>4 DEF Top
<1>7. IsFit(d, longer)
  BY <1>3, <1>5, <1>6 DEF IsFit
<1> QED
  BY <1>7 DEF longer

-----------------------------------------------------------------------------
IsWalk(d, spine, tables, indexes, seen) ==
  /\ IsStack(d, tables) /\ IsStack(d, indexes)
  /\ BothAhead(Links(d), tables, indexes, seen)
  /\ IsPath(d, spine, d.table, tables) /\ IsPath(d, spine, d.index, indexes)

\* The parts of TypeOK that are not about the stacks.
ValuesOK ==
  /\ db \in Databases /\ predicate \in Predicates
  /\ current_rowid \in Nat \ {0} /\ next_rowid \in Nat
  /\ pc \in {"ready", "seek_rowid", "use_rowid", "seek_row", "exhausted",
             "exit", "undefined"}
  /\ rows \in Seq(Nat) /\ walked \in Seq(DOMAIN db.pages)

\* The inductive invariant of the scans.
WalkerInv ==
  /\ ValuesOK
  /\ IsWalk(db, RightSpine, table_list, index_list, Range(walked))
  /\ pc # "exit" => IsFit(db, table_list) /\ IsFit(db, index_list)
  /\ PagesWalkedOnce

LEMMA WalkerInvTypes ==
  ASSUME WalkerInv
  PROVE  TypeOK
<1>1. table_list \in Seq(SubWalkers) /\ index_list \in Seq(SubWalkers)
  BY DEF WalkerInv, IsWalk, IsStack, SubWalkers, SubWalkersOf
<1>2. \A list \in {table_list, index_list} : \A k \in DOMAIN list :
        list[k].current_index <= Len(Cells(list[k].page))
  BY StackShape, Zenon DEF WalkerInv, IsWalk, IsStack, Cells
<1>3. pc # "exit" /\ table_list # <<>> /\ TypeOfTop(table_list) = "leaf_table"
        => Top(table_list).current_index < CountOf(table_list)
  BY DEF WalkerInv, IsFit, TypeOfTop, CountOf, Cells
<1> QED
  BY <1>1, <1>2, <1>3 DEF WalkerInv, ValuesOK, TypeOK

LEMMA WalkerInvPaths ==
  ASSUME WalkerInv
  PROVE  StacksArePaths
<1>1. IsPath(db, RightSpine, db.table, table_list) /\ IsPath(db, RightSpine, db.index, index_list)
  BY DEF WalkerInv, IsWalk
<1> QED
  BY <1>1, Zenon DEF IsPath, StacksArePaths, Cells


\* The steps on a stack keep the walk.
LEMMA WalkNarrowed ==
  ASSUME NEW d \in Databases, NEW spine, NEW tables, NEW indexes, NEW seen,
         IsWalk(d, spine, tables, indexes, seen), NEW i \in Nat
  PROVE  /\ tables # <<>> /\ Top(tables).current_index <= i
              /\ i <= Len(d.pages[Top(tables).page].cells)
            => /\ IsWalk(d, spine, Advance(tables, i), indexes, seen)
               /\ IsWalk(d, spine, Pop(tables), indexes, seen)
         /\ indexes # <<>> /\ Top(indexes).current_index <= i
              /\ i <= Len(d.pages[Top(indexes).page].cells)
            => /\ IsWalk(d, spine, tables, Advance(indexes, i), seen)
               /\ IsWalk(d, spine, tables, Pop(indexes), seen)
<1>1. ASSUME NEW root, NEW mine, NEW other, NEW rest, IsStack(d, mine), mine # <<>>,
             BothAhead(Links(d), mine, other, seen), IsPath(d, spine, root, mine),
             Top(mine).current_index <= i, i <= Len(d.pages[Top(mine).page].cells),
             rest \in {Advance(mine, i), Pop(mine)}
      PROVE  IsStack(d, rest) /\ BothAhead(Links(d), rest, other, seen) /\ IsPath(d, spine, root, rest)
  <2>1. IsNarrowed(d, mine, i, rest)
    BY <1>1, NarrowedBy
  <2>2. i >= Top(mine).current_index
    BY <1>1, StackShape DEF SubWalkersOf
  <2> QED
    BY <1>1, <2>1, <2>2, StackNarrowed, BothAheadNarrowed, PathNarrowed
<1>2. ASSUME tables # <<>>, Top(tables).current_index <= i, i <= Len(d.pages[Top(tables).page].cells),
             NEW rest \in {Advance(tables, i), Pop(tables)}
      PROVE  IsWalk(d, spine, rest, indexes, seen)
  BY <1>1, <1>2 DEF IsWalk
<1>3. ASSUME indexes # <<>>, Top(indexes).current_index <= i, i <= Len(d.pages[Top(indexes).page].cells),
             NEW rest \in {Advance(indexes, i), Pop(indexes)}
      PROVE  IsWalk(d, spine, tables, rest, seen)
  <2>1. BothAhead(Links(d), indexes, tables, seen)
    BY BothAheadSymmetric DEF IsWalk
  <2>2. IsStack(d, rest) /\ BothAhead(Links(d), rest, tables, seen) /\ IsPath(d, spine, d.index, rest)
    BY <1>1, <1>3, <2>1 DEF IsWalk
  <2> QED
    BY <2>2, BothAheadSymmetric DEF IsWalk
<1> QED
  BY <1>2, <1>3

LEMMA WalkDescended ==
  ASSUME NEW d \in Databases, NEW spine, IsSpine(d, spine), NEW tables, NEW indexes, NEW seen,
         IsWalk(d, spine, tables, indexes, seen)
  PROVE  /\ tables # <<>> => \A j \in DOMAIN Links(d)[Top(tables).page] :
              j > Top(tables).current_index =>
                LET child == Links(d)[Top(tables).page][j]
                IN  /\ child \in DOMAIN d.pages \ seen
                    /\ IsWalk(d, spine, Descended(d, tables, j), indexes, seen \cup {child})
         /\ indexes # <<>> => \A j \in DOMAIN Links(d)[Top(indexes).page] :
              j > Top(indexes).current_index =>
                LET child == Links(d)[Top(indexes).page][j]
                IN  /\ child \in DOMAIN d.pages \ seen
                    /\ IsWalk(d, spine, tables, Descended(d, indexes, j), seen \cup {child})
<1>1. ASSUME NEW root, NEW mine, NEW other, IsStack(d, mine), mine # <<>>, IsStack(d, other),
             BothAhead(Links(d), mine, other, seen), IsPath(d, spine, root, mine),
             NEW j \in DOMAIN Links(d)[Top(mine).page], j > Top(mine).current_index
      PROVE  /\ Links(d)[Top(mine).page][j] \in DOMAIN d.pages \ seen
             /\ IsStack(d, Descended(d, mine, j))
             /\ BothAhead(Links(d), Descended(d, mine, j), other, seen \cup {Links(d)[Top(mine).page][j]})
             /\ IsPath(d, spine, root, Descended(d, mine, j))
  BY <1>1, DescendedBy, StackDescended, BothAheadDescended, PathDescended, Zenon
<1>2. ASSUME tables # <<>>, NEW j \in DOMAIN Links(d)[Top(tables).page], j > Top(tables).current_index
      PROVE  /\ Links(d)[Top(tables).page][j] \in DOMAIN d.pages \ seen
             /\ IsWalk(d, spine, Descended(d, tables, j), indexes, seen \cup {Links(d)[Top(tables).page][j]})
  BY <1>1, <1>2 DEF IsWalk
<1>3. ASSUME indexes # <<>>, NEW j \in DOMAIN Links(d)[Top(indexes).page], j > Top(indexes).current_index
      PROVE  /\ Links(d)[Top(indexes).page][j] \in DOMAIN d.pages \ seen
             /\ IsWalk(d, spine, tables, Descended(d, indexes, j), seen \cup {Links(d)[Top(indexes).page][j]})
  <2>1. BothAhead(Links(d), indexes, tables, seen)
    BY BothAheadSymmetric DEF IsWalk
  <2>2. /\ Links(d)[Top(indexes).page][j] \in DOMAIN d.pages \ seen
        /\ IsStack(d, Descended(d, indexes, j))
        /\ BothAhead(Links(d), Descended(d, indexes, j), tables, seen \cup {Links(d)[Top(indexes).page][j]})
        /\ IsPath(d, spine, d.index, Descended(d, indexes, j))
    BY <1>1, <1>3, <2>1 DEF IsWalk
  <2> QED
    BY <2>2, BothAheadSymmetric DEF IsWalk
<1> QED
  BY <1>2, <1>3

-----------------------------------------------------------------------------
LEMMA WalkerInitInv ==
  ASSUME Init
  PROVE  WalkerInv
<1> USE DEF Init, Start
<1>1. /\ db.table \in DOMAIN db.pages /\ db.index \in (DOMAIN db.pages \cup {0}) \ {db.table}
      /\ 0 \notin DOMAIN db.pages
      /\ \A p \in DOMAIN db.pages : IsPage(db.pages[p], DOMAIN db.pages)
  BY Trees
<1>2. ValuesOK
  <2>1. walked \in Seq(DOMAIN db.pages)
    <3>1. IndexScan => db.index \in DOMAIN db.pages
      BY <1>1 DEF IndexScan
    <3>2. ASSUME NEW P, NEW a \in P, NEW b \in P
          PROVE  <<a>> \in Seq(P) /\ <<a, b>> \in Seq(P)
      <4> HIDE DEF Init, Start
      <4> QED
        OBVIOUS
    <3>3. /\ <<db.table>> \in Seq(DOMAIN db.pages)
          /\ IndexScan => <<db.index, db.table>> \in Seq(DOMAIN db.pages)
      BY <1>1, <3>1, <3>2, Zenon
    <3>4. (walked = <<db.index, db.table>> /\ IndexScan) \/ walked = <<db.table>>
      OBVIOUS
    <3> QED
      BY <3>3, <3>4
  <2>2. rows \in Seq(Nat) /\ pc \in {"ready", "exit"}
    OBVIOUS
  <2> QED
    BY <2>1, <2>2 DEF ValuesOK
<1>3. PagesWalkedOnce
  BY <1>1 DEF PagesWalkedOnce, IndexScan
<1>4. Range(walked) = IF IndexScan THEN {db.table, db.index} ELSE {db.table}
  BY DEF Range
<1> DEFINE one(p) == <<[page |-> p, current_index |-> 0]>>
<1>5. table_list = one(db.table) /\ index_list = IF IndexScan THEN one(db.index) ELSE <<>>
  BY DEF SubWalker
<1>6. ASSUME NEW p \in DOMAIN db.pages
      PROVE  IsStack(db, one(p))
  <2>1. [page |-> p, current_index |-> 0] \in SubWalkersOf(db)
    BY DEF SubWalkersOf
  <2>2. Len(db.pages[p].cells) >= 0
    BY <1>1, Children
  <2> QED
    BY <2>1, <2>2 DEF IsStack
<1>7. IsStack(db, <<>>)
  BY SMTT(20) DEF IsStack
<1>8. /\ \A p \in DOMAIN Links(db) : \A i \in DOMAIN Links(db)[p] :
           Links(db)[p][i] \notin {db.table, db.index}
      /\ DOMAIN Links(db) = DOMAIN db.pages
  <2>1. IsForest(Links(db), Roots(db))
    <3>1. <<Links(db), Roots(db)>> \in {<<Links(e), Roots(e)>> : e \in Databases}
      OBVIOUS
    <3> QED
      BY <3>1, Trees, Zenon
  <2> QED
    BY <2>1 DEF IsForest, Roots, Links
<1>9. BothAhead(Links(db), table_list, index_list, Range(walked))
  BY <1>1, <1>4, <1>5, <1>8 DEF BothAhead, IsAhead, IndexScan
<1>10. IsPath(db, RightSpine, db.table, table_list) /\ IsPath(db, RightSpine, db.index, index_list)
  <2>1. \A p \in DOMAIN db.pages : p \in RightSpine[p]
    BY RightSpineIsSpine DEF IsSpine
  <2>2. ASSUME NEW p \in DOMAIN db.pages
        PROVE  IsPath(db, RightSpine, p, one(p))
    BY <2>1, <2>2 DEF IsPath
  <2>3. \A p : IsPath(db, RightSpine, p, <<>>)
    BY DEF IsPath
  <2>4. IndexScan => db.index \in DOMAIN db.pages
    BY <1>1 DEF IndexScan
  <2> HIDE DEF one
  <2> QED
    BY <1>1, <1>5, <2>2, <2>3, <2>4
<1>11. IsWalk(db, RightSpine, table_list, index_list, Range(walked))
  BY <1>1, <1>5, <1>6, <1>7, <1>9, <1>10 DEF IsWalk, IndexScan
<1>12. ASSUME NEW p \in DOMAIN db.pages, db.pages[p].cells # <<>>
       PROVE  IsFit(db, one(p))
  <2>1. db.pages[p].cells \in Seq(CellsOfType(DOMAIN db.pages)[db.pages[p].type])
    BY <1>1 DEF IsPage
  <2>2. Len(db.pages[p].cells) > 0
    BY <1>12, <2>1, EmptySeq
  <2> QED
    BY <1>12, <2>2 DEF IsFit, Top
<1>13. pc # "exit" => IsFit(db, table_list) /\ IsFit(db, index_list)
  <2>1. IsFit(db, <<>>)
    BY DEF IsFit
  <2> QED
    BY <1>5, <1>12, <2>1 DEF Walkable, Cells, IndexScan
<1> QED
  BY <1>2, <1>3, <1>11, <1>13 DEF WalkerInv


\* A page walked for the first time.
LEMMA PageWalked ==
  ASSUME WalkerInv, NEW child \in DOMAIN db.pages \ Range(walked), walked' = Append(walked, child),
         db' = db
  PROVE  /\ walked' \in Seq(DOMAIN db.pages) /\ Range(walked') = Range(walked) \cup {child}
         /\ PagesWalkedOnce'
<1>1. walked \in Seq(DOMAIN db.pages)
  BY DEF WalkerInv, ValuesOK
<1>2. /\ walked' \in Seq(DOMAIN db.pages) /\ Len(walked') = Len(walked) + 1 /\ Len(walked) \in Nat
      /\ \A i \in 1 .. Len(walked) : walked'[i] = walked[i]
      /\ walked'[Len(walked) + 1] = child
      /\ DOMAIN walked = 1 .. Len(walked) /\ DOMAIN walked' = 1 .. Len(walked')
  BY <1>1, AppendProperties, LenProperties
<1>3. Range(walked') = Range(walked) \cup {child}
  BY <1>2 DEF Range
<1>4. \A i \in 1 .. Len(walked) : walked[i] # child
  BY <1>2 DEF Range
<1>5. PagesWalkedOnce'
  BY <1>2, <1>4 DEF WalkerInv, PagesWalkedOnce
<1> QED
  BY <1>2, <1>3, <1>5

\* The lists of a scan, as its steps need them.
LEMMA TopFacts ==
  ASSUME WalkerInv, NEW list \in {table_list, index_list}, list # <<>>
  PROVE  /\ db \in Databases /\ IsStack(db, list)
         /\ Top(list).page \in DOMAIN db.pages
         /\ CountOf(list) = Len(db.pages[Top(list).page].cells) /\ CountOf(list) \in Nat
         /\ Top(list).current_index \in 0 .. CountOf(list)
         /\ pc # "exit" => IsFit(db, list) /\ CountOf(list) # 0
<1>1. db \in Databases /\ IsStack(db, list)
  BY DEF WalkerInv, ValuesOK, IsWalk
<1>2. Len(list) \in Nat \ {0} /\ Top(list) = list[Len(list)] /\ Top(list).page \in DOMAIN db.pages
  BY <1>1, StackShape
<1>3. CountOf(list) = Len(db.pages[Top(list).page].cells) /\ CountOf(list) \in Nat
  BY <1>1, <1>2, Children DEF CountOf, Cells
<1>4. Top(list).current_index \in 0 .. CountOf(list)
  BY <1>1, <1>2, <1>3, StackShape DEF IsStack
<1>5. pc # "exit" => IsFit(db, list) /\ CountOf(list) # 0
  <2>1. pc # "exit" => IsFit(db, list)
    BY DEF WalkerInv
  <2>2. IsPage(db.pages[Top(list).page], DOMAIN db.pages)
    BY <1>1, <1>2, Trees
  <2>3. db.pages[Top(list).page].cells # <<>> => CountOf(list) # 0
    BY <1>3, <2>2, EmptySeq DEF IsPage
  <2> QED
    BY <1>2, <2>1, <2>3 DEF IsFit
<1> QED
  BY <1>1, <1>2, <1>3, <1>4, <1>5

\* An interior step goes down to a child the sub-walker has not passed; those it
\* leaves out are under cells the search refused, when the keys are in order.
LEMMA InteriorTableDown ==
  ASSUME WalkerInv, InteriorTableStep
  PROVE  \E j \in DOMAIN Links(db)[Top(table_list).page] :
           /\ j > Top(table_list).current_index
           /\ table_list' = Descended(db, table_list, j)
           /\ walked' = Append(walked, Links(db)[Top(table_list).page][j])
           /\ pc' = IF Walkable(Links(db)[Top(table_list).page][j]) THEN pc ELSE "exit"
           /\ LET cells == Cells(Top(table_list).page)
              IN  (\A i, m \in DOMAIN cells :
                     i <= m /\ cells[i].key >= next_rowid => cells[m].key >= next_rowid)
                  => \A m \in DOMAIN cells :
                       Top(table_list).current_index < m /\ m < j => ~ (cells[m].key >= next_rowid)
<1> DEFINE top == Top(table_list).page
           n == CountOf(table_list)
           result == FirstKeyAtLeast(next_rowid)
           j == IF result >= 0 THEN result + 1 ELSE n + 1
           child == IF result >= 0 THEN CellAt(table_list, result).child ELSE db.pages[top].right
<1>1. table_list # <<>> /\ db.pages[top].type = "interior_table" /\ pc # "exit"
  BY DEF InteriorTableStep, TypeOfTop
<1>2. /\ db \in Databases /\ top \in DOMAIN db.pages /\ n = Len(db.pages[top].cells) /\ n \in Nat
      /\ Top(table_list).current_index \in 0 .. n
  BY <1>1, TopFacts
<1>3. result \in {-1} \cup Top(table_list).current_index .. n - 1
  BY <1>2, FirstKeyAtLeastRange
<1>4. db.pages[top].right # 0 /\ DOMAIN Links(db)[top] = 1 .. n + 1
  BY <1>1, <1>2, Children
<1>5. j \in 1 .. n + 1 /\ j > Top(table_list).current_index /\ (result >= 0 <=> j <= n)
  <2> HIDE DEF n, result
  <2> QED
    BY <1>2, <1>3, SMTT(20)
<1>6. Links(db)[top][j] = child
  <2>1. CASE result >= 0
    <3>1. result + 1 \in 1 .. n /\ j = result + 1 /\ child = db.pages[top].cells[result + 1].child
      BY <1>2, <1>3, <2>1 DEF CellAt, Cells
    <3> HIDE DEF j, child, result, n
    <3> QED
      BY <1>2, <1>4, <3>1, Children
  <2>2. CASE ~ (result >= 0)
    <3>1. j = Len(db.pages[top].cells) + 1 /\ child = db.pages[top].right
      BY <1>2, <2>2
    <3> HIDE DEF j, child, result, n
    <3> QED
      BY <1>2, <1>4, <3>1, Children
  <2> QED
    BY <2>1, <2>2
<1>7. /\ table_list' = Append(IF result >= 0 THEN Advance(table_list, result + 1) ELSE Pop(table_list),
                              SubWalker(child))
      /\ walked' = Append(walked, child)
      /\ pc' = IF Walkable(child) THEN pc ELSE "exit"
  BY DEF InteriorTableStep, LeftChildTaken, RightChildTaken
<1>8. table_list' = Descended(db, table_list, j)
  <2>1. result >= 0 => j = result + 1
    OBVIOUS
  <2> HIDE DEF j, child, result
  <2> QED
    BY <1>2, <1>5, <1>6, <1>7, <2>1, Zenon DEF Descended
<1> DEFINE cells == Cells(top)
           Reaches(i) == cells[i].key >= next_rowid
<1>9. ASSUME \A i, m \in DOMAIN cells : i <= m /\ Reaches(i) => Reaches(m),
             NEW m \in DOMAIN cells, Top(table_list).current_index < m, m < j
      PROVE  ~ Reaches(m)
  <2>1. DOMAIN cells = 1 .. n
    BY <1>2, Children DEF Cells
  <2>2. \A i \in 0 .. n - 1 : CellAt(table_list, i) = cells[i + 1] /\ i + 1 \in 1 .. n
    BY <1>2 DEF CellAt
  <2> HIDE DEF cells
  <2>3. \A i \in 0 .. n - 1 : (CellAt(table_list, i).key >= next_rowid) = Reaches(i + 1)
    BY <2>2
  <2>4. m - 1 \in Top(table_list).current_index .. n - 1 /\ m - 1 \in 0 .. n - 1 /\ (m - 1) + 1 = m
    <3> DEFINE ci == Top(table_list).current_index
    <3>1. m \in 1 .. n /\ n \in Nat /\ ci \in 0 .. n /\ ci < m
      BY <1>2, <1>9, <2>1
    <3> HIDE DEF n, ci
    <3>2. m - 1 \in ci .. n - 1 /\ m - 1 \in 0 .. n - 1 /\ (m - 1) + 1 = m
      BY <3>1
    <3> QED
      BY <3>2 DEF ci
  <2>5. result = -1 \/ m - 1 < result
    <3> HIDE DEF result
    <3> QED
      BY <1>2, <1>3, <1>9, <2>1
  <2>6. \A i, k \in 0 .. n - 1 :
          i <= k /\ CellAt(table_list, i).key >= next_rowid => CellAt(table_list, k).key >= next_rowid
    <3> TAKE i, k \in 0 .. n - 1
    <3>1. i + 1 \in DOMAIN cells /\ k + 1 \in DOMAIN cells /\ (i <= k => i + 1 <= k + 1)
      BY <1>2, <2>1
    <3> HIDE DEF Reaches
    <3> QED
      BY <1>9, <2>3, <3>1, Zenon
  <2>7. ~ (CellAt(table_list, m - 1).key >= next_rowid)
    <3> HIDE DEF n
    <3> QED
      BY <1>2, <2>4, <2>5, <2>6, FirstKeyAtLeastRange, Zenon DEF n
  <2> HIDE DEF Reaches
  <2> QED
    BY <2>3, <2>4, <2>7, Zenon
<1> HIDE DEF j, child, result
<1> QED
  BY <1>4, <1>5, <1>6, <1>7, <1>8, <1>9

LEMMA InteriorIndexDown ==
  ASSUME WalkerInv, InteriorIndexStep
  PROVE  \/ /\ pc' = "exit" /\ UNCHANGED <<index_list, walked>>
            /\ \E i \in DOMAIN Cells(Top(index_list).page) : ~ Cells(Top(index_list).page)[i].readable
         \/ \E j \in DOMAIN Links(db)[Top(index_list).page] :
              /\ j > Top(index_list).current_index
              /\ index_list' = Descended(db, index_list, j)
              /\ walked' = Append(walked, Links(db)[Top(index_list).page][j])
              /\ pc' = IF Walkable(Links(db)[Top(index_list).page][j]) THEN pc ELSE "exit"
              /\ LET cells == Cells(Top(index_list).page)
                 IN  (\A i, m \in DOMAIN cells :
                        i <= m /\ Accepts(cells[i].key) => Accepts(cells[m].key))
                     => \A m \in DOMAIN cells :
                          Top(index_list).current_index < m /\ m < j => ~ Accepts(cells[m].key)
<1> DEFINE top == Top(index_list).page
           n == CountOf(index_list)
           mid == IndexSearch.mid
           j == mid + 1
           child == IF mid < n THEN CellAt(index_list, mid).child ELSE db.pages[top].right
<1>1. index_list # <<>> /\ db.pages[top].type = "interior_index" /\ pc # "exit"
  BY DEF InteriorIndexStep, TypeOfTop
<1>2. /\ db \in Databases /\ top \in DOMAIN db.pages /\ n = Len(db.pages[top].cells) /\ n \in Nat \ {0}
      /\ Top(index_list).current_index \in 0 .. n
  BY <1>1, TopFacts
<1>3. mid \in Top(index_list).current_index .. n
  BY <1>2, IndexSearchRange
<1>4. db.pages[top].right # 0 /\ DOMAIN Links(db)[top] = 1 .. n + 1
  BY <1>1, <1>2, Children
<1>5. j \in 1 .. n + 1 /\ j > Top(index_list).current_index /\ (mid < n <=> j <= n)
  <2> HIDE DEF n, mid
  <2> QED
    BY <1>2, <1>3
<1>6. Links(db)[top][j] = child
  <2>1. CASE mid < n
    <3>1. mid + 1 \in 1 .. n /\ child = db.pages[top].cells[mid + 1].child
      BY <1>2, <1>3, <2>1 DEF CellAt, Cells
    <3> HIDE DEF child, mid, n
    <3> QED
      BY <1>2, <1>4, <3>1, Children
  <2>2. CASE ~ (mid < n)
    <3>1. j = Len(db.pages[top].cells) + 1 /\ child = db.pages[top].right
      BY <1>2, <1>3, <2>2
    <3> HIDE DEF j, child, mid, n
    <3> QED
      BY <1>2, <1>4, <3>1, Children
  <2> QED
    BY <2>1, <2>2
<1>7. ~ IndexSearch.exit =>
        /\ index_list' = Append(IF mid < n THEN Advance(index_list, j) ELSE Pop(index_list),
                                SubWalker(child))
        /\ walked' = Append(walked, child)
        /\ pc' = IF Walkable(child) THEN pc ELSE "exit"
  BY DEF InteriorIndexStep
<1>8. IndexSearch.exit => pc' = "exit" /\ UNCHANGED <<index_list, walked>>
  BY DEF InteriorIndexStep
<1>9. ~ IndexSearch.exit => index_list' = Descended(db, index_list, j)
  <2> HIDE DEF j, child, mid
  <2> QED
    BY <1>2, <1>5, <1>6, <1>7 DEF Descended
<1> DEFINE cells == Cells(top)
<1>10. /\ DOMAIN cells = 1 .. n
       /\ \A i \in 0 .. n - 1 : CellAt(index_list, i) = cells[i + 1] /\ i + 1 \in 1 .. n
  <2>1. DOMAIN cells = 1 .. n
    BY <1>2, Children DEF Cells
  <2>2. \A i \in 0 .. n - 1 : CellAt(index_list, i) = cells[i + 1]
    BY DEF CellAt
  <2>3. \A i \in 0 .. n - 1 : i + 1 \in 1 .. n
    <3> HIDE DEF n
    <3> QED
      BY <1>2
  <2> QED
    BY <2>1, <2>2, <2>3
<1>11. IndexSearch.exit => \E i \in DOMAIN cells : ~ cells[i].readable
  <2> HIDE DEF n, cells
  <2>1. IndexSearch.exit => \E i \in 0 .. n - 1 : Unreadable(i)
    BY <1>2, IndexSearchRange DEF n
  <2> QED
    BY <1>10, <2>1 DEF Unreadable
<1>12. ASSUME ~ IndexSearch.exit,
              \A i, m \in DOMAIN cells : i <= m /\ Accepts(cells[i].key) => Accepts(cells[m].key),
              NEW m \in DOMAIN cells, Top(index_list).current_index < m, m < j
       PROVE  ~ Accepts(cells[m].key)
  <2> HIDE DEF cells
  <2>1. m - 1 \in Top(index_list).current_index .. n - 1 /\ m - 1 \in 0 .. n - 1 /\ (m - 1) + 1 = m
    BY <1>2, <1>10, <1>12
  <2>2. m - 1 < mid
    <3> HIDE DEF mid
    <3> QED
      BY <1>2, <1>3, <1>10, <1>12
  <2>3. \A i, k \in 0 .. n - 1 :
          i <= k /\ Accepts(CellAt(index_list, i).key) => Accepts(CellAt(index_list, k).key)
    <3> TAKE i, k \in 0 .. n - 1
    <3>1. i + 1 \in DOMAIN cells /\ k + 1 \in DOMAIN cells /\ (i <= k => i + 1 <= k + 1)
      BY <1>2, <1>10
    <3> QED
      BY <1>10, <1>12, <3>1
  <2>4. ~ Accepts(CellAt(index_list, m - 1).key)
    <3> HIDE DEF n
    <3> QED
      BY <1>2, <1>12, <2>1, <2>2, <2>3, IndexSearchRange, Zenon DEF n
  <2> QED
    BY <1>10, <2>1, <2>4
<1> HIDE DEF j, child, mid
<1> QED
  BY <1>4, <1>5, <1>6, <1>7, <1>8, <1>9, <1>11, <1>12


\* A leaf step leaves the page, or goes on at a later cell of it.
LEMMA LeafTableNarrows ==
  ASSUME WalkerInv, LeafTableStep
  PROVE  \/ table_list' = Pop(table_list)
         \/ \E i \in Top(table_list).current_index .. CountOf(table_list) :
              i < CountOf(table_list) /\ table_list' = Advance(table_list, i)
<1>1. table_list # <<>> /\ TypeOfTop(table_list) = "leaf_table" /\ pc # "exit"
  BY DEF LeafTableStep
<1>2. /\ CountOf(table_list) \in Nat /\ IsFit(db, table_list)
      /\ Top(table_list).current_index \in 0 .. CountOf(table_list)
      /\ CountOf(table_list) = Len(db.pages[Top(table_list).page].cells)
  BY <1>1, TopFacts
<1>3. Top(table_list).current_index \in 0 .. CountOf(table_list) - 1
  BY <1>1, <1>2 DEF IsFit, TypeOfTop
<1>4. LastProbe(next_rowid) \in Top(table_list).current_index .. CountOf(table_list) - 1
  BY <1>2, <1>3, LastProbeRange
<1>5. table_list' \in {RowTaken(table_list, LastProbe(next_rowid)), Pop(table_list)}
  BY DEF LeafTableStep
<1> QED
  BY <1>2, <1>4, <1>5 DEF RowTaken

LEMMA LeafIndexNarrows ==
  ASSUME WalkerInv, LeafIndexStep
  PROVE  \/ index_list' \in {index_list, Pop(index_list)} /\ next_rowid' = next_rowid
         \/ /\ \E i \in Top(index_list).current_index .. CountOf(index_list) :
                 index_list' = Advance(index_list, i)
            /\ next_rowid' \in Nat
<1> DEFINE top == Top(index_list).page
           n == CountOf(index_list)
           hi == IndexSearch.hi
           lo0 == Top(index_list).current_index
<1>1. index_list # <<>> /\ db.pages[top].type = "leaf_index" /\ pc # "exit"
  BY DEF LeafIndexStep, TypeOfTop
<1>2. /\ db \in Databases /\ top \in DOMAIN db.pages /\ n = Len(db.pages[top].cells) /\ n \in Nat \ {0}
      /\ lo0 \in 0 .. n
  BY <1>1, TopFacts
<1>3. hi \in 0 .. n - 1 /\ lo0 <= hi + 1
  BY <1>2, IndexSearchRange
<1>4. CellAt(index_list, hi).rowid \in Nat
  <2>1. hi + 1 \in 1 .. Len(db.pages[top].cells) /\ CellAt(index_list, hi) = db.pages[top].cells[hi + 1]
    BY <1>2, <1>3 DEF CellAt, Cells
  <2>2. IsPage(db.pages[top], DOMAIN db.pages)
    BY <1>2, Trees
  <2> DEFINE Entries == [key : Nat, rowid : Nat, readable : BOOLEAN]
  <2>3. db.pages[top].cells \in Seq(Entries)
    BY <1>1, <2>2 DEF IsPage, CellsOfType
  <2>4. CellAt(index_list, hi) \in Entries
    <3> HIDE DEF Entries
    <3> QED
      BY <2>1, <2>3, ElementOfSeq
  <2> QED
    BY <2>4
<1>5. \/ index_list' \in {index_list, Pop(index_list)} /\ next_rowid' = next_rowid
      \/ /\ index_list' = Advance(index_list, hi + 1)
         /\ next_rowid' = CellAt(index_list, hi).rowid
  BY DEF LeafIndexStep
<1>6. hi + 1 \in lo0 .. n
  <2> HIDE DEF hi, n, lo0
  <2> QED
    BY <1>2, <1>3
<1> HIDE DEF hi
<1> QED
  BY <1>4, <1>5, <1>6


-----------------------------------------------------------------------------
\* The steps that end the process in the middle of a record or of a comparison.
StopsReading == UnreadableRow \/ NumberReadAsText

LEMMA StopFacts ==
  ASSUME StopsReading
  PROVE  /\ pc \in {"seek_row", "seek_rowid"} /\ pc' \in {"exit", "undefined"}
         /\ UNCHANGED <<db, predicate, table_list, index_list, current_rowid, next_rowid, rows, walked>>
BY DEF StopsReading, UnreadableRow, NumberReadAsText

\* Steps that leave the stacks alone, and steps on one of them.
LEMMA InvWhenStacksKept ==
  ASSUME WalkerInv, UNCHANGED <<db, table_list, index_list, walked>>,
         ValuesOK', pc' # "exit" => pc # "exit"
  PROVE  WalkerInv'
<1>1. RightSpine' = RightSpine
  BY DEF RightSpine
<1>2. IsWalk(db, RightSpine, table_list, index_list, Range(walked))'
  BY <1>1 DEF WalkerInv
<1>3. PagesWalkedOnce'
  BY DEF WalkerInv, PagesWalkedOnce
<1>4. (pc # "exit" => IsFit(db, table_list) /\ IsFit(db, index_list))'
  BY DEF WalkerInv
<1> QED
  BY <1>2, <1>3, <1>4 DEF WalkerInv

LEMMA InvWhenTableNarrowed ==
  ASSUME WalkerInv, LeafTableStep, ValuesOK'
  PROVE  WalkerInv'
<1>1. /\ table_list # <<>> /\ pc # "exit" /\ UNCHANGED <<db, index_list, walked>>
      /\ db.pages[Top(table_list).page].type = "leaf_table"
  BY DEF LeafTableStep, TypeOfTop
<1>2. /\ db \in Databases /\ IsStack(db, table_list) /\ IsFit(db, table_list) /\ IsFit(db, index_list)
      /\ CountOf(table_list) = Len(db.pages[Top(table_list).page].cells)
      /\ CountOf(table_list) \in Nat /\ Top(table_list).current_index \in 0 .. CountOf(table_list)
      /\ IsWalk(db, RightSpine, table_list, index_list, Range(walked))
  BY <1>1, TopFacts DEF WalkerInv
<1>3. PICK i \in Top(table_list).current_index .. CountOf(table_list) :
        \/ table_list' = Pop(table_list)
        \/ i < CountOf(table_list) /\ table_list' = Advance(table_list, i)
  <2>1. CountOf(table_list) \in Top(table_list).current_index .. CountOf(table_list)
    BY <1>2
  <2> QED
    BY <2>1, LeafTableNarrows
<1>4. i \in Nat /\ Top(table_list).current_index <= i /\ i <= Len(db.pages[Top(table_list).page].cells)
  BY <1>2, <1>3
<1>5. IsWalk(db, RightSpine, table_list', index_list, Range(walked))
  BY <1>1, <1>2, <1>3, <1>4, WalkNarrowed, Zenon
<1>6. IsFit(db, table_list')
  BY <1>1, <1>2, <1>3, <1>4, FitPopped, FitAdvanced
<1>7. RightSpine' = RightSpine /\ PagesWalkedOnce'
  BY <1>1 DEF RightSpine, WalkerInv, PagesWalkedOnce
<1> QED
  BY <1>1, <1>2, <1>5, <1>6, <1>7 DEF WalkerInv

LEMMA InvWhenIndexNarrowed ==
  ASSUME WalkerInv, LeafIndexStep, ValuesOK'
  PROVE  WalkerInv'
<1>1. /\ index_list # <<>> /\ pc # "exit" /\ UNCHANGED <<db, table_list, walked>>
      /\ db.pages[Top(index_list).page].type = "leaf_index"
  BY DEF LeafIndexStep, TypeOfTop
<1>2. /\ db \in Databases /\ IsStack(db, index_list) /\ IsFit(db, table_list) /\ IsFit(db, index_list)
      /\ CountOf(index_list) = Len(db.pages[Top(index_list).page].cells)
      /\ CountOf(index_list) \in Nat /\ Top(index_list).current_index \in 0 .. CountOf(index_list)
      /\ IsWalk(db, RightSpine, table_list, index_list, Range(walked))
  BY <1>1, TopFacts DEF WalkerInv
<1>3. PICK i \in Top(index_list).current_index .. CountOf(index_list) :
        index_list' \in {index_list, Pop(index_list), Advance(index_list, i)}
  <2>1. CountOf(index_list) \in Top(index_list).current_index .. CountOf(index_list)
    BY <1>2
  <2> QED
    BY <2>1, LeafIndexNarrows
<1>4. i \in Nat /\ Top(index_list).current_index <= i /\ i <= Len(db.pages[Top(index_list).page].cells)
  BY <1>2, <1>3
<1>5. IsWalk(db, RightSpine, table_list, index_list', Range(walked))
  BY <1>1, <1>2, <1>3, <1>4, WalkNarrowed, Zenon
<1>6. IsFit(db, index_list')
  BY <1>1, <1>2, <1>3, <1>4, FitPopped, FitAdvanced
<1>7. RightSpine' = RightSpine /\ PagesWalkedOnce'
  BY <1>1 DEF RightSpine, WalkerInv, PagesWalkedOnce
<1> QED
  BY <1>1, <1>2, <1>5, <1>6, <1>7 DEF WalkerInv

LEMMA InvWhenTableDescended ==
  ASSUME WalkerInv, InteriorTableStep
  PROVE  WalkerInv'
<1>1. /\ table_list # <<>> /\ pc # "exit"
      /\ UNCHANGED <<db, predicate, index_list, current_rowid, next_rowid, rows>>
  BY DEF InteriorTableStep
<1>2. /\ db \in Databases /\ IsStack(db, table_list) /\ IsFit(db, table_list) /\ IsFit(db, index_list)
      /\ IsWalk(db, RightSpine, table_list, index_list, Range(walked)) /\ IsSpine(db, RightSpine)
  BY <1>1, TopFacts, RightSpineIsSpine DEF WalkerInv
<1>3. PICK j \in DOMAIN Links(db)[Top(table_list).page] :
        /\ j > Top(table_list).current_index
        /\ table_list' = Descended(db, table_list, j)
        /\ walked' = Append(walked, Links(db)[Top(table_list).page][j])
        /\ pc' = IF Walkable(Links(db)[Top(table_list).page][j]) THEN pc ELSE "exit"
  BY InteriorTableDown
<1> DEFINE child == Links(db)[Top(table_list).page][j]
<1>4. /\ child \in DOMAIN db.pages \ Range(walked)
      /\ IsWalk(db, RightSpine, table_list', index_list, Range(walked) \cup {child})
  BY <1>1, <1>2, <1>3, WalkDescended, Zenon
<1>5. /\ walked' \in Seq(DOMAIN db.pages) /\ Range(walked') = Range(walked) \cup {child}
      /\ PagesWalkedOnce'
  BY <1>1, <1>3, <1>4, PageWalked
<1>6. pc' # "exit" => IsFit(db, table_list')
  BY <1>1, <1>2, <1>3, FitDescended DEF Walkable, Cells
<1>7. RightSpine' = RightSpine
  BY <1>1 DEF RightSpine
<1>8. ValuesOK'
  BY <1>1, <1>3, <1>5 DEF WalkerInv, ValuesOK
<1> HIDE DEF child
<1> QED
  BY <1>1, <1>2, <1>4, <1>5, <1>6, <1>7, <1>8 DEF WalkerInv

LEMMA InvWhenIndexDescended ==
  ASSUME WalkerInv, InteriorIndexStep
  PROVE  WalkerInv'
<1>1. /\ index_list # <<>> /\ pc # "exit"
      /\ UNCHANGED <<db, predicate, table_list, current_rowid, next_rowid, rows>>
  BY DEF InteriorIndexStep
<1>2. /\ db \in Databases /\ IsStack(db, index_list) /\ IsFit(db, table_list) /\ IsFit(db, index_list)
      /\ IsWalk(db, RightSpine, table_list, index_list, Range(walked)) /\ IsSpine(db, RightSpine)
  BY <1>1, TopFacts, RightSpineIsSpine DEF WalkerInv
<1>3. CASE pc' = "exit" /\ UNCHANGED <<index_list, walked>>
  <2>1. ValuesOK'
    BY <1>1, <1>3 DEF WalkerInv, ValuesOK
  <2> QED
    BY <1>1, <1>3, <2>1, InvWhenStacksKept
<1>4. CASE \E j \in DOMAIN Links(db)[Top(index_list).page] :
              /\ j > Top(index_list).current_index
              /\ index_list' = Descended(db, index_list, j)
              /\ walked' = Append(walked, Links(db)[Top(index_list).page][j])
              /\ pc' = IF Walkable(Links(db)[Top(index_list).page][j]) THEN pc ELSE "exit"
  <2>1. PICK j \in DOMAIN Links(db)[Top(index_list).page] :
          /\ j > Top(index_list).current_index
          /\ index_list' = Descended(db, index_list, j)
          /\ walked' = Append(walked, Links(db)[Top(index_list).page][j])
          /\ pc' = IF Walkable(Links(db)[Top(index_list).page][j]) THEN pc ELSE "exit"
    BY <1>4
  <2> DEFINE child == Links(db)[Top(index_list).page][j]
  <2>2. /\ child \in DOMAIN db.pages \ Range(walked)
        /\ IsWalk(db, RightSpine, table_list, index_list', Range(walked) \cup {child})
    BY <1>1, <1>2, <2>1, WalkDescended, Zenon
  <2>3. /\ walked' \in Seq(DOMAIN db.pages) /\ Range(walked') = Range(walked) \cup {child}
        /\ PagesWalkedOnce'
    BY <1>1, <2>1, <2>2, PageWalked
  <2>4. pc' # "exit" => IsFit(db, index_list')
    BY <1>1, <1>2, <2>1, FitDescended DEF Walkable, Cells
  <2>5. RightSpine' = RightSpine
    BY <1>1 DEF RightSpine
  <2>6. ValuesOK'
    BY <1>1, <2>1, <2>3 DEF WalkerInv, ValuesOK
  <2> HIDE DEF child
  <2> QED
    BY <1>1, <1>2, <2>2, <2>3, <2>4, <2>5, <2>6 DEF WalkerInv
<1> QED
  BY <1>3, <1>4, InteriorIndexDown

LEMMA WalkerNextInv ==
  ASSUME WalkerInv, [Next]_vars
  PROVE  WalkerInv'
<1> USE DEF ValuesOK
<1>1. CASE ProduceRow
  BY <1>1, InvWhenStacksKept DEF ProduceRow, WalkerInv
<1>2. CASE UseRowid
  BY <1>2, InvWhenStacksKept DEF UseRowid, WalkerInv
<1>3. CASE InteriorIndexStep
  BY <1>3, InvWhenIndexDescended
<1>4. CASE LeafIndexStep
  <2>1. ValuesOK'
    BY <1>4, LeafIndexNarrows DEF LeafIndexStep, WalkerInv
  <2> QED
    BY <1>4, <2>1, InvWhenIndexNarrowed
<1>5. CASE NoRowid
  BY <1>5, InvWhenStacksKept DEF NoRowid, WalkerInv
<1>6. CASE InteriorTableStep
  BY <1>6, InvWhenTableDescended
<1>7. CASE LeafTableStep
  <2>1. ValuesOK'
    <3>1. Append(rows, next_rowid) \in Seq(Nat)
      BY AppendProperties DEF WalkerInv
    <3>2. /\ UNCHANGED <<db, predicate, next_rowid, walked>>
          /\ \/ rows' = Append(rows, next_rowid) /\ current_rowid' = current_rowid + 1 /\ pc' = "ready"
             \/ UNCHANGED <<rows, current_rowid, pc>>
      BY <1>7 DEF LeafTableStep
    <3>3. ValuesOK
      BY DEF WalkerInv
    <3>4. current_rowid + 1 \in Nat \ {0}
      BY <3>3
    <3>5. rows' \in Seq(Nat) /\ current_rowid' \in Nat \ {0} /\ pc' \in {pc, "ready"}
      BY <3>1, <3>2, <3>3, <3>4, Zenon
    <3>6. walked' \in Seq(DOMAIN db'.pages)
      BY <3>2, <3>3
    <3> QED
      BY <3>2, <3>3, <3>5, <3>6
  <2> QED
    BY <1>7, <2>1, InvWhenTableNarrowed
<1>8. CASE NoRow
  BY <1>8, InvWhenStacksKept DEF NoRow, WalkerInv
<1>9. CASE UNCHANGED vars
  BY <1>9, InvWhenStacksKept DEF vars, WalkerInv
<1>10. CASE StopsReading
  BY <1>10, StopFacts, InvWhenStacksKept DEF WalkerInv
<1> QED
  BY <1>1, <1>2, <1>3, <1>4, <1>5, <1>6, <1>7, <1>8, <1>9, <1>10 DEF Next, Step, Ended, StopsReading

THEOREM WalkerInvariant == SafetySpec => []WalkerInv
<1>1. Init => WalkerInv
  BY WalkerInitInv
<1>2. WalkerInv /\ [Next]_vars => WalkerInv'
  BY WalkerNextInv
<1> QED
  BY <1>1, <1>2, PTL DEF SafetySpec

\* In every file of well-formed b-trees, and for every predicate: the state of the
\* scans is well formed, and leaf_table_step never looks past a page's last cell.
THEOREM WalkerTypeOK == Spec => []TypeOK
<1>1. WalkerInv => TypeOK
  BY WalkerInvTypes
<1> QED
  BY <1>1, WalkerInvariant, PTL DEF Spec

\* No scan walks a page twice (begin_walk), however its binary searches end.
THEOREM NoPageWalkedTwice == Spec => []PagesWalkedOnce
<1>1. WalkerInv => PagesWalkedOnce
  BY DEF WalkerInv
<1> QED
  BY <1>1, WalkerInvariant, PTL DEF Spec

\* The stacks of sub-walkers are paths down the trees (take_step).
THEOREM StacksStayPaths == Spec => []StacksArePaths
<1>1. WalkerInv => StacksArePaths
  BY WalkerInvPaths
<1> QED
  BY <1>1, WalkerInvariant, PTL DEF Spec

-----------------------------------------------------------------------------
\* A set of pages holds a tree: its root and, with a page, the page's children.
HoldsTree(d, root, S) ==
  root \in S /\ \A p \in S : \A i \in DOMAIN Links(d)[p] : Links(d)[p][i] \in S

\* A row of a table is a cell of one of its leaves.
IsRowIn(d, S, rowid) ==
  \E p \in S : /\ d.pages[p].type = "leaf_table"
               /\ \E i \in DOMAIN d.pages[p].cells : d.pages[p].cells[i].rowid = rowid

\* The rows come in the order of their rowids, none twice, and are the table's.
RowsInOrder ==
  /\ \A i \in DOMAIN rows : rows[i] \in 1 .. current_rowid - 1
  /\ \A i, j \in DOMAIN rows : i < j => rows[i] < rows[j]

RowsOfTable ==
  \A S \in SUBSET DOMAIN db.pages : HoldsTree(db, db.table, S) =>
    \A i \in DOMAIN rows : IsRowIn(db, S, rows[i])

PagesOfTable(d, list) ==
  \A S \in SUBSET DOMAIN d.pages : HoldsTree(d, d.table, S) =>
    \A k \in 1 .. Len(list) : list[k].page \in S

\* The inductive invariant of the rows: what is looked for is the current rowid.
RowsInv ==
  /\ RowsInOrder /\ RowsOfTable
  /\ PagesOfTable(db, table_list)
  /\ pc = "seek_row" => next_rowid = current_rowid

LEMMA PagesNarrowed ==
  ASSUME NEW d, NEW list, IsStack(d, list), list # <<>>, PagesOfTable(d, list),
         NEW i, NEW rest, IsNarrowed(d, list, i, rest)
  PROVE  PagesOfTable(d, rest)
<1>1. Len(list) \in Nat \ {0}
  BY StackShape
<1>2. \A k \in 1 .. Len(rest) : k \in 1 .. Len(list) /\ rest[k].page = list[k].page
  BY <1>1 DEF IsNarrowed
<1> QED
  BY <1>2 DEF PagesOfTable

LEMMA PagesDescended ==
  ASSUME NEW d \in Databases, NEW list, IsStack(d, list), list # <<>>, PagesOfTable(d, list),
         NEW j \in DOMAIN Links(d)[Top(list).page]
  PROVE  PagesOfTable(d, Descended(d, list, j))
<1> DEFINE child == Links(d)[Top(list).page][j]
           longer == Descended(d, list, j)
<1>1. PICK rest : /\ IsNarrowed(d, list, j, rest)
                  /\ IsPushed(d, rest, child, longer)
  BY DescendedBy
<1>2. Len(list) \in Nat \ {0} /\ Top(list) = list[Len(list)]
  BY StackShape
<1>3. PagesOfTable(d, rest)
  BY <1>1, PagesNarrowed
<1>4. ASSUME NEW S \in SUBSET DOMAIN d.pages, HoldsTree(d, d.table, S)
      PROVE  child \in S
  <2>1. Top(list).page \in S
    BY <1>2, <1>4 DEF PagesOfTable
  <2> QED
    BY <1>4, <2>1 DEF HoldsTree
<1> HIDE DEF child, longer
<1>5. /\ Len(rest) \in Nat /\ Len(longer) = Len(rest) + 1
      /\ \A k \in 1 .. Len(rest) : longer[k] = rest[k]
      /\ longer[Len(rest) + 1].page = child
  BY <1>1, <1>2 DEF IsNarrowed, IsPushed
<1>6. PagesOfTable(d, longer)
  BY <1>3, <1>4, <1>5 DEF PagesOfTable
<1> QED
  BY <1>6 DEF longer

\* A row is added only by leaf_table_step, and it is the one looked for.
LEMMA RowsAdded ==
  ASSUME WalkerInv, [Next]_vars
  PROVE  \/ /\ UNCHANGED rows /\ current_rowid' >= current_rowid
            /\ pc' = "ready" => UNCHANGED pc
         \/ /\ pc = "seek_row" /\ pc' = "ready"
            /\ rows' = Append(rows, next_rowid) /\ current_rowid' = current_rowid + 1
            /\ next_rowid' = next_rowid
            /\ \E i \in DOMAIN db.pages[Top(table_list).page].cells :
                 db.pages[Top(table_list).page].cells[i].rowid = next_rowid
            /\ table_list # <<>> /\ db.pages[Top(table_list).page].type = "leaf_table"
<1>1. current_rowid \in Nat /\ next_rowid \in Nat
  BY DEF WalkerInv, ValuesOK
<1>2. CASE LeafTableStep
  <2>1. /\ table_list # <<>> /\ TypeOfTop(table_list) = "leaf_table" /\ pc = "seek_row"
        /\ next_rowid' = next_rowid
    BY <1>2 DEF LeafTableStep
  <2>2. /\ db \in Databases /\ Top(table_list).page \in DOMAIN db.pages
        /\ CountOf(table_list) \in Nat /\ IsFit(db, table_list)
        /\ Top(table_list).current_index \in 0 .. CountOf(table_list)
        /\ CountOf(table_list) = Len(db.pages[Top(table_list).page].cells)
    BY <2>1, TopFacts
  <2>3. Top(table_list).current_index \in 0 .. CountOf(table_list) - 1
    BY <2>1, <2>2 DEF IsFit, TypeOfTop
  <2>4. LastProbe(next_rowid) \in Top(table_list).current_index .. CountOf(table_list) - 1
    BY <2>2, <2>3, LastProbeRange
  <2>5. /\ DOMAIN db.pages[Top(table_list).page].cells = 1 .. CountOf(table_list)
        /\ LastProbe(next_rowid) + 1 \in 1 .. CountOf(table_list)
    BY <2>2, <2>3, <2>4, Children
  <2>6. CASE CellAt(table_list, LastProbe(next_rowid)).rowid = next_rowid
    <3>1. rows' = Append(rows, next_rowid) /\ current_rowid' = current_rowid + 1 /\ pc' = "ready"
      BY <1>2, <2>6 DEF LeafTableStep
    <3>2. db.pages[Top(table_list).page].cells[LastProbe(next_rowid) + 1].rowid = next_rowid
      BY <2>6 DEF CellAt, Cells
    <3> QED
      BY <2>1, <2>5, <3>1, <3>2 DEF TypeOfTop
  <2>7. CASE CellAt(table_list, LastProbe(next_rowid)).rowid # next_rowid
    BY <1>1, <1>2, <2>7 DEF LeafTableStep
  <2> QED
    BY <2>6, <2>7
<1>3. CASE UseRowid
  <2>1. pc = "use_rowid" /\ pc' \in {"exhausted", "seek_row"} /\ UNCHANGED rows
    BY <1>3 DEF UseRowid
  <2>2. current_rowid' = current_rowid \/ (current_rowid' = next_rowid /\ ~ (next_rowid < current_rowid))
    BY <1>3 DEF UseRowid
  <2> QED
    BY <1>1, <2>1, <2>2
<1>4. CASE ProduceRow
  BY <1>1, <1>4 DEF ProduceRow
<1>5. CASE InteriorIndexStep
  <2>1. pc' \in {pc, "exit"} /\ UNCHANGED <<rows, current_rowid>>
    BY <1>5 DEF InteriorIndexStep
  <2> QED
    BY <1>1, <2>1
<1>6. CASE LeafIndexStep
  <2>1. pc' \in {pc, "exit", "use_rowid"} /\ UNCHANGED <<rows, current_rowid>>
    BY <1>6 DEF LeafIndexStep
  <2> QED
    BY <1>1, <2>1
<1>7. CASE InteriorTableStep
  <2>1. pc' \in {pc, "exit"} /\ UNCHANGED <<rows, current_rowid>>
    BY <1>7 DEF InteriorTableStep
  <2> QED
    BY <1>1, <2>1
<1>8. CASE NoRow \/ NoRowid \/ UNCHANGED vars
  BY <1>1, <1>8 DEF NoRow, NoRowid, vars
<1>9. CASE StopsReading
  BY <1>1, <1>9, StopFacts
<1> QED
  BY <1>2, <1>3, <1>4, <1>5, <1>6, <1>7, <1>8, <1>9 DEF Next, Step, Ended, StopsReading

LEMMA PagesOfTableNext ==
  ASSUME WalkerInv, PagesOfTable(db, table_list), [Next]_vars
  PROVE  PagesOfTable(db, table_list')
<1>1. CASE InteriorTableStep
  <2>1. table_list # <<>>
    BY <1>1 DEF InteriorTableStep
  <2>2. PICK j \in DOMAIN Links(db)[Top(table_list).page] : table_list' = Descended(db, table_list, j)
    BY <1>1, InteriorTableDown
  <2>3. db \in Databases /\ IsStack(db, table_list)
    BY <2>1, TopFacts
  <2> QED
    BY <2>1, <2>2, <2>3, PagesDescended
<1>2. CASE LeafTableStep
  <2>1. table_list # <<>>
    BY <1>2 DEF LeafTableStep
  <2>2. db \in Databases /\ IsStack(db, table_list) /\ Top(table_list).current_index \in 0 .. CountOf(table_list)
        /\ CountOf(table_list) \in Nat
    BY <2>1, TopFacts
  <2>3. PICK i \in Nat : table_list' \in {Pop(table_list), Advance(table_list, i)}
    <3>1. 0 \in Nat /\ \A i \in Top(table_list).current_index .. CountOf(table_list) : i \in Nat
      BY <2>2
    <3> QED
      BY <1>2, <3>1, LeafTableNarrows
  <2>4. IsNarrowed(db, table_list, i, table_list')
    BY <2>1, <2>2, <2>3, NarrowedBy
  <2> QED
    BY <2>1, <2>2, <2>4, PagesNarrowed
<1>3. CASE ~ InteriorTableStep /\ ~ LeafTableStep
  <2>1. table_list' = table_list
    BY <1>3 DEF Next, Step, Ended, vars, ProduceRow, UseRowid, InteriorIndexStep, LeafIndexStep, NoRowid, NoRow,
              UnreadableRow, NumberReadAsText
  <2> QED
    BY <2>1
<1> QED
  BY <1>1, <1>2, <1>3

LEMMA RowsInitInv == Init => RowsInv
<1> SUFFICES ASSUME Init PROVE RowsInv
  OBVIOUS
<1>1. /\ rows = <<>> /\ pc # "seek_row" /\ table_list = <<SubWalker(db.table)>>
  BY DEF Init, Start
<1>2. PagesOfTable(db, table_list)
  BY <1>1 DEF PagesOfTable, HoldsTree, SubWalker
<1> QED
  BY <1>1, <1>2 DEF RowsInv, RowsInOrder, RowsOfTable

LEMMA RowsNextInv ==
  ASSUME WalkerInv, RowsInv, [Next]_vars
  PROVE  RowsInv'
<1>1. /\ current_rowid \in Nat \ {0} /\ next_rowid \in Nat /\ rows \in Seq(Nat)
      /\ DOMAIN rows = 1 .. Len(rows) /\ Len(rows) \in Nat
  BY LenProperties DEF WalkerInv, ValuesOK
<1>2. db' = db
  BY DEF Next, Step, Ended, vars, ProduceRow, UseRowid, InteriorIndexStep, LeafIndexStep, NoRowid,
         InteriorTableStep, LeafTableStep, NoRow, UnreadableRow, NumberReadAsText
<1>3. PagesOfTable(db, table_list)'
  BY <1>2, PagesOfTableNext DEF RowsInv
<1>4. (pc = "seek_row" => next_rowid = current_rowid)'
  <2>1. CASE UseRowid
    BY <2>1 DEF UseRowid
  <2>2. CASE LeafTableStep
    BY <2>2 DEF LeafTableStep, RowsInv
  <2>3. CASE ~ UseRowid /\ ~ LeafTableStep
    <3>1. CASE pc = "seek_row"
      BY <2>3, <3>1 DEF RowsInv, Next, Step, Ended, vars, ProduceRow, InteriorIndexStep, LeafIndexStep,
                NoRowid, InteriorTableStep, NoRow, UnreadableRow, NumberReadAsText
    <3>2. CASE pc # "seek_row"
      <4>1. pc' # "seek_row"
        BY <2>3, <3>2 DEF Next, Step, Ended, vars, ProduceRow, InteriorIndexStep, LeafIndexStep,
                  NoRowid, InteriorTableStep, NoRow, UnreadableRow, NumberReadAsText
      <4> QED
        BY <4>1
    <3> QED
      BY <3>1, <3>2
  <2> QED
    BY <2>1, <2>2, <2>3
<1>5. RowsInOrder' /\ RowsOfTable'
  <2>1. CASE UNCHANGED rows /\ current_rowid' >= current_rowid
    <3>1. current_rowid' \in Nat
      BY WalkerNextInv DEF WalkerInv, ValuesOK
    <3> QED
      BY <1>1, <1>2, <2>1, <3>1 DEF RowsInv, RowsInOrder, RowsOfTable
  <2>2. CASE /\ pc = "seek_row" /\ rows' = Append(rows, next_rowid)
             /\ current_rowid' = current_rowid + 1
             /\ \E i \in DOMAIN db.pages[Top(table_list).page].cells :
                  db.pages[Top(table_list).page].cells[i].rowid = next_rowid
             /\ table_list # <<>> /\ db.pages[Top(table_list).page].type = "leaf_table"
    <3>1. /\ DOMAIN rows' = 1 .. Len(rows) + 1 /\ rows'[Len(rows) + 1] = current_rowid
          /\ \A i \in 1 .. Len(rows) : rows'[i] = rows[i]
          /\ next_rowid = current_rowid
      BY <1>1, <2>2, AppendProperties DEF RowsInv
    <3>2. \A i \in DOMAIN rows : rows[i] \in 1 .. current_rowid - 1
      BY DEF RowsInv, RowsInOrder
    <3>3. RowsInOrder'
      <4>1. ASSUME NEW i \in 1 .. Len(rows) + 1
            PROVE  rows'[i] \in 1 .. current_rowid + 1 - 1
        <5>1. CASE i \in 1 .. Len(rows)
          <6>1. rows'[i] = rows[i] /\ rows[i] \in 1 .. current_rowid - 1
            BY <1>1, <3>1, <3>2, <5>1
          <6> QED
            BY <1>1, <6>1
        <5>2. CASE i = Len(rows) + 1
          <6>1. rows'[i] = current_rowid
            BY <3>1, <5>2
          <6> QED
            BY <1>1, <6>1
        <5> QED
          BY <1>1, <5>1, <5>2
      <4>2. ASSUME NEW i \in 1 .. Len(rows) + 1, NEW j \in 1 .. Len(rows) + 1, i < j
            PROVE  rows'[i] < rows'[j]
        <5>1. i \in 1 .. Len(rows)
          BY <1>1, <4>2
        <5>2. rows'[i] = rows[i] /\ rows[i] \in 1 .. current_rowid - 1
          BY <1>1, <3>1, <3>2, <5>1, Zenon
        <5>3. CASE j \in 1 .. Len(rows)
          BY <1>1, <3>1, <4>2, <5>1, <5>2, <5>3, Zenon DEF RowsInv, RowsInOrder
        <5>4. CASE j = Len(rows) + 1
          <6>1. rows'[j] = current_rowid
            BY <3>1, <5>4
          <6> QED
            BY <1>1, <5>2, <6>1
        <5> QED
          BY <1>1, <5>3, <5>4
      <4> QED
        BY <2>2, <3>1, <4>1, <4>2 DEF RowsInOrder
    <3>4. RowsOfTable'
      <4> SUFFICES ASSUME NEW S \in SUBSET DOMAIN db.pages, HoldsTree(db, db.table, S),
                          NEW i \in 1 .. Len(rows) + 1
                   PROVE  IsRowIn(db, S, rows'[i])
        BY <1>2, <3>1 DEF RowsOfTable
      <4>1. CASE i \in 1 .. Len(rows)
        BY <1>1, <3>1, <4>1, Zenon DEF RowsInv, RowsOfTable
      <4>2. CASE i = Len(rows) + 1
        <5>1. Len(table_list) \in Nat \ {0} /\ Top(table_list) = table_list[Len(table_list)]
          BY <2>2, TopFacts, StackShape
        <5>2. Top(table_list).page \in S
          BY <5>1 DEF RowsInv, PagesOfTable
        <5> QED
          BY <2>2, <3>1, <4>2, <5>2 DEF IsRowIn
      <4> QED
        BY <1>1, <4>1, <4>2
    <3> QED
      BY <3>3, <3>4
  <2> QED
    BY <2>1, <2>2, RowsAdded
<1> QED
  BY <1>3, <1>4, <1>5 DEF RowsInv

\* produce_row never returns a row that is not the table's, none twice and none
\* before one with a smaller rowid, whatever the index's entries are
\* (tree_walker.c:484-528).
THEOREM RowsComeInOrder == SafetySpec => [](RowsInOrder /\ RowsOfTable)
<1>1. Init => RowsInv
  BY RowsInitInv
<1>2. WalkerInv /\ RowsInv /\ [Next]_vars => RowsInv'
  BY RowsNextInv
<1>3. RowsInv => RowsInOrder /\ RowsOfTable
  BY DEF RowsInv
<1> QED
  BY <1>1, <1>2, <1>3, WalkerInvariant, PTL DEF SafetySpec
-----------------------------------------------------------------------------
(***************************************************************************)
(* What the scans answer, when the b-trees are in order.                   *)
(***************************************************************************)
\* What holds of a page once it holds of its children holds of every page.
LEMMA TreeInduction ==
  ASSUME NEW d \in Databases, NEW S,
         \A p \in DOMAIN d.pages :
           (\A i \in DOMAIN Links(d)[p] : Links(d)[p][i] \in S) => p \in S
  PROVE  \A p \in DOMAIN d.pages : p \in S
<1> DEFINE P == DOMAIN d.pages
           T == {p \in P : p \notin S}
<1> SUFFICES ASSUME T # {} PROVE FALSE
  OBVIOUS
<1>1. IsForest(Links(d), Roots(d)) /\ DOMAIN Links(d) = P
  <2>1. <<Links(d), Roots(d)>> \in {<<Links(e), Roots(e)>> : e \in Databases}
    OBVIOUS
  <2>2. IsForest(Links(d), Roots(d))
    BY <2>1, Trees, Zenon
  <2>3. DOMAIN Links(d) = P
    BY DEF Links
  <2> QED
    BY <2>2, <2>3
<1>2. \A R \in SUBSET P : R # {} => \E p \in R : \A i \in DOMAIN Links(d)[p] : Links(d)[p][i] \notin R
  BY <1>1, Zenon DEF IsForest
<1>3. PICK p \in T : \A i \in DOMAIN Links(d)[p] : Links(d)[p][i] \notin T
  BY <1>2, Zenon
<1>4. \A i \in DOMAIN Links(d)[p] : Links(d)[p][i] \in P
  BY Children
<1> QED
  BY <1>3, <1>4

\* Each page with the pages of its children's subtrees.
IsSubtreeOf(P, links, subtree) ==
  subtree = [p \in P |-> {p} \cup UNION {subtree[links[p][i]] : i \in DOMAIN links[p]}]

LEMMA SubtreesExist ==
  ASSUME NEW P, NEW links, \A p \in P : \A i \in DOMAIN links[p] : links[p][i] \in P
  PROVE  \E subtree : IsSubtreeOf(P, links, subtree)
<1> DEFINE Closed(S) == \A q \in S : \A i \in DOMAIN links[q] : links[q][i] \in S
           g == [p \in P |-> {q \in P : \A S \in SUBSET P : Closed(S) /\ p \in S => q \in S}]
           h(p) == {p} \cup UNION {g[links[p][i]] : i \in DOMAIN links[p]}
<1>1. ASSUME NEW p \in P
      PROVE  p \in g[p] /\ Closed(g[p]) /\ g[p] \subseteq P
  <2>1. p \in g[p] /\ g[p] \subseteq P
    OBVIOUS
  <2>2. ASSUME NEW q \in g[p], NEW i \in DOMAIN links[q]
        PROVE  links[q][i] \in g[p]
    <3>1. q \in P /\ links[q][i] \in P
      OBVIOUS
    <3>2. \A S \in SUBSET P : Closed(S) /\ p \in S => links[q][i] \in S
      OBVIOUS
    <3> QED
      BY <3>1, <3>2
  <2> QED
    BY <2>1, <2>2
<1>2. ASSUME NEW p \in P, NEW S \in SUBSET P, Closed(S), p \in S
      PROVE  g[p] \subseteq S
  BY <1>2
<1> HIDE DEF g
<1>3. ASSUME NEW p \in P
      PROVE  g[p] = h(p)
  <2>1. \A i \in DOMAIN links[p] : g[links[p][i]] \subseteq g[p]
    <3> TAKE i \in DOMAIN links[p]
    <3>1. links[p][i] \in P /\ g[p] \in SUBSET P /\ Closed(g[p]) /\ links[p][i] \in g[p]
      BY <1>1
    <3> HIDE DEF Closed
    <3> QED
      BY <1>2, <3>1
  <2>2. h(p) \subseteq g[p]
    BY <1>1, <2>1
  <2>3. Closed(h(p))
    <3>1. ASSUME NEW q \in h(p), NEW i \in DOMAIN links[q]
          PROVE  links[q][i] \in h(p)
      <4>1. CASE q = p
        <5>1. links[p][i] \in g[links[p][i]]
          BY <1>1, <4>1
        <5> QED
          BY <4>1, <5>1
      <4>2. CASE q # p
        <5>1. PICK j \in DOMAIN links[p] : q \in g[links[p][j]]
          BY <4>2
        <5>2. links[q][i] \in g[links[p][j]]
          BY <1>1, <5>1
        <5> QED
          BY <5>2
      <4> QED
        BY <4>1, <4>2
    <3> QED
      BY <3>1
  <2>4. h(p) \in SUBSET P
    BY <1>1
  <2>5. g[p] \subseteq h(p)
    <3>1. p \in h(p)
      OBVIOUS
    <3> HIDE DEF Closed, h
    <3> QED
      BY <1>2, <2>3, <2>4, <3>1
  <2> QED
    BY <2>2, <2>5
<1>4. g = [p \in P |-> g[p]]
  BY DEF g
<1>5. IsSubtreeOf(P, links, g)
  BY <1>3, <1>4 DEF IsSubtreeOf
<1> QED
  BY <1>5

\* The subtrees of a file.
LEMMA Subtrees ==
  ASSUME NEW d \in Databases, NEW p \in DOMAIN d.pages
  PROVE  /\ Subtree(d)[p] = {p} \cup UNION {Subtree(d)[Links(d)[p][i]] : i \in DOMAIN Links(d)[p]}
         /\ Subtree(d)[p] \subseteq DOMAIN d.pages
         /\ \A q \in Subtree(d)[p] : Subtree(d)[q] \subseteq Subtree(d)[p]
<1> DEFINE P == DOMAIN d.pages
           links == Links(d)
           U == Subtree(d)
<1>1. \A q \in P : \A i \in DOMAIN links[q] : links[q][i] \in P
  BY Children
<1>2. IsSubtreeOf(P, links, U)
  <2>1. U = CHOOSE f : IsSubtreeOf(P, links, f)
    BY DEF Subtree, IsSubtreeOf
  <2>2. \E f : IsSubtreeOf(P, links, f)
    BY <1>1, SubtreesExist
  <2> HIDE DEF U
  <2> QED
    BY <2>1, <2>2
<1>3. \A q \in P : U[q] = {q} \cup UNION {U[links[q][i]] : i \in DOMAIN links[q]}
  <2> HIDE DEF U, links
  <2> QED
    BY <1>2, Zenon DEF IsSubtreeOf
<1> DEFINE S == {q \in P : U[q] \subseteq P /\ \A r \in U[q] : U[r] \subseteq U[q]}
<1>4. ASSUME NEW q \in P, \A i \in DOMAIN links[q] : links[q][i] \in S
      PROVE  q \in S
  <2>1. U[q] \subseteq P
    BY <1>3, <1>4
  <2>2. ASSUME NEW r \in U[q]
        PROVE  U[r] \subseteq U[q]
    <3>1. CASE r = q
      BY <3>1
    <3>2. CASE r # q
      <4>1. PICK i \in DOMAIN links[q] : r \in U[links[q][i]]
        BY <1>3, <3>2
      <4>2. U[r] \subseteq U[links[q][i]]
        BY <1>4, <4>1
      <4> QED
        BY <1>3, <4>2
    <3> QED
      BY <3>1, <3>2
  <2> QED
    BY <2>1, <2>2
<1>5. \A q \in P : q \in S
  <2> HIDE DEF S, U
  <2> QED
    BY <1>4, TreeInduction, Zenon
<1> HIDE DEF U, links
<1> QED
  BY <1>3, <1>5 DEF U, links

-----------------------------------------------------------------------------
\* A cell of a leaf is left to a sub-walker: beyond its position on its own page, or
\* under a child it has not passed.
IsLeft(d, w, q, i) ==
  /\ d.pages[q].right = 0 /\ i \in DOMAIN d.pages[q].cells
  /\ \/ q = w.page /\ i > w.current_index
     \/ \E j \in DOMAIN Links(d)[w.page] :
          j > w.current_index /\ q \in Subtree(d)[Links(d)[w.page][j]]

IsLeftTo(d, list, q, i) == \E k \in 1 .. Len(list) : IsLeft(d, list[k], q, i)

\* What is left to a sub-walker comes before what is left to those below it.
InOrder(d, order, list) ==
  \A k, l \in 1 .. Len(list) : k < l =>
    \A q, r : \A i, j :
      IsLeft(d, list[l], q, i) /\ IsLeft(d, list[k], r, j) =>
        <<d.pages[q].cells[i], d.pages[r].cells[j]>> \in order

\* The leaves of a tree are in order.
Ascends(d, root, order) ==
  \A p \in Subtree(d)[root] :
    /\ d.pages[p].right = 0 => \A i, j \in DOMAIN d.pages[p].cells :
         i < j => <<d.pages[p].cells[i], d.pages[p].cells[j]>> \in order
    /\ \A a, b \in DOMAIN Links(d)[p] : a < b =>
         \A x \in LeafCells(d, Subtree(d)[Links(d)[p][a]]),
            y \in LeafCells(d, Subtree(d)[Links(d)[p][b]]) : <<x, y>> \in order

InSubtree(d, root, list) == \A k \in 1 .. Len(list) : list[k].page \in Subtree(d)[root]

LEMMA CellOfLeaf ==
  ASSUME NEW d, NEW S, NEW q \in S, d.pages[q].right = 0, NEW i \in DOMAIN d.pages[q].cells
  PROVE  d.pages[q].cells[i] \in LeafCells(d, S)
BY DEF LeafCells

\* What a step leaves to the sub-walkers was left to them before it.
LEMMA LeftNarrowed ==
  ASSUME NEW d \in Databases, NEW list, IsStack(d, list), list # <<>>,
         NEW i \in Nat, i >= Top(list).current_index,
         NEW rest, IsNarrowed(d, list, i, rest)
  PROVE  /\ Len(rest) \in Nat /\ Len(rest) <= Len(list)
         /\ \A k \in 1 .. Len(rest) : \A q, a : IsLeft(d, rest[k], q, a) => IsLeft(d, list[k], q, a)
         /\ \A q, a : IsLeftTo(d, rest, q, a) => IsLeftTo(d, list, q, a)
         /\ \A order : InOrder(d, order, list) => InOrder(d, order, rest)
         /\ \A root : InSubtree(d, root, list) => InSubtree(d, root, rest)
<1>1. /\ Len(list) \in Nat \ {0} /\ Top(list) = list[Len(list)]
      /\ \A k \in 1 .. Len(list) : list[k].page \in DOMAIN d.pages /\ list[k].current_index \in Nat
  BY StackShape
<1>2. /\ Len(rest) \in Nat /\ Len(rest) <= Len(list)
      /\ \A k \in 1 .. Len(rest) : /\ rest[k].page = list[k].page
                                  /\ rest[k].current_index \in Nat
                                  /\ rest[k].current_index >= list[k].current_index
  BY <1>1 DEF IsNarrowed
<1>3. ASSUME NEW k \in 1 .. Len(rest), NEW q, NEW a, IsLeft(d, rest[k], q, a)
      PROVE  IsLeft(d, list[k], q, a)
  <2>1. \A p \in DOMAIN d.pages : \A j \in DOMAIN Links(d)[p] : j \in Nat
    BY Children
  <2>2. a \in Nat /\ list[k].page \in DOMAIN d.pages /\ list[k].current_index \in Nat
    <3>1. k \in 1 .. Len(list)
      BY <1>1, <1>2
    <3>2. q = rest[k].page => q \in DOMAIN d.pages
      BY <1>1, <1>2, <3>1
    <3>3. q # rest[k].page => q \in DOMAIN d.pages
      <4>1. rest[k].page \in DOMAIN d.pages
        BY <1>1, <1>2, <3>1
      <4> QED
        BY <1>3, <4>1, Children, Subtrees DEF IsLeft
    <3>4. a \in DOMAIN d.pages[q].cells
      BY <1>3 DEF IsLeft
    <3> QED
      BY <1>1, <3>1, <3>2, <3>3, <3>4, Children
  <2> QED
    BY <1>2, <1>3, <2>1, <2>2 DEF IsLeft
<1>4. \A k \in 1 .. Len(rest) : k \in 1 .. Len(list)
  BY <1>1, <1>2
<1>5. \A q, a : IsLeftTo(d, rest, q, a) => IsLeftTo(d, list, q, a)
  BY <1>3, <1>4 DEF IsLeftTo
<1>6. \A order : InOrder(d, order, list) => InOrder(d, order, rest)
  BY <1>3, <1>4, Zenon DEF InOrder
<1>7. \A root : InSubtree(d, root, list) => InSubtree(d, root, rest)
  BY <1>2, <1>4 DEF InSubtree
<1> QED
  BY <1>2, <1>3, <1>5, <1>6, <1>7

\* A step down to a child leaves out what is under the children before it.
LEMMA LeftDescended ==
  ASSUME NEW d \in Databases, NEW list, IsStack(d, list), list # <<>>,
         NEW root \in DOMAIN d.pages, InSubtree(d, root, list),
         NEW order, Ascends(d, root, order), InOrder(d, order, list),
         NEW j \in DOMAIN Links(d)[Top(list).page], j > Top(list).current_index
  PROVE  /\ InOrder(d, order, Descended(d, list, j))
         /\ InSubtree(d, root, Descended(d, list, j))
         /\ \A q, a : IsLeftTo(d, Descended(d, list, j), q, a) => IsLeftTo(d, list, q, a)
         /\ \A q, a : IsLeftTo(d, list, q, a) =>
              \/ IsLeftTo(d, Descended(d, list, j), q, a)
              \/ \E m \in DOMAIN Links(d)[Top(list).page] :
                   /\ Top(list).current_index < m /\ m < j
                   /\ q \in Subtree(d)[Links(d)[Top(list).page][m]]
<1> DEFINE top == Top(list).page
           child == Links(d)[top][j]
           longer == Descended(d, list, j)
           n == Len(list)
<1>1. PICK rest : /\ IsNarrowed(d, list, j, rest)
                  /\ Len(rest) = IF j <= Len(d.pages[top].cells) THEN n ELSE n - 1
                  /\ IsPushed(d, rest, child, longer)
  BY DescendedBy
<1>2. /\ d.pages[top].right # 0 /\ j \in 1 .. Len(d.pages[top].cells) + 1 /\ child \in DOMAIN d.pages
      /\ top \in DOMAIN d.pages /\ n \in Nat \ {0} /\ Top(list) = list[n]
      /\ list[n].current_index \in Nat /\ Len(d.pages[top].cells) \in Nat
  <2>1. d.pages[top].right # 0 /\ j \in 1 .. Len(d.pages[top].cells) + 1 /\ child \in DOMAIN d.pages
    BY DescendedBy
  <2>2. n \in Nat \ {0} /\ Top(list) = list[n] /\ top \in DOMAIN d.pages /\ list[n].current_index \in Nat
    BY StackShape
  <2> QED
    BY <2>1, <2>2, Children
<1>3. DOMAIN Links(d)[top] = 1 .. Len(d.pages[top].cells) + 1
  BY <1>2, Children, Zenon
<1> HIDE DEF longer
<1>4. /\ Len(rest) \in Nat /\ Len(rest) <= n
      /\ \A k \in 1 .. Len(rest) : \A q, a : IsLeft(d, rest[k], q, a) => IsLeft(d, list[k], q, a)
      /\ InOrder(d, order, rest) /\ InSubtree(d, root, rest)
  <2>1. j \in Nat /\ j >= Top(list).current_index
    BY <1>2
  <2> QED
    BY <1>1, <2>1, LeftNarrowed, Zenon
<1>5. /\ Len(longer) = Len(rest) + 1
      /\ \A k \in 1 .. Len(rest) : longer[k] = rest[k]
      /\ longer[Len(longer)] = [page |-> child, current_index |-> 0]
  BY <1>1, <1>4 DEF IsPushed
<1>6. \A k \in 1 .. Len(longer) : k \in 1 .. Len(rest) \/ k = Len(longer)
  BY <1>4, <1>5
<1>7. \A q, a : IsLeft(d, longer[Len(longer)], q, a)
                  <=> q \in Subtree(d)[child] /\ d.pages[q].right = 0 /\ a \in DOMAIN d.pages[q].cells
  <2> TAKE q, a
  <2>1. Subtree(d)[child] = {child} \cup UNION {Subtree(d)[Links(d)[child][i]] : i \in DOMAIN Links(d)[child]}
    BY <1>2, Subtrees
  <2>2. \A i \in DOMAIN Links(d)[child] : i > 0
    BY <1>2, Children
  <2>3. q \in Subtree(d)[child] => (a \in DOMAIN d.pages[q].cells => a > 0)
    BY <1>2, Subtrees, Children
  <2>4. child \in Subtree(d)[child]
    BY <2>1
  <2> QED
    BY <1>5, <2>1, <2>2, <2>3, <2>4 DEF IsLeft
<1>8. \A q \in Subtree(d)[child] : \A a :
        d.pages[q].right = 0 /\ a \in DOMAIN d.pages[q].cells => IsLeft(d, list[n], q, a)
  BY <1>2 DEF IsLeft
<1>9. InOrder(d, order, longer)
  <2> SUFFICES ASSUME NEW k \in 1 .. Len(longer), NEW l \in 1 .. Len(longer), k < l,
                      NEW q, NEW r, NEW a, NEW b,
                      IsLeft(d, longer[l], q, a), IsLeft(d, longer[k], r, b)
               PROVE  <<d.pages[q].cells[a], d.pages[r].cells[b]>> \in order
    BY DEF InOrder
  <2>1. k \in 1 .. Len(rest)
    BY <1>4, <1>5
  <2>2. CASE l \in 1 .. Len(rest)
    BY <1>4, <1>5, <2>1, <2>2, Zenon DEF InOrder
  <2>3. CASE l = Len(longer)
    <3>1. q \in Subtree(d)[child] /\ d.pages[q].right = 0 /\ a \in DOMAIN d.pages[q].cells
      BY <1>7, <2>3
    <3>2. IsLeft(d, rest[k], r, b) /\ IsLeft(d, list[k], r, b)
      BY <1>4, <1>5, <2>1
    <3>3. CASE k < n
      <4>1. k \in 1 .. n /\ n \in 1 .. n
        BY <1>2, <2>1, <3>3
      <4>2. IsLeft(d, list[n], q, a)
        BY <1>8, <3>1
      <4> QED
        BY <3>2, <3>3, <4>1, <4>2 DEF InOrder
    <3>4. CASE k = n
      <4>1. rest[k] = [page |-> list[n].page, current_index |-> j]
        <5>1. Len(rest) = n
          BY <1>2, <1>4, <2>1, <3>4
        <5> QED
          BY <1>1, <3>4, <5>1 DEF IsNarrowed
      <4>2. rest[k].page = top /\ rest[k].current_index = j
        BY <1>2, <4>1, SMTT(20)
      <4>3. PICK m \in DOMAIN Links(d)[top] : m > j /\ r \in Subtree(d)[Links(d)[top][m]]
        BY <1>2, <3>2, <4>2 DEF IsLeft
      <4>4. d.pages[r].right = 0 /\ b \in DOMAIN d.pages[r].cells
        BY <3>2 DEF IsLeft
      <4>5. /\ d.pages[q].cells[a] \in LeafCells(d, Subtree(d)[child])
            /\ d.pages[r].cells[b] \in LeafCells(d, Subtree(d)[Links(d)[top][m]])
        BY <3>1, <4>3, <4>4, CellOfLeaf
      <4>6. top \in Subtree(d)[root]
        BY <1>2 DEF InSubtree
      <4>7. j < m
        BY <1>2, <1>3, <4>3
      <4> QED
        BY <4>3, <4>5, <4>6, <4>7, Zenon DEF Ascends
    <3> QED
      BY <1>2, <1>4, <2>1, <3>3, <3>4
  <2> QED
    BY <1>6, <2>2, <2>3
<1>10. InSubtree(d, root, longer)
  <2>1. child \in Subtree(d)[root]
    <3>1. top \in Subtree(d)[root]
      BY <1>2 DEF InSubtree
    <3>2. child \in Subtree(d)[child] /\ Subtree(d)[child] \subseteq Subtree(d)[top]
      BY <1>2, Subtrees
    <3>3. Subtree(d)[top] \subseteq Subtree(d)[root]
      BY <3>1, Subtrees
    <3> QED
      BY <3>2, <3>3
  <2>2. longer[Len(longer)].page = child
    BY <1>5
  <2> QED
    BY <1>4, <1>5, <1>6, <2>1, <2>2 DEF InSubtree
<1>11. ASSUME NEW q, NEW a, IsLeftTo(d, longer, q, a)
       PROVE  IsLeftTo(d, list, q, a)
  <2>1. PICK k \in 1 .. Len(longer) : IsLeft(d, longer[k], q, a)
    BY <1>11 DEF IsLeftTo
  <2>2. CASE k \in 1 .. Len(rest)
    <3>1. longer[k] = rest[k] /\ k \in 1 .. Len(list)
      BY <1>2, <1>4, <1>5, <2>2
    <3>2. IsLeft(d, list[k], q, a)
      BY <1>4, <2>1, <2>2, <3>1
    <3> QED
      BY <3>1, <3>2 DEF IsLeftTo
  <2>3. CASE k = Len(longer)
    <3>1. IsLeft(d, list[n], q, a) /\ n \in 1 .. Len(list)
      BY <1>2, <1>7, <1>8, <2>1, <2>3
    <3> QED
      BY <3>1 DEF IsLeftTo
  <2> QED
    BY <1>6, <2>2, <2>3
<1>12. ASSUME NEW q, NEW a, IsLeftTo(d, list, q, a)
       PROVE  \/ IsLeftTo(d, longer, q, a)
              \/ \E m \in DOMAIN Links(d)[top] :
                   Top(list).current_index < m /\ m < j /\ q \in Subtree(d)[Links(d)[top][m]]
  <2>1. PICK k \in 1 .. n : IsLeft(d, list[k], q, a)
    BY <1>12 DEF IsLeftTo
  <2>2. CASE k < n
    <3>1. k \in 1 .. Len(rest) /\ rest[k] = list[k] /\ k \in 1 .. Len(longer)
      BY <1>1, <1>2, <1>4, <1>5, <2>2 DEF IsNarrowed
    <3>2. IsLeft(d, longer[k], q, a)
      BY <1>5, <2>1, <3>1
    <3> QED
      BY <3>1, <3>2 DEF IsLeftTo
  <2>3. CASE k = n
    <3>1. d.pages[q].right = 0 /\ a \in DOMAIN d.pages[q].cells
      BY <2>1 DEF IsLeft
    <3>2. PICK m \in DOMAIN Links(d)[top] : m > list[n].current_index /\ q \in Subtree(d)[Links(d)[top][m]]
      BY <1>2, <2>1, <2>3 DEF IsLeft
    <3>3. CASE m < j
      <4>1. Top(list).current_index < m
        BY <1>2, <1>3, <3>2
      <4> QED
        BY <3>2, <3>3, <4>1
    <3>4. CASE m = j
      <4>1. IsLeft(d, longer[Len(longer)], q, a) /\ Len(longer) \in 1 .. Len(longer)
        BY <1>4, <1>5, <1>7, <3>1, <3>2, <3>4
      <4> QED
        BY <4>1 DEF IsLeftTo
    <3>5. CASE m > j
      <4>1. Len(rest) = n
        BY <1>1, <1>2, <1>3, <3>5
      <4>2. rest[n] = [page |-> top, current_index |-> j]
        BY <1>1, <1>2, <4>1 DEF IsNarrowed
      <4>3. longer[n] = rest[n] /\ n \in 1 .. Len(longer)
        BY <1>2, <1>5, <4>1
      <4>4. longer[n].page = top /\ longer[n].current_index = j
        BY <4>2, <4>3
      <4>5. IsLeft(d, longer[n], q, a)
        BY <3>1, <3>2, <3>5, <4>4 DEF IsLeft
      <4> QED
        BY <4>3, <4>5 DEF IsLeftTo
    <3> QED
      BY <1>2, <1>3, <3>2, <3>3, <3>4, <3>5
  <2> QED
    BY <1>2, <2>2, <2>3
<1> QED
  BY <1>9, <1>10, <1>11, <1>12 DEF longer


-----------------------------------------------------------------------------
\* The numbers in the cells of a page.
LEMMA CellNumbers ==
  ASSUME NEW d \in Databases, NEW p \in DOMAIN d.pages, NEW i \in DOMAIN d.pages[p].cells
  PROVE  /\ d.pages[p].type = "interior_table" => d.pages[p].cells[i].key \in Nat
         /\ d.pages[p].type = "leaf_table" => d.pages[p].cells[i].rowid \in Nat
         /\ d.pages[p].type \in {"interior_index", "leaf_index"} =>
              d.pages[p].cells[i].key \in Nat /\ d.pages[p].cells[i].rowid \in Nat
<1> DEFINE page == d.pages[p]
           P == DOMAIN d.pages
<1>1. page.cells \in Seq(CellsOfType(P)[page.type]) /\ i \in 1 .. Len(page.cells)
  BY Trees, Children DEF IsPage
<1> HIDE DEF page, P
<1>2. CASE page.type = "interior_table"
  <2>1. page.cells \in Seq([child : P, key : Nat])
    BY <1>1, <1>2 DEF CellsOfType
  <2>2. page.cells[i] \in [child : P, key : Nat]
    BY <1>1, <2>1, ElementOfSeq, Zenon
  <2> QED
    BY <1>2, <2>2 DEF page
<1>3. CASE page.type = "leaf_table"
  <2> DEFINE C == [rowid : Nat, readable : BOOLEAN]
  <2>1. page.cells \in Seq(C)
    BY <1>1, <1>3 DEF CellsOfType
  <2>2. page.cells[i] \in C
    <3> HIDE DEF C
    <3> QED
      BY <1>1, <2>1, ElementOfSeq, Zenon
  <2> QED
    BY <1>3, <2>2 DEF page
<1>4. CASE page.type = "interior_index"
  <2> DEFINE C == [key : Nat, rowid : Nat, child : P, readable : BOOLEAN]
  <2>1. page.cells \in Seq(C)
    BY <1>1, <1>4 DEF CellsOfType
  <2>2. page.cells[i] \in C
    <3> HIDE DEF C
    <3> QED
      BY <1>1, <2>1, ElementOfSeq, Zenon
  <2> QED
    BY <1>4, <2>2 DEF page
<1>5. CASE page.type = "leaf_index"
  <2> DEFINE C == [key : Nat, rowid : Nat, readable : BOOLEAN]
  <2>1. page.cells \in Seq(C)
    BY <1>1, <1>5 DEF CellsOfType
  <2>2. page.cells[i] \in C
    <3> HIDE DEF C
    <3> QED
      BY <1>1, <2>1, ElementOfSeq, Zenon
  <2> QED
    BY <1>5, <2>2 DEF page
<1> QED
  BY <1>2, <1>3, <1>4, <1>5 DEF page

AllLeafCells(d) == LeafCells(d, DOMAIN d.pages)

TableOrder(d) == {x \in AllLeafCells(d) \X AllLeafCells(d) : x[1].rowid < x[2].rowid}

IndexOrder(d) == {x \in AllLeafCells(d) \X AllLeafCells(d) : Before(x[1], x[2])}

LEMMA ChildInSubtree ==
  ASSUME NEW d \in Databases, NEW root \in DOMAIN d.pages, NEW p \in Subtree(d)[root],
         NEW j \in DOMAIN Links(d)[p]
  PROVE  /\ p \in DOMAIN d.pages
         /\ Subtree(d)[Links(d)[p][j]] \subseteq Subtree(d)[p]
         /\ Links(d)[p][j] \in Subtree(d)[root]
<1>1. p \in DOMAIN d.pages /\ Subtree(d)[p] \subseteq Subtree(d)[root]
  BY Subtrees
<1>2. Links(d)[p][j] \in Subtree(d)[Links(d)[p][j]]
  BY <1>1, Children, Subtrees
<1>3. Subtree(d)[Links(d)[p][j]] \subseteq Subtree(d)[p]
  BY <1>1, Subtrees
<1> QED
  BY <1>1, <1>2, <1>3

\* A cell of the leaves of a subtree, with its page.
LEMMA LeafOfCell ==
  ASSUME NEW d \in Databases, NEW p \in DOMAIN d.pages, NEW c \in LeafCells(d, Subtree(d)[p])
  PROVE  /\ c \in AllLeafCells(d)
         /\ \E q \in Subtree(d)[p] : \E i \in DOMAIN d.pages[q].cells :
              d.pages[q].right = 0 /\ c = d.pages[q].cells[i]
<1>1. PICK q \in Subtree(d)[p] : d.pages[q].right = 0 /\ c \in {d.pages[q].cells[i] : i \in DOMAIN d.pages[q].cells}
  BY DEF LeafCells
<1>2. q \in DOMAIN d.pages
  BY <1>1, Subtrees
<1>3. PICK i \in DOMAIN d.pages[q].cells : c = d.pages[q].cells[i]
  BY <1>1
<1>4. c \in AllLeafCells(d)
  BY <1>1, <1>2, <1>3, CellOfLeaf, SMTT(20) DEF AllLeafCells
<1> QED
  BY <1>1, <1>3, <1>4

\* The pages of an ordered table.
LEMMA TableInOrder ==
  ASSUME NEW d \in Databases, OrderedTable(d), NEW p \in Subtree(d)[d.table]
  PROVE  /\ p \in DOMAIN d.pages
         /\ d.pages[p].right = 0 <=> d.pages[p].type = "leaf_table"
         /\ d.pages[p].right # 0 <=> d.pages[p].type = "interior_table"
         /\ d.pages[p].right = 0 =>
              \A i, j \in DOMAIN d.pages[p].cells :
                i < j => d.pages[p].cells[i].rowid < d.pages[p].cells[j].rowid
         /\ d.pages[p].right # 0 =>
              /\ \A i, j \in DOMAIN d.pages[p].cells :
                   i < j => d.pages[p].cells[i].key <= d.pages[p].cells[j].key
              /\ \A i \in DOMAIN d.pages[p].cells, j \in DOMAIN Links(d)[p] :
                   \A c \in LeafCells(d, Subtree(d)[Links(d)[p][j]]) :
                     IF j <= i THEN c.rowid <= d.pages[p].cells[i].key
                               ELSE d.pages[p].cells[i].key < c.rowid
<1>1. d.table \in DOMAIN d.pages
  BY Trees
<1>2. p \in DOMAIN d.pages
  BY <1>1, Subtrees
<1>3. d.pages[p].right # 0 <=> d.pages[p].type \in {"interior_table", "interior_index"}
  BY <1>2, Children
<1>4. \A j : \A c \in LeafCells(d, Subtree(d)[Links(d)[p][j]]) :
        c.rowid \in {e.rowid : e \in LeafCells(d, Subtree(d)[Links(d)[p][j]])}
  OBVIOUS
<1>5. \/ /\ d.pages[p].type = "leaf_table"
         /\ \A i, j \in DOMAIN d.pages[p].cells :
              i < j => d.pages[p].cells[i].rowid < d.pages[p].cells[j].rowid
      \/ /\ d.pages[p].type = "interior_table"
         /\ \A i, j \in DOMAIN d.pages[p].cells :
              i < j => d.pages[p].cells[i].key <= d.pages[p].cells[j].key
         /\ \A i \in DOMAIN d.pages[p].cells, j \in DOMAIN Links(d)[p] :
              \A c \in LeafCells(d, Subtree(d)[Links(d)[p][j]]) :
                IF j <= i THEN c.rowid <= d.pages[p].cells[i].key ELSE d.pages[p].cells[i].key < c.rowid
  BY <1>4 DEF OrderedTable
<1> QED
  BY <1>2, <1>3, <1>5

LEMMA TableRowsAreNumbers ==
  ASSUME NEW d \in Databases, OrderedTable(d), NEW p \in Subtree(d)[d.table],
         NEW c \in LeafCells(d, Subtree(d)[p])
  PROVE  c \in AllLeafCells(d) /\ c.rowid \in Nat
<1>1. p \in DOMAIN d.pages /\ Subtree(d)[p] \subseteq Subtree(d)[d.table]
  BY TableInOrder, Trees, Subtrees
<1>2. c \in AllLeafCells(d)
  BY <1>1, LeafOfCell
<1>3. PICK q \in Subtree(d)[p] : \E i \in DOMAIN d.pages[q].cells :
        d.pages[q].right = 0 /\ c = d.pages[q].cells[i]
  BY <1>1, LeafOfCell
<1>4. q \in DOMAIN d.pages /\ d.pages[q].type = "leaf_table"
  BY <1>1, <1>3, TableInOrder
<1> QED
  BY <1>2, <1>3, <1>4, CellNumbers

LEMMA TableAscends ==
  ASSUME NEW d \in Databases, OrderedTable(d)
  PROVE  Ascends(d, d.table, TableOrder(d))
<1> SUFFICES ASSUME NEW p \in Subtree(d)[d.table]
             PROVE  /\ d.pages[p].right = 0 => \A i, j \in DOMAIN d.pages[p].cells :
                         i < j => <<d.pages[p].cells[i], d.pages[p].cells[j]>> \in TableOrder(d)
                    /\ \A a, b \in DOMAIN Links(d)[p] : a < b =>
                         \A x \in LeafCells(d, Subtree(d)[Links(d)[p][a]]),
                            y \in LeafCells(d, Subtree(d)[Links(d)[p][b]]) : <<x, y>> \in TableOrder(d)
  BY Zenon DEF Ascends
<1>1. p \in DOMAIN d.pages
  BY TableInOrder
<1>2. ASSUME d.pages[p].right = 0, NEW i \in DOMAIN d.pages[p].cells, NEW j \in DOMAIN d.pages[p].cells, i < j
      PROVE  <<d.pages[p].cells[i], d.pages[p].cells[j]>> \in TableOrder(d)
  <2>1. d.pages[p].cells[i] \in AllLeafCells(d) /\ d.pages[p].cells[j] \in AllLeafCells(d)
    BY <1>1, <1>2, CellOfLeaf DEF AllLeafCells
  <2>2. d.pages[p].cells[i].rowid < d.pages[p].cells[j].rowid
    BY <1>2, TableInOrder
  <2> QED
    BY <2>1, <2>2 DEF TableOrder
<1>3. ASSUME NEW a \in DOMAIN Links(d)[p], NEW b \in DOMAIN Links(d)[p], a < b,
             NEW x \in LeafCells(d, Subtree(d)[Links(d)[p][a]]),
             NEW y \in LeafCells(d, Subtree(d)[Links(d)[p][b]])
      PROVE  <<x, y>> \in TableOrder(d)
  <2>1. d.pages[p].right # 0 /\ DOMAIN Links(d)[p] = 1 .. Len(d.pages[p].cells) + 1
        /\ DOMAIN d.pages[p].cells = 1 .. Len(d.pages[p].cells) /\ Len(d.pages[p].cells) \in Nat
    BY <1>1, Children
  <2>2. a \in DOMAIN d.pages[p].cells /\ a <= a /\ ~ (b <= a)
    BY <1>3, <2>1
  <2>3. x.rowid <= d.pages[p].cells[a].key
    BY <2>1, <2>2, TableInOrder, Zenon
  <2>4. d.pages[p].cells[a].key < y.rowid
    BY <2>1, <2>2, TableInOrder, Zenon
  <2>5. Links(d)[p][a] \in Subtree(d)[d.table] /\ Links(d)[p][b] \in Subtree(d)[d.table]
    BY <1>1, Trees, ChildInSubtree
  <2>6. x \in AllLeafCells(d) /\ x.rowid \in Nat /\ y \in AllLeafCells(d) /\ y.rowid \in Nat
    BY <2>5, TableRowsAreNumbers
  <2>7. d.pages[p].cells[a].key \in Nat
    BY <1>1, <2>1, <2>2, TableInOrder, CellNumbers
  <2>8. x.rowid < y.rowid
    BY <2>3, <2>4, <2>6, <2>7
  <2> QED
    BY <2>6, <2>8 DEF TableOrder
<1> QED
  BY <1>2, <1>3

\* The pages of an ordered index.
LEMMA IndexInOrder ==
  ASSUME NEW d \in Databases, OrderedIndex(d), d.index # 0, NEW p \in Subtree(d)[d.index]
  PROVE  /\ p \in DOMAIN d.pages
         /\ d.pages[p].right = 0 <=> d.pages[p].type = "leaf_index"
         /\ d.pages[p].right # 0 <=> d.pages[p].type = "interior_index"
         /\ \A i, j \in DOMAIN d.pages[p].cells :
              i < j => Before(d.pages[p].cells[i], d.pages[p].cells[j])
         /\ \A i \in DOMAIN d.pages[p].cells, j \in DOMAIN Links(d)[p] :
              \A e \in LeafCells(d, Subtree(d)[Links(d)[p][j]]) :
                IF j <= i THEN Before(e, d.pages[p].cells[i]) ELSE Before(d.pages[p].cells[i], e)
         /\ d.pages[p].type = "leaf_index" =>
              \A e \in LeafCells(d, {p}) :
                e.rowid \in {c.rowid : c \in LeafCells(d, Subtree(d)[d.table])} \ {0}
<1>1. d.index \in DOMAIN d.pages
  BY Trees
<1>2. p \in DOMAIN d.pages
  BY <1>1, Subtrees
<1>3. d.pages[p].right # 0 <=> d.pages[p].type \in {"interior_table", "interior_index"}
  BY <1>2, Children
<1> QED
  BY <1>2, <1>3, Zenon DEF OrderedIndex, EntriesInOrder

LEMMA EntriesAreNumbers ==
  ASSUME NEW d \in Databases, OrderedIndex(d), d.index # 0, NEW p \in Subtree(d)[d.index],
         NEW e \in LeafCells(d, Subtree(d)[p])
  PROVE  e \in AllLeafCells(d) /\ e.key \in Nat /\ e.rowid \in Nat
<1>1. p \in DOMAIN d.pages /\ Subtree(d)[p] \subseteq Subtree(d)[d.index]
  BY IndexInOrder, Trees, Subtrees
<1>2. e \in AllLeafCells(d)
  BY <1>1, LeafOfCell
<1>3. PICK q \in Subtree(d)[p] : \E i \in DOMAIN d.pages[q].cells :
        d.pages[q].right = 0 /\ e = d.pages[q].cells[i]
  BY <1>1, LeafOfCell
<1>4. q \in DOMAIN d.pages /\ d.pages[q].type = "leaf_index"
  BY <1>1, <1>3, IndexInOrder, Zenon
<1> QED
  BY <1>2, <1>3, <1>4, CellNumbers

LEMMA IndexAscends ==
  ASSUME NEW d \in Databases, OrderedIndex(d), d.index # 0
  PROVE  Ascends(d, d.index, IndexOrder(d))
<1> SUFFICES ASSUME NEW p \in Subtree(d)[d.index]
             PROVE  /\ d.pages[p].right = 0 => \A i, j \in DOMAIN d.pages[p].cells :
                         i < j => <<d.pages[p].cells[i], d.pages[p].cells[j]>> \in IndexOrder(d)
                    /\ \A a, b \in DOMAIN Links(d)[p] : a < b =>
                         \A x \in LeafCells(d, Subtree(d)[Links(d)[p][a]]),
                            y \in LeafCells(d, Subtree(d)[Links(d)[p][b]]) : <<x, y>> \in IndexOrder(d)
  BY Zenon DEF Ascends
<1>1. p \in DOMAIN d.pages
  BY IndexInOrder, Zenon
<1>2. ASSUME d.pages[p].right = 0, NEW i \in DOMAIN d.pages[p].cells, NEW j \in DOMAIN d.pages[p].cells, i < j
      PROVE  <<d.pages[p].cells[i], d.pages[p].cells[j]>> \in IndexOrder(d)
  <2>1. d.pages[p].cells[i] \in AllLeafCells(d) /\ d.pages[p].cells[j] \in AllLeafCells(d)
    BY <1>1, <1>2, CellOfLeaf DEF AllLeafCells
  <2>2. Before(d.pages[p].cells[i], d.pages[p].cells[j])
    BY <1>2, IndexInOrder, Zenon
  <2> QED
    BY <2>1, <2>2 DEF IndexOrder
<1>3. ASSUME NEW a \in DOMAIN Links(d)[p], NEW b \in DOMAIN Links(d)[p], a < b,
             NEW x \in LeafCells(d, Subtree(d)[Links(d)[p][a]]),
             NEW y \in LeafCells(d, Subtree(d)[Links(d)[p][b]])
      PROVE  <<x, y>> \in IndexOrder(d)
  <2>1. d.pages[p].right # 0 /\ DOMAIN Links(d)[p] = 1 .. Len(d.pages[p].cells) + 1
        /\ DOMAIN d.pages[p].cells = 1 .. Len(d.pages[p].cells) /\ Len(d.pages[p].cells) \in Nat
    BY <1>1, Children
  <2>2. a \in DOMAIN d.pages[p].cells /\ a <= a /\ ~ (b <= a)
    BY <1>3, <2>1
  <2> DEFINE between == d.pages[p].cells[a]
  <2>3. Before(x, between)
    BY <2>1, <2>2, IndexInOrder, Zenon
  <2>4. Before(between, y)
    BY <2>1, <2>2, IndexInOrder, Zenon
  <2>5. Links(d)[p][a] \in Subtree(d)[d.index] /\ Links(d)[p][b] \in Subtree(d)[d.index]
    BY <1>1, Trees, ChildInSubtree
  <2>6. /\ x \in AllLeafCells(d) /\ x.key \in Nat /\ x.rowid \in Nat
        /\ y \in AllLeafCells(d) /\ y.key \in Nat /\ y.rowid \in Nat
    BY <2>5, EntriesAreNumbers
  <2>7. between.key \in Nat /\ between.rowid \in Nat
    BY <1>1, <2>1, <2>2, IndexInOrder, CellNumbers, Zenon
  <2> HIDE DEF between
  <2>8. Before(x, y)
    BY <2>3, <2>4, <2>6, <2>7 DEF Before
  <2> QED
    BY <2>6, <2>8 DEF IndexOrder
<1> QED
  BY <1>2, <1>3

-----------------------------------------------------------------------------
\* The rows of the table from a rowid on are left to a list.
RowsLeft(d, list, from) ==
  \A q \in Subtree(d)[d.table] : d.pages[q].right = 0 =>
    \A i \in DOMAIN d.pages[q].cells :
      d.pages[q].cells[i].rowid >= from => IsLeftTo(d, list, q, i)

\* While the walk of the table goes on, no row from the current one on is passed;
\* one may be once the row looked for is known to be missing.
TableInv ==
  /\ InOrder(db, TableOrder(db), table_list)
  /\ InSubtree(db, db.table, table_list)
  /\ pc \notin {"exit", "undefined", "exhausted"} =>
       \/ RowsLeft(db, table_list, current_rowid)
       \/ pc = "seek_row" /\ current_rowid \notin TableRowids

\* All of a tree is left to a list with a sub-walker at the start of its root.
LEMMA AllLeft ==
  ASSUME NEW d \in Databases, NEW root \in DOMAIN d.pages, NEW list, list = <<SubWalker(root)>>
  PROVE  /\ \A order : InOrder(d, order, list)
         /\ InSubtree(d, root, list)
         /\ \A q \in Subtree(d)[root] : d.pages[q].right = 0 =>
              \A i \in DOMAIN d.pages[q].cells : IsLeftTo(d, list, q, i)
<1>1. Len(list) = 1 /\ list[1] = [page |-> root, current_index |-> 0]
  BY DEF SubWalker
<1>2. \A order : InOrder(d, order, list)
  BY <1>1 DEF InOrder
<1>3. Subtree(d)[root] = {root} \cup UNION {Subtree(d)[Links(d)[root][i]] : i \in DOMAIN Links(d)[root]}
  BY Subtrees
<1>4. InSubtree(d, root, list)
  BY <1>1, <1>3 DEF InSubtree
<1>5. ASSUME NEW q \in Subtree(d)[root], d.pages[q].right = 0, NEW i \in DOMAIN d.pages[q].cells
      PROVE  IsLeftTo(d, list, q, i)
  <2>1. i > 0
    <3>1. q \in DOMAIN d.pages
      BY Subtrees
    <3> QED
      BY <1>5, <3>1, Children
  <2>2. \A j \in DOMAIN Links(d)[root] : j > 0
    BY Children
  <2>3. IsLeft(d, list[1], q, i)
    BY <1>1, <1>3, <1>5, <2>1, <2>2 DEF IsLeft
  <2> QED
    BY <1>1, <2>3 DEF IsLeftTo
<1> QED
  BY <1>2, <1>4, <1>5

\* A leaf leaves to its own sub-walker only the cells after its position; a step on
\* it takes nothing from those below.
LEMMA LeafNarrowed ==
  ASSUME NEW d \in Databases, NEW list, IsStack(d, list), list # <<>>,
         d.pages[Top(list).page].right = 0,
         NEW i \in Nat, i >= Top(list).current_index, i <= Len(d.pages[Top(list).page].cells),
         NEW rest,
         \/ rest = Advance(list, i)
         \/ rest = Pop(list) /\ i = Len(d.pages[Top(list).page].cells)
         \/ rest = Pop(list)
  PROVE  /\ \A order : InOrder(d, order, list) => InOrder(d, order, rest)
         /\ \A root : InSubtree(d, root, list) => InSubtree(d, root, rest)
         /\ \A q, a : IsLeftTo(d, rest, q, a) => IsLeftTo(d, list, q, a)
         /\ \A q, a : IsLeftTo(d, list, q, a) =>
              \/ q = Top(list).page /\ a > Top(list).current_index
              \/ \E k \in 1 .. Len(list) - 1 : IsLeft(d, list[k], q, a)
         /\ \A q, a : (\E k \in 1 .. Len(list) - 1 : IsLeft(d, list[k], q, a)) => IsLeftTo(d, rest, q, a)
         /\ rest = Advance(list, i) =>
              \A a \in DOMAIN d.pages[Top(list).page].cells :
                a > i => IsLeftTo(d, rest, Top(list).page, a)
<1> DEFINE n == Len(list)
           top == Top(list).page
<1>1. /\ n \in Nat \ {0} /\ Top(list) = list[n] /\ top \in DOMAIN d.pages
      /\ list[n].current_index \in Nat
  BY StackShape
<1>2. IsNarrowed(d, list, i, rest)
  BY NarrowedBy
<1>3. /\ \A order : InOrder(d, order, list) => InOrder(d, order, rest)
      /\ \A root : InSubtree(d, root, list) => InSubtree(d, root, rest)
      /\ \A q, a : IsLeftTo(d, rest, q, a) => IsLeftTo(d, list, q, a)
  BY <1>2, LeftNarrowed
<1>4. Links(d)[top] = <<>> \/ DOMAIN Links(d)[top] = {}
  BY <1>1, Children
<1>5. ASSUME NEW q, NEW a, IsLeftTo(d, list, q, a)
      PROVE  \/ q = top /\ a > Top(list).current_index
             \/ \E k \in 1 .. n - 1 : IsLeft(d, list[k], q, a)
  <2>1. PICK k \in 1 .. n : IsLeft(d, list[k], q, a)
    BY <1>5 DEF IsLeftTo
  <2>2. CASE k = n
    BY <1>1, <1>4, <2>1, <2>2 DEF IsLeft
  <2>3. CASE k # n
    <3>1. k \in 1 .. n - 1
      BY <1>1, <2>3
    <3> QED
      BY <2>1, <3>1
  <2> QED
    BY <2>2, <2>3
<1>6. ASSUME NEW q, NEW a, NEW k \in 1 .. n - 1, IsLeft(d, list[k], q, a)
      PROVE  IsLeftTo(d, rest, q, a)
  <2>1. rest[k] = list[k] /\ k \in 1 .. Len(rest)
    BY <1>1, <1>2 DEF IsNarrowed
  <2>2. IsLeft(d, rest[k], q, a)
    BY <1>6, <2>1
  <2> QED
    BY <2>1, <2>2 DEF IsLeftTo
<1>7. ASSUME rest = Advance(list, i), NEW a \in DOMAIN d.pages[top].cells, a > i
      PROVE  IsLeftTo(d, rest, top, a)
  <2>1. Len(rest) = n
    BY <1>7 DEF Advance, IsStack
  <2>2. rest[n] = [page |-> list[n].page, current_index |-> i]
    BY <1>2, <2>1 DEF IsNarrowed
  <2>3. rest[n].page = top /\ rest[n].current_index = i /\ n \in 1 .. Len(rest)
    BY <1>1, <2>1, <2>2
  <2>4. IsLeft(d, rest[n], top, a)
    BY <1>7, <2>3 DEF IsLeft
  <2> QED
    BY <2>3, <2>4 DEF IsLeftTo
<1> QED
  BY <1>3, <1>5, <1>6, <1>7

\* The order of two cells of a table that are left to its list.
LEMMA RowsOrdered ==
  ASSUME NEW d, NEW list, InOrder(d, TableOrder(d), list),
         NEW k \in 1 .. Len(list), NEW l \in 1 .. Len(list), k < l,
         NEW q, NEW a, NEW r, NEW b, IsLeft(d, list[l], q, a), IsLeft(d, list[k], r, b)
  PROVE  d.pages[q].cells[a].rowid < d.pages[r].cells[b].rowid
<1>1. <<d.pages[q].cells[a], d.pages[r].cells[b]>> \in TableOrder(d)
  BY DEF InOrder
<1> QED
  BY <1>1 DEF TableOrder

LEMMA TableDescends ==
  ASSUME WalkerInv, RowsInv, TableInv, OrderedTable(db), InteriorTableStep
  PROVE  /\ TableInv'
         /\ pc' = "exit" => \E p \in TablePages : ~ Walkable(p)
<1> DEFINE top == Top(table_list).page
           cells == db.pages[top].cells
           rowid == next_rowid
<1>1. /\ table_list # <<>> /\ pc = "seek_row" /\ rowid = current_rowid
      /\ db.pages[top].type = "interior_table"
      /\ UNCHANGED <<db, current_rowid>>
  BY DEF InteriorTableStep, TypeOfTop, RowsInv
<1>2. /\ db \in Databases /\ IsStack(db, table_list) /\ top \in DOMAIN db.pages
      /\ db.table \in DOMAIN db.pages /\ rowid \in Nat
  BY <1>1, TopFacts, Trees DEF WalkerInv, ValuesOK
<1>3. PICK j \in DOMAIN Links(db)[top] :
        /\ j > Top(table_list).current_index
        /\ table_list' = Descended(db, table_list, j)
        /\ pc' = IF Walkable(Links(db)[top][j]) THEN pc ELSE "exit"
        /\ (\A i, m \in DOMAIN cells : i <= m /\ cells[i].key >= rowid => cells[m].key >= rowid)
           => \A m \in DOMAIN cells :
                Top(table_list).current_index < m /\ m < j => ~ (cells[m].key >= rowid)
  BY InteriorTableDown DEF Cells
<1>4. /\ DOMAIN Links(db)[top] = 1 .. Len(cells) + 1
      /\ DOMAIN cells = 1 .. Len(cells) /\ Len(cells) \in Nat
      /\ db.pages[top].right # 0
  BY <1>1, <1>2, Children
<1>5. InOrder(db, TableOrder(db), table_list) /\ InSubtree(db, db.table, table_list)
  BY DEF TableInv
<1>6. top \in Subtree(db)[db.table]
  BY <1>1, <1>2, <1>5, StackShape DEF InSubtree
<1>7. \A i \in DOMAIN cells : cells[i].key \in Nat
  BY <1>1, <1>2, CellNumbers
<1>8. \A m \in DOMAIN cells : Top(table_list).current_index < m /\ m < j => cells[m].key < rowid
  <2>1. ASSUME NEW i \in DOMAIN cells, NEW m \in DOMAIN cells, i <= m, cells[i].key >= rowid
        PROVE  cells[m].key >= rowid
    <3>1. i = m \/ cells[i].key <= cells[m].key
      BY <1>4, <1>6, <2>1, TableInOrder, <1>2, SMTT(20)
    <3>2. cells[i].key \in Nat /\ cells[m].key \in Nat
      BY <1>7
    <3> HIDE DEF cells
    <3> QED
      BY <1>2, <2>1, <3>1, <3>2
  <2> HIDE DEF cells
  <2> QED
    BY <1>2, <1>3, <1>7, <2>1
<1>9. /\ InOrder(db, TableOrder(db), table_list')
      /\ InSubtree(db, db.table, table_list')
      /\ \A q, a : IsLeftTo(db, table_list, q, a) =>
           \/ IsLeftTo(db, table_list', q, a)
           \/ \E m \in DOMAIN Links(db)[top] :
                /\ Top(table_list).current_index < m /\ m < j
                /\ q \in Subtree(db)[Links(db)[top][m]]
  BY <1>1, <1>2, <1>3, <1>5, TableAscends, LeftDescended
<1>10. ASSUME RowsLeft(db, table_list, rowid)
       PROVE  RowsLeft(db, table_list', rowid)
  <2> SUFFICES ASSUME NEW q \in Subtree(db)[db.table], db.pages[q].right = 0,
                      NEW a \in DOMAIN db.pages[q].cells, db.pages[q].cells[a].rowid >= rowid
               PROVE  IsLeftTo(db, table_list', q, a)
    BY DEF RowsLeft
  <2>1. IsLeftTo(db, table_list, q, a)
    BY <1>10 DEF RowsLeft
  <2>2. ASSUME NEW m \in DOMAIN Links(db)[top], Top(table_list).current_index < m, m < j,
               q \in Subtree(db)[Links(db)[top][m]]
        PROVE  FALSE
    <3>1. m \in DOMAIN cells /\ m <= m
      BY <1>4, <2>2
    <3>2. db.pages[q].cells[a] \in LeafCells(db, Subtree(db)[Links(db)[top][m]])
      BY <2>2, CellOfLeaf
    <3>3. db.pages[q].cells[a].rowid <= cells[m].key
      BY <1>2, <1>4, <1>6, <3>1, <3>2, TableInOrder, Zenon
    <3>4. cells[m].key < rowid /\ cells[m].key \in Nat
      BY <1>7, <1>8, <2>2, <3>1
    <3>5. db.pages[q].cells[a].rowid \in Nat
      BY <1>2, TableInOrder, CellNumbers
    <3> HIDE DEF cells
    <3> QED
      BY <1>2, <3>3, <3>4, <3>5
  <2> QED
    BY <1>9, <2>1, <2>2
<1>11. TableRowids' = TableRowids
  BY <1>1 DEF TableRowids, TablePages
<1>12. pc' \in {pc, "exit"}
  BY <1>3
<1>13. TableInv'
  <2>1. RowsLeft(db, table_list, current_rowid) \/ current_rowid \notin TableRowids
    BY <1>1 DEF TableInv
  <2> QED
    BY <1>1, <1>9, <1>10, <1>11, <1>12, <2>1 DEF TableInv
<1>14. pc' = "exit" => \E p \in TablePages : ~ Walkable(p)
  <2>1. Links(db)[top][j] \in TablePages
    BY <1>2, <1>6, ChildInSubtree DEF TablePages
  <2> QED
    BY <1>1, <1>3, <2>1
<1> QED
  BY <1>13, <1>14

\* leaf_table_step takes the row looked for, or leaves a page that does not have it
\* after its position.
LEMMA LeafTableOutcome ==
  ASSUME WalkerInv, RowsInv, TableInv, OrderedTable(db), LeafTableStep
  PROVE  LET top   == Top(table_list).page
             cells == db.pages[top].cells
         IN  /\ table_list # <<>> /\ pc = "seek_row" /\ next_rowid = current_rowid
             /\ top \in Subtree(db)[db.table] /\ db.pages[top].type = "leaf_table"
             /\ UNCHANGED <<db, predicate, index_list, next_rowid, walked>>
             /\ \/ /\ rows' = Append(rows, current_rowid)
                   /\ current_rowid' = current_rowid + 1 /\ pc' = "ready"
                   /\ \E a \in DOMAIN cells :
                        /\ a > Top(table_list).current_index /\ cells[a].rowid = current_rowid
                        /\ \/ table_list' = Advance(table_list, a)
                           \/ table_list' = Pop(table_list) /\ a = Len(cells)
                \/ /\ UNCHANGED <<rows, current_rowid, pc>> /\ table_list' = Pop(table_list)
                   /\ \A a \in DOMAIN cells :
                        a > Top(table_list).current_index => cells[a].rowid # current_rowid
<1> DEFINE top == Top(table_list).page
           cells == db.pages[top].cells
           n == CountOf(table_list)
           ci == Top(table_list).current_index
           probe == LastProbe(current_rowid)
<1>1. /\ table_list # <<>> /\ pc = "seek_row" /\ next_rowid = current_rowid
      /\ db.pages[top].type = "leaf_table"
      /\ UNCHANGED <<db, predicate, index_list, next_rowid, walked>>
  BY DEF LeafTableStep, TypeOfTop, RowsInv
<1>2. /\ db \in Databases /\ IsStack(db, table_list) /\ top \in DOMAIN db.pages /\ IsFit(db, table_list)
      /\ n = Len(cells) /\ n \in Nat /\ ci \in 0 .. n /\ DOMAIN cells = 1 .. n
  BY <1>1, TopFacts, Children
<1>3. ci \in 0 .. n - 1 /\ current_rowid \in Nat
  BY <1>1, <1>2 DEF IsFit, WalkerInv, ValuesOK
<1>4. top \in Subtree(db)[db.table]
  BY <1>1, <1>2, StackShape DEF TableInv, InSubtree
<1>5. \A i \in 0 .. n - 1 : CellAt(table_list, i) = cells[i + 1]
  BY DEF CellAt, Cells
<1>6. \A i \in 0 .. n - 1 : i + 1 \in 1 .. n
  <2> HIDE DEF n
  <2> QED
    BY <1>2
<1>7. \A a, b \in 1 .. n : a < b => cells[a].rowid < cells[b].rowid
  <2>1. db.pages[top].right = 0
    BY <1>1, <1>2, <1>4, TableInOrder
  <2> QED
    BY <1>2, <1>4, <2>1, TableInOrder, Zenon
<1>8. \A a \in 1 .. n : cells[a].rowid \in Nat
  BY <1>1, <1>2, CellNumbers
<1>9. probe \in ci .. n - 1
  BY <1>2, <1>3, LastProbeRange
<1>10. \A i \in ci .. n - 1 : CellAt(table_list, i).rowid = current_rowid => probe = i
  <2>1. \A i \in 0 .. n - 1 : CellAt(table_list, i).rowid \in Nat
    BY <1>5, <1>6, <1>8
  <2>2. ASSUME NEW i \in 0 .. n - 1, NEW k \in 0 .. n - 1, i < k
        PROVE  CellAt(table_list, i).rowid < CellAt(table_list, k).rowid
    <3>1. i + 1 \in 1 .. n /\ k + 1 \in 1 .. n /\ i + 1 < k + 1
      <4> HIDE DEF n
      <4> QED
        BY <1>2, <2>2
    <3>2. cells[i + 1].rowid < cells[k + 1].rowid
      BY <1>7, <3>1
    <3> QED
      BY <1>5, <3>2
  <2> QED
    BY <1>2, <1>3, <2>1, <2>2, LastProbeRange, Zenon
<1>11. /\ CellAt(table_list, probe) = cells[probe + 1] /\ probe + 1 \in 1 .. n /\ probe + 1 > ci
       /\ (probe + 1 < n => RowTaken(table_list, probe) = Advance(table_list, probe + 1))
       /\ (~ (probe + 1 < n) => RowTaken(table_list, probe) = Pop(table_list) /\ probe + 1 = n)
  <2>1. probe \in 0 .. n - 1 /\ probe + 1 \in 1 .. n /\ probe + 1 > ci /\ (~ (probe + 1 < n) => probe + 1 = n)
    <3> HIDE DEF n, probe, ci
    <3> QED
      BY <1>2, <1>3, <1>9
  <2>2. RowTaken(table_list, probe) = IF probe + 1 < n THEN Advance(table_list, probe + 1) ELSE Pop(table_list)
    BY DEF RowTaken
  <2> HIDE DEF n, probe, ci, cells
  <2> QED
    BY <1>5, <2>1, <2>2
<1>12. CASE cells[probe + 1].rowid = current_rowid
  <2>1. /\ rows' = Append(rows, current_rowid) /\ current_rowid' = current_rowid + 1 /\ pc' = "ready"
        /\ table_list' = RowTaken(table_list, probe)
    BY <1>1, <1>11, <1>12 DEF LeafTableStep
  <2> HIDE DEF probe, cells, n
  <2> QED
    BY <1>1, <1>2, <1>4, <1>11, <1>12, <2>1, Zenon DEF cells
<1>13. CASE cells[probe + 1].rowid # current_rowid
  <2>1. UNCHANGED <<rows, current_rowid, pc>> /\ table_list' = Pop(table_list)
    BY <1>1, <1>11, <1>13 DEF LeafTableStep
  <2>2. ASSUME NEW a \in DOMAIN cells, a > ci, cells[a].rowid = current_rowid
        PROVE  FALSE
    <3>1. a - 1 \in ci .. n - 1 /\ a - 1 \in 0 .. n - 1 /\ (a - 1) + 1 = a
      <4>1. a \in 1 .. n
        BY <1>2
      <4> HIDE DEF n, ci, cells
      <4> QED
        BY <1>2, <2>2, <4>1
    <3>2. CellAt(table_list, a - 1).rowid = current_rowid
      BY <1>5, <2>2, <3>1
    <3>3. probe + 1 = a
      BY <1>10, <3>1, <3>2, SMTT(30)
    <3> QED
      BY <1>13, <2>2, <3>3
  <2> HIDE DEF probe, cells, n
  <2> QED
    BY <1>1, <1>4, <2>1, <2>2 DEF cells
<1> QED
  BY <1>12, <1>13

LEMMA TableLeafLeft ==
  ASSUME WalkerInv, RowsInv, TableInv, OrderedTable(db), LeafTableStep
  PROVE  /\ TableInv'
         /\ pc' = "ready" => current_rowid \in TableRowids
<1> DEFINE top == Top(table_list).page
           cells == db.pages[top].cells
           n == Len(table_list)
           ci == Top(table_list).current_index
<1>1. /\ table_list # <<>> /\ pc = "seek_row" /\ next_rowid = current_rowid
      /\ top \in Subtree(db)[db.table] /\ db.pages[top].type = "leaf_table" /\ db' = db
      /\ db \in Databases /\ IsStack(db, table_list) /\ top \in DOMAIN db.pages
      /\ n \in Nat \ {0} /\ Top(table_list) = table_list[n]
  BY LeafTableOutcome, TopFacts, StackShape
<1>2. /\ db.pages[top].right = 0 /\ DOMAIN cells = 1 .. Len(cells) /\ Len(cells) \in Nat
      /\ \A a, b \in DOMAIN cells : a < b => cells[a].rowid < cells[b].rowid
  BY <1>1, Children, TableInOrder
<1>3. /\ InOrder(db, TableOrder(db), table_list) /\ InSubtree(db, db.table, table_list)
      /\ RowsLeft(db, table_list, current_rowid) \/ current_rowid \notin TableRowids
  BY <1>1 DEF TableInv
<1>4. /\ ci \in Nat /\ ci <= Len(cells) /\ current_rowid \in Nat
      /\ \A a \in DOMAIN cells : cells[a].rowid \in Nat
  <2>1. table_list[n].current_index \in Nat /\ table_list[n].current_index <= Len(cells)
    BY <1>1, StackShape DEF IsStack
  <2>2. current_rowid \in Nat
    BY DEF WalkerInv, ValuesOK
  <2>3. \A a \in DOMAIN cells : cells[a].rowid \in Nat
    BY <1>1, CellNumbers
  <2> QED
    BY <1>1, <2>1, <2>2, <2>3
<1>5. TableRowids' = TableRowids
  BY <1>1 DEF TableRowids, TablePages
<1>6. ASSUME NEW q \in Subtree(db)[db.table], db.pages[q].right = 0, NEW i \in DOMAIN db.pages[q].cells
      PROVE  db.pages[q].cells[i].rowid \in TableRowids /\ db.pages[q].cells[i].rowid \in Nat
  <2>1. db.pages[q].cells[i].rowid \in TableRowids
    BY <1>6, CellOfLeaf DEF TableRowids, TablePages
  <2> QED
    BY <1>1, <1>6, <2>1, TableInOrder, CellNumbers
<1>7. CASE /\ rows' = Append(rows, current_rowid)
           /\ current_rowid' = current_rowid + 1 /\ pc' = "ready"
           /\ \E a \in DOMAIN cells :
                /\ a > ci /\ cells[a].rowid = current_rowid
                /\ \/ table_list' = Advance(table_list, a)
                   \/ table_list' = Pop(table_list) /\ a = Len(cells)
  <2>1. PICK a \in DOMAIN cells :
               /\ a > ci /\ cells[a].rowid = current_rowid
               /\ \/ table_list' = Advance(table_list, a)
                  \/ table_list' = Pop(table_list) /\ a = Len(cells)
    BY <1>7
  <2>2. a \in Nat /\ a >= ci /\ a <= Len(cells)
    BY <1>2, <1>4, <2>1, SMTT(30)
  <2>3. current_rowid \in TableRowids
    BY <1>1, <1>2, <1>6, <2>1
  <2>4. /\ InOrder(db, TableOrder(db), table_list') /\ InSubtree(db, db.table, table_list')
        /\ \A q, b : IsLeftTo(db, table_list, q, b) =>
             \/ q = top /\ b > ci
             \/ \E k \in 1 .. n - 1 : IsLeft(db, table_list[k], q, b)
        /\ \A q, b : (\E k \in 1 .. n - 1 : IsLeft(db, table_list[k], q, b)) => IsLeftTo(db, table_list', q, b)
        /\ table_list' = Advance(table_list, a) =>
             \A b \in DOMAIN cells : b > a => IsLeftTo(db, table_list', top, b)
    BY <1>1, <1>2, <1>3, <2>1, <2>2, LeafNarrowed, Zenon
  <2>5. RowsLeft(db, table_list', current_rowid + 1)
    <3> SUFFICES ASSUME NEW q \in Subtree(db)[db.table], db.pages[q].right = 0,
                        NEW b \in DOMAIN db.pages[q].cells, db.pages[q].cells[b].rowid >= current_rowid + 1
                 PROVE  IsLeftTo(db, table_list', q, b)
      BY DEF RowsLeft
    <3>1. db.pages[q].cells[b].rowid >= current_rowid
      BY <1>4, <1>6
    <3>2. IsLeftTo(db, table_list, q, b)
      BY <1>3, <2>3, <3>1 DEF RowsLeft
    <3>3. CASE \E k \in 1 .. n - 1 : IsLeft(db, table_list[k], q, b)
      BY <2>4, <3>3
    <3>4. CASE q = top /\ b > ci
      <4>1. b \in DOMAIN cells /\ cells[b].rowid >= current_rowid + 1
        BY <3>4
      <4>2. ~ (b < a) /\ b # a
        <5>1. cells[b].rowid \in Nat /\ cells[a].rowid = current_rowid
          BY <1>4, <2>1, <4>1
        <5>2. b < a => cells[b].rowid < cells[a].rowid
          BY <1>2, <4>1
        <5> HIDE DEF cells
        <5> QED
          BY <1>4, <4>1, <5>1, <5>2
      <4>3. b > a /\ b <= Len(cells)
        <5>1. b \in 1 .. Len(cells)
          BY <1>2, <4>1
        <5> HIDE DEF cells
        <5> QED
          BY <1>2, <2>2, <4>2, <5>1
      <4>4. table_list' = Advance(table_list, a)
        <5>1. a # Len(cells)
          BY <1>2, <2>2, <4>1, <4>3
        <5> QED
          BY <2>1, <5>1
      <4> QED
        BY <2>4, <3>4, <4>1, <4>3, <4>4
    <3> QED
      BY <2>4, <3>2, <3>3, <3>4
  <2> QED
    BY <1>1, <1>7, <2>3, <2>4, <2>5 DEF TableInv
<1>8. CASE /\ UNCHANGED <<rows, current_rowid, pc>> /\ table_list' = Pop(table_list)
           /\ \A a \in DOMAIN cells : a > ci => cells[a].rowid # current_rowid
  <2>1. /\ InOrder(db, TableOrder(db), table_list') /\ InSubtree(db, db.table, table_list')
        /\ \A q, b : IsLeftTo(db, table_list, q, b) =>
             \/ q = top /\ b > ci
             \/ \E k \in 1 .. n - 1 : IsLeft(db, table_list[k], q, b)
        /\ \A q, b : (\E k \in 1 .. n - 1 : IsLeft(db, table_list[k], q, b)) => IsLeftTo(db, table_list', q, b)
    <3>1. PICK i \in Nat : i >= ci /\ i <= Len(cells)
      BY <1>2, <1>4
    <3>2. table_list' = Pop(table_list)
      BY <1>8
    <3> QED
      BY <1>1, <1>2, <1>3, <3>1, <3>2, LeafNarrowed, Zenon
  <2>2. ASSUME current_rowid \in TableRowids
        PROVE  RowsLeft(db, table_list', current_rowid)
    <3>1. PICK r \in Subtree(db)[db.table] : \E c \in DOMAIN db.pages[r].cells :
                 db.pages[r].right = 0 /\ db.pages[r].cells[c].rowid = current_rowid
      BY <2>2 DEF TableRowids, TablePages, LeafCells
    <3>2. PICK c \in DOMAIN db.pages[r].cells : db.pages[r].right = 0 /\ db.pages[r].cells[c].rowid = current_rowid
      BY <3>1
    <3>3. IsLeftTo(db, table_list, r, c)
      <4>1. db.pages[r].cells[c].rowid >= current_rowid
        BY <1>4, <3>2
      <4> QED
        BY <1>3, <2>2, <3>2, <4>1 DEF RowsLeft
    <3>4. PICK k \in 1 .. n - 1 : IsLeft(db, table_list[k], r, c)
      BY <1>8, <2>1, <3>2, <3>3
    <3> SUFFICES ASSUME NEW q \in Subtree(db)[db.table], db.pages[q].right = 0,
                        NEW b \in DOMAIN db.pages[q].cells, db.pages[q].cells[b].rowid >= current_rowid
                 PROVE  IsLeftTo(db, table_list', q, b)
      BY DEF RowsLeft
    <3>5. IsLeftTo(db, table_list, q, b)
      BY <1>3, <2>2 DEF RowsLeft
    <3>6. ASSUME q = top, b > ci
          PROVE  FALSE
      <4>1. IsLeft(db, table_list[n], q, b)
        BY <1>1, <3>6 DEF IsLeft
      <4>2. k \in 1 .. n /\ n \in 1 .. n /\ k < n
        BY <1>1
      <4>3. db.pages[q].cells[b].rowid < db.pages[r].cells[c].rowid
        BY <1>3, <3>4, <4>1, <4>2, RowsOrdered
      <4> QED
        BY <1>4, <1>6, <3>2, <4>3
    <3> QED
      BY <2>1, <3>5, <3>6
  <2> QED
    BY <1>1, <1>5, <1>8, <2>1, <2>2 DEF TableInv
<1> QED
  BY <1>7, <1>8, LeafTableOutcome

\* The invariant of the walk of the table.
LEMMA TableInitInv ==
  ASSUME Init
  PROVE  TableInv
<1>1. /\ db \in Databases /\ db.table \in DOMAIN db.pages
      /\ table_list = <<SubWalker(db.table)>>
  BY Trees DEF Init, Start
<1>2. /\ InOrder(db, TableOrder(db), table_list) /\ InSubtree(db, db.table, table_list)
      /\ RowsLeft(db, table_list, current_rowid)
  BY <1>1, AllLeft DEF RowsLeft
<1> QED
  BY <1>2 DEF TableInv

LEMMA TableNextInv ==
  ASSUME WalkerInv, RowsInv, TableInv, OrderedTable(db), [Next]_vars
  PROVE  TableInv'
<1>1. CASE InteriorTableStep
  BY <1>1, TableDescends
<1>2. CASE LeafTableStep
  BY <1>2, TableLeafLeft
<1>3. CASE UseRowid
  <2>1. /\ pc = "use_rowid" /\ UNCHANGED <<db, table_list, next_rowid>>
        /\ \/ current_rowid' = current_rowid
           \/ current_rowid' = next_rowid /\ ~ (next_rowid < current_rowid)
    BY <1>3 DEF UseRowid
  <2>2. current_rowid \in Nat /\ next_rowid \in Nat /\ db \in Databases
    BY DEF WalkerInv, ValuesOK
  <2>3. current_rowid' \in Nat /\ current_rowid <= current_rowid'
    BY <2>1, <2>2
  <2>4. RowsLeft(db, table_list, current_rowid)
    BY <2>1 DEF TableInv
  <2>5. RowsLeft(db, table_list, current_rowid')
    <3>1. \A q \in Subtree(db)[db.table] : db.pages[q].right = 0 =>
            \A i \in DOMAIN db.pages[q].cells : db.pages[q].cells[i].rowid \in Nat
      BY <2>2, TableInOrder, CellNumbers
    <3>2. \A q \in Subtree(db)[db.table] : db.pages[q].right = 0 =>
            \A i \in DOMAIN db.pages[q].cells :
              db.pages[q].cells[i].rowid >= current_rowid' => db.pages[q].cells[i].rowid >= current_rowid
      BY <2>2, <2>3, <3>1
    <3> QED
      BY <2>4, <3>2 DEF RowsLeft
  <2> QED
    BY <2>1, <2>5 DEF TableInv
<1>4. CASE ProduceRow \/ InteriorIndexStep \/ LeafIndexStep \/ NoRowid
  <2>1. pc # "seek_row" /\ pc \notin {"exit", "undefined", "exhausted"} /\ UNCHANGED <<db, table_list, current_rowid>>
    BY <1>4 DEF ProduceRow, InteriorIndexStep, LeafIndexStep, NoRowid
  <2>2. RowsLeft(db, table_list, current_rowid)
    BY <2>1 DEF TableInv
  <2> QED
    BY <2>1, <2>2 DEF TableInv
<1>5. CASE NoRow
  <2>1. pc' = "exhausted" /\ UNCHANGED <<db, table_list>>
    BY <1>5 DEF NoRow
  <2> QED
    BY <2>1 DEF TableInv
<1>6. CASE UNCHANGED vars
  <2>1. TableRowids' = TableRowids
    BY <1>6 DEF vars, TableRowids, TablePages
  <2> QED
    BY <1>6, <2>1 DEF TableInv, vars
<1>7. CASE StopsReading
  <2>1. pc' \in {"exit", "undefined"} /\ UNCHANGED <<db, table_list>>
    BY <1>7, StopFacts
  <2> QED
    BY <2>1 DEF TableInv
<1> QED
  BY <1>1, <1>2, <1>3, <1>4, <1>5, <1>6, <1>7 DEF Next, Step, Ended, StopsReading

-----------------------------------------------------------------------------
\* A full scan has produced the rows before the current rowid, and ends at a gap.
FullScanInv ==
  /\ pc # "seek_rowid"
  /\ pc = "use_rowid" => next_rowid = current_rowid
  /\ Produced = 1 .. current_rowid - 1 /\ Produced \subseteq TableRowids
  /\ pc = "exhausted" => current_rowid \notin TableRowids

LEMMA ProducedAdded ==
  ASSUME rows \in Seq(Nat), NEW r, rows' = Append(rows, r)
  PROVE  Produced' = Produced \cup {r}
<1>1. /\ DOMAIN rows = 1 .. Len(rows) /\ Len(rows) \in Nat
      /\ DOMAIN rows' = 1 .. Len(rows) + 1 /\ rows'[Len(rows) + 1] = r
      /\ \A k \in 1 .. Len(rows) : rows'[k] = rows[k]
  BY AppendProperties, LenProperties
<1>2. \A k \in DOMAIN rows' : k \in DOMAIN rows \/ k = Len(rows) + 1
  BY <1>1
<1>3. \A k \in DOMAIN rows : k \in DOMAIN rows'
  BY <1>1
<1>4. Len(rows) + 1 \in DOMAIN rows'
  BY <1>1
<1>5. \A x \in Produced' : x \in Produced \cup {r}
  BY <1>1, <1>2 DEF Produced
<1>6. \A x \in Produced \cup {r} : x \in Produced'
  BY <1>1, <1>3, <1>4 DEF Produced
<1> QED
  BY <1>5, <1>6

LEMMA TableRowidsNat ==
  ASSUME db \in Databases, OrderedTable(db)
  PROVE  TableRowids \subseteq Nat
<1>1. db.table \in DOMAIN db.pages /\ db.table \in Subtree(db)[db.table]
  BY Trees, Subtrees
<1> QED
  BY <1>1, TableRowsAreNumbers DEF TableRowids, TablePages

\* Without a sub-walker of the table no row from the current one on is left.
LEMMA NoneLeft ==
  ASSUME TableInv, table_list = <<>>, pc \notin {"exit", "undefined", "exhausted"}
  PROVE  \/ \A r \in TableRowids : ~ (r >= current_rowid)
         \/ pc = "seek_row" /\ current_rowid \notin TableRowids
<1>1. \A q, i : ~ IsLeftTo(db, table_list, q, i)
  BY DEF IsLeftTo
<1>2. ASSUME RowsLeft(db, table_list, current_rowid), NEW r \in TableRowids, r >= current_rowid
      PROVE  FALSE
  <2>1. PICK q \in Subtree(db)[db.table] : \E i \in DOMAIN db.pages[q].cells :
               db.pages[q].right = 0 /\ db.pages[q].cells[i].rowid = r
    BY <1>2 DEF TableRowids, TablePages, LeafCells
  <2> QED
    BY <1>1, <1>2, <2>1 DEF RowsLeft
<1> QED
  BY <1>2 DEF TableInv

\* What is produced, and what the answer is read from, while no row is returned.
LEMMA AnswerKept ==
  ASSUME UNCHANGED <<db, predicate>>
  PROVE  Answer' = Answer /\ Sound' = Sound /\ TableRowids' = TableRowids /\ IndexScan' = IndexScan
<1>1. /\ TablePages' = TablePages /\ IndexScan' = IndexScan /\ IndexPages' = IndexPages
      /\ TableRowids' = TableRowids
  BY DEF TablePages, IndexScan, IndexPages, TableRowids
<1>2. \A p : Matching(p)' = Matching(p) /\ Walkable(p)' = Walkable(p) /\ Cells(p)' = Cells(p)
  BY DEF Matching, Walkable, Cells
<1>3. IndexPagesOf("leaf_index")' = IndexPagesOf("leaf_index")
  BY <1>1 DEF IndexPagesOf
<1>4. LeafMatches' = LeafMatches
  BY <1>2, <1>3 DEF LeafMatches
<1>5. Answer' = Answer
  BY <1>1, <1>2, <1>3, <1>4, Zenon DEF Answer
<1>6. Sound' = Sound
  BY <1>1, <1>2 DEF Sound
<1> QED
  BY <1>1, <1>5, <1>6

LEMMA FileKept ==
  ASSUME [Next]_vars
  PROVE  UNCHANGED <<db, predicate>>
BY DEF Next, Step, Ended, vars, ProduceRow, UseRowid, InteriorIndexStep, LeafIndexStep, NoRowid,
       InteriorTableStep, LeafTableStep, NoRow, UnreadableRow, NumberReadAsText

LEMMA FullScanNextInv ==
  ASSUME WalkerInv, RowsInv, TableInv, FullScanInv, OrderedTable(db), ~ IndexScan, [Next]_vars
  PROVE  FullScanInv'
<1>1. /\ current_rowid \in Nat \ {0} /\ next_rowid \in Nat /\ rows \in Seq(Nat)
      /\ TableRowids' = TableRowids
  BY FileKept, AnswerKept DEF WalkerInv, ValuesOK
<1>2. CASE LeafTableStep
  <2>1. CASE pc' = "ready"
    <3>1. /\ pc = "seek_row" /\ rows' = Append(rows, current_rowid) /\ current_rowid' = current_rowid + 1
      BY <1>2, <2>1, LeafTableOutcome
    <3>2. Produced' = Produced \cup {current_rowid}
      BY <1>1, <3>1, ProducedAdded
    <3>3. current_rowid \in TableRowids
      BY <1>2, <2>1, TableLeafLeft
    <3>4. 1 .. current_rowid + 1 - 1 = (1 .. current_rowid - 1) \cup {current_rowid}
      BY <1>1
    <3> QED
      BY <1>1, <2>1, <3>1, <3>2, <3>3, <3>4 DEF FullScanInv
  <2>2. CASE pc' # "ready"
    <3>1. pc = "seek_row" /\ UNCHANGED <<rows, current_rowid, pc>>
      BY <1>2, <2>2, LeafTableOutcome
    <3> QED
      BY <1>1, <3>1 DEF FullScanInv, Produced
  <2> QED
    BY <2>1, <2>2
<1>3. CASE UseRowid
  <2>1. pc = "use_rowid" /\ UNCHANGED <<db, rows, next_rowid>> /\ next_rowid = current_rowid
    BY <1>3 DEF UseRowid, FullScanInv
  <2>2. current_rowid' = current_rowid /\ pc' = IF table_list = <<>> THEN "exhausted" ELSE "seek_row"
    BY <1>1, <1>3, <2>1 DEF UseRowid
  <2>3. table_list = <<>> => current_rowid \notin TableRowids
    <3>1. current_rowid >= current_rowid
      BY <1>1
    <3> QED
      BY <2>1, <3>1, NoneLeft
  <2> QED
    BY <1>1, <2>1, <2>2, <2>3 DEF FullScanInv, Produced
<1>4. CASE ProduceRow
  <2>1. UNCHANGED <<rows, current_rowid>> /\ next_rowid' = current_rowid /\ pc' = "use_rowid"
    BY <1>4 DEF ProduceRow
  <2> QED
    BY <1>1, <2>1 DEF FullScanInv, Produced
<1>5. CASE InteriorTableStep
  <2>1. pc = "seek_row" /\ pc' \in {pc, "exit"} /\ UNCHANGED <<rows, current_rowid>>
    BY <1>5 DEF InteriorTableStep
  <2> QED
    BY <1>1, <2>1 DEF FullScanInv, Produced
<1>6. CASE NoRow
  <2>1. pc = "seek_row" /\ table_list = <<>> /\ pc' = "exhausted" /\ UNCHANGED <<rows, current_rowid>>
    BY <1>6 DEF NoRow
  <2>2. current_rowid \notin TableRowids
    <3>1. current_rowid >= current_rowid
      BY <1>1
    <3> QED
      BY <2>1, <3>1, NoneLeft
  <2> QED
    BY <1>1, <2>1, <2>2 DEF FullScanInv, Produced
<1>7. CASE InteriorIndexStep \/ LeafIndexStep \/ NoRowid
  BY <1>7 DEF FullScanInv, InteriorIndexStep, LeafIndexStep, NoRowid
<1>8. CASE UNCHANGED vars
  BY <1>1, <1>8 DEF vars, FullScanInv, Produced
<1>9. CASE StopsReading
  <2>1. pc' \in {"exit", "undefined"} /\ UNCHANGED <<rows, current_rowid>>
    BY <1>9, StopFacts
  <2> QED
    BY <1>1, <2>1 DEF FullScanInv, Produced
<1> QED
  BY <1>2, <1>3, <1>4, <1>5, <1>6, <1>7, <1>8, <1>9 DEF Next, Step, Ended, StopsReading

\* What a full scan still has to produce starts with the current rowid.
LEMMA FullScanAnswer ==
  ASSUME WalkerInv, FullScanInv, OrderedTable(db), ~ IndexScan
  PROVE  /\ current_rowid \in TableRowids => current_rowid \in Answer
         /\ \A r \in Answer : r \notin Produced => current_rowid <= r
         /\ current_rowid \notin TableRowids => Answer \subseteq Produced
         /\ current_rowid \notin Produced
<1>1. /\ current_rowid \in Nat \ {0} /\ TableRowids \subseteq Nat
      /\ Produced = 1 .. current_rowid - 1 /\ Produced \subseteq TableRowids
      /\ Answer = {r \in TableRowids \ {0} : 1 .. r \subseteq TableRowids}
  BY TableRowidsNat DEF WalkerInv, ValuesOK, FullScanInv, Answer
<1> HIDE DEF Answer
<1>2. current_rowid \in TableRowids => current_rowid \in Answer
  <2>1. \A x \in 1 .. current_rowid : x \in 1 .. current_rowid - 1 \/ x = current_rowid
    BY <1>1
  <2> QED
    BY <1>1, <2>1
<1>3. ASSUME NEW r \in Answer, r \notin Produced
      PROVE  current_rowid <= r
  <2>1. r \in Nat \ {0}
    BY <1>1, <1>3
  <2> QED
    BY <1>1, <1>3, <2>1
<1>4. ASSUME current_rowid \notin TableRowids, NEW r \in Answer
      PROVE  r \in Produced
  <2>1. r \in Nat \ {0} /\ 1 .. r \subseteq TableRowids
    BY <1>1, <1>4
  <2>2. ~ (current_rowid <= r)
    BY <1>1, <1>4, <2>1
  <2> QED
    BY <1>1, <2>1, <2>2
<1>5. current_rowid \notin Produced
  BY <1>1
<1> QED
  BY <1>2, <1>3, <1>4, <1>5

-----------------------------------------------------------------------------
\* The predicate of an index scan compares a key for equality.
Equality == IndexScan => predicate.op = "=" /\ predicate.value \in Nat

\* A matching entry, in a leaf of the index.
IsMatch(d, value, q, i) ==
  /\ q \in Subtree(d)[d.index] /\ d.pages[q].type = "leaf_index"
  /\ i \in DOMAIN d.pages[q].cells /\ d.pages[q].cells[i].key = value

\* The rowids of a page's matching entries up to a position.
MatchesTo(d, value, q, n) ==
  LET cells == d.pages[q].cells
  IN  {cells[i].rowid : i \in {j \in DOMAIN cells : j <= n /\ cells[j].key = value}}

\* The matching entries are left to a list, or none is.
AllMatchesLeft(d, value, list) ==
  \A q, i : IsMatch(d, value, q, i) => IsLeftTo(d, list, q, i)

NoMatchLeft(d, value, list) ==
  \A q, i : IsMatch(d, value, q, i) => ~ IsLeftTo(d, list, q, i)

LeafNotBegun(d, list) ==
  list # <<>> /\ d.pages[Top(list).page].type = "leaf_index" => Top(list).current_index = 0

Asking == pc \in {"ready", "seek_rowid"}

\* No matching entry has been found yet.
Searching ==
  /\ Asking /\ Produced = {} /\ current_rowid = 1
  /\ LeafNotBegun(db, index_list) /\ AllMatchesLeft(db, predicate.value, index_list)

\* The index's walk is on its first leaf with a matching entry, after one of them.
OnFirstLeaf ==
  /\ index_list # <<>>
  /\ IsMatch(db, predicate.value, Top(index_list).page, Top(index_list).current_index)
  /\ Answer = MatchesTo(db, predicate.value, Top(index_list).page,
                        Len(db.pages[Top(index_list).page].cells))

EntryPassed == db.pages[Top(index_list).page].cells[Top(index_list).current_index]

\* The entry at hand is to be looked up in the table, unless it was before.
EntryFound ==
  /\ OnFirstLeaf /\ pc \in {"use_rowid", "seek_row"} /\ next_rowid = EntryPassed.rowid
  /\ \/ /\ Produced = MatchesTo(db, predicate.value, Top(index_list).page, Top(index_list).current_index - 1)
        /\ current_rowid <= next_rowid
     \/ pc = "use_rowid" /\ Produced = Answer /\ next_rowid < current_rowid

\* The row of the entry at hand is produced.
EntryDone ==
  /\ OnFirstLeaf /\ Asking /\ current_rowid = EntryPassed.rowid + 1
  /\ Produced = MatchesTo(db, predicate.value, Top(index_list).page, Top(index_list).current_index)

\* Every row of the answer is produced and no matching entry is left.
NothingLeft ==
  /\ Asking /\ Produced = Answer
  /\ LeafNotBegun(db, index_list) /\ NoMatchLeft(db, predicate.value, index_list)

IndexWalk ==
  InOrder(db, IndexOrder(db), index_list) /\ InSubtree(db, db.index, index_list)

IndexScanInv ==
  /\ IndexWalk
  /\ \/ Searching \/ EntryFound \/ EntryDone \/ NothingLeft
     \/ pc = "exhausted" /\ Produced = Answer
     \/ pc \in {"exit", "undefined"}

LEMMA MatchFacts ==
  ASSUME NEW d \in Databases, OrderedIndex(d), d.index # 0,
         NEW value, NEW q, NEW i, IsMatch(d, value, q, i)
  PROVE  /\ q \in DOMAIN d.pages /\ d.pages[q].right = 0 /\ i \in Nat
         /\ d.pages[q].cells[i].rowid \in Nat \ {0}
         /\ d.pages[q].cells[i].rowid \in {c.rowid : c \in LeafCells(d, Subtree(d)[d.table])}
<1>1. /\ q \in Subtree(d)[d.index] /\ d.pages[q].type = "leaf_index"
      /\ i \in DOMAIN d.pages[q].cells
  BY DEF IsMatch
<1>2. q \in DOMAIN d.pages /\ d.pages[q].right = 0
  BY <1>1, IndexInOrder, Zenon
<1>3. d.pages[q].cells[i] \in LeafCells(d, {q})
  BY <1>1, <1>2, CellOfLeaf
<1>4. d.pages[q].cells[i].rowid \in {c.rowid : c \in LeafCells(d, Subtree(d)[d.table])} \ {0}
  BY <1>1, <1>3, IndexInOrder, Zenon
<1>5. d.pages[q].cells[i].rowid \in Nat /\ i \in Nat
  BY <1>1, <1>2, CellNumbers, Children
<1> QED
  BY <1>2, <1>4, <1>5

\* The rows of a scan's answer are those of one leaf, of the leaves with a matching
\* entry the first.
LEMMA AnswerOfIndex ==
  ASSUME IndexScan
  PROVE  /\ \A q : Matching(q) = {db.pages[q].cells[i].rowid :
                                    i \in {j \in DOMAIN db.pages[q].cells : db.pages[q].cells[j].key = predicate.value}}
         /\ \A r : r \in LeafMatches
              <=> \E q, i : IsMatch(db, predicate.value, q, i) /\ r = db.pages[q].cells[i].rowid
         /\ \A r : r \in Answer
              <=> \E q, i : /\ IsMatch(db, predicate.value, q, i) /\ r = db.pages[q].cells[i].rowid
                            /\ \A x \in LeafMatches : \E m \in Matching(q) : m <= x
<1>1. \A q : Matching(q) = {db.pages[q].cells[i].rowid :
                              i \in {j \in DOMAIN db.pages[q].cells : db.pages[q].cells[j].key = predicate.value}}
  BY DEF Matching, Cells
<1>2. \A q, r : q \in IndexPagesOf("leaf_index") /\ r \in Matching(q)
                <=> \E i : IsMatch(db, predicate.value, q, i) /\ r = db.pages[q].cells[i].rowid
  <2>1. IndexPages = Subtree(db)[db.index]
    BY DEF IndexPages
  <2>2. \A q : q \in IndexPagesOf("leaf_index") <=> q \in Subtree(db)[db.index] /\ db.pages[q].type = "leaf_index"
    BY <2>1 DEF IndexPagesOf
  <2> TAKE q, r
  <2>3. r \in Matching(q) <=> \E i \in DOMAIN db.pages[q].cells :
                                db.pages[q].cells[i].key = predicate.value /\ r = db.pages[q].cells[i].rowid
    BY <1>1
  <2> QED
    BY <2>2, <2>3 DEF IsMatch
<1>3. \A r : r \in LeafMatches <=> \E q : q \in IndexPagesOf("leaf_index") /\ r \in Matching(q)
  BY DEF LeafMatches
<1> DEFINE HasFirst(q) == \A x \in LeafMatches : \E m \in Matching(q) : m <= x
<1>4. \A r : r \in Answer <=> \E q : q \in IndexPagesOf("leaf_index") /\ r \in Matching(q) /\ HasFirst(q)
  BY DEF Answer
<1>5. \A r : r \in LeafMatches
         <=> \E q, i : IsMatch(db, predicate.value, q, i) /\ r = db.pages[q].cells[i].rowid
  BY <1>2, <1>3
<1>6. \A r : r \in Answer
         <=> \E q, i : IsMatch(db, predicate.value, q, i) /\ r = db.pages[q].cells[i].rowid /\ HasFirst(q)
  <2> HIDE DEF HasFirst
  <2> QED
    BY <1>2, <1>4, Zenon
<1> QED
  BY <1>1, <1>5, <1>6

\* The order of two entries that are left to the index's list.
LEMMA EntriesOrdered ==
  ASSUME NEW d, NEW list, InOrder(d, IndexOrder(d), list),
         NEW k \in 1 .. Len(list), NEW l \in 1 .. Len(list), k < l,
         NEW q, NEW a, NEW r, NEW b, IsLeft(d, list[l], q, a), IsLeft(d, list[k], r, b)
  PROVE  Before(d.pages[q].cells[a], d.pages[r].cells[b])
<1>1. <<d.pages[q].cells[a], d.pages[r].cells[b]>> \in IndexOrder(d)
  BY DEF InOrder
<1> QED
  BY <1>1 DEF IndexOrder

LEMMA AcceptsEqual ==
  ASSUME IndexScan, Equality, predicate \in Predicates
  PROVE  \A key \in Nat : Accepts(key) <=> key >= predicate.value
<1>1. LastNumber \in Nat /\ predicate.value \in Nat /\ predicate.value > LastNumber
  BY TextsAssumption
<1> DEFINE value == predicate.value
<1>2. \A key : Accepts(key) <=> key > LastNumber /\ key >= value
  BY Zenon DEF Equality, Accepts, IsText
<1> HIDE DEF value
<1>3. value \in Nat /\ value > LastNumber
  BY <1>1 DEF value
<1> QED
  BY <1>1, <1>2, <1>3 DEF value

\* The keys of a page of the index ascend.
LEMMA KeysAscend ==
  ASSUME db \in Databases, OrderedIndex(db), IndexScan, NEW p \in Subtree(db)[db.index]
  PROVE  /\ \A i \in DOMAIN Cells(p) : Cells(p)[i].key \in Nat /\ Cells(p)[i].rowid \in Nat
         /\ \A i, j \in DOMAIN Cells(p) : i <= j => Cells(p)[i].key <= Cells(p)[j].key
         /\ \A i, j \in DOMAIN Cells(p) :
              i < j /\ Cells(p)[i].key = Cells(p)[j].key => Cells(p)[i].rowid < Cells(p)[j].rowid
<1> DEFINE cells == Cells(p)
<1>1. p \in DOMAIN db.pages /\ db.pages[p].type \in {"leaf_index", "interior_index"}
  <2>1. db.index # 0
    BY DEF IndexScan
  <2> QED
    BY <2>1, IndexInOrder, Zenon
<1>2. \A i \in DOMAIN cells : cells[i].key \in Nat /\ cells[i].rowid \in Nat /\ i \in Nat
  BY <1>1, CellNumbers, Children DEF Cells
<1>3. \A i, j \in DOMAIN cells : i < j => Before(cells[i], cells[j])
  BY IndexInOrder, Zenon DEF IndexScan, Cells
<1> HIDE DEF cells
<1>4. \A i, j \in DOMAIN cells : i <= j => cells[i].key <= cells[j].key
  <2> TAKE i, j \in DOMAIN cells
  <2>1. i < j => cells[i].key <= cells[j].key
    BY <1>2, <1>3 DEF Before
  <2> QED
    BY <1>2, <2>1
<1>5. \A i, j \in DOMAIN cells : i < j /\ cells[i].key = cells[j].key => cells[i].rowid < cells[j].rowid
  BY <1>2, <1>3 DEF Before
<1> QED
  BY <1>2, <1>4, <1>5 DEF cells

\* leaf_index_step finds the first entry after its position that is not below the
\* value, or the last entry of the page.
LEMMA LeafIndexOutcome ==
  ASSUME WalkerInv, IndexWalk, OrderedIndex(db), IndexScan, Equality, LeafIndexStep
  PROVE  LET top   == Top(index_list).page
             cells == Cells(top)
             ci    == Top(index_list).current_index
         IN  /\ index_list # <<>> /\ pc = "seek_rowid"
             /\ top \in Subtree(db)[db.index] /\ db.pages[top].type = "leaf_index"
             /\ UNCHANGED <<db, predicate, table_list, current_rowid, rows, walked>>
             /\ \/ pc' = "exit" /\ index_list' = index_list /\ \E i \in DOMAIN cells : ~ cells[i].readable
                \/ \E a \in DOMAIN cells :
                     /\ a > ci \/ (a = ci /\ ci = Len(cells))
                     /\ \A i \in DOMAIN cells : ci < i /\ i < a => cells[i].key < predicate.value
                     /\ a = Len(cells) \/ cells[a].key >= predicate.value
                     /\ \/ /\ cells[a].key = predicate.value /\ index_list' = Advance(index_list, a)
                           /\ next_rowid' = cells[a].rowid /\ pc' = "use_rowid"
                        \/ /\ cells[a].key # predicate.value /\ index_list' = Pop(index_list)
                           /\ UNCHANGED <<pc, next_rowid>>
<1> DEFINE top == Top(index_list).page
           cells == Cells(top)
           ci == Top(index_list).current_index
           n == CountOf(index_list)
           hi == IndexSearch.hi
           value == predicate.value
<1>1. /\ index_list # <<>> /\ pc = "seek_rowid" /\ db.pages[top].type = "leaf_index"
      /\ UNCHANGED <<db, predicate, table_list, current_rowid, rows, walked>>
  BY DEF LeafIndexStep, TypeOfTop
<1>2. /\ db \in Databases /\ IsStack(db, index_list) /\ top \in DOMAIN db.pages
      /\ n = Len(cells) /\ n \in Nat \ {0} /\ ci \in 0 .. n /\ DOMAIN cells = 1 .. n
  BY <1>1, TopFacts, Children DEF Cells
<1>3. top \in Subtree(db)[db.index]
  BY <1>1, <1>2, StackShape DEF IndexWalk, InSubtree
<1>4. \A i \in 0 .. n - 1 : CellAt(index_list, i) = cells[i + 1]
  BY DEF CellAt
<1>5. \A i \in 0 .. n - 1 : i + 1 \in 1 .. n
  <2> HIDE DEF n
  <2> QED
    BY <1>2
<1>6. /\ \A i \in 1 .. n : cells[i].key \in Nat
      /\ \A i, j \in 1 .. n : i <= j => cells[i].key <= cells[j].key
      /\ value \in Nat
  BY <1>2, <1>3, KeysAscend, Zenon DEF Equality
<1>7. /\ hi \in 0 .. n - 1 /\ ci <= hi + 1 /\ (ci <= hi \/ ci = n)
      /\ IndexSearch.exit => \E i \in 0 .. n - 1 : Unreadable(i)
      /\ hi = n - 1 \/ Accepts(CellAt(index_list, hi).key)
  BY <1>2, IndexSearchRange
<1>8. \A i \in 0 .. n - 1 : Accepts(CellAt(index_list, i).key) <=> cells[i + 1].key >= value
  <2>1. predicate \in Predicates
    BY DEF WalkerInv, ValuesOK
  <2>2. \A i \in 0 .. n - 1 : cells[i + 1].key \in Nat
    BY <1>5, <1>6
  <2> QED
    BY <1>4, <2>1, <2>2, AcceptsEqual
<1>9. \A i \in ci .. n - 1 : ~ IndexSearch.exit /\ i < hi => ~ Accepts(CellAt(index_list, i).key)
  <2>1. ASSUME NEW i \in 0 .. n - 1, NEW j \in 0 .. n - 1, i <= j, Accepts(CellAt(index_list, i).key)
        PROVE  Accepts(CellAt(index_list, j).key)
    <3>1. i + 1 \in 1 .. n /\ j + 1 \in 1 .. n /\ i + 1 <= j + 1
      <4> HIDE DEF n
      <4> QED
        BY <1>2, <2>1
    <3>2. cells[i + 1].key >= value /\ cells[i + 1].key <= cells[j + 1].key
          /\ cells[i + 1].key \in Nat /\ cells[j + 1].key \in Nat
      BY <1>6, <1>8, <2>1, <3>1
    <3>3. cells[j + 1].key >= value
      <4> HIDE DEF cells, value
      <4> QED
        BY <1>6, <3>2
    <3> QED
      BY <1>8, <3>3
  <2> QED
    BY <1>2, <2>1, IndexSearchRange
<1>10. CASE IndexSearch.exit \/ Unreadable(hi)
  <2>1. pc' = "exit" /\ index_list' = index_list
    BY <1>10 DEF LeafIndexStep
  <2>2. \E i \in 0 .. n - 1 : Unreadable(i)
    BY <1>7, <1>10
  <2>3. \E i \in DOMAIN cells : ~ cells[i].readable
    BY <1>2, <1>4, <1>5, <2>2, Zenon DEF Unreadable
  <2> QED
    BY <1>1, <1>3, <2>1, <2>3
<1>11. CASE ~ (IndexSearch.exit \/ Unreadable(hi))
  <2> DEFINE a == hi + 1
  <2>1. /\ a \in 1 .. n /\ (a > ci \/ (a = ci /\ ci = n)) /\ (hi = n - 1 => a = n)
    <3> HIDE DEF n, hi, ci
    <3> QED
      BY <1>2, <1>7
  <2>2. CellAt(index_list, hi) = cells[a]
    BY <1>4, <1>7
  <2>3. a = n \/ cells[a].key >= value
    BY <1>7, <1>8, <2>1
  <2>4. ASSUME NEW i \in 1 .. n, ci < i, i < a
        PROVE  cells[i].key < value
    <3>1. i - 1 \in ci .. n - 1 /\ i - 1 \in 0 .. n - 1 /\ i - 1 < hi /\ (i - 1) + 1 = i
      <4> HIDE DEF n, hi, ci
      <4> QED
        BY <1>2, <1>7, <2>4
    <3>2. ~ (cells[i].key >= value)
      BY <1>8, <1>9, <1>11, <3>1
    <3>3. cells[i].key \in Nat
      BY <1>6
    <3> HIDE DEF cells, value
    <3> QED
      BY <1>6, <3>2, <3>3
  <2>5. \/ /\ cells[a].key = value /\ index_list' = Advance(index_list, a)
           /\ next_rowid' = cells[a].rowid /\ pc' = "use_rowid"
        \/ /\ cells[a].key # value /\ index_list' = Pop(index_list)
           /\ UNCHANGED <<pc, next_rowid>>
    BY <1>11, <2>2 DEF LeafIndexStep
  <2> HIDE DEF a, hi
  <2> QED
    BY <1>1, <1>2, <1>3, <2>1, <2>3, <2>4, <2>5
<1> QED
  BY <1>10, <1>11

\* The leaf where the first matching entry is found has all of the answer.
LEMMA FirstLeafFound ==
  ASSUME db \in Databases, IndexScan, Equality, OrderedIndex(db), IndexWalk,
         AllMatchesLeft(db, predicate.value, index_list), LeafNotBegun(db, index_list),
         IsStack(db, index_list), index_list # <<>>,
         db.pages[Top(index_list).page].type = "leaf_index",
         NEW a, IsMatch(db, predicate.value, Top(index_list).page, a),
         \A i \in DOMAIN db.pages[Top(index_list).page].cells :
           i < a => db.pages[Top(index_list).page].cells[i].key < predicate.value
  PROVE  LET top == Top(index_list).page
         IN  /\ Answer = MatchesTo(db, predicate.value, top, Len(db.pages[top].cells))
             /\ MatchesTo(db, predicate.value, top, a - 1) = {}
<1> DEFINE top == Top(index_list).page
           cells == db.pages[top].cells
           value == predicate.value
           n == Len(index_list)
           first == cells[a].rowid
           Match(q, i) == IsMatch(db, value, q, i)
           Rowid(q, i) == db.pages[q].cells[i].rowid
<1>1. /\ n \in Nat \ {0} /\ Top(index_list) = index_list[n] /\ top \in DOMAIN db.pages
      /\ index_list[n].current_index = 0 /\ top \in Subtree(db)[db.index] /\ db.index # 0
      /\ value \in Nat /\ DOMAIN cells = 1 .. Len(cells) /\ Len(cells) \in Nat /\ a \in DOMAIN cells
      /\ cells[a].key = value /\ db.pages[top].right = 0
  <2>1. n \in Nat \ {0} /\ Top(index_list) = index_list[n] /\ top \in DOMAIN db.pages
    BY StackShape
  <2>2. index_list[n].current_index = 0
    BY <2>1 DEF LeafNotBegun
  <2>3. top \in Subtree(db)[db.index]
    BY <2>1 DEF IndexWalk, InSubtree
  <2>4. db.index # 0 /\ value \in Nat
    BY DEF Equality, IndexScan
  <2>5. a \in DOMAIN cells /\ cells[a].key = value
    BY DEF IsMatch
  <2>6. DOMAIN cells = 1 .. Len(cells) /\ Len(cells) \in Nat
    BY <2>1, Children
  <2>7. db.pages[top].right = 0
    BY <2>3, <2>4, IndexInOrder, Zenon
  <2> QED
    BY <2>1, <2>2, <2>3, <2>4, <2>5, <2>6, <2>7
<1>2. ASSUME NEW q, NEW i, Match(q, i)
      PROVE  Rowid(q, i) \in Nat /\ i \in Nat
  <2>1. IsMatch(db, value, q, i)
    BY <1>2
  <2>2. Rowid(q, i) \in Nat \ {0} /\ i \in Nat
    BY <1>1, <2>1, MatchFacts, Zenon
  <2> QED
    BY <2>2
<1>3. ASSUME NEW q, NEW i, Match(q, i), q # top
      PROVE  first < Rowid(q, i)
  <2>1. PICK k \in 1 .. n : IsLeft(db, index_list[k], q, i)
    BY <1>3, SMTT(20) DEF AllMatchesLeft, IsLeftTo
  <2>2. DOMAIN Links(db)[top] = {}
    <3> HIDE DEF top
    <3>1. top \in DOMAIN db.pages /\ db.pages[top].right = 0
      BY <1>1
    <3> QED
      BY <3>1, Children, ZenonT(30)
  <2>3. k < n
    BY <1>1, <1>3, <2>1, <2>2, SMTT(30) DEF IsLeft
  <2>4. IsLeft(db, index_list[n], top, a)
    BY <1>1 DEF IsLeft
  <2>5. Before(cells[a], db.pages[q].cells[i])
    <3>1. k \in 1 .. Len(index_list) /\ n \in 1 .. Len(index_list) /\ k < n
      BY <1>1, <2>3
    <3>2. InOrder(db, IndexOrder(db), index_list)
      BY DEF IndexWalk
    <3> HIDE DEF n
    <3> QED
      BY <2>1, <2>4, <3>1, <3>2, EntriesOrdered, Zenon
  <2>6. db.pages[q].cells[i].key = value
    BY <1>3 DEF IsMatch
  <2> QED
    BY <1>1, <2>5, <2>6 DEF Before
<1>4. ASSUME NEW i, Match(top, i)
      PROVE  first <= Rowid(top, i) /\ a <= i
  <2>1. i \in DOMAIN cells /\ cells[i].key = value
    BY <1>4 DEF IsMatch
  <2>2. ~ (i < a)
    <3>1. i < a => cells[i].key < value
      BY <2>1
    <3> HIDE DEF cells
    <3> QED
      BY <1>1, <2>1, <3>1
  <2>3. a < i => cells[a].rowid < cells[i].rowid
    <3>1. \A j, k \in DOMAIN cells : j < k /\ cells[j].key = cells[k].key => cells[j].rowid < cells[k].rowid
      <4>1. \A j, k \in DOMAIN Cells(top) :
              j < k /\ Cells(top)[j].key = Cells(top)[k].key => Cells(top)[j].rowid < Cells(top)[k].rowid
        <5> HIDE DEF top
        <5> QED
          BY <1>1, KeysAscend, SMTT(20)
      <4> QED
        BY <4>1 DEF Cells
    <3> HIDE DEF cells
    <3> QED
      BY <1>1, <2>1, <3>1
  <2>4. cells[a].rowid \in Nat /\ cells[i].rowid \in Nat /\ i \in Nat /\ a \in Nat
    BY <1>1, <1>2, <1>4, Zenon
  <2>5. CASE a = i
    BY <2>4, <2>5
  <2>6. CASE a < i
    <3>1. cells[a].rowid <= cells[i].rowid
      <4> HIDE DEF cells
      <4> QED
        BY <2>3, <2>4, <2>6
    <3>2. a <= i
      BY <2>4, <2>6
    <3> QED
      BY <3>1, <3>2
  <2> QED
    BY <2>2, <2>4, <2>5, <2>6
<1>5. \A x : x \in LeafMatches => first <= x
  <2> SUFFICES ASSUME NEW x \in LeafMatches PROVE first <= x
    OBVIOUS
  <2>1. PICK q, i : Match(q, i) /\ x = Rowid(q, i)
    BY AnswerOfIndex
  <2>2. CASE q = top
    BY <1>4, <2>1, <2>2
  <2>3. CASE q # top
    <3>1. first < Rowid(q, i) /\ first \in Nat /\ Rowid(q, i) \in Nat
      BY <1>2, <1>3, <2>1, <2>3, SMTT(20)
    <3> QED
      BY <2>1, <3>1
  <2> QED
    BY <2>2, <2>3
<1>6. first \in LeafMatches /\ first \in Matching(top)
  <2>1. first \in LeafMatches
    BY AnswerOfIndex
  <2>2. Matching(top) = {cells[i].rowid : i \in {j \in DOMAIN cells : cells[j].key = value}}
    BY AnswerOfIndex
  <2>3. first \in {cells[i].rowid : i \in {j \in DOMAIN cells : cells[j].key = value}}
    <3> HIDE DEF cells, value
    <3> QED
      BY <1>1
  <2> QED
    BY <2>1, <2>2, <2>3
<1>7. \A x : x \in MatchesTo(db, value, top, Len(cells)) <=> \E i : Match(top, i) /\ x = Rowid(top, i)
  <2>1. \A i \in DOMAIN cells : i <= Len(cells)
    BY <1>1, SMTT(20)
  <2>2. \A i : Match(top, i) <=> i \in DOMAIN cells /\ cells[i].key = value
    BY <1>1 DEF IsMatch
  <2>3. MatchesTo(db, value, top, Len(cells)) =
          {cells[i].rowid : i \in {j \in DOMAIN cells : j <= Len(cells) /\ cells[j].key = value}}
    BY DEF MatchesTo
  <2> HIDE DEF Match
  <2> QED
    BY <2>1, <2>2, <2>3
<1>8. ASSUME NEW r \in Answer
      PROVE  \E i : Match(top, i) /\ r = Rowid(top, i)
  <2>1. PICK q, i : Match(q, i) /\ r = Rowid(q, i) /\ \A x \in LeafMatches : \E m \in Matching(q) : m <= x
    BY AnswerOfIndex
  <2>2. PICK m \in Matching(q) : m <= first
    BY <1>6, <2>1
  <2>3. PICK j \in DOMAIN db.pages[q].cells : db.pages[q].cells[j].key = value /\ m = db.pages[q].cells[j].rowid
    BY <2>2, AnswerOfIndex
  <2>4. Match(q, j)
    BY <2>1, <2>3 DEF IsMatch
  <2>5. q = top
    <3>1. q # top => first < Rowid(q, j)
      BY <1>3, <2>4
    <3>2. first \in Nat /\ Rowid(q, j) \in Nat /\ Rowid(q, j) <= first
      BY <1>2, <2>2, <2>3, <2>4
    <3> QED
      BY <3>1, <3>2
  <2> QED
    BY <2>1, <2>5
<1>9. ASSUME NEW i, Match(top, i)
      PROVE  Rowid(top, i) \in Answer
  <2>1. \A x \in LeafMatches : \E m \in Matching(top) : m <= x
    BY <1>5, <1>6
  <2> QED
    BY <1>9, <2>1, AnswerOfIndex
<1>10. Answer = MatchesTo(db, value, top, Len(cells))
  <2>1. \A r : r \in Answer <=> r \in MatchesTo(db, value, top, Len(cells))
    <3> HIDE DEF Match, Rowid, value, cells, top
    <3> QED
      BY <1>7, <1>8, <1>9
  <2> QED
    BY <2>1, Zenon
<1>11. MatchesTo(db, value, top, a - 1) = {}
  <2>1. \A i \in DOMAIN cells : ~ (i <= a - 1 /\ cells[i].key = value)
    <3> TAKE i \in DOMAIN cells
    <3>1. i <= a - 1 => i < a
      BY <1>1
    <3>2. i < a => cells[i].key < value
      OBVIOUS
    <3> HIDE DEF cells
    <3> QED
      BY <1>1, <3>1, <3>2
  <2>2. MatchesTo(db, value, top, a - 1) =
          {cells[i].rowid : i \in {j \in DOMAIN cells : j <= a - 1 /\ cells[j].key = value}}
    BY DEF MatchesTo
  <2> QED
    BY <2>1, <2>2
<1> QED
  BY <1>10, <1>11

\* The list above a leaf is not on a leaf.
LEMMA NotBegunPopped ==
  ASSUME NEW d \in Databases, NEW list, IsStack(d, list), list # <<>>
  PROVE  LeafNotBegun(d, Pop(list))
<1>1. /\ Len(list) \in Nat \ {0} /\ list \in Seq(SubWalkersOf(d))
      /\ \A k \in 1 .. Len(list) : list[k].page \in DOMAIN d.pages
  BY StackShape DEF IsStack
<1>2. /\ Len(Pop(list)) = Len(list) - 1 /\ Pop(list) \in Seq(SubWalkersOf(d))
      /\ \A k \in 1 .. Len(list) - 1 : Pop(list)[k] = list[k]
  BY <1>1, Popped
<1>3. ASSUME Pop(list) # <<>>
      PROVE  d.pages[Top(Pop(list)).page].type # "leaf_index"
  <2> DEFINE k == Len(list) - 1
  <2>1. k \in 1 .. Len(list) - 1 /\ Top(Pop(list)) = list[k]
    BY <1>1, <1>2, <1>3, LastInList DEF Top
  <2>2. d.pages[list[k].page].right # 0 /\ list[k].page \in DOMAIN d.pages
    BY <1>1, <2>1 DEF IsStack
  <2>3. d.pages[list[k].page].type \in {"interior_table", "interior_index"}
    BY <2>2, Children
  <2> QED
    BY <2>1, <2>3
<1> QED
  BY <1>3 DEF LeafNotBegun

\* interior_index_step leaves out children without a matching entry only.
LEMMA IndexDescends ==
  ASSUME WalkerInv, IndexWalk, OrderedIndex(db), IndexScan, Equality, InteriorIndexStep
  PROVE  /\ index_list # <<>> /\ pc = "seek_rowid"
         /\ db.pages[Top(index_list).page].type = "interior_index"
         /\ UNCHANGED <<db, predicate, current_rowid, next_rowid, rows>>
         /\ \/ /\ pc' = "exit" /\ index_list' = index_list
               /\ \E p \in IndexPages : \E i \in DOMAIN Cells(p) : ~ Cells(p)[i].readable
            \/ /\ InOrder(db, IndexOrder(db), index_list') /\ InSubtree(db, db.index, index_list')
               /\ AllMatchesLeft(db, predicate.value, index_list) =>
                    AllMatchesLeft(db, predicate.value, index_list')
               /\ NoMatchLeft(db, predicate.value, index_list) =>
                    NoMatchLeft(db, predicate.value, index_list')
               /\ LeafNotBegun(db, index_list')
               /\ pc' = pc \/ (pc' = "exit" /\ \E p \in IndexPages : ~ Walkable(p))
<1> DEFINE top == Top(index_list).page
           cells == Cells(top)
           value == predicate.value
<1>1. /\ index_list # <<>> /\ pc = "seek_rowid"
      /\ db.pages[top].type = "interior_index"
      /\ UNCHANGED <<db, predicate, current_rowid, next_rowid, rows>>
  BY DEF InteriorIndexStep, TypeOfTop
<1>2. /\ db \in Databases /\ IsStack(db, index_list) /\ top \in DOMAIN db.pages
      /\ db.index \in DOMAIN db.pages /\ db.index # 0 /\ value \in Nat
  BY <1>1, TopFacts, Trees DEF IndexScan, Equality
<1>3. InOrder(db, IndexOrder(db), index_list) /\ InSubtree(db, db.index, index_list)
  BY DEF IndexWalk
<1>4. top \in Subtree(db)[db.index] /\ IndexPages = Subtree(db)[db.index]
  BY <1>1, <1>2, <1>3, StackShape DEF InSubtree, IndexPages
<1>5. CASE pc' = "exit" /\ UNCHANGED <<index_list, walked>>
           /\ \E i \in DOMAIN cells : ~ cells[i].readable
  BY <1>1, <1>4, <1>5
<1>6. ASSUME NEW j \in DOMAIN Links(db)[top], j > Top(index_list).current_index,
             index_list' = Descended(db, index_list, j),
             pc' = IF Walkable(Links(db)[top][j]) THEN pc ELSE "exit",
             (\A i, m \in DOMAIN cells : i <= m /\ Accepts(cells[i].key) => Accepts(cells[m].key))
               => \A m \in DOMAIN cells :
                    Top(index_list).current_index < m /\ m < j => ~ Accepts(cells[m].key)
      PROVE  /\ InOrder(db, IndexOrder(db), index_list') /\ InSubtree(db, db.index, index_list')
             /\ AllMatchesLeft(db, value, index_list) => AllMatchesLeft(db, value, index_list')
             /\ NoMatchLeft(db, value, index_list) => NoMatchLeft(db, value, index_list')
             /\ LeafNotBegun(db, index_list')
             /\ pc' = pc \/ (pc' = "exit" /\ \E p \in IndexPages : ~ Walkable(p))
  <2>1. /\ DOMAIN Links(db)[top] = 1 .. Len(cells) + 1
        /\ DOMAIN cells = 1 .. Len(cells) /\ Len(cells) \in Nat
    BY <1>1, <1>2, Children DEF Cells
  <2>2. /\ \A i \in DOMAIN cells : cells[i].key \in Nat
        /\ \A i, m \in DOMAIN cells : i <= m => cells[i].key <= cells[m].key
    BY <1>2, <1>4, KeysAscend
  <2>3. \A m \in DOMAIN cells : Top(index_list).current_index < m /\ m < j => cells[m].key < value
    <3>1. \A i, m \in DOMAIN cells : i <= m /\ cells[i].key >= value => cells[m].key >= value
      <4> HIDE DEF cells, value
      <4> QED
        BY <1>2, <2>2
    <3>2. \A m \in DOMAIN cells : Top(index_list).current_index < m /\ m < j => ~ (cells[m].key >= value)
      <4>1. \A key \in Nat : Accepts(key) <=> key >= value
        BY AcceptsEqual DEF WalkerInv, ValuesOK
      <4> HIDE DEF cells, value
      <4> QED
        BY <1>6, <2>2, <3>1, <4>1
    <3> HIDE DEF cells, value
    <3> QED
      BY <1>2, <2>2, <3>2
  <2>4. /\ InOrder(db, IndexOrder(db), index_list') /\ InSubtree(db, db.index, index_list')
        /\ \A q, a : IsLeftTo(db, index_list', q, a) => IsLeftTo(db, index_list, q, a)
        /\ \A q, a : IsLeftTo(db, index_list, q, a) =>
             \/ IsLeftTo(db, index_list', q, a)
             \/ \E m \in DOMAIN Links(db)[top] :
                  /\ Top(index_list).current_index < m /\ m < j
                  /\ q \in Subtree(db)[Links(db)[top][m]]
    BY <1>1, <1>2, <1>3, <1>6, IndexAscends, LeftDescended
  <2>5. ASSUME NEW q, NEW a, IsMatch(db, value, q, a),
               NEW m \in DOMAIN Links(db)[top], Top(index_list).current_index < m, m < j,
               q \in Subtree(db)[Links(db)[top][m]]
        PROVE  FALSE
    <3>1. m \in DOMAIN cells /\ m <= m
      BY <2>1, <2>5
    <3>2. /\ db.pages[q].cells[a] \in LeafCells(db, Subtree(db)[Links(db)[top][m]])
          /\ db.pages[q].cells[a].key = value
      <4>1. db.pages[q].right = 0 /\ a \in DOMAIN db.pages[q].cells /\ db.pages[q].cells[a].key = value
        BY <1>2, <2>5, MatchFacts DEF IsMatch
      <4> QED
        BY <2>5, <4>1, CellOfLeaf
    <3>3. Before(db.pages[q].cells[a], cells[m])
      BY <1>2, <1>4, <2>1, <3>1, <3>2, IndexInOrder, Zenon DEF Cells
    <3>4. cells[m].key < value /\ cells[m].key \in Nat
      BY <2>2, <2>3, <2>5, <3>1
    <3> HIDE DEF cells, value
    <3> QED
      BY <1>2, <3>2, <3>3, <3>4 DEF Before
  <2>6. AllMatchesLeft(db, value, index_list) => AllMatchesLeft(db, value, index_list')
    BY <2>4, <2>5 DEF AllMatchesLeft
  <2>7. NoMatchLeft(db, value, index_list) => NoMatchLeft(db, value, index_list')
    BY <2>4 DEF NoMatchLeft
  <2>8. LeafNotBegun(db, index_list')
    <3>1. PICK rest : IsNarrowed(db, index_list, j, rest) /\ IsPushed(db, rest, Links(db)[top][j], index_list')
      BY <1>1, <1>2, <1>6, DescendedBy
    <3>2. Len(rest) \in Nat
      BY <3>1 DEF IsNarrowed
    <3>3. Top(index_list') = [page |-> Links(db)[top][j], current_index |-> 0]
      BY <3>1, <3>2 DEF IsPushed, Top
    <3> QED
      BY <3>3 DEF LeafNotBegun
  <2>9. Links(db)[top][j] \in IndexPages
    BY <1>2, <1>4, ChildInSubtree
  <2> QED
    BY <1>6, <2>4, <2>6, <2>7, <2>8, <2>9
<1> HIDE DEF cells, value
<1>7. \/ /\ pc' = "exit" /\ UNCHANGED <<index_list, walked>>
         /\ \E i \in DOMAIN cells : ~ cells[i].readable
      \/ \E j \in DOMAIN Links(db)[top] :
           /\ j > Top(index_list).current_index
           /\ index_list' = Descended(db, index_list, j)
           /\ pc' = IF Walkable(Links(db)[top][j]) THEN pc ELSE "exit"
           /\ (\A i, m \in DOMAIN cells : i <= m /\ Accepts(cells[i].key) => Accepts(cells[m].key))
              => \A m \in DOMAIN cells :
                   Top(index_list).current_index < m /\ m < j => ~ Accepts(cells[m].key)
  BY InteriorIndexDown DEF cells
<1> QED
  BY <1>1, <1>5, <1>6, <1>7 DEF value

\* A later position on a leaf of the index.
LEMMA IndexLeafAdvanced ==
  ASSUME NEW d \in Databases, NEW list, IsStack(d, list), list # <<>>, NEW a \in Nat
  PROVE  /\ Advance(list, a) # <<>>
         /\ Top(Advance(list, a)).page = Top(list).page /\ Top(Advance(list, a)).current_index = a
<1>1. Len(list) \in Nat \ {0} /\ Top(list) = list[Len(list)]
  BY StackShape
<1>2. IsNarrowed(d, list, a, Advance(list, a))
  BY NarrowedBy
<1>3. Len(Advance(list, a)) = Len(list) /\ Advance(list, a) \in Seq(SubWalkersOf(d))
  BY <1>1, <1>2 DEF Advance, IsStack, IsNarrowed
<1>4. Top(Advance(list, a)) = [page |-> list[Len(list)].page, current_index |-> a]
  BY <1>2, <1>3 DEF IsNarrowed, Top
<1>5. Advance(list, a) # <<>>
  BY <1>1, <1>3
<1> QED
  BY <1>1, <1>4, <1>5

\* A step of leaf_index_step goes on with the next matching entry, or leaves the page
\* when it has none.
LEMMA LeafIndexNext ==
  ASSUME WalkerInv, IndexScanInv, OrderedIndex(db), IndexScan, Equality, LeafIndexStep
  PROVE  IndexScanInv' /\ (pc' \in {"exit", "undefined"} => ~ Sound)
<1> DEFINE top == Top(index_list).page
           cells == db.pages[top].cells
           ci == Top(index_list).current_index
           value == predicate.value
           n == Len(index_list)
           key(i) == cells[i].key
           Match(q, i) == IsMatch(db, value, q, i)
<1>1. /\ IndexWalk /\ index_list # <<>> /\ pc = "seek_rowid"
      /\ top \in Subtree(db)[db.index] /\ db.pages[top].type = "leaf_index"
      /\ UNCHANGED <<db, predicate, current_rowid, rows>>
  BY LeafIndexOutcome DEF IndexScanInv
<1>2. /\ db \in Databases /\ IsStack(db, index_list) /\ top \in DOMAIN db.pages
      /\ n \in Nat \ {0} /\ Top(index_list) = index_list[n] /\ value \in Nat /\ db.index # 0
      /\ db.pages[top].right = 0 /\ DOMAIN cells = 1 .. Len(cells) /\ Len(cells) \in Nat
      /\ ci \in Nat /\ ci <= Len(cells) /\ IndexPages = Subtree(db)[db.index]
  <2>1. db \in Databases /\ IsStack(db, index_list) /\ top \in DOMAIN db.pages
    BY <1>1, TopFacts
  <2>2. n \in Nat \ {0} /\ Top(index_list) = index_list[n]
    BY <1>1, <2>1, StackShape
  <2>3. ci \in Nat /\ ci <= Len(cells)
    BY <2>1, <2>2, StackShape DEF IsStack
  <2>4. value \in Nat /\ db.index # 0 /\ IndexPages = Subtree(db)[db.index]
    BY DEF Equality, IndexScan, IndexPages
  <2> QED
    BY <1>1, <2>1, <2>2, <2>3, <2>4, Children
<1>3. /\ \A i \in DOMAIN cells : cells[i].key \in Nat /\ cells[i].rowid \in Nat
      /\ \A i, j \in DOMAIN cells : i <= j => cells[i].key <= cells[j].key
      /\ \A i, j \in DOMAIN cells :
           i < j /\ cells[i].key = cells[j].key => cells[i].rowid < cells[j].rowid
  <2> HIDE DEF top
  <2> QED
    BY <1>1, <1>2, KeysAscend, Zenon DEF Cells
<1>4. \A i : Match(top, i) <=> i \in DOMAIN cells /\ cells[i].key = value
  BY <1>1 DEF IsMatch
<1>5. Answer' = Answer /\ Produced' = Produced
  BY <1>1, AnswerKept DEF Produced
<1>6. CASE pc' = "exit" /\ index_list' = index_list /\ \E i \in DOMAIN cells : ~ cells[i].readable
  <2>1. ~ Sound
    BY <1>1, <1>2, <1>6 DEF Sound, Cells
  <2>2. IndexWalk'
    BY <1>1, <1>6 DEF IndexWalk
  <2> QED
    BY <1>6, <2>1, <2>2 DEF IndexScanInv
<1>7. ASSUME NEW a \in DOMAIN cells,
             a > ci \/ (a = ci /\ ci = Len(cells)),
             \A i \in DOMAIN cells : ci < i /\ i < a => cells[i].key < value,
             a = Len(cells) \/ cells[a].key >= value
      PROVE  /\ /\ cells[a].key = value /\ index_list' = Advance(index_list, a)
                /\ next_rowid' = cells[a].rowid /\ pc' = "use_rowid"
                => IndexScanInv'
             /\ /\ cells[a].key # value /\ index_list' = Pop(index_list)
                /\ UNCHANGED <<pc, next_rowid>>
                => IndexScanInv'
  <2>1. a \in Nat /\ a >= ci /\ a <= Len(cells) /\ a >= 1
    BY <1>2, <1>7
  <2>2. /\ InOrder(db, IndexOrder(db), index_list) /\ InSubtree(db, db.index, index_list)
        /\ pc # "exhausted" /\ pc \notin {"exit", "undefined"} /\ ~ EntryFound
    BY <1>1 DEF IndexWalk, EntryFound
  <2>3. Searching \/ EntryDone \/ NothingLeft
    BY <2>2 DEF IndexScanInv
  <2>4. ci # 0 => EntryDone
    BY <1>1, <2>3 DEF Searching, NothingLeft, LeafNotBegun
  <2>5. ASSUME cells[a].key = value, index_list' = Advance(index_list, a),
               next_rowid' = cells[a].rowid, pc' = "use_rowid"
        PROVE  IndexScanInv'
    <3>1. InOrder(db, IndexOrder(db), index_list') /\ InSubtree(db, db.index, index_list')
      BY <1>1, <1>2, <2>1, <2>2, <2>5, LeafNarrowed, Zenon
    <3>2. index_list' # <<>> /\ Top(index_list').page = top /\ Top(index_list').current_index = a
      BY <1>1, <1>2, <2>1, <2>5, IndexLeafAdvanced
    <3>3. Match(top, a)
      BY <1>4, <2>5
    <3>4. ASSUME Answer = MatchesTo(db, value, top, Len(cells)),
                 \/ /\ Produced = MatchesTo(db, value, top, a - 1)
                    /\ current_rowid <= cells[a].rowid
                 \/ Produced = Answer /\ cells[a].rowid < current_rowid
          PROVE  IndexScanInv'
      <4>1. IndexWalk'
        BY <1>1, <3>1 DEF IndexWalk
      <4>2. OnFirstLeaf' /\ (EntryPassed.rowid)' = cells[a].rowid
        BY <1>1, <1>5, <3>2, <3>3, <3>4 DEF OnFirstLeaf, EntryPassed
      <4>3. \/ /\ Produced' = MatchesTo(db, predicate.value, Top(index_list).page, Top(index_list).current_index - 1)'
               /\ (current_rowid <= next_rowid)'
            \/ Produced' = Answer' /\ (next_rowid < current_rowid)'
        BY <1>1, <1>5, <2>5, <3>2, <3>4
      <4>4. EntryFound'
        BY <2>5, <4>2, <4>3 DEF EntryFound
      <4> QED
        BY <4>1, <4>4 DEF IndexScanInv
    <3>5. CASE Searching
      <4>1. ci = 0 /\ Produced = {} /\ current_rowid = 1
        BY <1>1, <3>5 DEF Searching, LeafNotBegun
      <4>2. \A i \in DOMAIN cells : i < a => cells[i].key < value
        <5>1. \A i \in DOMAIN cells : ci < i
          BY <1>2, <4>1, SMTT(20)
        <5> QED
          BY <1>7, <5>1
      <4>3. /\ Answer = MatchesTo(db, value, top, Len(cells))
            /\ MatchesTo(db, value, top, a - 1) = {}
        BY <1>1, <1>2, <3>3, <3>5, <4>2, FirstLeafFound DEF Searching
      <4>4. current_rowid <= cells[a].rowid
        <5>1. cells[a].rowid \in Nat \ {0}
          BY <1>2, <3>3, MatchFacts
        <5> QED
          BY <4>1, <5>1
      <4> QED
        BY <3>4, <4>1, <4>3, <4>4
    <3>6. CASE EntryDone
      <4>1. /\ Answer = MatchesTo(db, value, top, Len(cells)) /\ Match(top, ci)
            /\ current_rowid = cells[ci].rowid + 1 /\ Produced = MatchesTo(db, value, top, ci)
        BY <3>6 DEF EntryDone, OnFirstLeaf, EntryPassed
      <4>2. ci \in DOMAIN cells /\ cells[ci].key = value
        BY <1>4, <4>1
      <4>3. CASE a > ci
        <5>1. a = ci + 1
          <6>1. ci + 1 \in DOMAIN cells /\ ci < ci + 1 /\ ci <= ci + 1
            <7> HIDE DEF cells, ci
            <7> QED
              BY <1>2, <2>1, <4>3
          <6>2. ci + 1 < a => cells[ci + 1].key < value
            BY <1>7, <6>1, SMTT(20)
          <6>3. cells[ci].key <= cells[ci + 1].key
            BY <1>3, <4>2, <6>1
          <6>4. cells[ci + 1].key \in Nat
            BY <1>3, <6>1
          <6>5. ~ (ci + 1 < a)
            <7> HIDE DEF cells, value
            <7> QED
              BY <1>2, <4>2, <6>2, <6>3, <6>4, SMTT(20)
          <6> QED
            BY <1>2, <2>1, <4>3, <6>5
        <5>2. cells[ci].rowid < cells[a].rowid
          <6> HIDE DEF cells, ci, value
          <6> QED
            BY <1>3, <2>5, <4>2, <4>3
        <5>3. cells[ci].rowid \in Nat /\ cells[a].rowid \in Nat
          BY <1>3, <4>2
        <5>4. current_rowid <= cells[a].rowid
          <6> HIDE DEF cells
          <6> QED
            BY <4>1, <5>2, <5>3
        <5>5. a - 1 = ci
          BY <1>2, <5>1, SMTT(30)
        <5> QED
          BY <3>4, <4>1, <5>4, <5>5
      <4>4. CASE a = ci /\ ci = Len(cells)
        <5>1. cells[a].rowid < current_rowid
          <6>1. cells[ci].rowid \in Nat
            BY <1>3, <4>2
          <6> QED
            BY <4>1, <4>4, <6>1, SMTT(20)
        <5>2. Produced = Answer
          BY <4>1, <4>4
        <5> QED
          BY <3>4, <4>1, <5>1, <5>2
      <4> QED
        BY <1>7, <4>3, <4>4
    <3>7. CASE NothingLeft
      <4>1. ci = 0
        BY <1>1, <3>7 DEF NothingLeft, LeafNotBegun
      <4>2. IsLeft(db, index_list[n], top, a)
        BY <1>2, <2>1, <4>1 DEF IsLeft
      <4>3. IsLeftTo(db, index_list, top, a)
        BY <1>2, <4>2 DEF IsLeftTo
      <4> QED
        BY <3>3, <3>7, <4>3 DEF NothingLeft, NoMatchLeft
    <3> QED
      BY <2>3, <3>5, <3>6, <3>7
  <2>6. ASSUME cells[a].key # value, index_list' = Pop(index_list), UNCHANGED <<pc, next_rowid>>
        PROVE  IndexScanInv'
    <3>1. /\ InOrder(db, IndexOrder(db), index_list') /\ InSubtree(db, db.index, index_list')
          /\ \A q, b : IsLeftTo(db, index_list', q, b) => IsLeftTo(db, index_list, q, b)
          /\ \A q, b : IsLeftTo(db, index_list, q, b) =>
               (q = top /\ b > ci) \/ \E k \in 1 .. n - 1 : IsLeft(db, index_list[k], q, b)
          /\ \A q, b : (\E k \in 1 .. n - 1 : IsLeft(db, index_list[k], q, b)) => IsLeftTo(db, index_list', q, b)
      BY <1>1, <1>2, <2>1, <2>2, <2>6, LeafNarrowed, Zenon
    <3>2. IndexWalk' /\ Asking' /\ LeafNotBegun(db, index_list')
      BY <1>1, <1>2, <2>6, <3>1, NotBegunPopped DEF IndexWalk, Asking
    <3>3. \A i \in DOMAIN cells : i > ci => cells[i].key # value
      <4> TAKE i \in DOMAIN cells
      <4>1. CASE i < a
        <5>1. ci < i => cells[i].key < value
          BY <1>7, <4>1
        <5>2. cells[i].key \in Nat /\ i \in Nat
          <6> HIDE DEF cells, ci
          <6> QED
            BY <1>2, <1>3
        <5> HIDE DEF cells, value
        <5> QED
          BY <1>2, <5>1, <5>2
      <4>2. CASE i = a
        BY <2>6, <4>2
      <4>3. CASE i > a
        <5>1. a # Len(cells) /\ a <= i
          BY <1>2, <2>1, <4>3, SMTT(20)
        <5>2. cells[a].key >= value /\ cells[a].key <= cells[i].key
          BY <1>3, <1>7, <5>1
        <5>3. cells[a].key \in Nat /\ cells[i].key \in Nat
          BY <1>3
        <5> HIDE DEF cells, value
        <5> QED
          BY <1>2, <2>6, <5>2, <5>3
      <4> QED
        BY <1>2, <2>1, <4>1, <4>2, <4>3
    <3>4. CASE Searching
      <4>1. AllMatchesLeft(db, value, index_list')
        <5> SUFFICES ASSUME NEW q, NEW i, Match(q, i) PROVE IsLeftTo(db, index_list', q, i)
          BY DEF AllMatchesLeft
        <5>1. IsLeftTo(db, index_list, q, i)
          BY <3>4 DEF Searching, AllMatchesLeft
        <5>2. ~ (q = top /\ i > ci)
          BY <1>4, <3>3
        <5> QED
          BY <3>1, <5>1, <5>2
      <4>2. Searching'
        BY <1>1, <1>5, <3>2, <3>4, <4>1 DEF Searching
      <4> QED
        BY <3>2, <4>2 DEF IndexScanInv
    <3>5. CASE NothingLeft
      <4>1. NoMatchLeft(db, value, index_list')
        BY <3>1, <3>5 DEF NothingLeft, NoMatchLeft
      <4>2. NothingLeft'
        BY <1>1, <1>5, <3>2, <3>5, <4>1 DEF NothingLeft
      <4> QED
        BY <3>2, <4>2 DEF IndexScanInv
    <3>6. CASE EntryDone
      <4>1. /\ Answer = MatchesTo(db, value, top, Len(cells)) /\ Match(top, ci)
            /\ Produced = MatchesTo(db, value, top, ci)
        BY <3>6 DEF EntryDone, OnFirstLeaf
      <4>2. ci \in DOMAIN cells /\ cells[ci].key = value
        BY <1>4, <4>1
      <4>3. Produced = Answer
        <5>1. \A i \in DOMAIN cells : (i <= ci /\ cells[i].key = value) <=> (i <= Len(cells) /\ cells[i].key = value)
          <6>1. \A i \in DOMAIN cells : i \in Nat /\ i <= Len(cells)
            BY <1>2, SMTT(20)
          <6>2. \A i \in DOMAIN cells : cells[i].key = value => i <= ci
            <7>1. ci \in Nat
              BY <1>2
            <7> HIDE DEF cells, ci, value
            <7> QED
              BY <3>3, <6>1, <7>1, SMTT(30)
          <6> QED
            BY <6>1, <6>2
        <5>2. {j \in DOMAIN cells : j <= ci /\ cells[j].key = value}
                = {j \in DOMAIN cells : j <= Len(cells) /\ cells[j].key = value}
          BY <5>1
        <5>3. MatchesTo(db, value, top, ci) = MatchesTo(db, value, top, Len(cells))
          BY <5>2 DEF MatchesTo
        <5> QED
          BY <4>1, <5>3
      <4>4. a > ci /\ cells[a].key > value
        <5>1. a > ci
          <6>1. a # ci
            BY <2>6, <4>2
          <6> QED
            BY <1>7, <6>1
        <5>2. cells[ci].key <= cells[a].key /\ cells[a].key \in Nat
          <6> HIDE DEF cells, ci, value
          <6> QED
            BY <1>2, <1>3, <2>1, <4>2, <5>1, Zenon
        <5> HIDE DEF cells, value
        <5> QED
          BY <1>2, <2>6, <4>2, <5>1, <5>2
      <4>5. NoMatchLeft(db, value, index_list')
        <5> SUFFICES ASSUME NEW q, NEW i, Match(q, i), IsLeftTo(db, index_list', q, i) PROVE FALSE
          BY DEF NoMatchLeft
        <5>1. ~ (q = top /\ i > ci)
          BY <1>4, <3>3
        <5>2. PICK k \in 1 .. n - 1 : IsLeft(db, index_list[k], q, i)
          BY <3>1, <5>1
        <5>3. IsLeft(db, index_list[n], top, a)
          BY <1>2, <4>4 DEF IsLeft
        <5>4. k \in 1 .. n /\ n \in 1 .. n /\ k < n
          BY <1>2
        <5>5. Before(cells[a], db.pages[q].cells[i])
          BY <2>2, <5>2, <5>3, <5>4, EntriesOrdered, SMTT(30)
        <5>6. db.pages[q].cells[i].key = value /\ cells[a].key \in Nat
          BY <1>3 DEF IsMatch
        <5> HIDE DEF cells, value
        <5> QED
          BY <1>2, <4>4, <5>5, <5>6 DEF Before
      <4>6. NothingLeft'
        BY <1>1, <1>5, <3>2, <4>3, <4>5 DEF NothingLeft
      <4> QED
        BY <3>2, <4>6 DEF IndexScanInv
    <3> QED
      BY <2>3, <3>4, <3>5, <3>6
  <2> QED
    BY <2>5, <2>6, SMTT(20)
<1>8. \/ pc' = "exit" /\ index_list' = index_list /\ \E i \in DOMAIN cells : ~ cells[i].readable
      \/ \E a \in DOMAIN cells :
           /\ a > ci \/ (a = ci /\ ci = Len(cells))
           /\ \A i \in DOMAIN cells : ci < i /\ i < a => cells[i].key < value
           /\ a = Len(cells) \/ cells[a].key >= value
           /\ \/ /\ cells[a].key = value /\ index_list' = Advance(index_list, a)
                 /\ next_rowid' = cells[a].rowid /\ pc' = "use_rowid"
              \/ /\ cells[a].key # value /\ index_list' = Pop(index_list)
                 /\ UNCHANGED <<pc, next_rowid>>
  <2>1. Cells(top) = cells
    BY DEF Cells
  <2> HIDE DEF cells
  <2> QED
    BY <1>1, <2>1, LeafIndexOutcome
<1> HIDE DEF cells, ci, value, Match
<1> QED
  BY <1>1, <1>6, <1>7, <1>8

-----------------------------------------------------------------------------
\* With the next matching entry of a page, its rowid.
LEMMA MatchesGrow ==
  ASSUME NEW d \in Databases, NEW q \in DOMAIN d.pages, NEW value,
         NEW n \in DOMAIN d.pages[q].cells, d.pages[q].cells[n].key = value
  PROVE  MatchesTo(d, value, q, n) = MatchesTo(d, value, q, n - 1) \cup {d.pages[q].cells[n].rowid}
<1> DEFINE cells == d.pages[q].cells
           To(m) == {j \in DOMAIN cells : j <= m /\ cells[j].key = value}
<1>1. \A j \in DOMAIN cells : j \in Nat
  BY Children
<1>2. To(n) = To(n - 1) \cup {n}
  <2>1. \A j \in DOMAIN cells : j <= n <=> (j <= n - 1 \/ j = n)
    BY <1>1
  <2> HIDE DEF cells
  <2> QED
    BY <2>1 DEF cells
<1> HIDE DEF To
<1>3. \A x : x \in {cells[i].rowid : i \in To(n)}
         <=> x \in {cells[i].rowid : i \in To(n - 1)} \cup {cells[n].rowid}
  BY <1>2
<1> QED
  BY <1>3 DEF MatchesTo, To

\* The entry passed last, while the walk is on the leaf of the answer.
LEMMA FirstLeafFacts ==
  ASSUME WalkerInv, OrderedIndex(db), IndexScan, Equality, OnFirstLeaf
  PROVE  LET top   == Top(index_list).page
             ci    == Top(index_list).current_index
             cells == db.pages[top].cells
         IN  /\ db \in Databases /\ top \in Subtree(db)[db.index] /\ top \in DOMAIN db.pages
             /\ db.pages[top].type = "leaf_index"
             /\ DOMAIN cells = 1 .. Len(cells) /\ Len(cells) \in Nat
             /\ ci \in DOMAIN cells /\ cells[ci].key = predicate.value
             /\ EntryPassed = cells[ci] /\ EntryPassed.rowid \in TableRowids
             /\ EntryPassed.rowid \in Nat \ {0} /\ EntryPassed.rowid \in Answer
             /\ MatchesTo(db, predicate.value, top, ci)
                  = MatchesTo(db, predicate.value, top, ci - 1) \cup {EntryPassed.rowid}
             /\ \A r \in Answer : r \notin MatchesTo(db, predicate.value, top, ci - 1) =>
                  EntryPassed.rowid <= r
<1> DEFINE top == Top(index_list).page
           ci == Top(index_list).current_index
           cells == db.pages[top].cells
           value == predicate.value
<1>1. db \in Databases /\ db.index # 0
  BY DEF WalkerInv, ValuesOK, IndexScan
<1>2. /\ IsMatch(db, value, top, ci) /\ Answer = MatchesTo(db, value, top, Len(cells))
      /\ EntryPassed = cells[ci]
  BY DEF OnFirstLeaf, EntryPassed
<1>3. /\ top \in Subtree(db)[db.index] /\ db.pages[top].type = "leaf_index"
      /\ ci \in DOMAIN cells /\ cells[ci].key = value
  BY <1>2 DEF IsMatch
<1>4. /\ top \in DOMAIN db.pages /\ cells[ci].rowid \in Nat \ {0} /\ cells[ci].rowid \in TableRowids
  BY <1>1, <1>2, MatchFacts, Zenon DEF TableRowids, TablePages
<1>5. DOMAIN cells = 1 .. Len(cells) /\ Len(cells) \in Nat
  BY <1>1, <1>4, Children
<1>6. MatchesTo(db, value, top, ci) = MatchesTo(db, value, top, ci - 1) \cup {cells[ci].rowid}
  <2>1. ci \in DOMAIN db.pages[top].cells /\ db.pages[top].cells[ci].key = value
    BY <1>3
  <2>2. db \in Databases /\ top \in DOMAIN db.pages
    BY <1>1, <1>4
  <2> HIDE DEF top, ci, value
  <2>3. MatchesTo(db, value, top, ci) = MatchesTo(db, value, top, ci - 1) \cup {db.pages[top].cells[ci].rowid}
    BY <2>1, <2>2, MatchesGrow
  <2> QED
    BY <2>3
<1>7. /\ \A i \in DOMAIN cells : cells[i].key \in Nat /\ cells[i].rowid \in Nat
      /\ \A i, j \in DOMAIN cells :
           i < j /\ cells[i].key = cells[j].key => cells[i].rowid < cells[j].rowid
  <2> HIDE DEF top
  <2> QED
    BY <1>1, <1>3, KeysAscend DEF Cells
<1>8. \A m, r : r \in MatchesTo(db, value, top, m)
        <=> \E i \in DOMAIN cells : i <= m /\ cells[i].key = value /\ r = cells[i].rowid
  BY DEF MatchesTo
<1>9. \A r : r \in Answer <=> r \in MatchesTo(db, value, top, Len(cells))
  BY <1>2
<1>10. /\ cells[ci].rowid \in Answer
       /\ \A r \in Answer : r \notin MatchesTo(db, value, top, ci - 1) => cells[ci].rowid <= r
  <2> HIDE DEF cells, ci, value, top
  <2>1. ci <= Len(cells)
    BY <1>3, <1>5
  <2>2. cells[ci].rowid \in Answer
    BY <1>3, <1>8, <1>9, <2>1
  <2>3. ASSUME NEW r \in Answer, r \notin MatchesTo(db, value, top, ci - 1)
        PROVE  cells[ci].rowid <= r
    <3>1. PICK i \in DOMAIN cells : cells[i].key = value /\ r = cells[i].rowid
      BY <1>8, <1>9, <2>3
    <3>2. ~ (i <= ci - 1)
      BY <1>8, <2>3, <3>1
    <3>3. i = ci \/ ci < i
      BY <1>3, <1>5, <3>2
    <3>4. ci < i => cells[ci].rowid < cells[i].rowid
      BY <1>3, <1>7, <3>1
    <3>5. cells[ci].rowid \in Nat /\ cells[i].rowid \in Nat
      BY <1>3, <1>7
    <3> QED
      BY <3>1, <3>3, <3>4, <3>5
  <2> QED
    BY <2>2, <2>3
<1> HIDE DEF cells, ci, value, top
<1>11. EntryPassed = cells[ci]
  BY <1>2
<1>12. /\ EntryPassed.rowid \in TableRowids /\ EntryPassed.rowid \in Nat \ {0}
       /\ EntryPassed.rowid \in Answer
       /\ MatchesTo(db, value, top, ci) = MatchesTo(db, value, top, ci - 1) \cup {EntryPassed.rowid}
       /\ \A r \in Answer : r \notin MatchesTo(db, value, top, ci - 1) => EntryPassed.rowid <= r
  BY <1>4, <1>6, <1>10, <1>11
<1>13. db.pages[top].type = "leaf_index" /\ cells[ci].key = predicate.value
  BY <1>3 DEF value
<1>14. /\ MatchesTo(db, predicate.value, top, ci)
            = MatchesTo(db, predicate.value, top, ci - 1) \cup {EntryPassed.rowid}
       /\ \A r \in Answer : r \notin MatchesTo(db, predicate.value, top, ci - 1) => EntryPassed.rowid <= r
  BY <1>12 DEF value
<1>15. /\ db \in Databases /\ top \in Subtree(db)[db.index] /\ top \in DOMAIN db.pages
       /\ db.pages[top].type = "leaf_index"
       /\ DOMAIN cells = 1 .. Len(cells) /\ Len(cells) \in Nat
       /\ ci \in DOMAIN cells /\ cells[ci].key = predicate.value
       /\ EntryPassed = cells[ci] /\ EntryPassed.rowid \in TableRowids
       /\ EntryPassed.rowid \in Nat \ {0} /\ EntryPassed.rowid \in Answer
  BY <1>1, <1>3, <1>4, <1>5, <1>11, <1>12, <1>13
<1> QED
  BY <1>14, <1>15, Zenon DEF cells, ci, top

\* Without a sub-walker of the index the answer is produced.
LEMMA NoEntryLeft ==
  ASSUME WalkerInv, IndexScanInv, OrderedIndex(db), IndexScan, index_list = <<>>, Asking
  PROVE  Produced = Answer
<1>1. Searching \/ NothingLeft
  BY DEF IndexScanInv, Asking, EntryFound, EntryDone, OnFirstLeaf
<1>2. \A q, i : ~ IsLeftTo(db, index_list, q, i)
  BY DEF IsLeftTo
<1>3. CASE Searching
  <2>1. \A q, i : ~ IsMatch(db, predicate.value, q, i)
    BY <1>2, <1>3 DEF Searching, AllMatchesLeft
  <2>2. \A r : r \notin Answer
    BY <2>1, AnswerOfIndex
  <2> QED
    BY <1>3, <2>2 DEF Searching
<1> QED
  BY <1>1, <1>3 DEF NothingLeft

\* The process only stops on what makes a file unsound.
LEMMA StopsUnsound ==
  ASSUME WalkerInv, TableInv, StopsReading,
         pc = "seek_rowid" => IndexScan /\ InSubtree(db, db.index, index_list)
  PROVE  ~ Sound
<1>1. CASE UnreadableRow
  <2> DEFINE top == Top(table_list).page
             i == LastProbe(next_rowid)
  <2>1. /\ table_list # <<>> /\ TypeOfTop(table_list) = "leaf_table" /\ pc = "seek_row"
        /\ ~ CellAt(table_list, i).readable
    BY <1>1 DEF UnreadableRow, UnreadableRowFound
  <2>2. /\ db \in Databases /\ IsStack(db, table_list) /\ top \in DOMAIN db.pages
        /\ CountOf(table_list) \in Nat /\ IsFit(db, table_list)
        /\ Top(table_list).current_index \in 0 .. CountOf(table_list)
        /\ CountOf(table_list) = Len(db.pages[top].cells)
    BY <2>1, TopFacts
  <2>3. Top(table_list).current_index \in 0 .. CountOf(table_list) - 1
    BY <2>1, <2>2 DEF IsFit, TypeOfTop
  <2>4. i \in Top(table_list).current_index .. CountOf(table_list) - 1
    BY <2>2, <2>3, LastProbeRange
  <2>5. /\ DOMAIN db.pages[top].cells = 1 .. CountOf(table_list) /\ db.pages[top].right = 0
        /\ i + 1 \in 1 .. CountOf(table_list)
    <3>1. i + 1 \in 1 .. CountOf(table_list)
      <4> HIDE DEF i
      <4> QED
        BY <2>2, <2>3, <2>4
    <3> QED
      BY <2>1, <2>2, <3>1, Children DEF TypeOfTop
  <2>6. top \in TablePages
    BY <2>1, <2>2, StackShape DEF TableInv, InSubtree, TablePages
  <2>7. db.pages[top].cells[i + 1] \in LeafCells(db, TablePages)
    <3>1. \A q \in TablePages : db.pages[q].right = 0 =>
            \A k \in DOMAIN db.pages[q].cells : db.pages[q].cells[k] \in LeafCells(db, TablePages)
      BY DEF LeafCells
    <3> HIDE DEF top, i
    <3> QED
      BY <2>5, <2>6, <3>1
  <2>8. CellAt(table_list, i) = db.pages[top].cells[i + 1]
    BY DEF CellAt, Cells
  <2> QED
    BY <2>1, <2>7, <2>8 DEF Sound
<1>2. CASE NumberReadAsText
  <2> DEFINE top == Top(index_list).page
             hi == IndexSearch.hi
  <2>1. /\ index_list # <<>> /\ TypeOfTop(index_list) = "leaf_index" /\ pc = "seek_rowid"
        /\ ~ IsText(CellAt(index_list, hi).key)
    BY <1>2 DEF NumberReadAsText
  <2>2. /\ db \in Databases /\ IsStack(db, index_list) /\ top \in DOMAIN db.pages
        /\ CountOf(index_list) \in Nat \ {0}
        /\ Top(index_list).current_index \in 0 .. CountOf(index_list)
        /\ CountOf(index_list) = Len(db.pages[top].cells)
    BY <2>1, TopFacts
  <2>3. hi \in 0 .. CountOf(index_list) - 1
    BY <2>2, IndexSearchRange
  <2>4. DOMAIN Cells(top) = 1 .. CountOf(index_list) /\ hi + 1 \in 1 .. CountOf(index_list)
    <3>1. hi + 1 \in 1 .. CountOf(index_list)
      <4> HIDE DEF hi
      <4> QED
        BY <2>2, <2>3
    <3> QED
      BY <2>2, <3>1, Children DEF Cells
  <2>5. top \in IndexPages
    BY <2>1, <2>2, StackShape DEF InSubtree, IndexPages
  <2>6. CellAt(index_list, hi) = Cells(top)[hi + 1]
    BY DEF CellAt
  <2> HIDE DEF hi, top
  <2> QED
    BY <2>1, <2>4, <2>5, <2>6 DEF Sound
<1> QED
  BY <1>1, <1>2 DEF StopsReading

LEMMA IndexScanNextInv ==
  ASSUME WalkerInv, RowsInv, TableInv, IndexScanInv, OrderedTable(db), OrderedIndex(db), Equality,
         IndexScan, [Next]_vars
  PROVE  IndexScanInv' /\ (pc # pc' /\ pc' \in {"exit", "undefined"} => ~ Sound)
<1>1. /\ db' = db /\ predicate' = predicate /\ Answer' = Answer
      /\ current_rowid \in Nat \ {0} /\ next_rowid \in Nat /\ rows \in Seq(Nat) /\ db \in Databases
  BY FileKept, AnswerKept, Zenon DEF WalkerInv, ValuesOK
<1>2. index_list' = index_list => IndexWalk'
  BY <1>1 DEF IndexScanInv, IndexWalk
<1>3. index_list' = index_list => (OnFirstLeaf => OnFirstLeaf') /\ EntryPassed' = EntryPassed
  BY <1>1 DEF OnFirstLeaf, EntryPassed
<1>4. rows' = rows => Produced' = Produced
  BY DEF Produced
<1>5. CASE ProduceRow \/ NoRowid
  <2>1. /\ Asking /\ pc # "exit" /\ UNCHANGED <<index_list, current_rowid, rows>>
        /\ pc' = IF index_list = <<>> THEN "exhausted" ELSE "seek_rowid"
    BY <1>5 DEF ProduceRow, NoRowid, Asking
  <2>2. CASE index_list = <<>>
    <3>1. Produced = Answer
      BY <2>1, <2>2, NoEntryLeft
    <3> QED
      BY <1>1, <1>2, <1>4, <2>1, <2>2, <3>1 DEF IndexScanInv
  <2>3. CASE index_list # <<>>
    <3>1. pc' = "seek_rowid" /\ Asking'
      BY <2>1, <2>3 DEF Asking
    <3>2. Searching \/ EntryDone \/ NothingLeft
      BY <2>1 DEF IndexScanInv, Asking, EntryFound
    <3>3. Searching => Searching'
      BY <1>1, <1>4, <2>1, <3>1 DEF Searching
    <3>4. NothingLeft => NothingLeft'
      BY <1>1, <1>4, <2>1, <3>1 DEF NothingLeft
    <3>5. EntryDone => EntryDone'
      BY <1>1, <1>3, <1>4, <2>1, <3>1 DEF EntryDone
    <3> QED
      BY <1>2, <2>1, <3>1, <3>2, <3>3, <3>4, <3>5 DEF IndexScanInv
  <2> QED
    BY <2>2, <2>3
<1>6. CASE InteriorIndexStep
  <2>1. IndexWalk
    BY DEF IndexScanInv
  <2>2. /\ index_list # <<>> /\ pc = "seek_rowid"
        /\ db.pages[Top(index_list).page].type = "interior_index"
        /\ UNCHANGED <<db, predicate, current_rowid, next_rowid, rows>>
    BY <1>6, <2>1, IndexDescends
  <2>3. Searching \/ NothingLeft
    BY <2>2 DEF IndexScanInv, EntryFound, EntryDone, OnFirstLeaf, IsMatch
  <2>4. CASE /\ pc' = "exit" /\ index_list' = index_list
             /\ \E p \in IndexPages : \E i \in DOMAIN Cells(p) : ~ Cells(p)[i].readable
    <3>1. ~ Sound
      BY <2>4 DEF Sound
    <3> QED
      BY <1>2, <2>4, <3>1 DEF IndexScanInv
  <2>5. CASE /\ InOrder(db, IndexOrder(db), index_list') /\ InSubtree(db, db.index, index_list')
             /\ AllMatchesLeft(db, predicate.value, index_list) =>
                  AllMatchesLeft(db, predicate.value, index_list')
             /\ NoMatchLeft(db, predicate.value, index_list) =>
                  NoMatchLeft(db, predicate.value, index_list')
             /\ LeafNotBegun(db, index_list')
             /\ pc' = pc \/ (pc' = "exit" /\ \E p \in IndexPages : ~ Walkable(p))
    <3>1. IndexWalk'
      BY <1>1, <2>5 DEF IndexWalk
    <3>2. CASE pc' = "exit" /\ \E p \in IndexPages : ~ Walkable(p)
      <4>1. ~ Sound
        BY <3>2 DEF Sound
      <4> QED
        BY <3>1, <3>2, <4>1 DEF IndexScanInv
    <3>3. CASE pc' = pc
      <4>1. Searching => Searching'
        BY <1>1, <1>4, <2>2, <2>5, <3>3 DEF Searching, Asking
      <4>2. NothingLeft => NothingLeft'
        BY <1>1, <1>4, <2>2, <2>5, <3>3 DEF NothingLeft, Asking
      <4> QED
        BY <2>2, <2>3, <3>1, <3>3, <4>1, <4>2 DEF IndexScanInv
    <3> QED
      BY <2>5, <3>2, <3>3
  <2> QED
    BY <1>6, <2>1, <2>4, <2>5, IndexDescends
<1>7. CASE LeafIndexStep
  BY <1>7, LeafIndexNext
<1>8. CASE UseRowid
  <2>1. /\ pc = "use_rowid" /\ UNCHANGED <<table_list, index_list, next_rowid, rows>>
        /\ next_rowid < current_rowid => pc' = "exhausted"
        /\ ~ (next_rowid < current_rowid) =>
             current_rowid' = next_rowid /\ pc' = IF table_list = <<>> THEN "exhausted" ELSE "seek_row"
    BY <1>8 DEF UseRowid
  <2>2. EntryFound
    BY <2>1 DEF IndexScanInv, Searching, EntryDone, NothingLeft, Asking
  <2>3. CASE next_rowid < current_rowid
    <3>1. Produced = Answer
      BY <1>1, <2>2, <2>3 DEF EntryFound
    <3> QED
      BY <1>1, <1>2, <1>4, <2>1, <2>3, <3>1 DEF IndexScanInv
  <2>4. CASE ~ (next_rowid < current_rowid)
    <3>1. Produced = MatchesTo(db, predicate.value, Top(index_list).page, Top(index_list).current_index - 1)
      BY <2>2, <2>4 DEF EntryFound
    <3>2. next_rowid \in TableRowids /\ OnFirstLeaf /\ next_rowid = EntryPassed.rowid
      <4>1. OnFirstLeaf /\ next_rowid = EntryPassed.rowid
        BY <2>2 DEF EntryFound
      <4> QED
        BY <4>1, FirstLeafFacts
    <3>3. table_list # <<>>
      <4>1. next_rowid >= current_rowid
        BY <1>1, <2>4
      <4> QED
        BY <2>1, <3>2, <4>1, NoneLeft
    <3>4. /\ pc' = "seek_row" /\ current_rowid' = next_rowid /\ next_rowid' = next_rowid
          /\ (current_rowid <= next_rowid)'
      BY <1>1, <2>1, <2>4, <3>3
    <3>5. EntryFound'
      BY <1>1, <1>3, <1>4, <2>1, <3>1, <3>2, <3>4 DEF EntryFound
    <3> QED
      BY <1>2, <2>1, <3>4, <3>5 DEF IndexScanInv
  <2> QED
    BY <2>3, <2>4
<1>9. CASE InteriorTableStep
  <2>1. pc = "seek_row" /\ pc' \in {pc, "exit"} /\ UNCHANGED <<index_list, current_rowid, next_rowid, rows>>
    BY <1>9 DEF InteriorTableStep
  <2>2. EntryFound
    BY <2>1 DEF IndexScanInv, Searching, EntryDone, NothingLeft, Asking
  <2>3. CASE pc' = pc
    <3>1. EntryFound'
      BY <1>1, <1>3, <1>4, <2>1, <2>2, <2>3 DEF EntryFound
    <3> QED
      BY <1>2, <2>1, <2>3, <3>1 DEF IndexScanInv
  <2>4. CASE pc' = "exit"
    <3>1. ~ Sound
      BY <1>9, <2>4, TableDescends DEF Sound
    <3> QED
      BY <1>2, <2>1, <2>4, <3>1 DEF IndexScanInv
  <2> QED
    BY <2>1, <2>3, <2>4
<1>10. CASE LeafTableStep
  <2>1. /\ pc = "seek_row" /\ next_rowid = current_rowid /\ UNCHANGED <<index_list, next_rowid>>
        /\ \/ rows' = Append(rows, current_rowid) /\ current_rowid' = current_rowid + 1 /\ pc' = "ready"
           \/ UNCHANGED <<rows, current_rowid, pc>>
    BY <1>10, LeafTableOutcome
  <2>2. EntryFound
    BY <2>1 DEF IndexScanInv, Searching, EntryDone, NothingLeft, Asking
  <2>3. CASE UNCHANGED <<rows, current_rowid, pc>>
    <3>1. EntryFound'
      BY <1>1, <1>3, <1>4, <2>1, <2>2, <2>3 DEF EntryFound
    <3> QED
      BY <1>2, <2>1, <2>3, <3>1 DEF IndexScanInv
  <2>4. CASE rows' = Append(rows, current_rowid) /\ current_rowid' = current_rowid + 1 /\ pc' = "ready"
    <3>1. /\ OnFirstLeaf /\ current_rowid = EntryPassed.rowid
          /\ Produced = MatchesTo(db, predicate.value, Top(index_list).page, Top(index_list).current_index - 1)
      BY <2>1, <2>2 DEF EntryFound
    <3>2. Produced' = MatchesTo(db, predicate.value, Top(index_list).page, Top(index_list).current_index)
      <4>1. Produced' = Produced \cup {current_rowid}
        BY <1>1, <2>4, ProducedAdded
      <4>2. MatchesTo(db, predicate.value, Top(index_list).page, Top(index_list).current_index)
              = MatchesTo(db, predicate.value, Top(index_list).page, Top(index_list).current_index - 1)
                  \cup {EntryPassed.rowid}
        BY <3>1, FirstLeafFacts
      <4> QED
        BY <3>1, <4>1, <4>2
    <3>3. EntryDone'
      BY <1>1, <1>3, <2>1, <2>4, <3>1, <3>2 DEF EntryDone, Asking
    <3> QED
      BY <1>2, <2>1, <2>4, <3>3 DEF IndexScanInv
  <2> QED
    BY <2>1, <2>3, <2>4
<1>11. CASE NoRow
  <2>1. pc = "seek_row" /\ table_list = <<>>
    BY <1>11 DEF NoRow
  <2>2. EntryFound /\ next_rowid = current_rowid
    BY <2>1 DEF IndexScanInv, Searching, EntryDone, NothingLeft, Asking, RowsInv
  <2>3. current_rowid \in TableRowids
    <3>1. OnFirstLeaf /\ next_rowid = EntryPassed.rowid
      BY <2>2 DEF EntryFound
    <3> QED
      BY <2>2, <3>1, FirstLeafFacts
  <2>4. current_rowid >= current_rowid
    BY <1>1
  <2> QED
    BY <2>1, <2>3, <2>4, NoneLeft
<1>12. CASE UNCHANGED vars
  <2>1. UNCHANGED <<index_list, current_rowid, next_rowid, rows, pc>>
    BY <1>12 DEF vars
  <2>2. (Searching => Searching') /\ (NothingLeft => NothingLeft') /\ (EntryDone => EntryDone')
    BY <1>1, <1>3, <1>4, <2>1 DEF Searching, NothingLeft, EntryDone, Asking
  <2>3. EntryFound => EntryFound'
    BY <1>1, <1>3, <1>4, <2>1 DEF EntryFound
  <2> QED
    BY <1>1, <1>2, <1>4, <2>1, <2>2, <2>3 DEF IndexScanInv
<1>13. CASE StopsReading
  <2>1. pc' \in {"exit", "undefined"} /\ index_list' = index_list
    BY <1>13, StopFacts
  <2>2. InSubtree(db, db.index, index_list)
    BY DEF IndexScanInv, IndexWalk
  <2>3. ~ Sound
    BY <1>13, <2>2, StopsUnsound
  <2> QED
    BY <1>2, <2>1, <2>3 DEF IndexScanInv
<1> QED
  BY <1>5, <1>6, <1>7, <1>8, <1>9, <1>10, <1>11, <1>12, <1>13 DEF Next, Step, Ended, StopsReading

-----------------------------------------------------------------------------
\* The inductive invariant of the answer.
AnswerInv ==
  /\ TableInv
  /\ IndexScan => IndexScanInv
  /\ ~ IndexScan => FullScanInv
  /\ pc \in {"exit", "undefined"} => ~ Sound

\* Every predicate compares the first column of an index with a text by "=".
EqualityOnly == \A p \in Predicates : p.op = "="

\* What is assumed of the file and the predicate of a scan.
FileInOrder == OrderedTable(db) /\ OrderedIndex(db) /\ Equality

LEMMA AnswerInitInv ==
  ASSUME FileInOrder, Init
  PROVE  AnswerInv
<1>1. /\ db \in Databases /\ predicate \in Predicates /\ Start
  BY DEF Init
<1>2. TableInv
  BY TableInitInv
<1>3. /\ current_rowid = 1 /\ rows = <<>> /\ Produced = {} /\ pc \in {"ready", "exit"}
  BY <1>1 DEF Start, Produced
<1>4. ~ IndexScan => FullScanInv
  <2>1. 1 .. current_rowid - 1 = {}
    BY <1>3
  <2> QED
    BY <1>3, <2>1 DEF FullScanInv
<1>5. IndexScan => IndexScanInv
  <2> SUFFICES ASSUME IndexScan
               PROVE  IndexScanInv
    OBVIOUS
  <2>1. db.index # 0 /\ index_list = <<SubWalker(db.index)>>
    BY <1>1 DEF Start, IndexScan
  <2>2. db.index \in DOMAIN db.pages
    BY <1>1, <2>1, Trees
  <2>3. /\ \A order : InOrder(db, order, index_list)
        /\ InSubtree(db, db.index, index_list)
        /\ \A q \in Subtree(db)[db.index] : db.pages[q].right = 0 =>
             \A i \in DOMAIN db.pages[q].cells : IsLeftTo(db, index_list, q, i)
    BY <1>1, <2>1, <2>2, AllLeft
  <2>4. AllMatchesLeft(db, predicate.value, index_list)
    <3> SUFFICES ASSUME NEW q, NEW i, IsMatch(db, predicate.value, q, i)
                 PROVE  IsLeftTo(db, index_list, q, i)
      BY DEF AllMatchesLeft
    <3>1. db.pages[q].right = 0
      BY <1>1, <2>1, MatchFacts DEF FileInOrder
    <3> QED
      BY <2>3, <3>1 DEF IsMatch
  <2>5. LeafNotBegun(db, index_list)
    <3>1. Top(index_list) = SubWalker(db.index)
      BY <2>1 DEF Top
    <3> QED
      BY <3>1 DEF LeafNotBegun, SubWalker
  <2>6. IndexWalk
    BY <2>3 DEF IndexWalk
  <2> QED
    BY <1>3, <2>4, <2>5, <2>6 DEF IndexScanInv, Searching, Asking
<1>6. pc \in {"exit", "undefined"} => ~ Sound
  <2> SUFFICES ASSUME pc = "exit", Sound
               PROVE  FALSE
    BY <1>3
  <2>1. db.table \in TablePages
    BY <1>1, Trees, Subtrees DEF TablePages
  <2>2. IndexScan => db.index \in IndexPages
    <3>1. IndexScan => db.index \in DOMAIN db.pages
      BY <1>1, Trees DEF IndexScan
    <3> QED
      BY <1>1, <3>1, Subtrees DEF IndexPages
  <2> QED
    BY <1>1, <2>1, <2>2 DEF Start, Sound
<1> QED
  BY <1>2, <1>4, <1>5, <1>6 DEF AnswerInv

LEMMA AnswerNextInv ==
  ASSUME WalkerInv, RowsInv, AnswerInv, FileInOrder, [Next]_vars
  PROVE  AnswerInv' /\ FileInOrder'
<1>1. /\ UNCHANGED <<db, predicate>> /\ Sound' = Sound /\ IndexScan' = IndexScan
  BY FileKept, AnswerKept
<1>2. FileInOrder'
  BY <1>1 DEF FileInOrder, Equality
<1>3. TableInv'
  BY TableNextInv DEF AnswerInv, FileInOrder
<1>4. ~ IndexScan => FullScanInv'
  BY FullScanNextInv DEF AnswerInv, FileInOrder
<1>5. IndexScan => IndexScanInv' /\ (pc # pc' /\ pc' \in {"exit", "undefined"} => ~ Sound)
  BY IndexScanNextInv DEF AnswerInv, FileInOrder
<1>6. ASSUME pc' \in {"exit", "undefined"}
      PROVE  ~ Sound
  <2>1. CASE pc = pc'
    BY <1>6, <2>1 DEF AnswerInv
  <2>2. CASE pc # pc' /\ IndexScan
    BY <1>5, <1>6, <2>2
  <2>3. CASE pc # pc' /\ ~ IndexScan
    <3>1. pc # "seek_rowid"
      BY <2>3 DEF AnswerInv, FullScanInv
    <3>2. InteriorTableStep \/ StopsReading
      BY <1>6, <2>3, <3>1 DEF Next, Step, Ended, vars, ProduceRow, UseRowid, InteriorIndexStep,
         LeafIndexStep, NoRowid, LeafTableStep, NoRow, StopsReading
    <3>3. CASE InteriorTableStep
      <4>1. pc' = "exit"
        BY <1>6, <2>3, <3>3 DEF InteriorTableStep
      <4>2. \E p \in TablePages : ~ Walkable(p)
        BY <3>3, <4>1, TableDescends DEF AnswerInv, FileInOrder
      <4> QED
        BY <4>2 DEF Sound
    <3>4. CASE StopsReading
      BY <3>1, <3>4, StopsUnsound DEF AnswerInv
    <3> QED
      BY <3>2, <3>3, <3>4
  <2> QED
    BY <2>1, <2>2, <2>3
<1> QED
  BY <1>1, <1>2, <1>3, <1>4, <1>5, <1>6 DEF AnswerInv

\* A row found in the table is the first of the answer that is not produced yet.
LEMMA NextOfAnswer ==
  ASSUME WalkerInv, RowsInv, AnswerInv, FileInOrder, pc = "seek_row", current_rowid \in TableRowids
  PROVE  /\ current_rowid \in Answer \ Produced
         /\ \A r \in Answer \ Produced : current_rowid <= r
<1>1. current_rowid \notin Produced
  <2>1. \A i \in DOMAIN rows : rows[i] \in 1 .. current_rowid - 1
    BY DEF RowsInv, RowsInOrder
  <2>2. current_rowid \in Nat
    BY DEF WalkerInv, ValuesOK
  <2>3. current_rowid \notin 1 .. current_rowid - 1
    BY <2>2
  <2> QED
    BY <2>1, <2>3 DEF Produced
<1>2. CASE ~ IndexScan
  BY <1>1, <1>2, FullScanAnswer DEF AnswerInv, FileInOrder
<1>3. CASE IndexScan
  <2>1. EntryFound /\ next_rowid = current_rowid
    BY <1>3 DEF AnswerInv, IndexScanInv, Searching, EntryDone, NothingLeft, Asking, RowsInv
  <2>2. OnFirstLeaf /\ current_rowid = EntryPassed.rowid
    BY <2>1 DEF EntryFound
  <2>3. Produced = MatchesTo(db, predicate.value, Top(index_list).page, Top(index_list).current_index - 1)
    BY <2>1 DEF EntryFound
  <2>4. /\ EntryPassed.rowid \in Answer
        /\ \A r \in Answer :
             r \notin MatchesTo(db, predicate.value, Top(index_list).page, Top(index_list).current_index - 1)
               => EntryPassed.rowid <= r
    BY <1>3, <2>2, FirstLeafFacts DEF FileInOrder
  <2> QED
    BY <1>1, <2>2, <2>3, <2>4
<1> QED
  BY <1>2, <1>3

LEMMA AllProduced ==
  WalkerInv /\ AnswerInv /\ FileInOrder /\ pc = "exhausted" => Answer \ Produced = {}
<1> SUFFICES ASSUME WalkerInv, AnswerInv, FileInOrder, pc = "exhausted"
             PROVE  Answer \ Produced = {}
  OBVIOUS
<1>1. CASE IndexScan
  BY <1>1 DEF AnswerInv, IndexScanInv, Searching, EntryFound, EntryDone, NothingLeft, Asking
<1>2. CASE ~ IndexScan
  <2>1. current_rowid \notin TableRowids
    BY <1>2 DEF AnswerInv, FullScanInv
  <2> QED
    BY <1>2, <2>1, FullScanAnswer DEF AnswerInv, FileInOrder
<1> QED
  BY <1>1, <1>2

\* What a step of a scan does for the operator above it.
LEMMA StepKinds ==
  ASSUME WalkerInv, RowsInv, AnswerInv, FileInOrder, [Next]_vars
  PROVE  \/ rows' = rows /\ pc' = pc
         \/ rows' = rows /\ pc \notin {"exhausted", "exit", "undefined"} /\ pc' \notin {"exhausted", "exit", "undefined"}
         \/ /\ pc = "seek_row" /\ pc' = "ready" /\ current_rowid \in TableRowids
            /\ rows' = Append(rows, current_rowid)
         \/ rows' = rows /\ pc \notin {"exhausted", "exit", "undefined"} /\ pc' \in {"exhausted", "exit", "undefined"}
<1>1. CASE LeafTableStep
  <2>1. /\ pc = "seek_row"
        /\ \/ rows' = Append(rows, current_rowid) /\ pc' = "ready"
           \/ UNCHANGED <<rows, current_rowid, pc>>
    BY <1>1, LeafTableOutcome DEF AnswerInv, FileInOrder
  <2>2. pc' = "ready" => current_rowid \in TableRowids
    BY <1>1, TableLeafLeft DEF AnswerInv, FileInOrder
  <2> QED
    BY <2>1, <2>2
<1>2. CASE ProduceRow \/ UseRowid \/ InteriorIndexStep \/ LeafIndexStep \/ NoRowid
           \/ InteriorTableStep \/ NoRow
  <2>1. rows' = rows /\ pc \notin {"exhausted", "exit", "undefined"}
    BY <1>2 DEF ProduceRow, UseRowid, InteriorIndexStep, LeafIndexStep, NoRowid, InteriorTableStep, NoRow, UnreadableRow, NumberReadAsText
  <2> QED
    BY <2>1
<1>3. CASE UNCHANGED vars
  BY <1>3 DEF vars
<1>4. CASE StopsReading
  BY <1>4, StopFacts
<1> QED
  BY <1>1, <1>2, <1>3, <1>4 DEF Next, Step, Ended, StopsReading

LEMMA StillToEmit ==
  /\ Cursor!Remaining = Answer \ Produced
BY DEF Cursor!Remaining, Produced

LEMMA AnswerNat ==
  ASSUME WalkerInv, FileInOrder
  PROVE  Answer \subseteq Nat
<1>1. db \in Databases
  BY DEF WalkerInv, ValuesOK
<1>2. CASE ~ IndexScan
  <2>1. \A r \in Answer : r \in TableRowids
    BY <1>2 DEF Answer
  <2> QED
    BY <1>1, <2>1, TableRowidsNat DEF FileInOrder
<1>3. CASE IndexScan
  <2> SUFFICES ASSUME NEW r \in Answer
               PROVE  r \in Nat
    OBVIOUS
  <2>1. PICK q, i : IsMatch(db, predicate.value, q, i) /\ r = db.pages[q].cells[i].rowid
    BY <1>3, AnswerOfIndex
  <2> QED
    BY <1>1, <1>3, <2>1, MatchFacts DEF FileInOrder, IndexScan
<1> QED
  BY <1>2, <1>3

LEMMA CursorInit ==
  ASSUME WalkerInv, AnswerInv, FileInOrder, Init
  PROVE  Cursor!Init
<1>1. rows = <<>> /\ pc \in {"ready", "exit"} /\ (pc = "exit" => ~ Sound)
  BY DEF Init, Start, AnswerInv
<1>2. Answer \subseteq Nat
  BY AnswerNat
<1>3. Sound \in BOOLEAN
  BY DEF Sound
<1> HIDE DEF Answer, Sound
<1> QED
  BY <1>1, <1>2, <1>3 DEF Cursor!Init

LEMMA CursorNext ==
  ASSUME WalkerInv, RowsInv, AnswerInv, FileInOrder, [Next]_vars
  PROVE  [Cursor!Next]_Cursor!vars
<1>1. Answer' = Answer /\ Sound' = Sound
  BY FileKept, AnswerKept
<1>2. AnswerInv' /\ FileInOrder' /\ WalkerInv'
  BY AnswerNextInv, WalkerNextInv
<1>3. CASE rows' = rows /\ pc' = pc
  BY <1>1, <1>3 DEF Cursor!vars
<1>4. CASE rows' = rows /\ pc \notin {"exhausted", "exit", "undefined"} /\ pc' \notin {"exhausted", "exit", "undefined"}
  BY <1>1, <1>4 DEF Cursor!vars
<1>5. CASE /\ pc = "seek_row" /\ pc' = "ready" /\ current_rowid \in TableRowids
           /\ rows' = Append(rows, current_rowid)
  <2>1. current_rowid \in Cursor!Remaining /\ \A r \in Cursor!Remaining : current_rowid <= r
    BY <1>5, NextOfAnswer, StillToEmit
  <2> QED
    BY <1>1, <1>5, <2>1 DEF Cursor!Next, Cursor!Emit
<1>6. CASE rows' = rows /\ pc \notin {"exhausted", "exit", "undefined"} /\ pc' = "exhausted"
  <2>1. (Answer \ Produced = {})'
    <3>1. (WalkerInv /\ AnswerInv /\ FileInOrder /\ pc = "exhausted" => Answer \ Produced = {})'
      BY AllProduced, PTL
    <3> QED
      BY <1>2, <1>6, <3>1
  <2>2. Cursor!Remaining = {}
    BY <1>1, <1>6, <2>1, StillToEmit DEF Produced
  <2> QED
    BY <1>1, <1>6, <2>2 DEF Cursor!Next, Cursor!End
<1>7. CASE rows' = rows /\ pc \notin {"exhausted", "exit", "undefined"} /\ pc' \in {"exit", "undefined"}
  <2>1. ~ Sound
    BY <1>1, <1>2, <1>7 DEF AnswerInv
  <2> QED
    BY <1>1, <1>7, <2>1 DEF Cursor!Next, Cursor!Fail
<1> QED
  BY <1>3, <1>4, <1>5, <1>6, <1>7, StepKinds

\* In every file whose trees are in SQLite's order, and for every equality on the
\* index's first column: produce_row returns exactly the rows of Answer, in the
\* order of their rowids and once each, before it returns false, and the process
\* ends only for an empty page, a record that cannot be read (a REAL, a BLOB, a
\* NULL or a 0 where an entry's rowid is taken from) or a key that is not a text
\* (tree_walker.c:484-528, row_parsing.c:54-127).
THEOREM ScanAnswers ==
  ASSUME OrderedTrees, EqualityOnly
  PROVE  SafetySpec => ImplementsCursor
<1>1. Init => WalkerInv /\ RowsInv /\ AnswerInv /\ FileInOrder
  <2>1. Init => FileInOrder
    BY TextsAssumption DEF Init, FileInOrder, OrderedTrees, Equality, EqualityOnly
  <2> QED
    BY <2>1, WalkerInitInv, RowsInitInv, AnswerInitInv
<1>2. WalkerInv /\ RowsInv /\ AnswerInv /\ FileInOrder /\ [Next]_vars
        => (WalkerInv /\ RowsInv /\ AnswerInv /\ FileInOrder)'
  BY WalkerNextInv, RowsNextInv, AnswerNextInv
<1>3. WalkerInv /\ AnswerInv /\ FileInOrder /\ Init => Cursor!Init
  BY CursorInit
<1>4. WalkerInv /\ RowsInv /\ AnswerInv /\ FileInOrder /\ [Next]_vars => [Cursor!Next]_Cursor!vars
  BY CursorNext
<1> QED
  BY <1>1, <1>2, <1>3, <1>4, PTL DEF SafetySpec, ImplementsCursor, Cursor!SafetySpec

-----------------------------------------------------------------------------
\* What a scan has returned are the first rows of its answer, all of them when it is
\* exhausted; it ends the process only on what it cannot read, and without an index it never
\* asks one.
AnswerSoFar ==
  /\ Answer \subseteq Nat /\ Produced \subseteq Answer
  /\ \A p \in Produced, r \in Answer \ Produced : p < r
  /\ pc = "exhausted" => Produced = Answer
  /\ pc \in {"exit", "undefined"} => ~ Sound
  /\ pc = "seek_rowid" => IndexScan

FirstRowsInv == FileInOrder => AnswerInv /\ AnswerSoFar

LEMMA FirstRowsInitInv == Init => FirstRowsInv
<1> SUFFICES ASSUME Init, FileInOrder PROVE AnswerInv /\ AnswerSoFar
  BY DEF FirstRowsInv
<1>1. WalkerInv /\ AnswerInv
  BY WalkerInitInv, AnswerInitInv
<1>2. pc \in {"ready", "exit"} /\ Produced = {}
  BY DEF Init, Start, Produced
<1>3. Answer \subseteq Nat /\ (pc = "exit" => ~ Sound)
  BY <1>1, AnswerNat DEF AnswerInv
<1> QED
  BY <1>1, <1>2, <1>3 DEF AnswerSoFar

LEMMA FirstRowsNextInv ==
  ASSUME WalkerInv, RowsInv, FirstRowsInv, [Next]_vars
  PROVE  FirstRowsInv'
<1>1. /\ Answer' = Answer /\ Sound' = Sound /\ IndexScan' = IndexScan
      /\ FileInOrder' => FileInOrder
  BY FileKept, AnswerKept DEF FileInOrder, Equality
<1> SUFFICES ASSUME FileInOrder PROVE AnswerInv' /\ AnswerSoFar'
  BY <1>1 DEF FirstRowsInv
<1>2. AnswerInv /\ AnswerSoFar
  BY DEF FirstRowsInv
<1>3. AnswerInv' /\ FileInOrder' /\ WalkerInv'
  BY <1>2, AnswerNextInv, WalkerNextInv
<1>4. /\ Produced' \subseteq Answer
      /\ \A p \in Produced', r \in Answer \ Produced' : p < r
  <2>1. CASE rows' = rows
    <3>1. Produced' = Produced
      BY <2>1 DEF Produced
    <3> QED
      BY <1>2, <3>1 DEF AnswerSoFar
  <2>2. CASE /\ pc = "seek_row" /\ current_rowid \in TableRowids
             /\ rows' = Append(rows, current_rowid)
    <3>1. /\ current_rowid \in Answer \ Produced
          /\ \A r \in Answer \ Produced : current_rowid <= r
      BY <1>2, <2>2, NextOfAnswer
    <3>2. Produced' = Produced \cup {current_rowid}
      <4>1. rows \in Seq(Nat) /\ current_rowid \in Nat
        BY DEF WalkerInv, ValuesOK
      <4> QED
        BY <2>2, <4>1 DEF Produced
    <3>3. \A r \in Answer : r \in Nat
      BY <1>2 DEF AnswerSoFar
    <3>4. ASSUME NEW p \in Produced', NEW r \in Answer \ Produced'
          PROVE  p < r
      <4>1. r \in Answer \ Produced /\ r # current_rowid
        BY <3>2, <3>4
      <4>2. CASE p \in Produced
        BY <1>2, <4>1, <4>2 DEF AnswerSoFar
      <4>3. CASE p = current_rowid
        BY <3>1, <3>3, <4>1, <4>3
      <4> QED
        BY <3>2, <3>4, <4>2, <4>3
    <3> QED
      BY <1>2, <3>1, <3>2, <3>4 DEF AnswerSoFar
  <2> QED
    BY <1>2, <2>1, <2>2, StepKinds
<1>5. pc' = "exhausted" => Produced' = Answer
  <2>1. (WalkerInv /\ AnswerInv /\ FileInOrder /\ pc = "exhausted" => Answer \ Produced = {})'
    BY AllProduced, PTL
  <2> QED
    BY <1>1, <1>3, <1>4, <2>1
<1>6. pc' = "seek_rowid" => IndexScan
  <2>1. pc' = "seek_rowid" => IndexScan \/ pc = "seek_rowid"
    BY DEF Next, Step, Ended, vars, ProduceRow, UseRowid, InteriorIndexStep, LeafIndexStep, NoRowid,
       InteriorTableStep, LeafTableStep, NoRow, UnreadableRow, NumberReadAsText
  <2> QED
    BY <1>2, <2>1 DEF AnswerSoFar
<1> QED
  BY <1>1, <1>2, <1>3, <1>4, <1>5, <1>6 DEF AnswerSoFar, AnswerInv

\* At every moment of a scan in such a file, whatever the other files and predicates
\* are, the rows returned are the first of the answer.
THEOREM FirstRowsOfAnswer == SafetySpec => [](FileInOrder => AnswerSoFar)
<1>1. Init => WalkerInv /\ RowsInv /\ FirstRowsInv
  BY WalkerInitInv, RowsInitInv, FirstRowsInitInv
<1>2. WalkerInv /\ RowsInv /\ FirstRowsInv /\ [Next]_vars => (WalkerInv /\ RowsInv /\ FirstRowsInv)'
  BY WalkerNextInv, RowsNextInv, FirstRowsNextInv
<1>3. FirstRowsInv => (FileInOrder => AnswerSoFar)
  BY DEF FirstRowsInv
<1> QED
  BY <1>1, <1>2, <1>3, PTL DEF SafetySpec
=============================================================================
