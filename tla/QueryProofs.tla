------------------------------ MODULE QueryProofs ------------------------------
(***************************************************************************)
(* Theorems about the execution of statements, for every file of           *)
(* well-formed b-trees and every statement: it walks the trees as          *)
(* TreeWalker does, whose theorems therefore hold of it, and it prints     *)
(* nothing that is not a row of the table or that the conditions refuse.   *)
(***************************************************************************)
EXTENDS QueryAnswers, NumberLemmas, SequenceTheorems

Walk == INSTANCE TreeWalkerProofs WITH Databases <- ScannedTrees, Predicates <- PredicatesAsked

\* The first of some numbers is one of them.
LEMMA MinIsIn ==
  ASSUME NEW S \in SUBSET Nat, S # {}
  PROVE  Min(S) \in S /\ \A m \in S : Min(S) <= m
<1>1. PICK n \in S : \A m \in S : n <= m
  BY LeastNumber
<1> QED
  BY <1>1 DEF Min

LEMMA TreesOfFiles == Walk!WellFormedTrees
<1>1. Scan!WellFormedTrees
  BY FilesAssumption
<1> QED
  BY <1>1 DEF Scan!WellFormedTrees, Scan!IsPage, Scan!CellsOfType, Scan!IsForest, Scan!Links, Scan!Roots,
     Walk!WellFormedTrees, Walk!IsPage, Walk!CellsOfType, Walk!IsForest, Walk!Links, Walk!Roots

\* An index is searched for a text.
LEMMA TextsAsked == LastNumber \in Nat /\ \A p \in PredicatesAsked : p.value \in Nat /\ p.value > LastNumber
<1>1. LastNumber \in Nat
  BY FilesAssumption
<1>2. ASSUME NEW f \in Files, NEW s \in Statements, HasPredicate(f, s), Usable(FirstPredicate(f, s))
      PROVE  Pushed(FirstPredicate(f, s)).value \in Nat /\ Pushed(FirstPredicate(f, s)).value > LastNumber
  <2> DEFINE places == IndexPredicates(BestIndex(f, s), s.where)
             e == FirstPredicate(f, s)
  <2>1. s.where \in Seq(ToSet(s.where))
    BY FilesAssumption
  <2>2. DOMAIN s.where \subseteq Nat /\ places \subseteq DOMAIN s.where /\ places # {}
    BY <1>2, <2>1, LenProperties DEF HasPredicate, IndexPredicates
  <2>3. Min(places) \in DOMAIN s.where
    <3> HIDE DEF places
    <3> QED
      BY <2>2, MinIsIn
  <2>4. e \in ToSet(s.where) /\ Min(places) \in places /\ e = s.where[Min(places)]
    <3>1. e = s.where[Min(places)]
      BY DEF FirstPredicate
    <3>2. Min(places) \in places
      <4> HIDE DEF places
      <4> QED
        BY <2>2, MinIsIn
    <3> QED
      BY <2>3, <3>1, <3>2 DEF ToSet
  <2>5. e.kind = "binary"
    BY <2>4 DEF IndexPredicates
  <2> HIDE DEF places, e
  <2>6. Converted(e) \in Operands(e) /\ Converted(e).kind = "string"
    BY <1>2, <2>5 DEF Converted, Operands, Usable, e
  <2>7. Converted(e).text \in Nat /\ Converted(e).text > LastNumber
    BY <2>4, <2>6, FilesAssumption
  <2> QED
    BY <2>7 DEF Pushed, e
<1>3. ASSUME NEW f \in Files, NEW s \in Statements
      PROVE  PredicateOf(f, s).value \in Nat /\ PredicateOf(f, s).value > LastNumber
  <2>1. CASE HasPredicate(f, s) /\ Usable(FirstPredicate(f, s))
    BY <1>2, <2>1 DEF PredicateOf
  <2>2. CASE ~ (HasPredicate(f, s) /\ Usable(FirstPredicate(f, s)))
    <3>1. PredicateOf(f, s) = [op |-> "=", value |-> LastNumber + 1]
      BY <2>2 DEF PredicateOf
    <3> QED
      BY <1>1, <3>1
  <2> QED
    BY <2>1, <2>2
<1> QED
  BY <1>1, <1>3 DEF PredicatesAsked

LEMMA SameStart == Scan!Start => Walk!Start
BY DEF Scan!Start, Scan!SubWalker, Scan!IndexScan, Scan!Walkable, Scan!Cells,
       Walk!Start, Walk!SubWalker, Walk!IndexScan, Walk!Walkable, Walk!Cells

LEMMA SameSearches ==
  /\ Scan!IndexSearch = Walk!IndexSearch
  /\ \A rowid : Scan!FirstKeyAtLeast(rowid) = Walk!FirstKeyAtLeast(rowid)
  /\ \A rowid : Scan!LastProbe(rowid) = Walk!LastProbe(rowid)
<1> USE DEF Scan!CountOf, Scan!CellAt, Scan!Cells, Scan!Top, Scan!Mid, Scan!Unreadable, Scan!IsText, Scan!Accepts,
            Walk!CountOf, Walk!CellAt, Walk!Cells, Walk!Top, Walk!Mid, Walk!Unreadable, Walk!IsText, Walk!Accepts
<1>1. Scan!IndexSearch = Walk!IndexSearch
  BY DEF Scan!IndexSearch, Walk!IndexSearch
<1>2. \A rowid : Scan!FirstKeyAtLeast(rowid) = Walk!FirstKeyAtLeast(rowid)
  BY DEF Scan!FirstKeyAtLeast, Walk!FirstKeyAtLeast
<1>3. \A rowid : Scan!LastProbe(rowid) = Walk!LastProbe(rowid)
  BY DEF Scan!LastProbe, Walk!LastProbe
<1> QED
  BY <1>1, <1>2, <1>3

LEMMA SameStep == Scan!Step => Walk!Step
<1> USE DEF Scan!Cells, Walk!Cells, Scan!Walkable, Walk!Walkable, Scan!SubWalker, Walk!SubWalker,
            Scan!Top, Walk!Top, Scan!Pop, Walk!Pop, Scan!Advance, Walk!Advance,
            Scan!CountOf, Walk!CountOf, Scan!CellAt, Walk!CellAt, Scan!TypeOfTop, Walk!TypeOfTop,
            Scan!IndexScan, Walk!IndexScan
<1>1. Scan!ProduceRow => Walk!ProduceRow
  BY DEF Scan!ProduceRow, Walk!ProduceRow
<1>2. Scan!UseRowid => Walk!UseRowid
  BY SMTT(30) DEF Scan!UseRowid, Walk!UseRowid
<1>3. Scan!InteriorIndexStep => Walk!InteriorIndexStep
  BY SameSearches DEF Scan!InteriorIndexStep, Walk!InteriorIndexStep
<1>4. Scan!LeafIndexStep => Walk!LeafIndexStep
  BY SameSearches DEF Scan!LeafIndexStep, Walk!LeafIndexStep, Scan!Unreadable, Walk!Unreadable
<1>5. Scan!NoRowid => Walk!NoRowid
  BY SMTT(30) DEF Scan!NoRowid, Walk!NoRowid
<1>6. Scan!InteriorTableStep => Walk!InteriorTableStep
  BY SameSearches DEF Scan!InteriorTableStep, Walk!InteriorTableStep, Scan!LeftChildTaken, Walk!LeftChildTaken,
     Scan!RightChildTaken, Walk!RightChildTaken
<1>7. Scan!LeafTableStep => Walk!LeafTableStep
  BY SameSearches DEF Scan!LeafTableStep, Walk!LeafTableStep, Scan!RowTaken, Walk!RowTaken,
     Scan!UnreadableRowFound, Walk!UnreadableRowFound
<1>8. Scan!NoRow => Walk!NoRow
  BY DEF Scan!NoRow, Walk!NoRow
<1>9. Scan!UnreadableRow => Walk!UnreadableRow
  BY SameSearches DEF Scan!UnreadableRow, Walk!UnreadableRow, Scan!UnreadableRowFound, Walk!UnreadableRowFound
<1>10. Scan!NumberReadAsText => Walk!NumberReadAsText
  BY SameSearches DEF Scan!NumberReadAsText, Walk!NumberReadAsText, Scan!Unreadable, Walk!Unreadable,
     Scan!IsText, Walk!IsText
<1> QED
  BY <1>1, <1>2, <1>3, <1>4, <1>5, <1>6, <1>7, <1>8, <1>9, <1>10 DEF Scan!Step, Walk!Step

-----------------------------------------------------------------------------
\* What is executed is a walk over the trees the plan chose (table_scan_next).
LEMMA WalkInit == Init => Walk!Init
<1> SUFFICES ASSUME Init PROVE Walk!Init
  OBVIOUS
<1>1. /\ file \in Files /\ stmt \in Statements /\ db = Scanned(file, stmt)
      /\ predicate = PredicateOf(file, stmt) /\ Walk!Start
  BY SameStart DEF Init
<1>2. db \in ScannedTrees /\ predicate \in PredicatesAsked
  BY <1>1 DEF ScannedTrees, PredicatesAsked
<1> QED
  BY <1>1, <1>2 DEF Walk!Init

LEMMA WalkNext == [Next]_vars => [Walk!Next]_Walk!vars
<1> SUFFICES ASSUME [Next]_vars PROVE [Walk!Next]_Walk!vars
  OBVIOUS
<1>1. CASE ScanStep
  BY <1>1, SameStep DEF ScanStep, Walk!Next
<1>2. CASE ~ ScanStep
  <2>1. UNCHANGED walker
    BY <1>2 DEF Next, Step, Ended, vars, Execute, NoUsablePredicate, Filter, Aggregate, UnrecognisedAggregate,
                Exhausted, AfterLast, Project
  <2> QED
    BY <2>1 DEF walker, Walk!vars
<1> QED
  BY <1>1, <1>2

THEOREM ExecutionWalks == SafetySpec => Walk!SafetySpec
  BY WalkInit, WalkNext, PTL DEF SafetySpec, Walk!SafetySpec

\* What the walk's theorems give.
WalkInv ==
  /\ Walk!WalkerInv /\ Walk!RowsInOrder /\ Walk!RowsOfTable
  /\ Walk!FileInOrder => Walk!AnswerSoFar

LEMMA WalkInvariant == SafetySpec => []WalkInv
<1>1. Walk!SafetySpec => []Walk!WalkerInv
  BY TreesOfFiles, TextsAsked, Walk!WalkerInvariant
<1>2. Walk!SafetySpec => [](Walk!RowsInOrder /\ Walk!RowsOfTable)
  BY TreesOfFiles, TextsAsked, Walk!RowsComeInOrder
<1>3. Walk!SafetySpec => [](Walk!FileInOrder => Walk!AnswerSoFar)
  BY TreesOfFiles, TextsAsked, Walk!FirstRowsOfAnswer
<1>4. Walk!WalkerInv /\ Walk!RowsInOrder /\ Walk!RowsOfTable /\ (Walk!FileInOrder => Walk!AnswerSoFar) => WalkInv
  BY DEF WalkInv
<1> QED
  BY <1>1, <1>2, <1>3, <1>4, ExecutionWalks, PTL

LEMMA WalkTypes ==
  ASSUME WalkInv
  PROVE  /\ rows \in Seq(Nat) /\ Len(rows) \in Nat /\ DOMAIN rows = 1 .. Len(rows)
         /\ next_rowid \in Nat
BY LenProperties DEF WalkInv, Walk!WalkerInv, Walk!ValuesOK

LEMMA RowFound ==
  ASSUME WalkInv, Scan!Step
  PROVE  IF pc' = "ready" THEN rows' = Append(rows, next_rowid) ELSE UNCHANGED rows
<1>1. pc = "ready" => pc' # "ready"
  BY DEF Scan!Step, Scan!ProduceRow, Scan!UseRowid, Scan!InteriorIndexStep, Scan!LeafIndexStep, Scan!NoRowid,
         Scan!InteriorTableStep, Scan!LeafTableStep, Scan!NoRow,
         Scan!UnreadableRow, Scan!NumberReadAsText
<1>2. Walk!WalkerInv /\ [Walk!Next]_Walk!vars
  BY SameStep DEF WalkInv, Walk!Next
<1>3. \/ UNCHANGED rows /\ (pc' = "ready" => UNCHANGED pc)
      \/ pc' = "ready" /\ rows' = Append(rows, next_rowid)
  BY <1>2, TreesOfFiles, TextsAsked, Walk!RowsAdded
<1> QED
  BY <1>1, <1>3

-----------------------------------------------------------------------------
\* The file and the statement stay; a statement build_plan exits on prints nothing.
FixedInv ==
  /\ file \in Files /\ stmt \in Statements
  /\ db = Scanned(file, stmt) /\ predicate = PredicateOf(file, stmt)
  /\ ExitsBeforeScan(file, stmt) => stage = "exit" /\ output = <<>>

LEMMA FixedInitInv == Init => FixedInv
<1> SUFFICES ASSUME Init PROVE FixedInv
  OBVIOUS
<1>1. ExitsBeforeScan(file, stmt) => stage = "exit"
  BY DEF Init
<1> QED
  BY <1>1 DEF Init, FixedInv

LEMMA Kept ==
  ASSUME [Next]_vars
  PROVE  /\ UNCHANGED <<file, stmt>>
         /\ UNCHANGED <<db, predicate>>
         /\ stage = "exit" => UNCHANGED <<stage, output>>
<1>1. UNCHANGED <<file, stmt>>
  BY DEF Next, Step, Ended, vars, Execute, ScanStep, NoUsablePredicate, Filter, Aggregate, UnrecognisedAggregate,
         Exhausted, AfterLast, Project
<1>2. UNCHANGED <<db, predicate>>
  <2>1. CASE ScanStep
    BY <2>1 DEF ScanStep, Scan!Step, Scan!ProduceRow, Scan!UseRowid, Scan!InteriorIndexStep, Scan!LeafIndexStep,
                Scan!NoRowid, Scan!InteriorTableStep, Scan!LeafTableStep, Scan!NoRow,
                Scan!UnreadableRow, Scan!NumberReadAsText
  <2>2. CASE ~ ScanStep
    BY <2>2 DEF Next, Step, Ended, vars, walker, Execute, NoUsablePredicate, Filter, Aggregate, UnrecognisedAggregate,
                Exhausted, AfterLast, Project
  <2> QED
    BY <2>1, <2>2
<1>3. stage = "exit" => UNCHANGED <<stage, output>>
  BY DEF Next, Step, Ended, vars, Execute, ScanStep, NoUsablePredicate, Filter, Aggregate, UnrecognisedAggregate,
         Exhausted, AfterLast, Project
<1> QED
  BY <1>1, <1>2, <1>3

LEMMA FixedNextInv ==
  ASSUME FixedInv, [Next]_vars
  PROVE  FixedInv'
BY Kept DEF FixedInv

\* What depends on the file and the statement alone.
LEMMA MeaningKept ==
  ASSUME UNCHANGED <<file, stmt>>
  PROVE  /\ HasAggregates' = HasAggregates
         /\ \A r : Values[r]' = Values[r] /\ PrintedOf(r)' = PrintedOf(r) /\ Accepted(r)' = Accepted(r)
<1>1. HasAggregates' = HasAggregates
  BY DEF HasAggregates
<1>2. \A r : Values[r]' = Values[r]
  BY DEF Values
<1>3. \A r : PrintedOf(r)' = PrintedOf(r)
  BY DEF PrintedOf, Indexes, Copied, Values
<1>4. \A r : Accepted(r)' = Accepted(r)
  BY DEF Accepted, SqlValue, Values, Columns
<1> QED
  BY <1>1, <1>2, <1>3, <1>4

-----------------------------------------------------------------------------
\* The process has ended before the statement has.
Dead == stage \in {"exit", "crash", "undefined"}

\* A row has been found, and not yet passed over or used.
AtRow == stage = "filter" \/ stage = Above

\* How many of the rows found the operators are done with.
Passed == IF AtRow THEN Len(rows) - 1 ELSE Len(rows)

\* The shared row is the one found last, until it is printed or counted.
RowShared ==
  AtRow => /\ rows # <<>>
           /\ row = [rowid |-> rows[Len(rows)], values |-> Values[rows[Len(rows)]]]

RowInv == RowShared /\ (stage = Above => Accepted(rows[Len(rows)]))

\* What is printed are the rows accepted among the first n found, in their order.
PrintedFrom(out, n, found) ==
  /\ out \in Seq({PrintedOf(r) : r \in Nat})
  /\ \E g \in [1 .. Len(out) -> 1 .. n] :
       /\ \A i, j \in 1 .. Len(out) : i < j => g[i] < g[j]
       /\ \A i \in 1 .. Len(out) : Accepted(found[g[i]]) /\ out[i] = PrintedOf(found[g[i]])
       /\ \A k \in 1 .. n : Accepted(found[k]) => \E i \in 1 .. Len(out) : g[i] = k

PrintedSoFar == \E n \in 0 .. Len(rows) : (~Dead => n = Passed) /\ PrintedFrom(output, n, rows)

AnswersInv == ~HasAggregates => PrintedSoFar

LEMMA PrintedFromMore ==
  ASSUME NEW out, NEW n \in Nat, NEW m \in Nat, n <= m, NEW found, NEW more,
         \A k \in 1 .. n : more[k] = found[k], \A k \in n + 1 .. m : ~Accepted(more[k]),
         PrintedFrom(out, n, found)
  PROVE  PrintedFrom(out, m, more)
<1>1. PICK g \in [1 .. Len(out) -> 1 .. n] :
        /\ \A i, j \in 1 .. Len(out) : i < j => g[i] < g[j]
        /\ \A i \in 1 .. Len(out) : Accepted(found[g[i]]) /\ out[i] = PrintedOf(found[g[i]])
        /\ \A k \in 1 .. n : Accepted(found[k]) => \E i \in 1 .. Len(out) : g[i] = k
  BY DEF PrintedFrom
<1>2. g \in [1 .. Len(out) -> 1 .. m]
  <2>1. \A k \in 1 .. n : k \in 1 .. m
    OBVIOUS
  <2> QED
    BY <2>1
<1>3. \A i \in 1 .. Len(out) : more[g[i]] = found[g[i]]
  OBVIOUS
<1>4. out \in Seq({PrintedOf(r) : r \in Nat})
  BY DEF PrintedFrom
<1>5. \A i \in 1 .. Len(out) : Accepted(more[g[i]]) /\ out[i] = PrintedOf(more[g[i]])
  BY <1>1, <1>3
<1>6. ASSUME NEW k \in 1 .. m, Accepted(more[k])
      PROVE  \E i \in 1 .. Len(out) : g[i] = k
  <2>1. k \in 1 .. n
    BY <1>6
  <2>2. Accepted(found[k])
    BY <1>6, <2>1, Zenon
  <2> QED
    BY <1>1, <2>1, <2>2
<1> QED
  BY <1>1, <1>2, <1>4, <1>5, <1>6 DEF PrintedFrom

LEMMA PrintedFromNext ==
  ASSUME NEW out, NEW n \in Nat \ {0}, NEW found, found[n] \in Nat, Accepted(found[n]),
         PrintedFrom(out, n - 1, found)
  PROVE  PrintedFrom(Append(out, PrintedOf(found[n])), n, found)
<1> DEFINE P == {PrintedOf(r) : r \in Nat}
           longer == Append(out, PrintedOf(found[n]))
           len == Len(out)
<1>1. PICK g \in [1 .. len -> 1 .. n - 1] :
        /\ \A i, j \in 1 .. len : i < j => g[i] < g[j]
        /\ \A i \in 1 .. len : Accepted(found[g[i]]) /\ out[i] = PrintedOf(found[g[i]])
        /\ \A k \in 1 .. n - 1 : Accepted(found[k]) => \E i \in 1 .. len : g[i] = k
  BY DEF PrintedFrom
<1>2. out \in Seq(P) /\ PrintedOf(found[n]) \in P
  BY DEF PrintedFrom
<1> HIDE DEF P
<1>3. /\ longer \in Seq(P) /\ len \in Nat /\ Len(longer) = len + 1
      /\ longer[len + 1] = PrintedOf(found[n]) /\ \A i \in 1 .. len : longer[i] = out[i]
  BY <1>2, AppendProperties, LenProperties
<1> DEFINE h == [i \in 1 .. len + 1 |-> IF i = len + 1 THEN n ELSE g[i]]
<1> HIDE DEF longer, len
<1>4. /\ h[len + 1] = n /\ \A i \in 1 .. len : h[i] = g[i] /\ g[i] \in 1 .. n - 1
  BY <1>3
<1>5. h \in [1 .. len + 1 -> 1 .. n]
  <2>1. \A i \in 1 .. len + 1 : (IF i = len + 1 THEN n ELSE g[i]) \in 1 .. n
    <3> SUFFICES ASSUME NEW i \in 1 .. len + 1 PROVE (IF i = len + 1 THEN n ELSE g[i]) \in 1 .. n
      OBVIOUS
    <3>1. CASE i = len + 1
      BY <3>1
    <3>2. CASE i # len + 1
      <4>1. i \in 1 .. len
        BY <1>3, <3>2
      <4>2. g[i] \in 1 .. n - 1
        BY <1>4, <4>1
      <4> QED
        BY <3>2, <4>2
    <3> QED
      BY <3>1, <3>2
  <2> QED
    BY <2>1
<1> HIDE DEF h
<1>6. ASSUME NEW i \in 1 .. len + 1, NEW j \in 1 .. len + 1, i < j
      PROVE  h[i] < h[j]
  <2>1. i \in 1 .. len /\ h[i] = g[i] /\ g[i] \in 1 .. n - 1
    <3>1. i \in 1 .. len
      BY <1>3, <1>6
    <3> QED
      BY <1>4, <3>1
  <2>2. CASE j = len + 1
    BY <1>4, <2>1, <2>2
  <2>3. CASE j \in 1 .. len
    BY <1>1, <1>4, <1>6, <2>1, <2>3
  <2> QED
    BY <1>3, <2>2, <2>3
<1>7. ASSUME NEW i \in 1 .. len + 1
      PROVE  Accepted(found[h[i]]) /\ longer[i] = PrintedOf(found[h[i]])
  <2>1. CASE i = len + 1
    BY <1>3, <1>4, <2>1
  <2>2. CASE i \in 1 .. len
    BY <1>1, <1>3, <1>4, <2>2
  <2> QED
    BY <1>3, <2>1, <2>2
<1>8. ASSUME NEW k \in 1 .. n, Accepted(found[k])
      PROVE  \E i \in 1 .. len + 1 : h[i] = k
  <2>1. CASE k = n
    <3>1. len + 1 \in 1 .. len + 1
      BY <1>3
    <3> QED
      BY <1>4, <2>1, <3>1
  <2>2. CASE k # n
    <3>1. k \in 1 .. n - 1
      BY <2>2
    <3>2. PICK i \in 1 .. len : g[i] = k
      BY <1>1, <1>8, <3>1
    <3>3. i \in 1 .. len + 1
      BY <1>3
    <3> QED
      BY <1>4, <3>2, <3>3
  <2> QED
    BY <2>1, <2>2
<1>9. PrintedFrom(longer, n, found)
  <2>1. longer \in Seq({PrintedOf(r) : r \in Nat})
    BY <1>2, <1>3 DEF P
  <2>2. h \in [1 .. Len(longer) -> 1 .. n]
    BY <1>3, <1>5
  <2>3. \A i, j \in 1 .. Len(longer) : i < j => h[i] < h[j]
    BY <1>3, <1>6
  <2>4. \A i \in 1 .. Len(longer) : Accepted(found[h[i]]) /\ longer[i] = PrintedOf(found[h[i]])
    BY <1>3, <1>7
  <2>5. \A k \in 1 .. n : Accepted(found[k]) => \E i \in 1 .. Len(longer) : h[i] = k
    BY <1>3, <1>8
  <2> QED
    BY <2>1, <2>2, <2>3, <2>4, <2>5 DEF PrintedFrom
<1> QED
  BY <1>9 DEF longer

-----------------------------------------------------------------------------
LEMMA Clauses ==
  ASSUME FixedInv
  PROVE  /\ stmt.where \in Seq(ToSet(stmt.where)) /\ Len(stmt.where) \in Nat
         /\ DOMAIN stmt.where = 1 .. Len(stmt.where) /\ DOMAIN stmt.where \subseteq Nat
<1>1. stmt.where \in Seq(ToSet(stmt.where))
  BY FilesAssumption DEF FixedInv
<1>2. DOMAIN stmt.where = 1 .. Len(stmt.where) /\ Len(stmt.where) \in Nat
  BY <1>1, LenProperties
<1> QED
  BY <1>1, <1>2

\* What the filter lets through is accepted, and what it passes over is not
\* (filter_next).
LEMMA VerdictAccepts ==
  ASSUME FixedInv, RowShared, AtRow
  PROVE  /\ Verdict \in {"true", "false", "exit", "undefined"}
         /\ Verdict = "true" => Accepted(rows[Len(rows)])
         /\ Verdict = "false" => ~Accepted(rows[Len(rows)])
<1> DEFINE r == rows[Len(rows)]
           fail == {i \in DOMAIN stmt.where : Evaluate(stmt.where[i]) # "true"}
<1>1. row = [rowid |-> r, values |-> Values[r]]
  BY DEF RowShared
<1>2. DOMAIN stmt.where \subseteq Nat
  BY Clauses
<1>3. fail # {} => Min(fail) \in fail
  BY <1>2, MinIsIn
<1>4. \A e : Evaluate(e) \in {"true", "false", "exit", "undefined"}
  BY DEF Evaluate
<1>5. \A o : ValueOf(o) = SqlValue(r, o)
  BY <1>1 DEF ValueOf, SqlValue, ColumnPosition, Columns
<1>6. ASSUME NEW e
      PROVE  /\ Evaluate(e) = "true" => Compare(SqlValue(r, e.left), e.op, SqlValue(r, e.right))
             /\ Evaluate(e) = "false" => ~Compare(SqlValue(r, e.left), e.op, SqlValue(r, e.right))
  BY <1>5 DEF Evaluate
<1>7. Verdict \in {"true", "false", "exit", "undefined"}
  BY <1>4 DEF Verdict
<1>8. /\ Verdict = "true" => \A i \in DOMAIN stmt.where : Evaluate(stmt.where[i]) = "true"
      /\ Verdict = "false" => \E i \in DOMAIN stmt.where : Evaluate(stmt.where[i]) = "false"
  BY <1>3 DEF Verdict
<1>9. ASSUME Verdict = "true", NEW e \in ToSet(stmt.where)
      PROVE  Compare(SqlValue(r, e.left), e.op, SqlValue(r, e.right))
  <2>1. PICK i \in DOMAIN stmt.where : e = stmt.where[i]
    BY DEF ToSet
  <2> HIDE DEF r
  <2> QED
    BY <1>6, <1>8, <1>9, <2>1
<1>10. ASSUME Verdict = "false"
       PROVE  \E e \in ToSet(stmt.where) : ~Compare(SqlValue(r, e.left), e.op, SqlValue(r, e.right))
  <2>1. PICK i \in DOMAIN stmt.where : Evaluate(stmt.where[i]) = "false"
    BY <1>8, <1>10
  <2>2. stmt.where[i] \in ToSet(stmt.where)
    BY DEF ToSet
  <2> HIDE DEF r
  <2> QED
    BY <1>6, <2>1, <2>2
<1> QED
  BY <1>7, <1>9, <1>10 DEF Accepted

-----------------------------------------------------------------------------
LEMMA RowInitInv == Init => RowInv
BY DEF Init, RowInv, RowShared, AtRow, Above

LEMMA RowAdded ==
  ASSUME WalkInv, FixedInv, ScanStep
  PROVE  IF pc' = "ready"
           THEN /\ rows' = Append(rows, next_rowid) /\ next_rowid \in Nat /\ rows' # <<>>
                /\ Len(rows') = Len(rows) + 1 /\ rows'[Len(rows) + 1] = next_rowid
                /\ \A k \in 1 .. Len(rows) : rows'[k] = rows[k]
                /\ stage' = "filter" /\ row' = [rowid |-> next_rowid, values |-> Values[next_rowid]]
           ELSE UNCHANGED rows /\ stage' \in {"exhausted", "exit", "undefined", "scan"}
<1>1. CASE pc' # "ready"
  <2>1. UNCHANGED rows
    BY <1>1, RowFound DEF ScanStep
  <2>2. stage' \in {"exhausted", "exit", "undefined", "scan"}
    BY <1>1 DEF ScanStep
  <2> QED
    BY <1>1, <2>1, <2>2
<1>2. CASE pc' = "ready"
  <2>1. /\ rows' = Append(rows, next_rowid) /\ stage' = "filter"
        /\ row' = [rowid |-> next_rowid, values |-> Values[next_rowid]]
    BY <1>2, RowFound DEF ScanStep, Values
  <2>2. /\ rows \in Seq(Nat) /\ Len(rows) \in Nat /\ next_rowid \in Nat
    BY WalkTypes
  <2>3. /\ Len(rows') = Len(rows) + 1 /\ rows'[Len(rows) + 1] = next_rowid /\ rows' # <<>>
        /\ \A k \in 1 .. Len(rows) : rows'[k] = rows[k]
    BY <2>1, <2>2, AppendProperties, EmptySeq
  <2> QED
    BY <1>2, <2>1, <2>2, <2>3
<1> QED
  BY <1>1, <1>2

\* The row at hand is kept until it is dealt with.
LEMMA RowNextInv ==
  ASSUME WalkInv, FixedInv, RowInv, [Next]_vars
  PROVE  RowInv'
<1>1. /\ Above' = Above /\ UNCHANGED <<file, stmt>> /\ Above \in {"aggregate", "project"}
      /\ \A r : Values[r]' = Values[r] /\ Accepted(r)' = Accepted(r)
  BY Kept, MeaningKept DEF Above
<1>2. CASE ScanStep
  <2>1. CASE pc' = "ready"
    <3>1. RowShared'
      BY <1>1, <1>2, <2>1, RowAdded DEF RowShared
    <3>2. stage' # Above'
      BY <1>1, <1>2, <2>1, RowAdded
    <3> QED
      BY <3>1, <3>2 DEF RowInv
  <2>2. CASE pc' # "ready"
    <3>1. ~AtRow' /\ stage' # Above'
      BY <1>1, <1>2, <2>2, RowAdded DEF AtRow
    <3> QED
      BY <3>1 DEF RowInv, RowShared
  <2> QED
    BY <2>1, <2>2
<1>3. CASE Filter
  <2>1. AtRow /\ stage' = AfterRow(Verdict) /\ UNCHANGED <<row, rows>>
    BY <1>3 DEF Filter, AtRow, walker
  <2>2. /\ Verdict \in {"true", "false", "exit", "undefined"}
        /\ Verdict = "true" => Accepted(rows[Len(rows)])
    BY <2>1, VerdictAccepts DEF RowInv
  <2>3. RowShared'
    BY <1>1, <2>1 DEF RowInv, RowShared
  <2>4. stage' = Above' => Verdict = "true"
    BY <1>1, <2>1, <2>2 DEF AfterRow
  <2>5. (stage = Above => Accepted(rows[Len(rows)]))'
    BY <1>1, <2>1, <2>2, <2>4
  <2> QED
    BY <2>3, <2>5 DEF RowInv
<1>4. CASE \/ Execute \/ NoUsablePredicate \/ Aggregate
            \/ UnrecognisedAggregate \/ Exhausted \/ Project
  <2>1. \/ stage' \in {"end", "scan", "exit", "crash", "undefined", "execute"}
        \/ stage' = "project" /\ HasAggregates
    BY <1>4 DEF Execute, NoUsablePredicate, Aggregate, UnrecognisedAggregate, Exhausted, AfterLast, Project
  <2>2. ~AtRow' /\ stage' # Above'
    BY <1>1, <2>1 DEF AtRow, Above
  <2> QED
    BY <2>2 DEF RowInv, RowShared
<1>5. CASE UNCHANGED vars
  <2>1. UNCHANGED <<stage, row, rows>>
    BY <1>5 DEF vars, walker
  <2>2. AtRow' = AtRow
    BY <1>1, <2>1 DEF AtRow
  <2>3. RowShared'
    BY <1>1, <2>1, <2>2 DEF RowInv, RowShared
  <2>4. (stage = Above => Accepted(rows[Len(rows)]))'
    BY <1>1, <2>1 DEF RowInv
  <2> QED
    BY <2>3, <2>4 DEF RowInv
<1> QED
  BY <1>2, <1>3, <1>4, <1>5 DEF Next, Step, Ended

\* How many rows are passed.
LEMMA PassedCount ==
  ASSUME WalkInv, RowInv
  PROVE  /\ Len(rows) \in Nat /\ Passed \in Nat /\ Passed <= Len(rows)
         /\ AtRow => Passed + 1 = Len(rows) /\ Len(rows) # 0
         /\ ~AtRow => Passed = Len(rows)
<1>1. Len(rows) \in Nat
  BY WalkTypes
<1>2. AtRow => Len(rows) # 0
  BY WalkTypes, EmptySeq DEF RowInv, RowShared
<1> QED
  BY <1>1, <1>2 DEF Passed

-----------------------------------------------------------------------------
LEMMA AnswersInitInv == Init => AnswersInv
<1> SUFFICES ASSUME Init PROVE AnswersInv
  OBVIOUS
<1>1. output = <<>> /\ rows = <<>> /\ stage \in {"exit", "crash", "execute"}
  BY DEF Init, Scan!Start
<1>2. Passed = 0 /\ Len(rows) = 0
  BY <1>1 DEF AtRow, Passed, Above
<1>3. PrintedFrom(<<>>, 0, rows)
  <2> DEFINE g == [i \in 1 .. 0 |-> i]
             P == {PrintedOf(r) : r \in Nat}
  <2>1. Len(<<>>) = 0 /\ g \in [1 .. 0 -> 1 .. 0] /\ \A i \in 1 .. 0 : FALSE
    OBVIOUS
  <2>2. <<>> \in Seq(P)
    OBVIOUS
  <2> HIDE DEF g
  <2> QED
    BY <2>1, <2>2 DEF PrintedFrom
<1> QED
  BY <1>1, <1>2, <1>3 DEF AnswersInv, PrintedSoFar

\* What is printed means the same after a step, which keeps the file and the statement.
LEMMA PrintedKept ==
  ASSUME UNCHANGED <<file, stmt>>, NEW n \in 0 .. Len(rows'), ~Dead' => n = Passed',
         PrintedFrom(output', n, rows')
  PROVE  PrintedSoFar'
<1>1. \A r : PrintedOf(r)' = PrintedOf(r) /\ Accepted(r)' = Accepted(r)
  BY MeaningKept
<1>2. output' \in Seq({PrintedOf(r)' : r \in Nat})
  <2>1. {PrintedOf(r)' : r \in Nat} = {PrintedOf(r) : r \in Nat}
    BY <1>1
  <2>2. output' \in Seq({PrintedOf(r) : r \in Nat})
    BY DEF PrintedFrom
  <2> QED
    BY <2>1, <2>2
<1>3. PICK g \in [1 .. Len(output') -> 1 .. n] :
        /\ \A i, j \in 1 .. Len(output') : i < j => g[i] < g[j]
        /\ \A i \in 1 .. Len(output') : Accepted(rows'[g[i]]) /\ output'[i] = PrintedOf(rows'[g[i]])
        /\ \A k \in 1 .. n : Accepted(rows'[k]) => \E i \in 1 .. Len(output') : g[i] = k
  BY DEF PrintedFrom
<1>4. /\ \A i \in 1 .. Len(output') : /\ (Accepted(rows[g[i]]))'
                                      /\ output'[i] = (PrintedOf(rows[g[i]]))'
      /\ \A k \in 1 .. n : (Accepted(rows[k]))' => \E i \in 1 .. Len(output') : g[i] = k
  BY <1>1, <1>3
<1>5. PrintedFrom(output, n, rows)'
  BY <1>2, <1>3, <1>4 DEF PrintedFrom
<1> QED
  BY <1>5 DEF PrintedSoFar

\* A step that prints nothing, and passes a row over only if it is not accepted.
LEMMA NothingPrinted ==
  ASSUME WalkInv, RowInv, PrintedSoFar, UNCHANGED <<file, stmt, output>>, Dead => Dead',
         \A k \in 1 .. Len(rows) : rows'[k] = rows[k],
         Len(rows') \in Nat, Len(rows) <= Len(rows'),
         ~Dead' => Passed' \in Passed .. Len(rows'),
         ~Dead' => \A k \in Passed + 1 .. Passed' : ~Accepted(rows'[k])
  PROVE  PrintedSoFar'
<1>1. Len(rows) \in Nat /\ Passed \in Nat /\ Passed <= Len(rows)
  BY PassedCount
<1>2. PICK n \in 0 .. Len(rows) : (~Dead => n = Passed) /\ PrintedFrom(output, n, rows)
  BY DEF PrintedSoFar
<1>3. \A k \in 1 .. n : rows'[k] = rows[k]
  BY <1>1
<1>4. CASE Dead'
  <2>1. n \in Nat /\ n <= n /\ \A k \in n + 1 .. n : ~Accepted(rows'[k])
    BY <1>1
  <2>2. PrintedFrom(output', n, rows')
    BY <1>2, <1>3, <2>1, PrintedFromMore
  <2>3. n \in 0 .. Len(rows')
    BY <1>1
  <2> QED
    BY <1>4, <2>2, <2>3, PrintedKept
<1>5. CASE ~Dead'
  <2>1. n = Passed /\ n \in Nat /\ Passed' \in Nat /\ n <= Passed'
    BY <1>1, <1>2, <1>5
  <2>2. PrintedFrom(output', Passed', rows')
    BY <1>2, <1>3, <1>5, <2>1, PrintedFromMore
  <2>3. Passed' \in 0 .. Len(rows')
    BY <1>1, <1>5, <2>1
  <2> QED
    BY <2>2, <2>3, PrintedKept
<1> QED
  BY <1>4, <1>5

LEMMA ProjectPrints ==
  ASSUME WalkInv, FixedInv, RowInv, PrintedSoFar, ~HasAggregates, Project
  PROVE  PrintedSoFar'
<1>1. /\ stage = "project" /\ UNCHANGED <<file, stmt, rows>> /\ Above' = "project"
      /\ Above = "project" /\ AtRow /\ ~Dead
  BY MeaningKept DEF Project, walker, Above, AtRow, Dead
<1> DEFINE r == rows[Len(rows)]
<1>2. Len(rows) \in Nat \ {0} /\ r \in Nat /\ Passed = Len(rows) - 1
  <2>1. rows \in Seq(Nat) /\ Len(rows) \in Nat
    BY WalkTypes
  <2>2. Len(rows) # 0 /\ Passed = Len(rows) - 1
    BY <1>1, <2>1, PassedCount
  <2> QED
    BY <2>1, <2>2, ElementOfSeq
<1>3. PrintedFrom(output, Len(rows) - 1, rows)
  BY <1>1, <1>2 DEF PrintedSoFar
<1>4. CASE stage' = "execute" /\ output' = Append(output, Printed)
  <2>1. row = [rowid |-> r, values |-> Values[r]] /\ Accepted(r)
    BY <1>1 DEF RowInv, RowShared
  <2>2. Printed = PrintedOf(r)
    BY <2>1 DEF Printed, PrintedOf
  <2>3. PrintedFrom(Append(output, PrintedOf(r)), Len(rows), rows)
    BY <1>2, <1>3, <2>1, PrintedFromNext
  <2>4. Passed' = Len(rows)
    BY <1>1, <1>4 DEF AtRow, Passed
  <2>5. PrintedFrom(output', Len(rows), rows)
    BY <1>4, <2>2, <2>3
  <2>6. Len(rows) \in 0 .. Len(rows')
    BY <1>1, <1>2
  <2> QED
    BY <1>1, <2>4, <2>5, <2>6, PrintedKept
<1>5. CASE stage' = "undefined" /\ UNCHANGED output
  <2>1. Dead' /\ Len(rows) - 1 \in 0 .. Len(rows')
    BY <1>1, <1>2, <1>5 DEF Dead
  <2> QED
    BY <1>1, <1>3, <1>5, <2>1, PrintedKept
<1> QED
  BY <1>4, <1>5 DEF Project

LEMMA AnswersNextInv ==
  ASSUME WalkInv, FixedInv, RowInv, AnswersInv, [Next]_vars
  PROVE  AnswersInv'
<1>1. HasAggregates' = HasAggregates /\ UNCHANGED <<file, stmt>> /\ Above' = Above
  BY Kept, MeaningKept DEF Above
<1> SUFFICES ASSUME ~HasAggregates PROVE PrintedSoFar'
  BY <1>1 DEF AnswersInv
<1>2. PrintedSoFar /\ Above = "project"
  BY DEF AnswersInv, Above
<1>3. Len(rows) \in Nat /\ Passed \in Nat /\ Passed <= Len(rows) /\ (~AtRow => Passed = Len(rows))
  BY PassedCount
<1>4. CASE ScanStep
  <2>1. stage = "scan" /\ ~AtRow /\ ~Dead /\ UNCHANGED output
    BY <1>2, <1>4 DEF ScanStep, AtRow, Dead
  <2>2. Passed' = Len(rows) /\ Len(rows') \in Nat /\ Len(rows) <= Len(rows')
    <3>1. CASE pc' = "ready"
      BY <1>3, <1>4, <3>1, RowAdded DEF Passed, AtRow
    <3>2. CASE pc' # "ready"
      BY <1>1, <1>2, <1>3, <1>4, <3>2, RowAdded DEF Passed, AtRow
    <3> QED
      BY <3>1, <3>2
  <2>3. \A k \in 1 .. Len(rows) : rows'[k] = rows[k]
    BY <1>4, RowAdded
  <2> QED
    BY <1>1, <1>2, <1>3, <2>1, <2>2, <2>3, NothingPrinted
<1>5. CASE Filter
  <2>1. stage = "filter" /\ AtRow /\ ~Dead /\ stage' = AfterRow(Verdict) /\ UNCHANGED <<output, rows>>
    BY <1>5 DEF Filter, AtRow, Dead, walker
  <2>2. /\ Verdict \in {"true", "false", "exit", "undefined"}
        /\ Verdict = "false" => ~Accepted(rows[Len(rows)])
    BY <2>1, VerdictAccepts DEF RowInv
  <2>3. Passed + 1 = Len(rows)
    BY <2>1, PassedCount
  <2>4. ~Dead' => /\ Passed' \in Passed .. Len(rows')
                  /\ \A k \in Passed + 1 .. Passed' : ~Accepted(rows'[k])
    <3>1. CASE Verdict = "true"
      <4>1. Passed' = Passed
        BY <1>1, <2>1, <3>1 DEF Passed, AtRow, AfterRow
      <4> QED
        BY <1>3, <2>1, <4>1
    <3>2. CASE Verdict = "false"
      <4>1. Passed' = Len(rows)
        BY <1>1, <1>2, <2>1, <3>2 DEF Passed, AtRow, AfterRow
      <4>2. \A k \in Passed + 1 .. Passed' : k = Len(rows)
        BY <1>3, <2>3, <4>1
      <4> QED
        BY <1>3, <2>1, <2>2, <3>2, <4>1, <4>2
    <3>3. CASE Verdict \in {"exit", "undefined"}
      BY <2>1, <3>3 DEF AfterRow, Dead
    <3> QED
      BY <2>2, <3>1, <3>2, <3>3
  <2> QED
    BY <1>1, <1>2, <1>3, <2>1, <2>4, NothingPrinted
<1>6. CASE Project
  BY <1>2, <1>6, ProjectPrints
<1>7. CASE Execute \/ NoUsablePredicate \/ Exhausted
  <2>1. UNCHANGED <<rows, output>> /\ ~Dead /\ ~AtRow
    BY <1>2, <1>7 DEF Execute, NoUsablePredicate, Exhausted, walker, Dead, AtRow
  <2>2. stage' \in {"end", "scan", "exit", "crash"}
    BY <1>7 DEF Execute, NoUsablePredicate, Exhausted, AfterLast
  <2>3. Passed' = Len(rows)
    BY <1>1, <1>2, <2>1, <2>2 DEF Passed, AtRow
  <2> QED
    BY <1>1, <1>2, <1>3, <2>1, <2>3, NothingPrinted
<1>8. CASE Aggregate \/ UnrecognisedAggregate
  <2>1. /\ stage = "aggregate" /\ stage' \in {"scan", "exit"} /\ UNCHANGED <<rows, output>>
        /\ ~AtRow /\ ~Dead
    BY <1>2, <1>8 DEF Aggregate, UnrecognisedAggregate, walker, AtRow, Dead
  <2>2. Passed' = Len(rows)
    BY <1>1, <1>2, <2>1 DEF Passed, AtRow
  <2> QED
    BY <1>1, <1>2, <1>3, <2>1, <2>2, NothingPrinted
<1>9. CASE UNCHANGED vars
  <2>1. UNCHANGED <<stage, output, rows>>
    BY <1>9 DEF vars, walker
  <2>2. Passed' = Passed /\ Dead' = Dead
    BY <1>1, <2>1 DEF AtRow, Passed, Dead
  <2> QED
    BY <1>1, <1>2, <1>3, <2>1, <2>2, NothingPrinted
<1> QED
  BY <1>4, <1>5, <1>6, <1>7, <1>8, <1>9 DEF Next, Step, Ended

\* The rows found are records of the table.
LEMMA RowsAreRecords ==
  ASSUME WalkInv, FixedInv, ~ ExitsBeforeScan(file, stmt)
  PROVE  \A i \in DOMAIN rows : rows[i] \in Rowids
<1>1. RowsHaveRecords(file, stmt)
  BY FilesAssumption DEF FixedInv
<1>2. PICK S \in SUBSET DOMAIN file.pages :
        /\ TableRecord(file, stmt.table).root \in S
        /\ \A p \in S : \A i \in DOMAIN Scan!Links(file)[p] : Scan!Links(file)[p][i] \in S
        /\ \A p \in S : file.pages[p].type = "leaf_table" =>
             \A i \in DOMAIN file.pages[p].cells : file.pages[p].cells[i].rowid \in DOMAIN file.values[stmt.table]
  BY <1>1 DEF RowsHaveRecords
<1>3. db.pages = file.pages /\ db.table = TableRecord(file, stmt.table).root
  BY DEF FixedInv, Scanned
<1>4. Walk!Links(db) = Scan!Links(file)
  BY <1>3 DEF Walk!Links, Scan!Links
<1>5. Walk!HoldsTree(db, db.table, S)
  BY <1>2, <1>3, <1>4 DEF Walk!HoldsTree
<1>6. \A i \in DOMAIN rows : Walk!IsRowIn(db, S, rows[i])
  BY <1>2, <1>3, <1>5 DEF WalkInv, Walk!RowsOfTable
<1> QED
  BY <1>2, <1>3, <1>6 DEF Walk!IsRowIn, Rowids, Values

LEMMA AnswersInvented ==
  ASSUME WalkInv, FixedInv, AnswersInv
  PROVE  NothingInvented
<1> SUFFICES ASSUME ~HasAggregates, output # <<>>
             PROVE  \E f \in [DOMAIN output -> {r \in Rowids : Accepted(r)}] :
                      /\ \A i, j \in DOMAIN output : i < j => f[i] < f[j]
                      /\ \A i \in DOMAIN output : output[i] = PrintedOf(f[i])
  BY DEF NothingInvented
<1>1. PICK n \in 0 .. Len(rows) : PrintedFrom(output, n, rows)
  BY DEF AnswersInv, PrintedSoFar
<1>2. PICK g \in [1 .. Len(output) -> 1 .. n] :
        /\ \A i, j \in 1 .. Len(output) : i < j => g[i] < g[j]
        /\ \A i \in 1 .. Len(output) : Accepted(rows[g[i]]) /\ output[i] = PrintedOf(rows[g[i]])
  BY <1>1 DEF PrintedFrom
<1>3. DOMAIN output = 1 .. Len(output)
  BY <1>1, LenProperties DEF PrintedFrom
<1>4. Len(rows) \in Nat /\ DOMAIN rows = 1 .. Len(rows)
  BY WalkTypes
<1>5. \A i \in 1 .. Len(output) : g[i] \in DOMAIN rows
  <2>1. 1 .. n \subseteq 1 .. Len(rows)
    BY <1>4
  <2> QED
    BY <1>4, <2>1
<1>6. \A i \in 1 .. Len(output) : rows[g[i]] \in Rowids
  BY <1>5, RowsAreRecords DEF FixedInv
<1>7. \A i, j \in 1 .. Len(output) : i < j => rows[g[i]] < rows[g[j]]
  BY <1>2, <1>5 DEF WalkInv, Walk!RowsInOrder
<1> DEFINE f == [i \in DOMAIN output |-> rows[g[i]]]
<1>8. f \in [DOMAIN output -> {r \in Rowids : Accepted(r)}]
  BY <1>2, <1>3, <1>6
<1>9. \A i, j \in DOMAIN output : i < j => f[i] < f[j]
  BY <1>3, <1>7
<1>10. \A i \in DOMAIN output : output[i] = PrintedOf(f[i])
  BY <1>2, <1>3
<1> HIDE DEF f
<1> QED
  BY <1>8, <1>9, <1>10

\* Nothing is printed that is not a row of the table or that a condition refuses,
\* no row twice and none out of order, whatever index and predicate the plan chose
\* (plan.c:67-152, filter.c:174-196).
THEOREM NothingIsInvented == Spec => []NothingInvented
<1>1. Init => FixedInv /\ RowInv /\ AnswersInv
  BY FixedInitInv, RowInitInv, AnswersInitInv
<1>2. WalkInv /\ FixedInv /\ RowInv /\ AnswersInv /\ [Next]_vars => (FixedInv /\ RowInv /\ AnswersInv)'
  BY FixedNextInv, RowNextInv, AnswersNextInv
<1>3. WalkInv /\ FixedInv /\ AnswersInv => NothingInvented
  BY AnswersInvented
<1> QED
  BY <1>1, <1>2, <1>3, WalkInvariant, PTL DEF Spec, SafetySpec
-----------------------------------------------------------------------------
(***************************************************************************)
(* The tables of plain statements, the index they are scanned by and what  *)
(* it is searched for.                                                     *)
(***************************************************************************)
LEMMA SameTrees ==
  /\ \A d : Scan!Links(d) = Walk!Links(d) /\ Scan!Subtree(d) = Walk!Subtree(d)
  /\ \A d, pages : Scan!LeafCells(d, pages) = Walk!LeafCells(d, pages)
  /\ \A d : Scan!OrderedTable(d) <=> Walk!OrderedTable(d)
  /\ Scan!IndexPages = Walk!IndexPages
  /\ \A p : Scan!Matching(p) = Walk!Matching(p)
<1>1. \A d : Scan!Links(d) = Walk!Links(d)
  BY DEF Scan!Links, Walk!Links
<1>2. \A d : Scan!Subtree(d) = Walk!Subtree(d)
  BY DEF Scan!Subtree, Walk!Subtree, Scan!Links, Walk!Links
<1>3. \A d, pages : Scan!LeafCells(d, pages) = Walk!LeafCells(d, pages)
  BY DEF Scan!LeafCells, Walk!LeafCells
<1>4. \A d : Scan!OrderedTable(d) <=> Walk!OrderedTable(d)
  BY <1>1, <1>2, <1>3 DEF Scan!OrderedTable, Walk!OrderedTable
<1>5. Scan!IndexPages = Walk!IndexPages
  BY <1>2 DEF Scan!IndexPages, Walk!IndexPages, Scan!IndexScan, Walk!IndexScan
<1>6. \A p : Scan!Matching(p) = Walk!Matching(p)
  BY DEF Scan!Matching, Walk!Matching, Scan!Cells, Walk!Cells
<1> QED
  BY <1>1, <1>2, <1>3, <1>4, <1>5, <1>6

\* The records of a table are those its tree holds.
LEMMA TableFacts ==
  ASSUME FixedInv, ~ExitsBeforeScan(file, stmt)
  PROVE  /\ IsFiniteSet(Rowids) /\ Rowids \subseteq Nat \ {0}
         /\ Walk!OrderedTable(db) /\ Walk!TableRowids = Rowids
         /\ Rowids # {} => \A p \in Walk!TablePages : Walk!Walkable(p)
         /\ \A c \in Walk!LeafCells(db, Walk!TablePages) : c.readable = ~HasOther(Values[c.rowid])
         /\ \A r \in Rowids : Values[r] \in Seq(RecordValues)
         /\ Columns \in Seq(ToSet(Columns))
<1>1. /\ file \in Files /\ stmt \in Statements /\ db = Scanned(file, stmt) /\ db \in ScannedTrees
  BY DEF FixedInv, ScannedTrees
<1>2. TableStored(file, stmt)
  BY <1>1, FilesHoldTables
<1> DEFINE tree == Walk!Subtree(db)[db.table]
<1>3. /\ IsFiniteSet(Rowids) /\ Rowids \subseteq Nat \ {0}
      /\ \A r \in Rowids : Values[r] \in Seq(RecordValues)
      /\ Columns \in Seq(ToSet(Columns))
  BY <1>2 DEF TableStored, Rowids, Values, Columns
<1>4. /\ {c.rowid : c \in Walk!LeafCells(db, tree)} = Rowids
      /\ \A c \in Walk!LeafCells(db, tree) : c.readable = ~HasOther(Values[c.rowid])
      /\ Values # <<>> => \A p \in tree : CellsOf(db, p) # {}
      /\ Walk!OrderedTable(db)
  BY <1>1, <1>2, SameTrees DEF TableStored, Rowids, Values
<1>5. Walk!TableRowids = Rowids
  BY <1>4 DEF Walk!TableRowids, Walk!TablePages
<1>6. ASSUME Rowids # {}, NEW p \in Walk!TablePages
      PROVE  Walk!Walkable(p)
  <2>1. Values # <<>>
    BY <1>6 DEF Rowids
  <2>2. p \in tree /\ CellsOf(db, p) # {}
    BY <1>4, <1>6, <2>1 DEF Walk!TablePages
  <2>3. db.table \in DOMAIN db.pages
    BY <1>1, TreesOfFiles DEF Walk!WellFormedTrees
  <2>4. p \in DOMAIN db.pages
    BY <1>1, <2>2, <2>3, TreesOfFiles, TextsAsked, Walk!Subtrees
  <2> QED
    BY <2>2, <2>4 DEF Walk!Walkable, Walk!Cells, CellsOf
<1>7. \A c \in Walk!LeafCells(db, Walk!TablePages) : c.readable = ~HasOther(Values[c.rowid])
  BY <1>4 DEF Walk!TablePages
<1> QED
  BY <1>3, <1>4, <1>5, <1>6, <1>7

\* The place of a column.
LEMMA PlaceOf ==
  ASSUME NEW columns, NEW name \in ToSet(columns)
  PROVE  Position(columns, name) \in DOMAIN columns /\ columns[Position(columns, name)] = name
<1>1. \E i \in DOMAIN columns : columns[i] = name
  BY DEF ToSet
<1> QED
  BY <1>1 DEF Position

\* Without an early exit of build_plan.
LEMMA PlainIsPlanned ==
  ASSUME FixedInv, PlainWhere
  PROVE  ~ExitsBeforeScan(file, stmt)
<1>1. /\ HasTable(file, stmt.table) /\ \A x \in IndexesOf(file, stmt.table) : ~Unparsed(x)
      /\ ~TreelessRead(file, stmt.table) /\ (stmt.where # NoWhere => Treeless(file) = {})
  BY DEF PlainWhere, PlainTable
<1>2. \A e \in ToSet(stmt.where) : Star \notin Operands(e)
  <2>1. \A e \in ToSet(stmt.where) : \A o \in Operands(e) : o.kind \in {"column", "string"}
    BY DEF PlainWhere, PlainCondition
  <2>2. Star.kind = "star"
    BY DEF Star
  <2> QED
    BY <2>1, <2>2
<1> QED
  BY <1>1, <1>2 DEF ExitsBeforeScan

Best == BestIndex(file, stmt)

\* The index chosen is one of the table's, and its first column is in a condition.
LEMMA BestIsIndex ==
  ASSUME FixedInv, PlainWhere, Best # NoIndex
  PROVE  \E x \in IndexesOf(file, stmt.table) :
           /\ Best = [root |-> x.root, columns |-> x.columns]
           /\ x.root # 0 /\ x.columns \in Seq(ToSet(Columns))
           /\ 1 \in DOMAIN x.columns /\ x.columns[1] \in WhereColumns(stmt.where)
<1> DEFINE W == WhereColumns(stmt.where)
           candidates == {[place |-> i, matching |-> MatchingColumns(file.schema[i], W)] :
                            i \in IndexPlaces(file, stmt.table)}
           best == {c \in candidates :
                      /\ c.matching > 0
                      /\ \A d \in candidates :
                           d.matching < c.matching \/ (d.matching = c.matching /\ c.place <= d.place)}
           chosen == CHOOSE c \in best : TRUE
<1>1. best # {} /\ Best = [root |-> file.schema[chosen.place].root,
                           columns |-> file.schema[chosen.place].columns]
  BY DEF Best, BestIndex
<1>2. chosen \in candidates /\ chosen.matching > 0
  <2>1. chosen \in best
    BY <1>1
  <2> HIDE DEF chosen
  <2> QED
    BY <2>1, SMTT(30)
<1> HIDE DEF chosen, best
<1>3. PICK i \in IndexPlaces(file, stmt.table) :
        chosen = [place |-> i, matching |-> MatchingColumns(file.schema[i], W)]
  BY <1>2
<1>4. MatchingColumns(file.schema[i], W) > 0
  BY <1>2, <1>3
<1> DEFINE x == file.schema[i]
<1>5. x \in IndexesOf(file, stmt.table) /\ Best = [root |-> x.root, columns |-> x.columns]
  BY <1>1, <1>3 DEF IndexesOf
<1> HIDE DEF candidates, W
<1>6. IndexStored(file, stmt)
  BY FilesHoldTables, PlainIsPlanned DEF FixedInv
<1> HIDE DEF x
<1>7. x.root # 0 /\ x.columns \in Seq(ToSet(Columns))
  <2>1. \A y \in IndexesOf(file, stmt.table) :
          y.root # 0 /\ y.columns \in Seq(ToSet(ColumnsOf(file, stmt.table)))
    BY <1>6 DEF IndexStored, Scan!EntriesInOrder
  <2> QED
    BY <1>5, <2>1 DEF Columns
<1>8. PICK n \in DOMAIN x.columns : ToSet(SubSeq(x.columns, 1, n)) \subseteq W
  <2> DEFINE P == {n \in DOMAIN x.columns : ToSet(SubSeq(x.columns, 1, n)) \subseteq W}
  <2>1. Cardinality(P) > 0
    BY <1>4 DEF MatchingColumns, x
  <2>2. P # {}
    <3> SUFFICES ASSUME P = {} PROVE FALSE
      OBVIOUS
    <3>1. Cardinality(P) = 0
      BY FS_EmptySet
    <3> HIDE DEF P
    <3> QED
      BY <2>1, <3>1
  <2> QED
    BY <2>2
<1>9. Len(x.columns) \in Nat /\ DOMAIN x.columns = 1 .. Len(x.columns)
  BY <1>7, LenProperties
<1>10. 1 \in DOMAIN x.columns
  BY <1>8, <1>9
<1>11. x.columns[1] \in W
  <2>1. n \in 1 .. Len(x.columns)
    BY <1>8, <1>9
  <2>2. /\ SubSeq(x.columns, 1, n) = [k \in 1 .. n |-> x.columns[k]]
    BY <1>7, <1>9, <2>1
  <2>3. x.columns[1] \in ToSet(SubSeq(x.columns, 1, n))
    <3> DEFINE prefix == [k \in 1 .. n |-> x.columns[k]]
    <3>1. 1 \in DOMAIN prefix /\ prefix[1] = x.columns[1]
      BY <1>9, <2>1
    <3>2. prefix[1] \in ToSet(prefix)
      BY <3>1 DEF ToSet
    <3> QED
      BY <2>2, <3>1, <3>2
  <2> QED
    BY <1>8, <2>3
<1> QED
  BY <1>5, <1>7, <1>10, <1>11, SMTT(30) DEF W

\* What an index is searched for is the text its first column is compared with
\* (get_predicate_value).
LEMMA SearchFacts ==
  ASSUME FixedInv, PlainWhere, Best # NoIndex
  PROVE  /\ HasPredicate(file, stmt) /\ Usable(FirstPredicate(file, stmt))
         /\ predicate.op = "=" /\ predicate.value \in Nat
         /\ Best.columns \in Seq(ToSet(Columns)) /\ 1 \in DOMAIN Best.columns
         /\ Best.columns[1] \in IndexColumns /\ db.index # 0
         /\ \E e \in ToSet(stmt.where) : \A r : SqlHolds(r, e) =>
              Values[r][Position(Columns, Best.columns[1])] = Text(predicate.value)
<1>1. PICK x \in IndexesOf(file, stmt.table) :
        /\ Best = [root |-> x.root, columns |-> x.columns]
        /\ x.root # 0 /\ x.columns \in Seq(ToSet(Columns))
        /\ 1 \in DOMAIN x.columns /\ x.columns[1] \in WhereColumns(stmt.where)
  BY BestIsIndex
<1>2. Best.columns = x.columns /\ Best.root = x.root
  BY <1>1
<1>3. x.columns[1] \in IndexColumns /\ x.columns[1] \in ToSet(x.columns)
  BY <1>1 DEF IndexColumns, ToSet
<1>4. db.index # 0
  BY <1>1, <1>2, PlainIsPlanned DEF FixedInv, Scanned, Best
<1>5. PICK i \in DOMAIN stmt.where :
        /\ ColumnsIn(stmt.where[i]) = {x.columns[1]}
        /\ \A j \in 1 .. i - 1 : ColumnsIn(stmt.where[j]) \cap ToSet(x.columns) = {}
  BY <1>1 DEF PlainWhere, SearchedFirst
<1>6. /\ DOMAIN stmt.where = 1 .. Len(stmt.where) /\ Len(stmt.where) \in Nat
      /\ \A j \in DOMAIN stmt.where : PlainCondition(stmt.where[j]) /\ stmt.where[j] \in ToSet(stmt.where)
  BY Clauses DEF PlainWhere, ToSet
<1> DEFINE places == IndexPredicates(Best, stmt.where)
<1>7. i \in places
  BY <1>2, <1>3, <1>5, <1>6 DEF IndexPredicates, PlainCondition
<1>8. \A j \in 1 .. i - 1 : j \notin places
  <2> SUFFICES ASSUME NEW j \in 1 .. i - 1, j \in places PROVE FALSE
    OBVIOUS
  <2>1. j \in DOMAIN stmt.where /\ ColumnsIn(stmt.where[j]) \subseteq ToSet(x.columns)
    BY <1>2 DEF IndexPredicates
  <2>2. ColumnsIn(stmt.where[j]) # {}
    <3>1. \E o \in Operands(stmt.where[j]) : o.kind = "column"
      BY <1>6, <2>1, Zenon DEF PlainCondition
    <3> QED
      BY <3>1, Zenon DEF ColumnsIn
  <2> QED
    BY <1>5, <2>1, <2>2
<1>9. Min(places) = i
  <2>1. places \subseteq Nat /\ places \subseteq DOMAIN stmt.where
    BY <1>6 DEF IndexPredicates
  <2> HIDE DEF places
  <2>2. Min(places) \in places /\ Min(places) <= i
    BY <1>7, <2>1, MinIsIn
  <2>3. Min(places) \in 1 .. Len(stmt.where) /\ i \in 1 .. Len(stmt.where)
    BY <1>6, <2>1, <2>2
  <2> QED
    BY <1>8, <2>2, <2>3
<1> DEFINE e == stmt.where[i]
<1>10. FirstPredicate(file, stmt) = e /\ HasPredicate(file, stmt)
  BY <1>7, <1>9, PlainIsPlanned DEF FirstPredicate, HasPredicate, Best
<1>11. e \in ToSet(stmt.where) /\ PlainCondition(e) /\ ColumnsIn(e) = {x.columns[1]}
  BY <1>5, <1>6
<1> HIDE DEF e, places
<1>12. /\ e.kind = "binary" /\ e.op = "=" /\ Operands(e) = {e.left, e.right}
       /\ e.left.kind \in {"column", "string"} /\ e.right.kind \in {"column", "string"}
       /\ \A o \in Operands(e) : o.kind = "column" => o.name = x.columns[1]
       /\ \E o \in Operands(e) : o.kind = "column"
  BY <1>11 DEF PlainCondition, Operands, ColumnsIn
<1>13. e.left.kind # e.right.kind
  <2> SUFFICES ASSUME e.left.kind = e.right.kind PROVE FALSE
    OBVIOUS
  <2>1. PICK o \in Operands(e) : o.kind = "column"
    BY <1>12
  <2>2. o.name \notin IndexColumns
    BY <1>11, <2>1 DEF PlainCondition
  <2> QED
    BY <1>3, <1>12, <2>1, <2>2
<1>14. PICK o \in Operands(e), p \in Operands(e) :
         /\ o.kind = "string" /\ p.kind = "column" /\ p.name = x.columns[1]
         /\ Operands(e) = {o, p} /\ {o, p} = {e.left, e.right}
  BY <1>12, <1>13
<1>15. Converted(e) = o
  BY <1>12, <1>14 DEF Converted
<1>16. Usable(e)
  BY <1>14, <1>15 DEF Usable
<1>17. predicate = [op |-> "=", value |-> o.text]
  BY <1>10, <1>12, <1>15, <1>16 DEF FixedInv, PredicateOf, Pushed
<1>18. o.text \in Nat
  BY <1>11, <1>14, FilesAssumption DEF FixedInv
<1>19. ASSUME NEW r, SqlHolds(r, e)
       PROVE  Values[r][Position(Columns, x.columns[1])] = Text(o.text)
  <2>1. SqlValue(r, o) = Text(o.text) /\ SqlValue(r, p) = Values[r][Position(Columns, x.columns[1])]
    BY <1>14 DEF SqlValue
  <2>2. SqlValue(r, e.left) = SqlValue(r, e.right)
    BY <1>19 DEF SqlHolds
  <2>3. (o = e.left /\ p = e.right) \/ (o = e.right /\ p = e.left)
    BY <1>14
  <2> QED
    BY <2>1, <2>2, <2>3
<1>20. predicate.op = "=" /\ predicate.value = o.text
  BY <1>17
<1> QED
  BY <1>1, <1>2, <1>3, <1>4, <1>10, <1>11, <1>16, <1>18, <1>19, <1>20

\* The values of a record in the index's columns are texts.
LEMMA KeyFacts ==
  ASSUME FixedInv, PlainWhere, Best # NoIndex, NEW r \in Rowids
  PROVE  /\ \A n \in DOMAIN Best.columns :
              /\ IndexedValue(file, stmt, Best.columns, r, n).type = "text"
              /\ KeyOf(file, stmt, Best.columns, r, n) \in Nat
              /\ KeyOf(file, stmt, Best.columns, r, n) > LastNumber
         /\ KeyOf(file, stmt, Best.columns, r, 1) = Values[r][Position(Columns, Best.columns[1])].value
<1> DEFINE columns == Best.columns
           place(n) == Position(Columns, columns[n])
<1>1. /\ Values[r] \in Seq(RecordValues) /\ Columns \in Seq(ToSet(Columns))
      /\ Len(Values[r]) = Len(Columns)
      /\ \A i \in DOMAIN Columns : Columns[i] \in IndexColumns => Values[r][i].type = "text"
  BY TableFacts, PlainIsPlanned DEF PlainWhere, PlainTable
<1>2. PICK x \in IndexesOf(file, stmt.table) :
        /\ Best = [root |-> x.root, columns |-> x.columns]
        /\ x.root # 0 /\ x.columns \in Seq(ToSet(Columns))
        /\ 1 \in DOMAIN x.columns /\ x.columns[1] \in WhereColumns(stmt.where)
  BY BestIsIndex
<1>3. DOMAIN Values[r] = DOMAIN Columns
  BY <1>1, LenProperties
<1>4. ASSUME NEW v \in RecordValues, v.type = "text"
      PROVE  v.value \in Nat /\ v.value > LastNumber
  <2>1. v.type # "int" /\ v.type # "null" /\ v.type # "other"
    BY <1>4
  <2> QED
    BY <2>1 DEF RecordValues, Null
<1>5. ASSUME NEW n \in DOMAIN columns
      PROVE  /\ IndexedValue(file, stmt, columns, r, n) = Values[r][place(n)]
             /\ Values[r][place(n)].type = "text" /\ Values[r][place(n)].value \in Nat
             /\ Values[r][place(n)].value > LastNumber
  <2>1. columns[n] \in ToSet(Columns) /\ columns[n] \in IndexColumns
    <3>1. columns = x.columns
      BY <1>2
    <3>2. x.columns[n] \in ToSet(Columns)
      <4>1. x.columns \in Seq(ToSet(Columns)) /\ n \in DOMAIN x.columns
        BY <1>2, <3>1
      <4> QED
        BY <4>1, ElementOfSeq, LenProperties
    <3>3. x.columns[n] \in IndexColumns
      BY <1>5, <3>1 DEF IndexColumns, ToSet
    <3> QED
      BY <3>1, <3>2, <3>3
  <2>2. place(n) \in DOMAIN Columns /\ Columns[place(n)] = columns[n]
    BY <2>1, PlaceOf
  <2>3. Values[r][place(n)].type = "text" /\ Values[r][place(n)] \in RecordValues
    BY <1>1, <1>3, <2>1, <2>2
  <2>4. IndexedValue(file, stmt, columns, r, n) = Values[r][place(n)]
    BY <1>3, <2>2 DEF IndexedValue, Values, Columns
  <2> QED
    BY <1>4, <2>3, <2>4
<1>6. 1 \in DOMAIN columns
  BY <1>2
<1> QED
  BY <1>5, <1>6 DEF KeyOf

\* The entries of the index scanned: of each record one, in the order of their keys
\* and rowids.
LEMMA IndexFacts ==
  ASSUME FixedInv, PlainWhere, Best # NoIndex
  PROVE  /\ Walk!OrderedIndex(db)
         /\ \A p \in Walk!IndexPages : Walk!Walkable(p) /\ \A c \in CellsOf(db, p) : c.readable /\ Walk!IsText(c.key)
         /\ \A r \in Rowids : \E p \in Walk!IndexPages : \E c \in CellsOf(db, p) :
              c.rowid = r /\ c.key = KeyOf(file, stmt, Best.columns, r, 1)
<1> DEFINE tree == Walk!Subtree(db)[db.index]
           entries == UNION {CellsOf(db, p) : p \in tree}
           columns == Best.columns
           Key(r, n) == KeyOf(file, stmt, columns, r, n)
<1>1. /\ db.index # 0 /\ 1 \in DOMAIN columns /\ db = Scanned(file, stmt) /\ db \in ScannedTrees
      /\ columns \in Seq(ToSet(Columns))
  BY SearchFacts DEF FixedInv, ScannedTrees
<1>2. IndexStored(file, stmt)
  BY FilesHoldTables, PlainIsPlanned DEF FixedInv
<1>3. /\ {c.rowid : c \in entries} = Rowids
      /\ \A c \in entries : c.key = Key(c.rowid, 1)
      /\ \A c \in entries :
           IF \/ IndexedValue(file, stmt, columns, c.rowid, 1).type = "null"
              \/ \E n \in DOMAIN columns : IndexedValue(file, stmt, columns, c.rowid, n).type = "other"
             THEN ~c.readable
             ELSE IndexedValue(file, stmt, columns, c.rowid, 1).type = "text" => c.readable
      /\ Values # <<>> => \A p \in tree : CellsOf(db, p) # {}
  BY <1>1, <1>2, SameTrees DEF IndexStored, Scan!EntriesInOrder, Rowids, Values, Best
<1>4. \A p \in tree :
        /\ db.pages[p].type \in {"leaf_index", "interior_index"}
        /\ \A i, j \in DOMAIN db.pages[p].cells :
             i < j => Precedes(file, stmt, columns, db.pages[p].cells[i], db.pages[p].cells[j])
        /\ \A i \in DOMAIN db.pages[p].cells, j \in DOMAIN Walk!Links(db)[p] :
             \A e \in Walk!LeafCells(db, Walk!Subtree(db)[Walk!Links(db)[p][j]]) :
               IF j <= i THEN Precedes(file, stmt, columns, e, db.pages[p].cells[i])
                         ELSE Precedes(file, stmt, columns, db.pages[p].cells[i], e)
        /\ db.pages[p].type = "leaf_index" =>
             \A e \in Walk!LeafCells(db, {p}) :
               e.rowid \in {c.rowid : c \in Walk!LeafCells(db, Walk!Subtree(db)[db.table])} \ {0}
  <2>1. \A p \in Scan!Subtree(db)[db.index] :
          /\ db.pages[p].type \in {"leaf_index", "interior_index"}
          /\ \A i, j \in DOMAIN db.pages[p].cells :
               i < j => Precedes(file, stmt, columns, db.pages[p].cells[i], db.pages[p].cells[j])
          /\ \A i \in DOMAIN db.pages[p].cells, j \in DOMAIN Scan!Links(db)[p] :
               \A e \in Scan!LeafCells(db, Scan!Subtree(db)[Scan!Links(db)[p][j]]) :
                 IF j <= i THEN Precedes(file, stmt, columns, e, db.pages[p].cells[i])
                           ELSE Precedes(file, stmt, columns, db.pages[p].cells[i], e)
          /\ db.pages[p].type = "leaf_index" =>
               \A e \in Scan!LeafCells(db, {p}) :
                 e.rowid \in {c.rowid : c \in Scan!LeafCells(db, Scan!Subtree(db)[db.table])} \ {0}
    BY <1>1, <1>2 DEF IndexStored, Scan!EntriesInOrder, Best
  <2>2. /\ Scan!Subtree(db) = Walk!Subtree(db) /\ Scan!Links(db) = Walk!Links(db)
        /\ \A pages : Scan!LeafCells(db, pages) = Walk!LeafCells(db, pages)
    BY SameTrees
  <2> QED
    BY <2>1, <2>2
<1>5. /\ db.index \in DOMAIN db.pages /\ tree \subseteq DOMAIN db.pages /\ Walk!IndexPages = tree
      /\ \A p \in tree : /\ Walk!Subtree(db)[p] \subseteq tree /\ p \in DOMAIN db.pages
                         /\ \A j \in DOMAIN Walk!Links(db)[p] :
                              Walk!Subtree(db)[Walk!Links(db)[p][j]] \subseteq tree
  <2>1. db.index \in DOMAIN db.pages
    BY <1>1, TreesOfFiles DEF Walk!WellFormedTrees
  <2>2. tree \subseteq DOMAIN db.pages /\ \A p \in tree : Walk!Subtree(db)[p] \subseteq tree
    BY <1>1, <2>1, TreesOfFiles, TextsAsked, Walk!Subtrees
  <2>3. \A p \in DOMAIN db.pages : \A j \in DOMAIN Walk!Links(db)[p] :
          Walk!Subtree(db)[Walk!Links(db)[p][j]] \subseteq Walk!Subtree(db)[p]
    <3> SUFFICES ASSUME NEW p \in DOMAIN db.pages, NEW j \in DOMAIN Walk!Links(db)[p]
                 PROVE  Walk!Subtree(db)[Walk!Links(db)[p][j]] \subseteq Walk!Subtree(db)[p]
      OBVIOUS
    <3>1. Walk!Subtree(db)[p] =
            {p} \cup UNION {Walk!Subtree(db)[Walk!Links(db)[p][i]] : i \in DOMAIN Walk!Links(db)[p]}
      BY <1>1, TreesOfFiles, TextsAsked, Walk!Subtrees
    <3> QED
      BY <3>1
  <2>4. Walk!IndexPages = tree
    BY <1>1 DEF Walk!IndexPages, Walk!IndexScan
  <2> QED
    BY <2>1, <2>2, <2>3, <2>4
<1>6. /\ \A p \in tree : \A i \in DOMAIN db.pages[p].cells : db.pages[p].cells[i] \in entries
      /\ \A S \in SUBSET tree : \A e \in Walk!LeafCells(db, S) : e \in entries
  BY DEF CellsOf, Walk!LeafCells
<1>7. \A c \in entries : c.rowid \in Rowids
  BY <1>3
<1>8. /\ Rowids \subseteq Nat \ {0} /\ Rowids # {}
      /\ \A r \in Rowids : \A n \in DOMAIN columns : Key(r, n) \in Nat
      /\ \A r \in Rowids : Walk!IsText(Key(r, 1))
  BY <1>1, TableFacts, PlainIsPlanned, KeyFacts DEF PlainWhere, PlainTable, Walk!IsText
<1>9. \A r, q \in Rowids : \A n \in DOMAIN columns :
        r < q /\ n > 1 /\ (\A m \in 1 .. n - 1 : Key(r, m) = Key(q, m)) => Key(r, n) <= Key(q, n)
  BY DEF PlainWhere, ScannedWhole, ScannedInOrder, Best
<1>10. DOMAIN columns \subseteq Nat \ {0}
  BY <1>1, LenProperties
<1>15. \A c \in entries : c.readable
  <2> SUFFICES ASSUME NEW c \in entries PROVE c.readable
    OBVIOUS
  <2>1. c.rowid \in Rowids
    BY <1>3
  <2>2. \A n \in DOMAIN columns : IndexedValue(file, stmt, columns, c.rowid, n).type = "text"
    BY <2>1, KeyFacts
  <2> HIDE DEF columns, entries
  <2> QED
    BY <1>1, <1>3, <2>2
<1> HIDE DEF Key, columns, entries, tree
<1>11. ASSUME NEW a \in entries, NEW b \in entries, Precedes(file, stmt, columns, a, b)
       PROVE  Walk!Before(a, b)
  <2>1. /\ a.rowid \in Rowids /\ b.rowid \in Rowids /\ a.rowid \in Nat /\ b.rowid \in Nat
        /\ a.key = Key(a.rowid, 1) /\ b.key = Key(b.rowid, 1)
    BY <1>3, <1>7, <1>8
  <2>2. CASE a.rowid < b.rowid /\ \A n \in DOMAIN columns : Key(a.rowid, n) = Key(b.rowid, n)
    BY <1>1, <2>1, <2>2 DEF Walk!Before, columns
  <2>3. ASSUME NEW n \in DOMAIN columns, Key(a.rowid, n) < Key(b.rowid, n),
               \A m \in 1 .. n - 1 : Key(a.rowid, m) = Key(b.rowid, m)
        PROVE  Walk!Before(a, b)
    <3>1. n \in Nat \ {0} /\ Key(a.rowid, n) \in Nat /\ Key(b.rowid, n) \in Nat
      BY <1>8, <1>10, <2>1
    <3>2. CASE n = 1
      BY <2>1, <2>3, <3>2 DEF Walk!Before
    <3>3. CASE n > 1
      <4>1. 1 \in 1 .. n - 1
        BY <3>1, <3>3
      <4>2. a.key = b.key
        BY <2>1, <2>3, <4>1
      <4>3. a.rowid # b.rowid
        BY <2>3, <3>1
      <4>4. ~ (b.rowid < a.rowid)
        <5> SUFFICES ASSUME b.rowid < a.rowid PROVE FALSE
          OBVIOUS
        <5>1. \A m \in 1 .. n - 1 : Key(b.rowid, m) = Key(a.rowid, m)
          BY <2>3
        <5>2. Key(b.rowid, n) <= Key(a.rowid, n)
          BY <1>9, <2>1, <3>3, <5>1
        <5> QED
          BY <2>3, <3>1, <5>2
      <4> QED
        BY <2>1, <4>2, <4>3, <4>4 DEF Walk!Before
    <3> QED
      BY <3>1, <3>2, <3>3
  <2> QED
    BY <1>11, <2>2, <2>3 DEF Precedes, Key
<1>12. Walk!EntriesInOrder(db, Walk!Before)
  <2>1. ASSUME NEW p \in tree
        PROVE  /\ db.pages[p].type \in {"leaf_index", "interior_index"}
               /\ \A i, j \in DOMAIN db.pages[p].cells :
                    i < j => Walk!Before(db.pages[p].cells[i], db.pages[p].cells[j])
               /\ \A i \in DOMAIN db.pages[p].cells, j \in DOMAIN Walk!Links(db)[p] :
                    \A e \in Walk!LeafCells(db, Walk!Subtree(db)[Walk!Links(db)[p][j]]) :
                      IF j <= i THEN Walk!Before(e, db.pages[p].cells[i])
                                ELSE Walk!Before(db.pages[p].cells[i], e)
               /\ db.pages[p].type = "leaf_index" =>
                    \A e \in Walk!LeafCells(db, {p}) :
                      e.rowid \in {c.rowid : c \in Walk!LeafCells(db, Walk!Subtree(db)[db.table])} \ {0}
    <3>1. /\ db.pages[p].type \in {"leaf_index", "interior_index"}
          /\ db.pages[p].type = "leaf_index" =>
               \A e \in Walk!LeafCells(db, {p}) :
                 e.rowid \in {c.rowid : c \in Walk!LeafCells(db, Walk!Subtree(db)[db.table])} \ {0}
      BY <1>4
    <3>2. ASSUME NEW i \in DOMAIN db.pages[p].cells, NEW j \in DOMAIN db.pages[p].cells, i < j
          PROVE  Walk!Before(db.pages[p].cells[i], db.pages[p].cells[j])
      <4>1. Precedes(file, stmt, columns, db.pages[p].cells[i], db.pages[p].cells[j])
        BY <1>4, <3>2
      <4>2. db.pages[p].cells[i] \in entries /\ db.pages[p].cells[j] \in entries
        BY <1>6
      <4> QED
        BY <1>11, <4>1, <4>2
    <3>3. ASSUME NEW i \in DOMAIN db.pages[p].cells, NEW j \in DOMAIN Walk!Links(db)[p],
                 NEW e \in Walk!LeafCells(db, Walk!Subtree(db)[Walk!Links(db)[p][j]])
          PROVE  IF j <= i THEN Walk!Before(e, db.pages[p].cells[i])
                           ELSE Walk!Before(db.pages[p].cells[i], e)
      <4>1. db.pages[p].cells[i] \in entries /\ e \in entries
        BY <1>5, <1>6
      <4>2. IF j <= i THEN Precedes(file, stmt, columns, e, db.pages[p].cells[i])
                      ELSE Precedes(file, stmt, columns, db.pages[p].cells[i], e)
        BY <1>4
      <4> QED
        BY <1>11, <4>1, <4>2
    <3> QED
      BY <3>1, <3>2, <3>3
  <2> QED
    BY <2>1 DEF Walk!EntriesInOrder, tree
<1>13. ASSUME NEW p \in Walk!IndexPages
       PROVE  Walk!Walkable(p) /\ \A c \in CellsOf(db, p) : c.readable /\ Walk!IsText(c.key)
  <2>1. p \in tree /\ p \in DOMAIN db.pages /\ Values # <<>>
    BY <1>5, <1>8 DEF Rowids
  <2>2. Walk!Walkable(p)
    BY <1>3, <2>1 DEF Walk!Walkable, Walk!Cells, CellsOf
  <2>3. \A c \in CellsOf(db, p) : c \in entries
    BY <2>1 DEF entries
  <2> QED
    BY <1>3, <1>7, <1>8, <1>15, <2>2, <2>3
<1>14. ASSUME NEW r \in Rowids
       PROVE  \E p \in Walk!IndexPages : \E c \in CellsOf(db, p) : c.rowid = r /\ c.key = Key(r, 1)
  <2>1. PICK c \in entries : c.rowid = r
    BY <1>3
  <2>2. PICK p \in tree : c \in CellsOf(db, p)
    BY DEF entries
  <2> QED
    BY <1>3, <1>5, <2>1, <2>2
<1> QED
  BY <1>12, <1>13, <1>14 DEF Walk!OrderedIndex, Key, columns

\* The scan of a plain statement: its file is in order and can be read, and it
\* answers with every row SQL does.
LEMMA PlainScan ==
  ASSUME FixedInv, PlainWhere
  PROVE  /\ Walk!FileInOrder /\ Walk!Sound
         /\ Matches \subseteq Walk!Answer /\ Matches \subseteq Rowids
         /\ Walk!IndexScan => HasPredicate(file, stmt) /\ Usable(FirstPredicate(file, stmt))
<1>1. /\ Rowids \subseteq Nat \ {0} /\ Walk!OrderedTable(db) /\ Walk!TableRowids = Rowids
      /\ \A p \in Walk!TablePages : Walk!Walkable(p)
      /\ \A c \in Walk!LeafCells(db, Walk!TablePages) : c.readable = ~HasOther(Values[c.rowid])
      /\ \A r \in Rowids : ~HasOther(Values[r])
  BY TableFacts, PlainIsPlanned DEF PlainWhere, PlainTable
<1>5. \A c \in Walk!LeafCells(db, Walk!TablePages) : c.readable
  BY <1>1 DEF Walk!TableRowids
<1>2. Matches \subseteq Rowids
  BY DEF Matches
<1>3. CASE Best = NoIndex
  <2>1. db.index = 0
    BY <1>3, PlainIsPlanned DEF FixedInv, Scanned, Best, NoIndex
  <2>2. ~ Walk!IndexScan /\ Walk!IndexPages = {}
    BY <2>1 DEF Walk!IndexScan, Walk!IndexPages
  <2>3. Walk!FileInOrder /\ Walk!Sound
    BY <1>1, <1>5, <2>1, <2>2 DEF Walk!FileInOrder, Walk!OrderedIndex, Walk!Equality, Walk!Sound
  <2>4. \A r \in Rowids : 1 .. r \subseteq Rowids
    BY <1>3 DEF PlainWhere, ScannedWhole, Best
  <2>5. Walk!Answer = Rowids
    BY <1>1, <2>2, <2>4 DEF Walk!Answer
  <2> QED
    BY <1>2, <2>2, <2>3, <2>5
<1>4. CASE Best # NoIndex
  <2>1. /\ HasPredicate(file, stmt) /\ Usable(FirstPredicate(file, stmt))
        /\ predicate.op = "=" /\ predicate.value \in Nat /\ Walk!IndexScan
    BY <1>4, SearchFacts DEF Walk!IndexScan
  <2>2. /\ Walk!OrderedIndex(db)
        /\ \A p \in Walk!IndexPages : Walk!Walkable(p) /\ \A c \in CellsOf(db, p) : c.readable /\ Walk!IsText(c.key)
    BY <1>4, IndexFacts
  <2>3. Walk!FileInOrder
    BY <1>1, <2>1, <2>2 DEF Walk!FileInOrder, Walk!Equality
  <2>4. Walk!Sound
    BY <1>1, <1>5, <2>2 DEF Walk!Sound, CellsOf, Walk!Cells
  <2>5. PICK e \in ToSet(stmt.where) : \A r : SqlHolds(r, e) =>
          Values[r][Position(Columns, Best.columns[1])] = Text(predicate.value)
    BY <1>4, SearchFacts
  <2>6. ASSUME NEW r \in Matches
        PROVE  \E p \in Walk!IndexPages : r \in Walk!Matching(p)
    <3>1. r \in Rowids /\ SqlHolds(r, e)
      BY DEF Matches
    <3>2. KeyOf(file, stmt, Best.columns, r, 1) = predicate.value
      <4>1. KeyOf(file, stmt, Best.columns, r, 1) = Values[r][Position(Columns, Best.columns[1])].value
        BY <1>4, <3>1, KeyFacts
      <4>2. Values[r][Position(Columns, Best.columns[1])] = Text(predicate.value)
        BY <2>5, <3>1
      <4> QED
        BY <4>1, <4>2 DEF Text
    <3>3. PICK p \in Walk!IndexPages : \E c \in CellsOf(db, p) : c.rowid = r /\ c.key = predicate.value
      <4>1. \E p \in Walk!IndexPages : \E c \in CellsOf(db, p) :
              c.rowid = r /\ c.key = KeyOf(file, stmt, Best.columns, r, 1)
        BY <1>4, <3>1, IndexFacts
      <4> QED
        BY <3>2, <4>1
    <3>4. r \in Walk!Matching(p)
      BY <3>3 DEF Walk!Matching, Walk!Cells, CellsOf
    <3> QED
      BY <3>4
  <2>7. \A p, q \in Walk!IndexPages : Walk!Matching(p) # {} /\ Walk!Matching(q) # {} =>
          p = q /\ db.pages[p].type = "leaf_index"
    BY <1>4, SameTrees DEF PlainWhere, ScannedWhole, Best
  <2>8. ASSUME NEW r \in Matches
        PROVE  r \in Walk!Answer
    <3>1. PICK p \in Walk!IndexPages : r \in Walk!Matching(p)
      BY <2>6
    <3>2. p \in Walk!IndexPagesOf("leaf_index")
      BY <2>7, <3>1 DEF Walk!IndexPagesOf
    <3>3. Walk!LeafMatches \subseteq Walk!Matching(p)
      BY <2>7, <3>1 DEF Walk!LeafMatches, Walk!IndexPagesOf
    <3>4. \A x \in Walk!Matching(p) : x \in Nat
      <4> SUFFICES ASSUME NEW i \in DOMAIN db.pages[p].cells
                   PROVE  db.pages[p].cells[i].rowid \in Nat
        BY DEF Walk!Matching, Walk!Cells
      <4>1. db \in ScannedTrees /\ p \in DOMAIN db.pages
        BY <3>1, <2>2 DEF FixedInv, ScannedTrees, Walk!Walkable
      <4>2. Walk!IsPage(db.pages[p], DOMAIN db.pages) /\ db.pages[p].type = "leaf_index"
        BY <3>2, <4>1, TreesOfFiles DEF Walk!WellFormedTrees, Walk!IndexPagesOf
      <4>3. db.pages[p].cells \in Seq([key : Nat, rowid : Nat, readable : BOOLEAN])
        BY <4>2 DEF Walk!IsPage, Walk!CellsOfType
      <4>4. db.pages[p].cells[i] \in [key : Nat, rowid : Nat, readable : BOOLEAN]
        BY <4>3, ElementOfSeq, LenProperties
      <4> QED
        BY <4>4
    <3>5. \A x \in Walk!LeafMatches : \E m \in Walk!Matching(p) : m <= x
      BY <3>3, <3>4
    <3> QED
      BY <2>1, <3>1, <3>2, <3>5 DEF Walk!Answer
  <2> QED
    BY <1>2, <2>1, <2>3, <2>4, <2>8
<1> QED
  BY <1>3, <1>4

\* What SQL gives is what the filter lets through.
LEMMA AcceptedMatches ==
  ASSUME FixedInv, PlainWhere, NEW r \in Rowids
  PROVE  Accepted(r) <=> r \in Matches
<1>1. ASSUME NEW e \in ToSet(stmt.where)
      PROVE  Compare(SqlValue(r, e.left), e.op, SqlValue(r, e.right)) <=> SqlHolds(r, e)
  <2>1. PlainCondition(e)
    BY DEF PlainWhere
  <2>2. /\ e.op = "=" /\ Operands(e) = {e.left, e.right}
        /\ e.left.kind \in {"column", "string"} /\ e.right.kind \in {"column", "string"}
        /\ \E o \in Operands(e) : o.kind = "column"
    BY <2>1 DEF PlainCondition, Operands
  <2>3. \E p \in Operands(e) : SqlValue(r, p) # Null
    <3>1. CASE e.left.kind = e.right.kind
      BY <2>1, <2>2, <3>1 DEF PlainCondition
    <3>2. CASE e.left.kind # e.right.kind
      <4>1. PICK o \in Operands(e) : o.kind = "string"
        BY <2>2, <3>2
      <4>2. SqlValue(r, o) = Text(o.text)
        BY <4>1 DEF SqlValue
      <4> QED
        BY <4>2 DEF Text, Null
    <3> QED
      BY <3>1, <3>2
  <2> DEFINE a == SqlValue(r, e.left)
             b == SqlValue(r, e.right)
  <2>4. a # Null \/ b # Null
    BY <2>2, <2>3
  <2>5. Compare(a, "=", b) <=> a.type = b.type /\ a = b
    BY DEF Compare
  <2> HIDE DEF a, b
  <2> QED
    BY <2>2, <2>4, <2>5 DEF SqlHolds, a, b
<1> QED
  BY <1>1 DEF Accepted, Matches

\* The conditions of a plain statement can be compared with each of its rows.
LEMMA VerdictPlain ==
  ASSUME WalkInv, FixedInv, PlainWhere, RowShared, AtRow
  PROVE  Verdict \in {"true", "false"}
<1> DEFINE r == rows[Len(rows)]
<1>1. row = [rowid |-> r, values |-> Values[r]] /\ r \in Rowids
  <2>1. Len(rows) \in DOMAIN rows
    BY WalkTypes, EmptySeq DEF RowShared
  <2> QED
    BY <2>1, RowsAreRecords, PlainIsPlanned DEF RowShared
<1>2. \A name \in ToSet(Columns) : Position(Columns, name) \in DOMAIN Values[r]
  <2>1. /\ Values[r] \in Seq(RecordValues)
        /\ Columns \in Seq(ToSet(Columns)) /\ Len(Values[r]) = Len(Columns)
    BY <1>1, TableFacts, PlainIsPlanned DEF PlainWhere, PlainTable
  <2>2. DOMAIN Values[r] = DOMAIN Columns
    BY <2>1, LenProperties
  <2> QED
    BY <2>2, PlaceOf
<1>3. ASSUME NEW e \in ToSet(stmt.where)
      PROVE  Evaluate(e) \in {"true", "false"}
  <2>1. PlainCondition(e)
    BY DEF PlainWhere
  <2>2. e.kind = "binary" /\ \A o \in Operands(e) : o.kind # "function" /\ Readable(o)
    BY <1>1, <1>2, <2>1 DEF PlainCondition, Readable, ColumnPosition, Columns
  <2> QED
    BY <2>2 DEF Evaluate
<1> DEFINE fail == {i \in DOMAIN stmt.where : Evaluate(stmt.where[i]) # "true"}
<1>4. fail # {} => Min(fail) \in DOMAIN stmt.where
  BY Clauses, MinIsIn
<1>5. \A i \in DOMAIN stmt.where : Evaluate(stmt.where[i]) \in {"true", "false"}
  BY <1>3 DEF ToSet
<1> HIDE DEF r
<1> QED
  BY <1>4, <1>5 DEF Verdict

\* The places of the columns selected, and which of them is the rowid's.
LEMMA SelectFacts ==
  ASSUME FixedInv, PlainWhere, PlainSelect
  PROVE  /\ DOMAIN stmt.select = 1 .. Len(stmt.select) /\ Len(stmt.select) \in Nat
         /\ DOMAIN Indexes = DOMAIN stmt.select
         /\ \A i \in DOMAIN stmt.select :
              /\ i \in DOMAIN Columns
              /\ Indexes[i] = Position(Columns, stmt.select[i].name) /\ Indexes[i] \in DOMAIN Columns
              /\ i \in Copied <=> ~AliasesRowid(stmt.select[i].name)
<1>1. stmt.select \in Seq(ToSet(stmt.select))
  BY FilesAssumption DEF FixedInv
<1>2. DOMAIN stmt.select = 1 .. Len(stmt.select) /\ Len(stmt.select) \in Nat
  BY <1>1, LenProperties
<1>3. SelectedColumns(stmt) = stmt.select /\ Aggregates(stmt) = <<>>
  BY DEF PlainSelect, HasAggregates
<1>4. /\ DOMAIN Indexes = DOMAIN stmt.select
      /\ \A i \in DOMAIN stmt.select : Indexes[i] = Position(Columns, stmt.select[i].name)
  BY <1>3 DEF Indexes, ProjectionIndexes, Columns
<1>5. Columns \in Seq(ToSet(Columns)) /\ Len(Columns) \in Nat /\ DOMAIN Columns = 1 .. Len(Columns)
  BY TableFacts, PlainIsPlanned, LenProperties
<1>6. ASSUME NEW i \in DOMAIN stmt.select
      PROVE  /\ i \in DOMAIN Columns /\ Indexes[i] \in DOMAIN Columns
             /\ i \in Copied <=> ~AliasesRowid(stmt.select[i].name)
  <2>1. i \in 1 .. Len(stmt.select) /\ Len(stmt.select) <= Len(Columns)
    BY <1>2 DEF PlainSelect
  <2>2. Indexes[i] \in DOMAIN Columns
    BY <1>4, PlaceOf DEF PlainSelect
  <2>3. i \in Copied <=> (FirstColIsRowid(file, stmt.table) => i > 1)
    BY <1>4 DEF Copied
  <2>4. FirstColIsRowid(file, stmt.table) => (i = 1 <=> AliasesRowid(stmt.select[i].name))
    BY DEF PlainSelect
  <2>5. AliasesRowid(stmt.select[i].name) => FirstColIsRowid(file, stmt.table)
    BY DEF AliasesRowid
  <2> QED
    BY <1>2, <1>5, <2>1, <2>2, <2>3, <2>4, <2>5
<1> QED
  BY <1>2, <1>4, <1>6

\* Of a plain statement's row what SQL gives is printed, and all of it is there.
LEMMA PrintedIsRow ==
  ASSUME FixedInv, PlainWhere, PlainSelect, NEW r \in Rowids
  PROVE  /\ PrintedOf(r) = SqlRow(r)
         /\ \A i \in Copied : {i, Indexes[i]} \subseteq DOMAIN Values[r]
<1>1. PrintedOf(r) = SqlRow(r)
  BY SelectFacts DEF PrintedOf, SqlRow
<1>2. DOMAIN Values[r] = DOMAIN Columns
  <2>1. /\ Values[r] \in Seq(RecordValues)
        /\ Columns \in Seq(ToSet(Columns)) /\ Len(Values[r]) = Len(Columns)
    BY TableFacts, PlainIsPlanned DEF PlainWhere, PlainTable
  <2> QED
    BY <2>1, LenProperties
<1>3. Copied \subseteq DOMAIN stmt.select
  BY SelectFacts DEF Copied
<1> QED
  BY <1>1, <1>2, <1>3, SelectFacts

-----------------------------------------------------------------------------
(***************************************************************************)
(* How a statement goes on: its end, and that it is not ended early.       *)
(***************************************************************************)
EndInv == stage \in {"exhausted", "end"} \/ done => pc = "exhausted"

LEMMA EndInitInv == Init => EndInv
BY DEF Init, EndInv

LEMMA ScanGoesOn ==
  ASSUME ScanStep
  PROVE  pc \notin {"exhausted", "exit", "undefined"}
BY DEF ScanStep, Scan!Step, Scan!ProduceRow, Scan!UseRowid, Scan!InteriorIndexStep, Scan!LeafIndexStep,
       Scan!NoRowid, Scan!InteriorTableStep, Scan!LeafTableStep, Scan!NoRow,
       Scan!UnreadableRow, Scan!NumberReadAsText

LEMMA EndNextInv ==
  ASSUME EndInv, [Next]_vars
  PROVE  EndInv'
<1>1. CASE ScanStep
  BY <1>1, ScanGoesOn DEF EndInv, ScanStep
<1>2. CASE \/ Execute \/ NoUsablePredicate \/ Filter \/ Aggregate
            \/ UnrecognisedAggregate \/ Exhausted \/ Project
  <2>1. UNCHANGED pc
    BY <1>2 DEF walker, Execute, NoUsablePredicate, Filter, Aggregate, UnrecognisedAggregate,
                Exhausted, AfterLast, Project
  <2>2. CASE \/ Execute \/ NoUsablePredicate \/ Aggregate
             \/ UnrecognisedAggregate \/ Exhausted \/ Project
    BY <2>1, <2>2 DEF EndInv, Execute, NoUsablePredicate, Aggregate, UnrecognisedAggregate,
                      Exhausted, AfterLast, Project
  <2>3. CASE Filter
    <3>1. stage' \notin {"exhausted", "end"}
      <4>1. \A e : Evaluate(e) \in {"true", "false", "exit", "undefined"}
        BY DEF Evaluate
      <4>2. Verdict \in {"true", "false", "exit", "undefined"}
        BY <4>1 DEF Verdict
      <4> QED
        BY <2>3, <4>2 DEF Filter, AfterRow, Above
    <3>2. done' = done
      BY <2>3 DEF Filter
    <3> QED
      BY <2>1, <3>1, <3>2 DEF EndInv
  <2> QED
    BY <1>2, <2>2, <2>3
<1>3. CASE UNCHANGED vars
  BY <1>3 DEF vars, walker, EndInv
<1> QED
  BY <1>1, <1>2, <1>3 DEF Next, Step, Ended

\* Plain statements mean the same after a step.
LEMMA PlainKept ==
  ASSUME UNCHANGED <<file, stmt, db, predicate>>
  PROVE  (PlainWhere' <=> PlainWhere) /\ (PlainSelect' <=> PlainSelect)
<1>1. /\ Rowids' = Rowids /\ Values' = Values /\ Columns' = Columns /\ IndexColumns' = IndexColumns
      /\ HasAggregates' = HasAggregates
  BY DEF Rowids, Values, Columns, IndexColumns, HasAggregates
<1>2. /\ \A name : AliasesRowid(name)' <=> AliasesRowid(name)
      /\ \A r, o : SqlValue(r, o)' = SqlValue(r, o)
  BY <1>1 DEF AliasesRowid, SqlValue
<1>3. PlainTable' <=> PlainTable
  BY <1>1 DEF PlainTable
<1>4. \A e : PlainCondition(e)' <=> PlainCondition(e)
  BY <1>1, <1>2 DEF PlainCondition
<1>5. SearchedFirst' <=> SearchedFirst
  BY DEF SearchedFirst
<1>6. ScannedWhole' <=> ScannedWhole
  <2>1. ScannedInOrder' <=> ScannedInOrder
    BY <1>1 DEF ScannedInOrder
  <2>2. Scan!IndexPages' = Scan!IndexPages
    BY DEF Scan!IndexPages, Scan!IndexScan
  <2>3. \A p : Scan!Matching(p)' = Scan!Matching(p)
    BY DEF Scan!Matching, Scan!Cells
  <2> QED
    BY <1>1, <2>1, <2>2, <2>3 DEF ScannedWhole
<1>7. PlainSelect' <=> PlainSelect
  BY <1>1, <1>2 DEF PlainSelect
<1> QED
  BY <1>3, <1>4, <1>5, <1>6, <1>7 DEF PlainWhere

\* A plain statement is not ended early.
AliveInv == PlainWhere /\ PlainSelect => ~Dead /\ stage # "aggregate"

LEMMA AliveInitInv ==
  ASSUME WalkInv, FixedInv, Init
  PROVE  AliveInv
<1> SUFFICES ASSUME PlainWhere, PlainSelect PROVE ~Dead /\ stage # "aggregate"
  BY DEF AliveInv
<1>1. ~ExitsBeforeScan(file, stmt)
  BY PlainIsPlanned
<1>2. pc # "exit"
  BY PlainScan DEF WalkInv, Walk!AnswerSoFar
<1>3. ~CrashesInResolver(file, stmt)
  <2>1. ASSUME NEW e \in ToSet(stmt.where)
        PROVE  ResolvedColumns(e) \subseteq ToSet(Columns)
    <3>1. PlainCondition(e)
      BY DEF PlainWhere
    <3>2. \A o \in Operands(e) : /\ o.kind # "function"
                                 /\ o.kind = "column" => o.name \in ToSet(Columns)
      BY <3>1 DEF PlainCondition
    <3> QED
      BY <3>2 DEF ResolvedColumns, ColumnsIn
  <2>2. {e.name : e \in ToSet(SelectedColumns(stmt))} \subseteq ToSet(Columns)
    BY DEF PlainSelect, ToSet
  <2> QED
    BY <2>1, <2>2 DEF CrashesInResolver, Columns
<1>4. stage = "execute"
  BY <1>1, <1>2, <1>3 DEF Init
<1> QED
  BY <1>4 DEF Dead

LEMMA AliveNextInv ==
  ASSUME WalkInv, WalkInv', FixedInv, RowInv, AliveInv, [Next]_vars
  PROVE  AliveInv'
<1>1. UNCHANGED <<file, stmt>> /\ UNCHANGED <<db, predicate>>
  BY Kept
<1> SUFFICES ASSUME PlainWhere, PlainSelect, ~Dead, stage # "aggregate"
             PROVE  ~Dead' /\ stage' # "aggregate"
  BY <1>1, PlainKept DEF AliveInv
<1>2. ~HasAggregates /\ Above = "project"
  BY DEF PlainSelect, Above
<1>3. CASE ScanStep
  <2>1. pc' \notin {"exit", "undefined"}
    <3>1. Walk!FileInOrder' /\ Walk!Sound'
      <4>1. Walk!Sound'
        BY <1>1, PlainScan, Walk!AnswerKept, TreesOfFiles, TextsAsked
      <4>2. Walk!FileInOrder'
        BY <1>1, PlainScan DEF Walk!FileInOrder, Walk!Equality, Walk!IndexScan
      <4> QED
        BY <4>1, <4>2
    <3> QED
      BY <3>1 DEF WalkInv, Walk!AnswerSoFar
  <2> QED
    BY <1>3, <2>1 DEF ScanStep, Dead
<1>4. CASE NoUsablePredicate
  <2>1. pc = "seek_rowid"
    BY <1>4 DEF NoUsablePredicate, AtIndex
  <2>2. Walk!IndexScan
    BY <2>1, PlainScan DEF WalkInv, Walk!AnswerSoFar
  <2> QED
    BY <1>4, <2>2, PlainScan DEF NoUsablePredicate
<1>5. CASE Filter
  <2>1. Verdict \in {"true", "false"} /\ stage' = AfterRow(Verdict)
    BY <1>5, VerdictPlain DEF Filter, RowInv, AtRow
  <2> QED
    BY <1>2, <2>1 DEF AfterRow, Dead
<1>6. CASE Project
  <2>1. stage = "project" /\ AtRow
    BY <1>2, <1>6 DEF Project, AtRow
  <2> DEFINE r == rows[Len(rows)]
  <2>2. row.values = Values[r] /\ rows # <<>>
    BY <2>1 DEF RowInv, RowShared
  <2>3. r \in Rowids
    <3>1. Len(rows) \in DOMAIN rows
      BY <2>2, WalkTypes, EmptySeq
    <3> QED
      BY <3>1, RowsAreRecords, PlainIsPlanned
  <2> HIDE DEF r
  <2>4. \A i \in Copied : {i, Indexes[i]} \subseteq DOMAIN row.values
    BY <2>2, <2>3, PrintedIsRow
  <2>5. stage' = "execute"
    BY <1>6, <2>4 DEF Project
  <2> QED
    BY <2>5 DEF Dead
<1>7. CASE Execute \/ Aggregate \/ UnrecognisedAggregate \/ Exhausted
  BY <1>2, <1>7 DEF Execute, Aggregate, UnrecognisedAggregate, Exhausted, AfterLast, Dead
<1>8. CASE UNCHANGED vars
  BY <1>8 DEF vars, Dead
<1> QED
  BY <1>3, <1>4, <1>5, <1>6, <1>7, <1>8 DEF Next, Step, Ended

-----------------------------------------------------------------------------
\* The rows of SQL's answer, as they are listed.
LEMMA AnswerListed ==
  ASSUME FixedInv, PlainWhere
  PROVE  /\ Cardinality(Matches) \in Nat /\ AreNumbers(Matches, Cardinality(Matches))
         /\ \E order : /\ Lists(order, Cardinality(Matches), Matches)
                       /\ SqlAnswer = [k \in 1 .. Cardinality(Matches) |-> SqlRow(order[k])]
<1> DEFINE all == Cardinality(Matches)
<1>1. all \in Nat /\ AreNumbers(Matches, all)
  <2>1. IsFiniteSet(Rowids) /\ Rowids \subseteq Nat \ {0} /\ Matches \subseteq Rowids
    BY TableFacts, PlainIsPlanned, PlainScan
  <2>2. IsFiniteSet(Matches)
    BY <2>1, FS_Subset
  <2> QED
    BY <2>1, <2>2, FS_CardinalityType DEF AreNumbers
<1> DEFINE order == CHOOSE s \in [1 .. all -> Matches] : \A i, j \in DOMAIN s : i < j => s[i] < s[j]
<1>2. order \in [1 .. all -> Matches] /\ \A i, j \in DOMAIN order : i < j => order[i] < order[j]
  <2> HIDE DEF all
  <2>1. PICK s : Lists(s, all, Matches)
    BY <1>1, CanBeListed
  <2>2. s \in [1 .. all -> Matches] /\ \A i, j \in DOMAIN s : i < j => s[i] < s[j]
    BY <2>1 DEF Lists
  <2> QED
    BY <2>2
<1>3. SqlAnswer = [k \in DOMAIN order |-> SqlRow(order[k])]
  BY DEF SqlAnswer
<1> HIDE DEF order, all
<1>4. Lists(order, all, Matches) /\ DOMAIN order = 1 .. all
  BY <1>2 DEF Lists
<1> QED
  BY <1>1, <1>3, <1>4 DEF all

\* What is printed is what SQL lists, as far as it goes.
LEMMA AnswersExact ==
  ASSUME WalkInv, FixedInv, RowInv, AnswersInv, EndInv, AliveInv
  PROVE  AnswerExact
<1> SUFFICES ASSUME PlainWhere, PlainSelect
             PROVE  /\ ~Dead /\ IsPrefix(output, SqlAnswer)
                    /\ stage = "end" => output = SqlAnswer
  BY DEF AnswerExact, Dead
<1> DEFINE all == Cardinality(Matches)
           len == Len(output)
<1>1. ~Dead /\ PrintedSoFar
  BY DEF AliveInv, AnswersInv, PlainSelect
<1>2. /\ all \in Nat /\ AreNumbers(Matches, all)
      /\ \E order : /\ Lists(order, all, Matches)
                    /\ SqlAnswer = [k \in 1 .. all |-> SqlRow(order[k])]
  BY AnswerListed
<1> HIDE DEF all
<1>3. PICK order : Lists(order, all, Matches) /\ SqlAnswer = [k \in 1 .. all |-> SqlRow(order[k])]
  BY <1>2
<1>4. /\ Walk!Answer \subseteq Nat /\ Walk!Produced \subseteq Walk!Answer
      /\ \A p \in Walk!Produced, r \in Walk!Answer \ Walk!Produced : p < r
      /\ pc = "exhausted" => Walk!Produced = Walk!Answer
      /\ Matches \subseteq Walk!Answer
  BY PlainScan DEF WalkInv, Walk!AnswerSoFar
<1>5. /\ Len(rows) \in Nat /\ DOMAIN rows = 1 .. Len(rows) /\ Passed \in Nat /\ Passed <= Len(rows)
      /\ Walk!Produced = {rows[k] : k \in 1 .. Len(rows)}
      /\ \A k \in 1 .. Len(rows) : rows[k] \in Rowids /\ rows[k] \in Nat
      /\ \A i, j \in 1 .. Len(rows) : i < j => rows[i] < rows[j]
  <2>1. Len(rows) \in Nat /\ DOMAIN rows = 1 .. Len(rows) /\ Passed \in Nat /\ Passed <= Len(rows)
    BY WalkTypes, PassedCount
  <2>2. \A k \in DOMAIN rows : rows[k] \in Rowids
    BY RowsAreRecords, PlainIsPlanned
  <2>3. Rowids \subseteq Nat
    BY TableFacts, PlainIsPlanned
  <2>4. \A i, j \in DOMAIN rows : i < j => rows[i] < rows[j]
    BY DEF WalkInv, Walk!RowsInOrder
  <2> QED
    BY <2>1, <2>2, <2>3, <2>4 DEF Walk!Produced
<1>6. PrintedFrom(output, Passed, rows)
  BY <1>1 DEF PrintedSoFar
<1>7. output \in Seq({PrintedOf(r) : r \in Nat}) /\ len \in Nat /\ DOMAIN output = 1 .. len
  BY <1>6, LenProperties DEF PrintedFrom
<1>8. PICK g \in [1 .. len -> 1 .. Passed] :
        /\ \A i, j \in 1 .. len : i < j => g[i] < g[j]
        /\ \A i \in 1 .. len : Accepted(rows[g[i]]) /\ output[i] = PrintedOf(rows[g[i]])
        /\ \A k \in 1 .. Passed : Accepted(rows[k]) => \E i \in 1 .. len : g[i] = k
  BY <1>6 DEF PrintedFrom
<1> DEFINE f == [i \in 1 .. len |-> rows[g[i]]]
<1> HIDE DEF len
<1>9. \A i \in 1 .. len : /\ g[i] \in 1 .. Passed /\ g[i] \in 1 .. Len(rows) /\ f[i] = rows[g[i]]
                          /\ f[i] \in Matches /\ f[i] \in Nat /\ f[i] \in Rowids
  <2> SUFFICES ASSUME NEW i \in 1 .. len
               PROVE  /\ g[i] \in 1 .. Passed /\ g[i] \in 1 .. Len(rows) /\ f[i] = rows[g[i]]
                      /\ f[i] \in Matches /\ f[i] \in Nat /\ f[i] \in Rowids
    OBVIOUS
  <2>1. g[i] \in 1 .. Passed /\ g[i] \in 1 .. Len(rows)
    BY <1>5
  <2>2. rows[g[i]] \in Rowids /\ rows[g[i]] \in Nat
    BY <1>5, <2>1
  <2>3. rows[g[i]] \in Matches
    BY <1>8, <2>2, AcceptedMatches
  <2> QED
    BY <2>1, <2>2, <2>3
<1>10. Lists(f, len, Matches)
  <2>1. f \in [1 .. len -> Matches]
    BY <1>9
  <2>2. \A i, j \in 1 .. len : i < j => f[i] < f[j]
    BY <1>5, <1>8, <1>9
  <2> HIDE DEF f
  <2> QED
    BY <2>1, <2>2 DEF Lists
<1> HIDE DEF f
<1>11. ASSUME NEW i \in 1 .. len, NEW m \in Matches, m < f[i]
       PROVE  \E j \in 1 .. len : f[j] = m
  <2>1. m \in Walk!Produced
    <3> SUFFICES ASSUME m \notin Walk!Produced PROVE FALSE
      OBVIOUS
    <3>1. f[i] \in Walk!Produced
      BY <1>5, <1>9
    <3>2. m \in Nat /\ f[i] < m
      BY <1>4, <3>1
    <3> QED
      BY <1>9, <1>11, <3>2
  <2>2. PICK k \in 1 .. Len(rows) : rows[k] = m
    BY <1>5, <2>1
  <2>3. k < g[i]
    <3> SUFFICES ASSUME g[i] <= k PROVE FALSE
      BY <1>5, <1>9
    <3>1. rows[g[i]] <= rows[k]
      BY <1>5, <1>9
    <3> QED
      BY <1>5, <1>9, <1>11, <2>2, <3>1
  <2>4. k \in 1 .. Passed /\ Accepted(rows[k])
    <3>1. k \in 1 .. Passed
      BY <1>5, <1>9, <2>3
    <3>2. Accepted(rows[k])
      BY <1>5, <2>2, AcceptedMatches
    <3> QED
      BY <3>1, <3>2
  <2>5. PICK j \in 1 .. len : g[j] = k
    BY <1>8, <2>4
  <2> QED
    BY <1>9, <2>2, <2>5
<1>12. len <= all /\ \A i \in 1 .. len : f[i] = order[i]
  BY <1>2, <1>3, <1>7, <1>10, <1>11, ListsAgree
<1>13. \A i \in 1 .. len : output[i] = SqlAnswer[i]
  <2> SUFFICES ASSUME NEW i \in 1 .. len PROVE output[i] = SqlAnswer[i]
    OBVIOUS
  <2>1. output[i] = PrintedOf(f[i])
    BY <1>8, <1>9
  <2>2. PrintedOf(f[i]) = SqlRow(order[i])
    BY <1>9, <1>12, PrintedIsRow
  <2>3. i \in 1 .. all
    BY <1>2, <1>7, <1>12
  <2> QED
    BY <1>3, <2>1, <2>2, <2>3
<1>14. /\ SqlAnswer \in Seq({SqlRow(order[k]) : k \in 1 .. all}) /\ Len(SqlAnswer) = all
       /\ DOMAIN SqlAnswer = 1 .. all
  BY <1>2, <1>3
<1>15. IsPrefix(output, SqlAnswer)
  <2>1. SubSeq(output, 1, len) = [i \in 1 .. len |-> output[i]]
    BY <1>7 DEF len
  <2>2. SubSeq(SqlAnswer, 1, len) = [i \in 1 .. len |-> SqlAnswer[i]]
    BY <1>7, <1>12, <1>14
  <2>3. SubSeq(output, 1, len) = SubSeq(SqlAnswer, 1, len)
    BY <1>13, <2>1, <2>2
  <2> QED
    BY <1>12, <1>14, <2>3 DEF IsPrefix, len
<1>16. ASSUME stage = "end"
       PROVE  output = SqlAnswer
  <2>1. Passed = Len(rows) /\ pc = "exhausted"
    BY <1>16, PassedCount DEF AtRow, Above, EndInv
  <2>2. ASSUME NEW m \in Matches
        PROVE  \E j \in 1 .. len : f[j] = m
    <3>1. PICK k \in 1 .. Len(rows) : rows[k] = m
      BY <1>4, <1>5, <2>1
    <3>2. Accepted(rows[k])
      BY <1>5, <3>1, AcceptedMatches
    <3>3. PICK j \in 1 .. len : g[j] = k
      BY <1>8, <2>1, <3>1, <3>2
    <3> QED
      BY <1>9, <3>1, <3>3
  <2>3. len = all
    BY <1>2, <1>3, <1>7, <1>10, <2>2, ListsComplete
  <2>4. output = [i \in 1 .. len |-> output[i]] /\ SqlAnswer = [i \in 1 .. len |-> SqlAnswer[i]]
    BY <1>3, <1>7, <2>3
  <2> QED
    BY <1>13, <2>4
<1> QED
  BY <1>1, <1>15, <1>16

\* A plain statement prints the rows SQL's answer has, in the order of their rowids,
\* never anything else, all of them when it ends, and the process does not end
\* before: whichever of the table's indexes get_best_index chose, with its predicate
\* looked up in the index and compared again by the filter (plan.c:67-152).
THEOREM AnswersAreExact == Spec => []AnswerExact
<1> DEFINE Inv == FixedInv /\ RowInv /\ AnswersInv /\ EndInv /\ AliveInv
<1>1. WalkInv /\ Init => Inv
  BY FixedInitInv, RowInitInv, AnswersInitInv, EndInitInv, AliveInitInv
<1>2. WalkInv /\ WalkInv' /\ Inv /\ [Next]_vars => Inv'
  BY FixedNextInv, RowNextInv, AnswersNextInv, EndNextInv, AliveNextInv
<1>3. WalkInv /\ Inv => AnswerExact
  BY AnswersExact
<1> HIDE DEF Inv
<1> QED
  BY <1>1, <1>2, <1>3, WalkInvariant, PTL DEF Spec, SafetySpec

-----------------------------------------------------------------------------
(***************************************************************************)
(* Aggregates: nothing is printed before the only row of one.              *)
(***************************************************************************)
OnceInv ==
  HasAggregates =>
    /\ done => stage \in {"project", "execute", "end", "undefined"}
    /\ stage \in {"project", "end"} => done
    /\ IF done /\ stage \in {"execute", "end"} THEN Len(output) = 1 ELSE output = <<>>

LEMMA OnceNextInv ==
  ASSUME OnceInv, [Next]_vars
  PROVE  OnceInv'
<1>1. HasAggregates' = HasAggregates
  BY Kept, MeaningKept
<1> SUFFICES ASSUME HasAggregates
             PROVE  /\ done' => stage' \in {"project", "execute", "end", "undefined"}
                    /\ stage' \in {"project", "end"} => done'
                    /\ IF done' /\ stage' \in {"execute", "end"} THEN Len(output') = 1 ELSE output' = <<>>
  BY <1>1 DEF OnceInv
<1>2. /\ done => stage \in {"project", "execute", "end", "undefined"}
      /\ stage \in {"project", "end"} => done
      /\ IF done /\ stage \in {"execute", "end"} THEN Len(output) = 1 ELSE output = <<>>
  BY DEF OnceInv
<1>3. CASE Execute
  BY <1>2, <1>3 DEF Execute
<1>4. CASE ScanStep
  BY <1>2, <1>4 DEF ScanStep
<1>5. CASE NoUsablePredicate
  BY <1>2, <1>5 DEF NoUsablePredicate
<1>6. CASE Filter
  <2>1. stage' \in {"aggregate", "scan", "exit", "undefined"}
    <3>1. \A e : Evaluate(e) \in {"true", "false", "exit", "undefined"}
      BY DEF Evaluate
    <3>2. Verdict \in {"true", "false", "exit", "undefined"}
      BY <3>1 DEF Verdict
    <3> QED
      BY <1>6, <3>2 DEF Filter, AfterRow, Above
  <2> QED
    BY <1>2, <1>6, <2>1 DEF Filter
<1>7. CASE Aggregate \/ UnrecognisedAggregate
  BY <1>2, <1>7 DEF Aggregate, UnrecognisedAggregate
<1>8. CASE Exhausted
  BY <1>2, <1>8 DEF Exhausted, AfterLast
<1>9. CASE Project
  <2>1. done /\ output = <<>> /\ done' = done
    BY <1>2, <1>9 DEF Project
  <2>2. CASE stage' = "execute" /\ output' = Append(output, Printed)
    <3>1. Len(output') = 1
      BY <2>1, <2>2
    <3> QED
      BY <2>1, <2>2, <3>1
  <2>3. CASE stage' = "undefined" /\ UNCHANGED output
    BY <2>1, <2>3
  <2> QED
    BY <1>9, <2>2, <2>3 DEF Project
<1>10. CASE UNCHANGED vars
  BY <1>2, <1>10 DEF vars
<1> QED
  BY <1>3, <1>4, <1>5, <1>6, <1>7, <1>8, <1>9, <1>10 DEF Next, Step, Ended

\* A statement with an aggregate prints one row at most, and exactly one if it comes
\* to its end: whatever it scans and however its conditions decide
\* (aggregate.c:24-76).
THEOREM AggregatesReturnOnce == Spec => []AggregateOnce
<1>1. Init => OnceInv
  BY DEF Init, OnceInv
<1>2. OnceInv /\ [Next]_vars => OnceInv'
  BY OnceNextInv
<1>3. OnceInv => AggregateOnce
  BY EmptySeq DEF OnceInv, AggregateOnce
<1> QED
  BY <1>1, <1>2, <1>3, PTL DEF Spec, SafetySpec

=============================================================================
