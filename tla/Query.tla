-------------------------------- MODULE Query --------------------------------
(***************************************************************************)
(* The execution of a statement by sgl (plan_execute in src/planning/      *)
(* plan.c): rows are pulled one at a time by the projection, through the   *)
(* aggregate and the filter when the plan has them, from a TreeWalker.     *)
(* There is one struct Row for all of them, overwritten in place.          *)
(*                                                                         *)
(* The statements have more lists of conditions than `parse` can make: in  *)
(* those a string is the last operand of the last condition.  In the       *)
(* program parse_new reads the text too, and today ends the process on a   *)
(* function in the select list: an aggregate gets this far only past that  *)
(* parser.                                                                 *)
(***************************************************************************)
EXTENDS QueryPlan, Integers

CONSTANTS
  Files,        \* the files queried
  Statements,   \* the statements executed
  LastNumber    \* the last of the values that are numbers

VARIABLES
  file, stmt,   \* chosen initially
  stage,        \* the operator at work, or how the statement ended
  row,          \* the row the operators share
  results,      \* of the aggregates
  done,         \* the aggregate has returned its row
  output,       \* the rows printed
  db, predicate, table_list, index_list, current_rowid, next_rowid, pc, rows, walked

walker == <<db, predicate, table_list, index_list, current_rowid, next_rowid, pc, rows, walked>>
vars == <<file, stmt, stage, row, results, done, output, walker>>

\* The trees a statement is answered from; none are read if build_plan exits first.
Scanned(f, s) ==
  [pages |-> f.pages,
   table |-> IF ExitsBeforeScan(f, s) THEN 1 ELSE TableRecord(f, s.table).root,
   index |-> IF ExitsBeforeScan(f, s) THEN 0 ELSE BestIndex(f, s).root]

FirstPredicate(f, s) == s.where[Min(IndexPredicates(BestIndex(f, s), s.where))]

HasPredicate(f, s) ==
  /\ ~ExitsBeforeScan(f, s) /\ BestIndex(f, s) # NoIndex
  /\ IndexPredicates(BestIndex(f, s), s.where) # {}

\* What the index is searched for; nothing is read of it without a usable one.
PredicateOf(f, s) ==
  IF HasPredicate(f, s) /\ Usable(FirstPredicate(f, s)) THEN Pushed(FirstPredicate(f, s))
  ELSE [op |-> "=", value |-> LastNumber + 1]

ScannedTrees    == {Scanned(f, s) : f \in Files, s \in Statements}
PredicatesAsked == {PredicateOf(f, s) : f \in Files, s \in Statements}

Scan == INSTANCE TreeWalker WITH Databases <- ScannedTrees, Predicates <- PredicatesAsked

\* In some set of pages that holds the table's tree, the leaves' rows are records
\* of the table.
RowsHaveRecords(f, s) ==
  \E S \in SUBSET DOMAIN f.pages :
    /\ TableRecord(f, s.table).root \in S
    /\ \A p \in S : \A i \in DOMAIN Scan!Links(f)[p] : Scan!Links(f)[p][i] \in S
    /\ \A p \in S : f.pages[p].type = "leaf_table" =>
         \A i \in DOMAIN f.pages[p].cells : f.pages[p].cells[i].rowid \in DOMAIN f.values[s.table]

\* SQLite's file format, of the trees that are read for a statement; a literal is
\* a text that is not empty, a where clause a list of conditions, and a select list
\* one of expressions.
ASSUME FilesAssumption ==
  /\ Scan!WellFormedTrees
  /\ LastNumber \in Nat
  /\ \A s \in Statements : \A e \in ToSet(s.where) : \A o \in Operands(e) :
       o.kind = "string" => o.text \in Nat /\ o.text > LastNumber
  /\ \A f \in Files, s \in Statements : ExitsBeforeScan(f, s) \/ RowsHaveRecords(f, s)
  /\ \A s \in Statements : s.where \in Seq(ToSet(s.where)) /\ s.select \in Seq(ToSet(s.select))

-----------------------------------------------------------------------------
\* What the cells of a page hold.
CellsOf(d, p) == {d.pages[p].cells[i] : i \in DOMAIN d.pages[p].cells}

RecordValues ==
  {Null} \cup [type : {"int"}, value : 1 .. LastNumber] \cup [type : {"other"}, value : Nat \ {0}]
         \cup {v \in [type : {"text"}, value : Nat] : v.value > LastNumber}

HasOther(record) == \E i \in DOMAIN record : record[i].type = "other"

\* The tree of a table has a row for each of its records, in order; the record of a
\* readable one has neither a REAL nor a BLOB.
TableStored(f, s) ==
  LET d == Scanned(f, s)
      tree == Scan!Subtree(d)[d.table]
      records == f.values[s.table]
  IN  /\ IsFiniteSet(DOMAIN records) /\ DOMAIN records \subseteq Nat \ {0}
      /\ \A r \in DOMAIN records : records[r] \in Seq(RecordValues)
      /\ ColumnsOf(f, s.table) \in Seq(ToSet(ColumnsOf(f, s.table)))
      /\ {c.rowid : c \in Scan!LeafCells(d, tree)} = DOMAIN records
      /\ \A c \in Scan!LeafCells(d, tree) : c.readable = ~HasOther(records[c.rowid])
      /\ records # <<>> => \A p \in tree : CellsOf(d, p) # {}
      /\ Scan!OrderedTable(d)

\* The value of a record in the n-th of an index's columns, and its number.
IndexedValue(f, s, columns, r, n) ==
  LET record == f.values[s.table][r]
      place  == Position(ColumnsOf(f, s.table), columns[n])
  IN  IF place \in DOMAIN record THEN record[place] ELSE Null

KeyOf(f, s, columns, r, n) == IndexedValue(f, s, columns, r, n).value

\* The order of the entries a and b of an index.
Precedes(f, s, columns, a, b) ==
  LET Key(e, n) == KeyOf(f, s, columns, e.rowid, n)
  IN  \/ \E n \in DOMAIN columns :
           Key(a, n) < Key(b, n) /\ \A m \in 1 .. n - 1 : Key(a, m) = Key(b, m)
      \/ a.rowid < b.rowid /\ \A n \in DOMAIN columns : Key(a, n) = Key(b, n)

\* The tree of the index scanned, if there is one, has an entry for each of the
\* table's records, in order; the columns of an index are the table's.  A readable
\* entry has neither a REAL nor a BLOB nor, in its first column, a NULL or a 0.
IndexStored(f, s) ==
  LET d == Scanned(f, s)
      tree == Scan!Subtree(d)[d.index]
      records == f.values[s.table]
      entries == UNION {CellsOf(d, p) : p \in tree}
      columns == BestIndex(f, s).columns
      known == ToSet(ColumnsOf(f, s.table))
      Type(e, n) == IndexedValue(f, s, columns, e.rowid, n).type
  IN  /\ \A x \in IndexesOf(f, s.table) : x.root # 0 /\ x.columns \in Seq(known)
      /\ d.index # 0 =>
           /\ {e.rowid : e \in entries} = DOMAIN records
           /\ \A e \in entries :
                /\ e.key = KeyOf(f, s, columns, e.rowid, 1)
                /\ IF \/ Type(e, 1) = "null" \/ \E n \in DOMAIN columns : Type(e, n) = "other"
                     THEN ~e.readable
                     ELSE Type(e, 1) = "text" => e.readable
           /\ records # <<>> => \A p \in tree : CellsOf(d, p) # {}
           /\ Scan!EntriesInOrder(d, LAMBDA a, b : Precedes(f, s, columns, a, b))

\* SQLite's file format again, of what the trees hold.
ASSUME FilesHoldTables ==
  \A f \in Files, s \in Statements :
    ExitsBeforeScan(f, s) \/ (TableStored(f, s) /\ IndexStored(f, s))

NoRow == [rowid |-> 0, values |-> <<>>]

\* build_plan has made the plan, or has ended the process.
Init ==
  /\ file \in Files /\ stmt \in Statements
  /\ db = Scanned(file, stmt) /\ predicate = PredicateOf(file, stmt)
  /\ Scan!Start
  /\ stage = IF ExitsBeforeScan(file, stmt) \/ pc = "exit" THEN "exit"
             ELSE IF CrashesInResolver(file, stmt) THEN "crash" ELSE "execute"
  /\ row = NoRow /\ results = <<>> /\ done = FALSE /\ output = <<>>

-----------------------------------------------------------------------------
HasAggregates == Aggregates(stmt) # <<>>

\* plan_execute asks the projection for a row; an aggregate returns only one, and
\* begins with nothing counted.
Execute ==
  /\ stage = "execute"
  /\ stage' = IF HasAggregates /\ done THEN "end" ELSE "scan"
  /\ results' = [i \in DOMAIN Aggregates(stmt) |-> Null]
  /\ UNCHANGED <<file, stmt, row, done, output, walker>>

AtIndex == pc = "seek_rowid" /\ index_list # <<>>

\* table_scan_next: a step of produce_row, which fills in the row it finds.
ScanStep ==
  /\ stage = "scan"
  /\ AtIndex => HasPredicate(file, stmt) /\ Usable(FirstPredicate(file, stmt))
  /\ Scan!Step
  /\ stage' = CASE pc' = "ready"     -> "filter"
                [] pc' = "exhausted" -> "exhausted"
                [] pc' \in {"exit", "undefined"} -> pc'
                [] OTHER             -> "scan"
  /\ row' = IF pc' = "ready"
              THEN [rowid |-> next_rowid, values |-> file.values[stmt.table][next_rowid]]
              ELSE row
  /\ UNCHANGED <<file, stmt, results, done, output>>

\* A step on the index needs a predicate of a column and a literal: it crashes
\* without one, as data[0] of an empty list is read, and exits on another one.
NoUsablePredicate ==
  /\ stage = "scan" /\ AtIndex
  /\ ~(HasPredicate(file, stmt) /\ Usable(FirstPredicate(file, stmt)))
  /\ stage' = IF HasPredicate(file, stmt) THEN "exit" ELSE "crash"
  /\ UNCHANGED <<file, stmt, row, results, done, output, walker>>

-----------------------------------------------------------------------------
ColumnPosition(name) == Position(ColumnsOf(file, stmt.table), name)

\* A record may have fewer values than its table has columns.
Readable(o) == o.kind = "column" => ColumnPosition(o.name) \in DOMAIN row.values

ValueOf(o) == IF o.kind = "string" THEN Text(o.text) ELSE row.values[ColumnPosition(o.name)]

\* evaluate_predicate on the row at hand.
Evaluate(e) ==
  IF e.kind # "binary" \/ \E o \in Operands(e) : o.kind = "function" THEN "exit"
  ELSE IF \E o \in Operands(e) : ~Readable(o) THEN "undefined"
  ELSE IF Compare(ValueOf(e.left), e.op, ValueOf(e.right)) THEN "true" ELSE "false"

\* Wrong: what the index was searched for is not compared again.
VerdictWithoutIndexed ==
  LET indexed == HasPredicate(file, stmt)
      fail == {i \in DOMAIN stmt.where :
                 /\ ~(indexed /\ stmt.where[i] = FirstPredicate(file, stmt))
                 /\ Evaluate(stmt.where[i]) # "true"}
  IN IF fail = {} THEN "true" ELSE Evaluate(stmt.where[Min(fail)])

\* filter_next: the first condition that does not hold decides.
Verdict ==
  LET fail == {i \in DOMAIN stmt.where : Evaluate(stmt.where[i]) # "true"} IN
  IF fail = {} THEN "true" ELSE Evaluate(stmt.where[Min(fail)])

Above == IF HasAggregates THEN "aggregate" ELSE "project"

\* Wrong: a row that is refused is looked at again.
AfterRowAgain(verdict) ==
  CASE verdict = "true" -> Above [] verdict = "false" -> "filter" [] OTHER -> verdict

\* A row that is refused sends for the next.
AfterRow(verdict) ==
  CASE verdict = "true" -> Above [] verdict = "false" -> "scan" [] OTHER -> verdict

Filter ==
  /\ stage = "filter"
  /\ stage' = AfterRow(Verdict)
  /\ UNCHANGED <<file, stmt, row, results, done, output, walker>>

\* The count starts from the NULL's pointer, which is the number's 0.
Counted(value) == Number(value.value + 1)

\* aggregate_next, for each row of its child, when the aggregates' agg_type, which
\* make_function_expr does not set, are AGG_COUNT.
Aggregate ==
  /\ stage = "aggregate"
  /\ results' = [i \in DOMAIN results |-> Counted(results[i])]
  /\ stage' = "scan"
  /\ UNCHANGED <<file, stmt, row, done, output, walker>>

\* The first row finds another agg_type than AGG_COUNT in one of them.
UnrecognisedAggregate ==
  /\ stage = "aggregate" /\ \A i \in DOMAIN results : results[i] = Null
  /\ stage' = "exit"
  /\ UNCHANGED <<file, stmt, row, results, done, output, walker>>

\* Wrong: the scan's end is the statement's when there are rows to aggregate.
AfterLastEnds == IF HasAggregates /\ row = NoRow THEN "undefined" ELSE "end"

\* An aggregate frees the values of the last row read, which nobody has set if there
\* was none, and returns its only row.
AfterLast ==
  CASE ~HasAggregates               -> "end"
    [] HasAggregates /\ row = NoRow -> "undefined"
    [] HasAggregates /\ row # NoRow -> "project"

\* The scan has no more rows; an aggregate puts its results in the place of the last.
Exhausted ==
  /\ stage = "exhausted"
  /\ done' = HasAggregates
  /\ stage' = AfterLast
  /\ row' = IF HasAggregates THEN [row EXCEPT !.values = results] ELSE row
  /\ UNCHANGED <<file, stmt, results, output, walker>>

-----------------------------------------------------------------------------
Indexes == ProjectionIndexes(file, stmt)

\* The positions of the result that are copied: not the first if it is the rowid.
Copied == {i \in DOMAIN Indexes : FirstColIsRowid(file, stmt.table) => i > 1}

\* The rowid takes the first place if the table's first column is named id,
\* whatever column was selected first.
Printed ==
  [i \in DOMAIN Indexes |-> IF i \in Copied THEN row.values[Indexes[i]] ELSE Number(row.rowid)]

\* projection_next and print_row.  The result is written over the row's values,
\* from a copy of them, and neither may be shorter than it takes.
Project ==
  /\ stage = "project"
  /\ IF \A i \in Copied : {i, Indexes[i]} \subseteq DOMAIN row.values
       THEN stage' = "execute" /\ output' = Append(output, Printed)
       ELSE stage' = "undefined" /\ UNCHANGED output
  /\ row' = [row EXCEPT !.values = <<>>]
  /\ UNCHANGED <<file, stmt, results, done, walker>>

-----------------------------------------------------------------------------
Step ==
  \/ Execute \/ ScanStep \/ NoUsablePredicate
  \/ Filter \/ Aggregate \/ UnrecognisedAggregate \/ Exhausted \/ Project

Ended == stage \in {"end", "exit", "crash", "undefined"} /\ UNCHANGED vars

Next == Step \/ Ended

SafetySpec == Init /\ [][Next]_vars

\* One thread, which asks for rows until there are none and never waits.
Spec == SafetySpec /\ WF_vars(Step)
=============================================================================
