---------------------------- MODULE QueryAnswers ----------------------------
(***************************************************************************)
(* What executing a statement promises, against the meaning SQL gives it.  *)
(***************************************************************************)
EXTENDS Query

Columns == ColumnsOf(file, stmt.table)

Values == file.values[stmt.table]

Rowids == DOMAIN Values

AliasesRowid(name) == name = "id" /\ FirstColIsRowid(file, stmt.table)

\* SQL: a comparison with NULL is never true.  Of two texts, in a column's BINARY
\* collation and whatever its affinity, only equal ones are.
SqlValue(r, o) == IF o.kind = "string" THEN Text(o.text)
                  ELSE Values[r][Position(Columns, o.name)]

SqlHolds(r, e) == SqlValue(r, e.left) = SqlValue(r, e.right) /\ SqlValue(r, e.left) # Null

Matches == {r \in Rowids : \A e \in ToSet(stmt.where) : SqlHolds(r, e)}

SqlRow(r) ==
  [i \in DOMAIN stmt.select |->
     IF AliasesRowid(stmt.select[i].name) THEN Number(r)
     ELSE Values[r][Position(Columns, stmt.select[i].name)]]

SqlAnswer ==
  LET order == CHOOSE s \in [1 .. Cardinality(Matches) -> Matches] :
                 \A i, j \in DOMAIN s : i < j => s[i] < s[j]
  IN [k \in DOMAIN order |-> SqlRow(order[k])]

-----------------------------------------------------------------------------
(***************************************************************************)
(* The statements sgl answers as SQL would.                                *)
(***************************************************************************)
IndexColumns == UNION {ToSet(r.columns) : r \in IndexesOf(file, stmt.table)}

\* Conditions are equalities of a column with a literal, or of two columns that are
\* not NULL in the same row and in no index; the columns hold texts and NULL.
PlainCondition(e) ==
  /\ e.kind = "binary" /\ e.op = "="
  /\ \A o \in Operands(e) : o.kind \in {"column", "string"}
  /\ \E o \in Operands(e) : o.kind = "column"
  /\ \A o \in Operands(e) : o.kind = "column" =>
       /\ o.name \in ToSet(Columns) /\ ~AliasesRowid(o.name)
       /\ \A r \in Rowids : SqlValue(r, o).type \in {"text", "null"}
       /\ (e.left.kind = e.right.kind) =>
            /\ o.name \notin IndexColumns
            /\ \E p \in Operands(e) : \A r \in Rowids : SqlValue(r, p) # Null

\* The schema has no view or trigger, or none that is read, and no constraint is kept
\* by an index of SQLite's own; every record has all of its table's columns, none a
\* REAL or a BLOB and the indexed ones texts.
PlainTable ==
  /\ HasTable(file, stmt.table) /\ Rowids # {}
  /\ ~TreelessRead(file, stmt.table) /\ (stmt.where # NoWhere => Treeless(file) = {})
  /\ \A x \in IndexesOf(file, stmt.table) : ~Unparsed(x)
  /\ \A r \in Rowids : /\ Len(Values[r]) = Len(Columns)
                       /\ ~HasOther(Values[r])
                       /\ \A i \in DOMAIN Columns :
                            Columns[i] \in IndexColumns => Values[r][i].type = "text"

\* The entries of the scanned index with an equal first column are in the order of
\* their rowids: with several columns they need not be, and the scan ends at the
\* first entry that goes back.
ScannedInOrder ==
  LET columns == BestIndex(file, stmt).columns
      Key(r, n) == KeyOf(file, stmt, columns, r, n)
  IN  \A r, q \in Rowids, n \in DOMAIN columns :
        r < q /\ n > 1 /\ (\A m \in 1 .. n - 1 : Key(r, m) = Key(q, m)) => Key(r, n) <= Key(q, n)

\* The conditions that name the first column of an index come before those on its
\* other columns, and with a literal: an index is searched for that of the first.
SearchedFirst ==
  \A x \in IndexesOf(file, stmt.table) :
    x.columns[1] \in WhereColumns(stmt.where) =>
      \E i \in DOMAIN stmt.where :
        /\ ColumnsIn(stmt.where[i]) = {x.columns[1]}
        /\ \A j \in 1 .. i - 1 : ColumnsIn(stmt.where[j]) \cap ToSet(x.columns) = {}

\* Nothing is missed by the scan, which without an index ends at the first rowid there
\* is no row of, and with one at the first leaf that has what it is searched for.
ScannedWhole ==
  IF BestIndex(file, stmt) = NoIndex THEN \A r \in Rowids : 1 .. r \subseteq Rowids
  ELSE /\ ScannedInOrder
       /\ \A p, q \in Scan!IndexPages :
            Scan!Matching(p) # {} /\ Scan!Matching(q) # {} =>
              p = q /\ db.pages[p].type = "leaf_index"

PlainWhere ==
  /\ PlainTable /\ \A e \in ToSet(stmt.where) : PlainCondition(e)
  /\ SearchedFirst /\ ScannedWhole

\* Only columns are selected, no more than the table has; of a table whose first
\* column is the rowid's, that one first and not again.
PlainSelect ==
  /\ SelectedColumns(stmt) = stmt.select /\ ~HasAggregates
  /\ \A i \in DOMAIN stmt.select : stmt.select[i].name \in ToSet(Columns)
  /\ Len(stmt.select) <= Len(Columns)
  /\ FirstColIsRowid(file, stmt.table) =>
       \A i \in DOMAIN stmt.select : i = 1 <=> AliasesRowid(stmt.select[i].name)

\* Plain statements print SQL's answer, in the order of the rowids, whichever
\* index is scanned, and nothing ends the process before (plan.c:67-152).
AnswerExact ==
  PlainWhere /\ PlainSelect =>
    /\ stage \notin {"exit", "crash", "undefined"}
    /\ IsPrefix(output, SqlAnswer)
    /\ stage = "end" => output = SqlAnswer

\* The rows the conditions let through as the filter compares, and what is printed
\* of each.
Accepted(r) ==
  \A e \in ToSet(stmt.where) :
    Compare(SqlValue(r, e.left), e.op, SqlValue(r, e.right))

PrintedOf(r) ==
  [i \in DOMAIN Indexes |-> IF i \in Copied THEN Values[r][Indexes[i]] ELSE Number(r)]

\* Whichever index and predicate the scan was given, right or wrong, rows may be
\* lost but none is printed that the conditions refuse, none twice and none before
\* one with a smaller rowid (filter.c:174-196: the filter compares again what the
\* index was searched for).
NothingInvented ==
  ~HasAggregates /\ stage # "undefined" /\ output # <<>> =>
    \E f \in [DOMAIN output -> {r \in Rowids : Accepted(r)}] :
      /\ \A i, j \in DOMAIN output : i < j => f[i] < f[j]
      /\ \A i \in DOMAIN output : output[i] = PrintedOf(f[i])

\* An aggregate consumes every row of the scan and returns one row, whatever it has
\* consumed: a statement with one that gets to its end has printed exactly one row
\* (aggregate.c:24-76, where done is what ends plan_execute's loop).
AggregateOnce ==
  HasAggregates => Len(output) <= 1 /\ (stage = "end" => Len(output) = 1)

\* Every statement comes to an end.
StatementEnds == <>(stage \in {"end", "exit", "crash", "undefined"})
=============================================================================
