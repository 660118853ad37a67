------------------------------ MODULE QueryPlan ------------------------------
(***************************************************************************)
(* What build_plan of sgl makes of a statement (src/planning/plan.c,       *)
(* resolver.c, table_scan.c and the schema lookups of src/sql_utils.c):    *)
(* the tree to scan, the index to scan it by and the predicates pushed to  *)
(* it, the aggregates, and the positions of the columns selected.          *)
(*                                                                         *)
(* A file is [schema, pages, values]: the records of page 1, in order, the *)
(* b-tree pages as TreeWalker has them, and for each table the values of   *)
(* the record of each rowid.  A statement is [table, select, where], where *)
(* being NoWhere or a list of conditions that must all hold.  Values are   *)
(* numbered in SQL's order, numbers before texts; a literal is a text.     *)
(***************************************************************************)
EXTENDS Naturals, Sequences, SequencesExt

CONSTANT PrefixOf   \* the pairs <<s, t>> of texts with s a proper prefix of t

\* The expressions of src/ast.h that parse makes.  A function's arguments are the
\* columns named in them, as nothing else of them is ever used.  Lists of them are
\* not only those parse makes, where a string is the last operand of the last one.
Col(name)            == [kind |-> "column", name |-> name]
Str(text)            == [kind |-> "string", text |-> text]
Star                 == [kind |-> "star"]
Fun(name, columns)   == [kind |-> "function", name |-> name, columns |-> columns]
Bin(left, op, right) == [kind |-> "binary", op |-> op, left |-> left, right |-> right]

NoWhere == <<>>

Operands(e) == IF e.kind = "binary" THEN {e.left, e.right} ELSE {e}

-----------------------------------------------------------------------------
(***************************************************************************)
(* The schema.  Only the records on page 1 are looked at.                  *)
(***************************************************************************)
\* The records of views and triggers, which have no tree.  Their root page has no
\* bytes, and reading one of them ends the process.
Treeless(file) == {i \in DOMAIN file.schema : file.schema[i].root = 0}

TableRecords(file, table) == SelectSeq(file.schema, LAMBDA r : r.tbl_name = table)

HasTable(file, table) == TableRecords(file, table) # <<>>

\* get_schema_record_for_table: the first record of the table, of whatever type.
TableRecord(file, table) == TableRecords(file, table)[1]

\* The records are read up to that one.
TreelessRead(file, table) ==
  \E i \in Treeless(file) : \A j \in 1 .. i - 1 : file.schema[j].tbl_name # table

ColumnsOf(file, table) == TableRecord(file, table).columns

\* get_all_indexes_for_table, by the places of their records.
IndexPlaces(file, table) ==
  {i \in DOMAIN file.schema : file.schema[i].tbl_name = table /\ file.schema[i].type = "index"}

IndexesOf(file, table) == {file.schema[i] : i \in IndexPlaces(file, table)}

\* An index SQLite made for a constraint has no statement in its record, and
\* parse_create_index exits on the empty text.
Unparsed(record) == record.columns = <<>>

-----------------------------------------------------------------------------
(***************************************************************************)
(* The index (get_best_index).                                             *)
(***************************************************************************)
\* get_column_from_expression: the arguments of a function are passed over.
ColumnsIn(e) == {o.name : o \in {x \in Operands(e) : x.kind = "column"}}

WhereColumns(where) == UNION {ColumnsIn(e) : e \in ToSet(where)}

\* Wrong: the columns may be anywhere in the index.
ColumnsAnywhere(index, columns) == Cardinality(ToSet(index.columns) \cap columns)

\* How many of the index's columns, from the first on, the conditions name.
MatchingColumns(index, columns) ==
  Cardinality({n \in DOMAIN index.columns : ToSet(SubSeq(index.columns, 1, n)) \subseteq columns})

NoIndex == [root |-> 0, columns |-> <<>>]

\* The first of the indexes that have the most columns named, if any has one.
BestIndex(file, stmt) ==
  LET candidates ==
        {[place |-> i, matching |-> MatchingColumns(file.schema[i], WhereColumns(stmt.where))] :
           i \in IndexPlaces(file, stmt.table)}
      best == {c \in candidates :
                 /\ c.matching > 0
                 /\ \A d \in candidates :
                      d.matching < c.matching \/ (d.matching = c.matching /\ c.place <= d.place)}
  IN IF stmt.where = NoWhere \/ best = {} THEN NoIndex
     ELSE LET record == file.schema[(CHOOSE c \in best : TRUE).place]
          IN [root |-> record.root, columns |-> record.columns]

\* collect_index_predicates, by their places: comparisons of columns of the index only.
IndexPredicates(index, where) ==
  {i \in DOMAIN where : where[i].kind = "binary"
                        /\ ColumnsIn(where[i]) \subseteq ToSet(index.columns)}

\* The scan uses the first of them (get_predicate_value, by each step on the
\* index): its operator and its literal, whichever column that is compared with.
Converted(e) == IF e.left.kind # "column" THEN e.left ELSE e.right

Usable(e) == Converted(e).kind = "string"

Pushed(e) == [op |-> e.op, value |-> Converted(e).text]

-----------------------------------------------------------------------------
(***************************************************************************)
(* The columns (resolver.c).                                               *)
(***************************************************************************)
Position(columns, name) == CHOOSE i \in DOMAIN columns : columns[i] = name

\* The name decides, not the column's type.
FirstColIsRowid(file, table) == ColumnsOf(file, table)[1] = "id"

\* resolve_columns, for the conditions only: functions are entered.
ResolvedColumns(e) ==
  ColumnsIn(e) \cup UNION {o.columns : o \in {x \in Operands(e) : x.kind = "function"}}

SelectedColumns(stmt) == SelectSeq(stmt.select, LAMBDA e : e.kind = "column")

Aggregates(stmt) ==
  SelectSeq(stmt.select, LAMBDA e : e.kind = "function" /\ e.name = "count")

\* The text of a select item is the column's name only if it is that column;
\* the last item with the text wins (get_post_aggregation_row_col_to_idx_hash_map).
LastItem(select, e) ==
  CHOOSE i \in DOMAIN select :
    select[i] = e /\ \A j \in DOMAIN select : select[j] = e => j <= i

\* get_projection_indexes: only items that are columns have a place in the result.
ProjectionIndexes(file, stmt) ==
  [i \in DOMAIN SelectedColumns(stmt) |->
     IF Aggregates(stmt) # <<>> THEN LastItem(stmt.select, SelectedColumns(stmt)[i])
     ELSE Position(ColumnsOf(file, stmt.table), SelectedColumns(stmt)[i].name)]

-----------------------------------------------------------------------------
(***************************************************************************)
(* What ends the process in build_plan, in this order: before the walker   *)
(* is made by exit(1), and after it by a column nothing is known of, which *)
(* is a NULL dereference in a condition and an assertion in the select     *)
(* list.                                                                   *)
(***************************************************************************)
ExitsBeforeScan(file, stmt) ==
  \/ ~HasTable(file, stmt.table) \/ TreelessRead(file, stmt.table)
  \/ \E e \in ToSet(stmt.where) : Star \in Operands(e)
  \/ stmt.where # NoWhere /\ Treeless(file) # {}
  \/ stmt.where # NoWhere /\ \E r \in IndexesOf(file, stmt.table) : Unparsed(r)

CrashesInResolver(file, stmt) ==
  LET known == ToSet(ColumnsOf(file, stmt.table)) IN
  \/ \E e \in ToSet(stmt.where) : ~(ResolvedColumns(e) \subseteq known)
  \/ Aggregates(stmt) = <<>> /\ ~({e.name : e \in ToSet(SelectedColumns(stmt))} \subseteq known)

-----------------------------------------------------------------------------
(***************************************************************************)
(* Values and their comparison (filter.c, common.c).                       *)
(***************************************************************************)
Null      == [type |-> "null", value |-> 0]
Number(n) == [type |-> "int", value |-> n]
Text(n)   == [type |-> "text", value |-> n]

\* A REAL or a BLOB.
Other(n)  == [type |-> "other", value |-> n]

\* unterminated_string_less_than and unterminated_string_greater_than return the
\* result of strncmp as a bool: texts that differ within their common length are
\* both less and greater.
TextBelow(s, t) == s # t /\ <<t, s>> \notin PrefixOf
TextAbove(s, t) == s # t /\ <<s, t>> \notin PrefixOf

Compare(a, op, b) ==
  /\ a.type = b.type
  /\ \/ op = "=" /\ a = b
     \/ op = "<" /\ a.type = "int"  /\ a.value < b.value
     \/ op = ">" /\ a.type = "int"  /\ a.value > b.value
     \/ op = "<" /\ a.type = "text" /\ TextBelow(a.value, b.value)
     \/ op = ">" /\ a.type = "text" /\ TextAbove(a.value, b.value)
=============================================================================
