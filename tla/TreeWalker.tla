------------------------------ MODULE TreeWalker ------------------------------
(***************************************************************************)
(* The scans of sgl (src/tree_walker.c with src/comparisons.c): a          *)
(* TreeWalker walks the b-tree of a table, and the b-tree of an index when *)
(* the plan chose one, with a stack of sub-walkers for each tree.          *)
(* produce_row returns the next row: a full scan looks up the rowids       *)
(* 1, 2, 3, ..., an index scan those of the index entries whose key the    *)
(* predicate accepts, both by walking the table's tree forward only.       *)
(*                                                                         *)
(* A page is its type, its sequence of cells and its right-most pointer.   *)
(* Pages reach the walker through the cache as PayloadReader describes, so *)
(* here they are read directly.  The keys of an index, the values of its   *)
(* first column, are numbered in the order of SQL: NULL and the numbers,   *)
(* up to LastNumber, then the texts and BLOBs.  Every predicate the parser *)
(* can build compares a column with a text, taken not to be empty.  A cell *)
(* is readable if read_row_from_record gets through its record: no column  *)
(* is a REAL or a BLOB, and the first of an entry, which is taken for its  *)
(* rowid, is neither NULL nor 0.                                           *)
(***************************************************************************)
EXTENDS Integers, Sequences

CONSTANTS
  Databases,    \* the files scanned: [pages, table, index], index 0 for none
  Predicates,   \* the predicates pushed to the index: [op, value]
  LastNumber    \* the last key that is not a text or a BLOB

\* The children of a page, the right-most one last.
Links(d) ==
  [p \in DOMAIN d.pages |->
     LET page == d.pages[p] IN
     IF page.right = 0 THEN <<>>
     ELSE [i \in 1 .. Len(page.cells) + 1 |->
             IF i <= Len(page.cells) THEN page.cells[i].child ELSE page.right]]

Roots(d) == {d.table, d.index}

\* Every page is a child at one place at most, the roots at none, and the way
\* down from a page ends.
IsForest(links, roots) ==
  /\ \A p \in DOMAIN links : \A i \in DOMAIN links[p] : links[p][i] \in DOMAIN links \ roots
  /\ \A p, q \in DOMAIN links : \A i \in DOMAIN links[p], j \in DOMAIN links[q] :
       links[p][i] = links[q][j] => p = q /\ i = j
  /\ \A S \in SUBSET DOMAIN links :
       S # {} => \E p \in S : \A i \in DOMAIN links[p] : links[p][i] \notin S

CellsOfType(pages) == [
  interior_table |-> [child : pages, key : Nat],
  leaf_table     |-> [rowid : Nat, readable : BOOLEAN],
  interior_index |-> [key : Nat, rowid : Nat, child : pages, readable : BOOLEAN],
  leaf_index     |-> [key : Nat, rowid : Nat, readable : BOOLEAN]]

IsPage(page, pages) ==
  /\ page.type \in DOMAIN CellsOfType(pages)
  /\ page.cells \in Seq(CellsOfType(pages)[page.type])
  /\ page.right \in IF page.type \in {"leaf_table", "leaf_index"} THEN {0} ELSE pages

\* What SQLite's file format says of the pages of b-trees.
WellFormedTrees ==
  /\ \A d \in Databases :
       /\ 0 \notin DOMAIN d.pages
       /\ d.table \in DOMAIN d.pages
       /\ d.index \in (DOMAIN d.pages \cup {0}) \ {d.table}
       /\ \A p \in DOMAIN d.pages : IsPage(d.pages[p], DOMAIN d.pages)
  /\ \A forest \in {<<Links(d), Roots(d)>> : d \in Databases} : IsForest(forest[1], forest[2])

ASSUME TreesAssumption == WellFormedTrees

ASSUME TextsAssumption ==
  LastNumber \in Nat /\ \A p \in Predicates : p.value \in Nat /\ p.value > LastNumber

VARIABLES
  db, predicate,    \* chosen initially
  table_list,       \* the stacks of sub-walkers, innermost last
  index_list,
  current_rowid,
  next_rowid,
  pc,               \* where produce_row is, or how the scan ended
  rows,             \* history: the rowids of the rows produced
  walked            \* history: the pages begin_walk was called for

vars == <<db, predicate, table_list, index_list, current_rowid, next_rowid, pc, rows, walked>>

IndexScan == db.index # 0

Cells(p) == db.pages[p].cells

\* begin_walk exits on a page without cells, or beyond the database's pages.
Walkable(p) == p \in DOMAIN db.pages /\ Cells(p) # <<>>

SubWalker(p) == [page |-> p, current_index |-> 0]

\* The walker made for a file and a predicate.
Start ==
  /\ table_list = <<SubWalker(db.table)>>
  /\ index_list = IF IndexScan THEN <<SubWalker(db.index)>> ELSE <<>>
  /\ current_rowid = 1 /\ next_rowid = 1
  /\ walked = IF IndexScan THEN <<db.index, db.table>> ELSE <<db.table>>
  /\ pc = IF (IndexScan => Walkable(db.index)) /\ Walkable(db.table) THEN "ready" ELSE "exit"
  /\ rows = <<>>

Init == db \in Databases /\ predicate \in Predicates /\ Start

-----------------------------------------------------------------------------
Top(list) == list[Len(list)]

Pop(list) == SubSeq(list, 1, Len(list) - 1)

Advance(list, i) == [list EXCEPT ![Len(list)].current_index = i]

CountOf(list) == Len(Cells(Top(list).page))

\* The cell at a position counted from 0, as the code's arrays are.
CellAt(list, i) == Cells(Top(list).page)[i + 1]

TypeOfTop(list) == db.pages[Top(list).page].type

Mid(lo, hi) == IF lo <= hi THEN lo + (hi - lo) \div 2 ELSE lo

\* interior_table_step's search: the first cell from current_index on whose key
\* is not below next_rowid, -1 if there is none.
FirstKeyAtLeast(rowid) ==
  LET n == CountOf(table_list)
      search[s \in [lo : 0 .. n, hi : -1 .. n - 1, result : -1 .. n - 1]] ==
        LET mid == Mid(s.lo, s.hi) IN
        IF s.lo > s.hi THEN s.result
        ELSE IF CellAt(table_list, mid).key >= rowid
               THEN search[[lo |-> s.lo, hi |-> mid - 1, result |-> mid]]
               ELSE search[[lo |-> mid + 1, hi |-> s.hi, result |-> s.result]]
  IN  search[[lo |-> Top(table_list).current_index, hi |-> n - 1, result |-> -1]]

\* leaf_table_step's search: the last position it looked at.
LastProbe(rowid) ==
  LET n == CountOf(table_list)
      search[s \in [lo : 0 .. n, hi : -1 .. n - 1, last : 0 .. n]] ==
        LET mid == Mid(s.lo, s.hi)
            at  == CellAt(table_list, mid).rowid
        IN  IF s.lo > s.hi THEN s.last
            ELSE IF at = rowid THEN mid
            ELSE IF at < rowid THEN search[[lo |-> mid + 1, hi |-> s.hi, last |-> mid]]
            ELSE search[[lo |-> s.lo, hi |-> mid - 1, last |-> mid]]
      lo0 == Top(table_list).current_index
  IN  search[[lo |-> lo0, hi |-> n - 1, last |-> Mid(lo0, n - 1)]]

\* Wrong: the position stays on the child taken.
LeftChildAgain(list, i) == Advance(list, i)

\* Wrong: the sub-walker stays on the list with its position reset.
RightChildKept(list) == Advance(list, 0)

\* Wrong: the sub-walker of a leaf stays on the list after its last row.
RowTakenKept(list, i) == Advance(list, i + 1)

\* Where interior_table_step leaves the list: positioned after the chosen cell,
\* or without this sub-walker when the right-most child is next.
LeftChildTaken(list, i) == Advance(list, i + 1)

RightChildTaken(list) == Pop(list)

\* Where leaf_table_step leaves it: after the row, or done with the page.
RowTaken(list, i) == IF i + 1 < CountOf(list) THEN Advance(list, i + 1) ELSE Pop(list)

InteriorTableStep ==
  /\ pc = "seek_row" /\ table_list # <<>>
  /\ TypeOfTop(table_list) = "interior_table"
  /\ LET result == FirstKeyAtLeast(next_rowid)
         child  == IF result >= 0 THEN CellAt(table_list, result).child
                                  ELSE db.pages[Top(table_list).page].right
         rest   == IF result >= 0 THEN LeftChildTaken(table_list, result)
                                  ELSE RightChildTaken(table_list)
     IN  /\ table_list' = Append(rest, SubWalker(child))
         /\ walked' = Append(walked, child)
         /\ pc' = IF Walkable(child) THEN pc ELSE "exit"
  /\ UNCHANGED <<db, predicate, index_list, current_rowid, next_rowid, rows>>

UnreadableRowFound ==
  LET cell == CellAt(table_list, LastProbe(next_rowid))
  IN  cell.rowid = next_rowid /\ ~cell.readable

\* The process ends when leaf_table_step decodes the row it has found.
UnreadableRow ==
  /\ pc = "seek_row" /\ table_list # <<>>
  /\ TypeOfTop(table_list) = "leaf_table" /\ UnreadableRowFound
  /\ pc' = "exit"
  /\ UNCHANGED <<db, predicate, table_list, index_list, current_rowid, next_rowid, rows, walked>>

\* leaf_table_step and, when it finds the row, the end of produce_row.
LeafTableStep ==
  /\ pc = "seek_row" /\ table_list # <<>>
  /\ TypeOfTop(table_list) = "leaf_table" /\ ~UnreadableRowFound
  /\ LET i     == LastProbe(next_rowid)
         found == CellAt(table_list, i).rowid = next_rowid
     IN  /\ table_list' = IF found THEN RowTaken(table_list, i) ELSE Pop(table_list)
         /\ IF found
              THEN /\ rows' = Append(rows, next_rowid)
                   /\ current_rowid' = current_rowid + 1
                   /\ pc' = "ready"
              ELSE UNCHANGED <<rows, current_rowid, pc>>
  /\ UNCHANGED <<db, predicate, index_list, next_rowid, walked>>

\* Wrong: the loop goes on without a sub-walker.
NoRowAgain == pc = "seek_row" /\ table_list = <<>> /\ UNCHANGED vars

\* produce_row returns false: no sub-walker of the table is left.
NoRow ==
  /\ pc = "seek_row" /\ table_list = <<>>
  /\ pc' = "exhausted"
  /\ UNCHANGED <<db, predicate, table_list, index_list, current_rowid, next_rowid, rows, walked>>

-----------------------------------------------------------------------------
IsText(key) == key > LastNumber

\* Wrong: an equal key sends the search to higher positions.
AcceptsStrictly(key) == predicate.op = "=" /\ key > predicate.value

\* compare_index_predicate: TRUE sends the binary search to lower positions, and a
\* key of another type than the predicate's text never does.
Accepts(key) ==
  /\ IsText(key)
  /\ \/ predicate.op = "=" /\ key >= predicate.value
     \/ predicate.op = "<"
     \/ predicate.op = ">" /\ key <= predicate.value

Unreadable(i) == ~CellAt(index_list, i).readable

\* The binary search of interior_index_step and leaf_index_step: where the search
\* ended (hi), the last position it looked at (mid), whether it could not read one.
IndexSearch ==
  LET n == CountOf(index_list)
      search[s \in [lo : 0 .. n, hi : 0 .. n - 1, mid : 0 .. n]] ==
        LET mid == Mid(s.lo, s.hi) IN
        IF ~ (s.lo < s.hi) THEN [hi |-> s.hi, mid |-> s.mid, exit |-> FALSE]
        ELSE IF Unreadable(mid) THEN [hi |-> s.hi, mid |-> mid, exit |-> TRUE]
        ELSE IF Accepts(CellAt(index_list, mid).key)
               THEN search[[lo |-> s.lo, hi |-> mid, mid |-> mid]]
               ELSE search[[lo |-> mid + 1, hi |-> s.hi, mid |-> mid]]
      lo0 == Top(index_list).current_index
  IN  search[[lo |-> lo0, hi |-> n - 1, mid |-> Mid(lo0, n - 1)]]

\* The child visited is the one left of the last cell looked at.
InteriorIndexStep ==
  /\ pc = "seek_rowid" /\ index_list # <<>>
  /\ TypeOfTop(index_list) = "interior_index"
  /\ LET found == IndexSearch
         left  == found.mid < CountOf(index_list)
         child == IF left THEN CellAt(index_list, found.mid).child
                          ELSE db.pages[Top(index_list).page].right
         rest  == IF left THEN Advance(index_list, found.mid + 1) ELSE Pop(index_list)
     IN  IF found.exit
           THEN pc' = "exit" /\ UNCHANGED <<index_list, walked>>
           ELSE /\ index_list' = Append(rest, SubWalker(child))
                /\ walked' = Append(walked, child)
                /\ pc' = IF Walkable(child) THEN pc ELSE "exit"
  /\ UNCHANGED <<db, predicate, table_list, current_rowid, next_rowid, rows>>

LeafIndexStep ==
  /\ pc = "seek_rowid" /\ index_list # <<>>
  /\ TypeOfTop(index_list) = "leaf_index"
  /\ LET found == IndexSearch
         entry == CellAt(index_list, found.hi)
     IN  IF found.exit \/ Unreadable(found.hi)
           THEN pc' = "exit" /\ UNCHANGED <<index_list, next_rowid>>
         ELSE IF entry.key # predicate.value
           THEN index_list' = Pop(index_list) /\ UNCHANGED <<pc, next_rowid>>
         ELSE /\ index_list' = Advance(index_list, found.hi + 1)
              /\ next_rowid' = entry.rowid
              /\ pc' = "use_rowid"
  /\ UNCHANGED <<db, predicate, table_list, current_rowid, rows, walked>>

\* When the search ends at a number, compare_values reads it as the start of a text
\* and no one has set the text's length: it crashes on any but 0, with which
\* LeafIndexStep finds them to differ.
NumberReadAsText ==
  /\ pc = "seek_rowid" /\ index_list # <<>>
  /\ TypeOfTop(index_list) = "leaf_index"
  /\ LET found == IndexSearch IN
     /\ ~ (found.exit \/ Unreadable(found.hi))
     /\ ~IsText(CellAt(index_list, found.hi).key)
  /\ pc' = "undefined"
  /\ UNCHANGED <<db, predicate, table_list, index_list, current_rowid, next_rowid, rows, walked>>

\* produce_rowid finds no entry and produce_row returns false.
NoRowid ==
  /\ pc = "seek_rowid" /\ index_list = <<>>
  /\ pc' = "exhausted"
  /\ UNCHANGED <<db, predicate, table_list, index_list, current_rowid, next_rowid, rows, walked>>

-----------------------------------------------------------------------------
\* A call of produce_row by the operator above.
ProduceRow ==
  /\ pc = "ready"
  /\ next_rowid' = current_rowid
  /\ pc' = CASE ~IndexScan                         -> "use_rowid"
             [] IndexScan /\ index_list = <<>>     -> "exhausted"
             [] IndexScan /\ index_list # <<>>     -> "seek_rowid"
  /\ UNCHANGED <<db, predicate, table_list, index_list, current_rowid, rows, walked>>

\* produce_row between the two loops: the table is only walked forward.
UseRowid ==
  /\ pc = "use_rowid"
  /\ IF next_rowid < current_rowid
       THEN pc' = "exhausted" /\ UNCHANGED current_rowid
       ELSE /\ current_rowid' = next_rowid
            /\ pc' = IF table_list = <<>> THEN "exhausted" ELSE "seek_row"
  /\ UNCHANGED <<db, predicate, table_list, index_list, next_rowid, rows, walked>>

Step ==
  \/ ProduceRow \/ UseRowid
  \/ InteriorIndexStep \/ LeafIndexStep \/ NumberReadAsText \/ NoRowid
  \/ InteriorTableStep \/ LeafTableStep \/ UnreadableRow \/ NoRow

\* plan_execute asks for no row after produce_row returned false.
Ended == pc \in {"exhausted", "exit", "undefined"} /\ UNCHANGED vars

Next == Step \/ Ended

SafetySpec == Init /\ [][Next]_vars

\* plan_execute asks for rows until there are none, and nothing makes it wait.
Spec == SafetySpec /\ WF_vars(Step)
-----------------------------------------------------------------------------
\* The pages of each subtree.
Subtree(d) ==
  LET subtree[p \in DOMAIN d.pages] ==
        {p} \cup UNION {subtree[Links(d)[p][i]] : i \in DOMAIN Links(d)[p]}
  IN  subtree

\* The cells of the leaves of a subtree.
LeafCells(d, pages) ==
  UNION {{d.pages[p].cells[i] : i \in DOMAIN d.pages[p].cells} : p \in {q \in pages : d.pages[q].right = 0}}

\* In every tree of a table the rowids ascend, in the leaves and from one child to
\* the next, and a cell's key is between those under its child and the later ones.
OrderedTable(d) ==
  \A p \in Subtree(d)[d.table] :
    LET page == d.pages[p]
        Rowids(child) == {c.rowid : c \in LeafCells(d, Subtree(d)[child])}
    IN  \/ /\ page.type = "leaf_table"
           /\ \A i, j \in DOMAIN page.cells : i < j => page.cells[i].rowid < page.cells[j].rowid
        \/ /\ page.type = "interior_table"
           /\ \A i, j \in DOMAIN page.cells : i < j => page.cells[i].key <= page.cells[j].key
           /\ \A i \in DOMAIN page.cells, j \in DOMAIN Links(d)[p] :
                \A r \in Rowids(Links(d)[p][j]) :
                  IF j <= i THEN r <= page.cells[i].key ELSE page.cells[i].key < r

Before(a, b) == a.key < b.key \/ (a.key = b.key /\ a.rowid < b.rowid)

\* The entries of an index are in some order, those of interior pages too, and those
\* of its leaves point to rows of the table.
EntriesInOrder(d, Precedes(_, _)) ==
  \A p \in Subtree(d)[d.index] :
    LET page == d.pages[p]
    IN  /\ page.type \in {"leaf_index", "interior_index"}
        /\ \A i, j \in DOMAIN page.cells : i < j => Precedes(page.cells[i], page.cells[j])
        /\ \A i \in DOMAIN page.cells, j \in DOMAIN Links(d)[p] :
             \A e \in LeafCells(d, Subtree(d)[Links(d)[p][j]]) :
               IF j <= i THEN Precedes(e, page.cells[i]) ELSE Precedes(page.cells[i], e)
        /\ page.type = "leaf_index" =>
             \A e \in LeafCells(d, {p}) :
               e.rowid \in {c.rowid : c \in LeafCells(d, Subtree(d)[d.table])} \ {0}

\* An index of one column is in the order of its keys, then of their rowids.
OrderedIndex(d) == d.index # 0 => EntriesInOrder(d, Before)

\* What SQLite's file format says of the order in b-trees.
OrderedTrees == \A d \in Databases : OrderedTable(d) /\ OrderedIndex(d)

TablePages == Subtree(db)[db.table]

IndexPages == IF IndexScan THEN Subtree(db)[db.index] ELSE {}

TableRowids == {c.rowid : c \in LeafCells(db, TablePages)}

\* The rowids of the entries of an index page the predicate selects.
Matching(p) == {Cells(p)[i].rowid : i \in {j \in DOMAIN Cells(p) : Cells(p)[j].key = predicate.value}}

IndexPagesOf(type) == {p \in IndexPages : db.pages[p].type = type}

LeafMatches == UNION {Matching(p) : p \in IndexPagesOf("leaf_index")}

Produced == {rows[k] : k \in DOMAIN rows}

\* The pages reached from a page along right-most pointers.
RightSpine ==
  LET spine[p \in DOMAIN db.pages] ==
        {p} \cup IF db.pages[p].right = 0 THEN {} ELSE spine[db.pages[p].right]
  IN  spine

SubWalkers == [page : DOMAIN db.pages, current_index : Nat]

\* The walker's state is well formed, no sub-walker is past its last cell and none
\* of a table's leaf is at its end, where leaf_table_step would compare the cell
\* it read last with a rowid it never looked for.
TypeOK ==
  /\ db \in Databases /\ predicate \in Predicates
  /\ table_list \in Seq(SubWalkers) /\ index_list \in Seq(SubWalkers)
  /\ \A list \in {table_list, index_list} : \A k \in DOMAIN list :
       list[k].current_index <= Len(Cells(list[k].page))
  /\ pc # "exit" /\ table_list # <<>> /\ TypeOfTop(table_list) = "leaf_table"
       => Top(table_list).current_index < CountOf(table_list)
  /\ current_rowid \in Nat \ {0} /\ next_rowid \in Nat
  /\ pc \in {"ready", "seek_rowid", "use_rowid", "seek_row", "exhausted",
             "exit", "undefined"}
  /\ rows \in Seq(Nat) /\ walked \in Seq(DOMAIN db.pages)

\* No page of either tree is walked a second time (begin_walk): the positions
\* take_step leaves in the sub-walkers never send a later step back.
PagesWalkedOnce == \A i, j \in DOMAIN walked : walked[i] = walked[j] => i = j

\* Each stack of sub-walkers is a path down its tree: a sub-walker is at the child
\* before the position of the one below it, or at a right-most page under that
\* child when the sub-walkers between them are done and were removed.
StacksArePaths ==
  /\ table_list # <<>> => table_list[1].page \in RightSpine[db.table]
  /\ index_list # <<>> => index_list[1].page \in RightSpine[db.index]
  /\ \A list \in {table_list, index_list} : \A k \in 1 .. Len(list) - 1 :
       /\ list[k].current_index \in DOMAIN Cells(list[k].page)
       /\ list[k + 1].page \in RightSpine[Cells(list[k].page)[list[k].current_index].child]

\* The rows produce_row returns: those before the first gap in the table's rowids,
\* or those the first leaf of the index with a matching entry points to.
Answer ==
  IF IndexScan
    THEN UNION {Matching(p) : p \in {q \in IndexPagesOf("leaf_index") :
                  \A r \in LeafMatches : \E m \in Matching(q) : m <= r}}
    ELSE {r \in TableRowids \ {0} : 1 .. r \subseteq TableRowids}

Sound ==
  /\ \A p \in TablePages \cup IndexPages : Walkable(p)
  /\ \A p \in IndexPages : \A i \in DOMAIN Cells(p) : IsText(Cells(p)[i].key)
  /\ \A p \in IndexPages : \A i \in DOMAIN Cells(p) : Cells(p)[i].readable
  /\ \A c \in LeafCells(db, TablePages) : c.readable

Cursor == INSTANCE RowCursor WITH
  answer <- Answer, sound <- Sound, emitted <- rows,
  status <- CASE pc = "exhausted" -> "end" [] pc \in {"exit", "undefined"} -> "failed" [] OTHER -> "open"

\* With an equality on the index's first column, produce_row returns exactly the
\* rows of Answer, in order and once each, before it returns false; the process
\* ends early only for an empty page, a record it cannot read or a key that is
\* not a text.
ImplementsCursor == Cursor!SafetySpec

\* However the rows lie in the trees, the walks of a scan come to an end.
ScanEnds == <>(pc \in {"exhausted", "exit", "undefined"})

-----------------------------------------------------------------------------
\* What the comments and tests say of the scans, and the code does not do.

\* A table scan "produce[s] the rows in order" (tree_walker.c:33): when it is
\* exhausted, it has produced every row of the table.
FullScanComplete == pc = "exhausted" /\ ~IndexScan => Produced = TableRowids

\* An index scan "iterate[s] over the[] keys, producing row ids until our
\* constraint is no longer met" (tree_walker.c:20-21): when it is exhausted, it
\* has produced the row of every matching entry of the index's leaves.
LeafKeysIterated == pc = "exhausted" /\ IndexScan => LeafMatches \subseteq Produced
=============================================================================
