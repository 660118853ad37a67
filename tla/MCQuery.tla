------------------------------- MODULE MCQuery -------------------------------
(***************************************************************************)
(* Small files and statements for Query: one table t of three rows in a    *)
(* tree of two leaves, after a table without rows, with up to two indexes  *)
(* of one leaf each or one of two leaves and an entry above them; in some  *)
(* files a rowid is missing, and in some there is a view or a trigger.     *)
(***************************************************************************)
EXTENDS QueryAnswers

Record(type, tbl, columns, root) ==
  [type |-> type, tbl_name |-> tbl, columns |-> columns, root |-> root]

\* The n-th text, and a literal of it.
T(n) == Text(LastNumber + n)
S(n) == Str(LastNumber + n)

\* The rows of a page.
TableLeaf(values, rowids) ==
  LET order == SetToSortSeq(rowids, <) IN
  [type |-> "leaf_table", right |-> 0,
   cells |-> [i \in DOMAIN order |-> [rowid |-> order[i], readable |-> ~HasOther(values[order[i]])]]]

TableRoot == [type |-> "interior_table", right |-> 3, cells |-> <<[key |-> 2, child |-> 2]>>]

\* Ordered by the index's columns, then by the rowid.  Of a key only the first
\* column is looked at, but the order of all decides in which order rowids come.
\* 0 stands for NULL and for a value that is not in the record.
IndexLeaf(values, positions) ==
  LET at(v, n) == IF positions[n] \in DOMAIN v THEN v[positions[n]] ELSE Null
      key(v) == [n \in DOMAIN positions |-> at(v, n).value]
      readable(v) == at(v, 1) # Null /\ \A n \in DOMAIN positions : at(v, n).type # "other"
      Before(x, y) ==
        \/ \E n \in DOMAIN x.key : x.key[n] < y.key[n] /\ \A m \in 1 .. n - 1 : x.key[m] = y.key[m]
        \/ x.key = y.key /\ x.rowid < y.rowid
      entries == SetToSortSeq({[key |-> key(values[r]), rowid |-> r] : r \in DOMAIN values}, Before)
  IN [type |-> "leaf_index", right |-> 0,
      cells |-> [i \in DOMAIN entries |->
                   [key |-> entries[i].key[1], rowid |-> entries[i].rowid,
                    readable |-> readable(values[entries[i].rowid])]]]

\* Pages 1 to 3 are the table's, 4 is the empty table's, 5 and on the indexes'.
FileOf(columns, values, indexes) ==
  [schema |-> <<Record("table", "e", columns, 4), Record("table", "t", columns, 1)>>
              \o [k \in DOMAIN indexes |-> Record("index", "t", indexes[k], 4 + k)],
   pages |-> <<TableRoot, TableLeaf(values, DOMAIN values \cap 1 .. 2),
               TableLeaf(values, DOMAIN values \ 1 .. 2), TableLeaf(values, {})>>
              \o [k \in DOMAIN indexes |->
                    IndexLeaf(values, IF indexes[k] = <<>> THEN <<1>>
                                      ELSE [n \in DOMAIN indexes[k] |->
                                              Position(columns, indexes[k][n])])],
   values |-> [e |-> <<>>, t |-> values]]

Triples(values) == [1 .. 3 -> values]

\* a table whose first column is the rowid's: its value is NULL in every record.
IdFiles ==
  {FileOf(<<"id", "a">>, [r \in 1 .. 3 |-> <<Null, T(key[r])>>], indexes) :
     key \in Triples({1, 2}), indexes \in {<<>>, << <<"a">> >>}}

Records == {<<T(1), T(1), T(2)>>, <<T(1), T(2), T(1)>>,
            <<T(2), T(1), T(2)>>, <<T(3), Number(1), T(3)>>}

PlainFiles ==
  {FileOf(<<"a", "b", "c">>, values, indexes) :
     values \in Triples(Records),
     indexes \in {<<>>, << <<"a">> >>, << <<"b">>, <<"a", "b">> >>, << <<"a">>, <<"a", "b">> >>}}

OddFiles ==
  {FileOf(<<"a", "b">>, values, indexes) :
     values \in {<< <<T(1)>>, <<T(1), Null>>, <<Null, Null>> >>,
                 << <<Null, T(1)>>, <<T(2), T(2)>>, <<T(1), Null>> >>,
                 << <<T(1), T(1)>>, <<Number(1), T(1)>>, <<T(1), T(2)>> >>,
                 [r \in 1 .. 3 |-> <<Number(1), T(r)>>],
                 << <<T(1), T(1)>>, <<Other(1), T(1)>>, <<T(1), Other(LastNumber + 3)>> >>},
     indexes \in {<<>>, << <<"a">> >>, << <<"b">>, <<>> >>}}

GapFiles ==
  {FileOf(<<"a", "b">>, [r \in {1, 2, 4} |-> <<T(key[r]), T(r)>>], indexes) :
     key \in [{1, 2, 4} -> 1 .. 2], indexes \in {<<>>, << <<"a">> >>}}

\* The entries of the only index on two leaves and above them.
Split(f) ==
  LET e == f.pages[5].cells
      leaf(i) == [type |-> "leaf_index", right |-> 0, cells |-> <<e[i]>>]
  IN  [f EXCEPT !.pages = SubSeq(@, 1, 4) \o
         << [type |-> "interior_index", right |-> 7,
             cells |-> << e[2] @@ [child |-> 6] >>], leaf(1), leaf(3) >>]

SplitFiles ==
  {Split(FileOf(<<"a", "b">>, [r \in 1 .. 3 |-> <<T(key[r]), T(r)>>], << index >>)) :
     key \in Triples(1 .. 3), index \in {<<"a">>, <<"a", "b">>}}

\* With a record that has no tree before the table's or behind it.
TreelessFiles ==
  LET f == FileOf(<<"a", "b">>, [r \in 1 .. 3 |-> <<T(1), T(r)>>], << <<"a">> >>)
      view    == Record("view", "v", <<>>, 0)
      trigger == Record("trigger", "t", <<>>, 0)
  IN  {[f EXCEPT !.schema = <<view>> \o @], [f EXCEPT !.schema = @ \o <<trigger>>]}

MCFiles == IdFiles \cup OddFiles \cup TreelessFiles \cup GapFiles \cup SplitFiles \cup
  {f \in PlainFiles : Len(f.schema) # 4 \/ \A r \in 1 .. 3 : f.values.t[r][2].type = "text"}

MCPrefixOf == {<<LastNumber + 1, LastNumber + 2>>}    \* as 'a', 'ab' and 'b'

A == Col("a")
B == Col("b")
C == Col("c")
Id == Col("id")

Selects == {<<A>>, <<B, A>>, <<Id, A>>, <<A, Id>>, <<A, A, A>>, <<C, C, B, A>>, <<Star>>, <<Col("x")>>,
            <<Fun("count", {})>>, <<A, Fun("count", {"a"})>>, <<Fun("count", {}), A>>}

Wheres ==
  {NoWhere, <<A>>, <<Star>>, <<Bin(Col("x"), "=", S(1))>>, <<Fun("lower", {"a"})>>,
   <<Bin(A, "=", B)>>, <<Bin(A, "=", B), Bin(B, "=", S(1))>>,
   <<Bin(Id, "=", S(1))>>, <<Bin(A, "=", C), Bin(B, "=", S(1))>>,
   <<Bin(A, "=", S(1)), Bin(S(1), "=", B)>>, <<Bin(B, "=", S(1)), Bin(A, "=", S(1))>>,
   <<Bin(S(1), "=", S(1)), Bin(A, "=", S(1))>>}
  \cup {<<Bin(c, op, S(n))>> : c \in {A, B}, op \in {"=", "<", ">"}, n \in {1, 2}}

Stmt(table, select, where) == [table |-> table, select |-> select, where |-> where]

MCStatements ==
  {Stmt("t", <<B, A>>, w) : w \in Wheres} \cup {Stmt("t", <<Fun("count", {})>>, w) : w \in Wheres}
  \cup {Stmt("t", s, w) : s \in Selects, w \in {NoWhere, <<Bin(A, "=", S(1))>>}}
  \cup {Stmt("e", <<A>>, NoWhere), Stmt("u", <<A>>, NoWhere)}
=============================================================================
