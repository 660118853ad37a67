----------------------------- MODULE MCTreeWalker -----------------------------
(***************************************************************************)
(* Small instances of TreeWalker.  Tables: one leaf, two levels of three   *)
(* leaves, three levels of four leaves, with every set of rowids their     *)
(* pages may hold, and an empty root.  Indexes on a table of six or seven  *)
(* rows: one leaf, two levels of three leaves, two levels of four          *)
(* one-entry leaves, three levels, with every assignment of a few keys to  *)
(* the rows.  The key 0 is NULL's, 1 a number's, the others are texts'; of *)
(* some tables and indexes one record holds a REAL.                        *)
(***************************************************************************)
EXTENDS TreeWalker, FiniteSets

CONSTANTS MaxRowid, Keys, FewKeys

\* The elements of a finite set in their order: the i-th has i - 1 before it.
Sorted(S, before(_, _)) ==
  [i \in 1 .. Cardinality(S) |->
     CHOOSE x \in S : Cardinality({y \in S : before(y, x)}) = i - 1]

Ascending(S) == Sorted(S, <)

LeafTableWith(S, reals) ==
  LET rowids == Ascending(S)
  IN  [type |-> "leaf_table", right |-> 0,
       cells |-> [i \in DOMAIN rowids |->
                    [rowid |-> rowids[i], readable |-> rowids[i] \notin reals]]]

LeafTable(S) == LeafTableWith(S, {})

\* children: a sequence of <<page, greatest rowid under it>>, the last one right-most.
InteriorTable(children) ==
  [type |-> "interior_table",
   cells |-> [i \in 1 .. Len(children) - 1 |->
                [child |-> children[i][1], key |-> children[i][2]]],
   right |-> children[Len(children)][1]]

TwoLevelTable(S) ==
  << InteriorTable(<< <<2, 2>>, <<3, 4>>, <<4, 6>> >>),
     LeafTable(S \cap 1 .. 2), LeafTable(S \cap 3 .. 4), LeafTable(S \cap 5 .. 6) >>

ThreeLevelTable(S) ==
  << InteriorTable(<< <<2, 4>>, <<3, 8>> >>),
     InteriorTable(<< <<4, 2>>, <<5, 4>> >>), InteriorTable(<< <<6, 6>>, <<7, 8>> >>),
     LeafTable(S \cap 1 .. 2), LeafTable(S \cap 3 .. 4),
     LeafTable(S \cap 5 .. 6), LeafTable(S \cap 7 .. 8) >>

NoEmptyLeaf(pages) == \A p \in DOMAIN pages : pages[p].cells # <<>>

PagesOfTables ==
  {<<LeafTableWith(S, {r})>> : S \in SUBSET (1 .. MaxRowid), r \in 0 .. MaxRowid}
    \cup {pages \in {TwoLevelTable(S) : S \in SUBSET (1 .. 6)} : NoEmptyLeaf(pages)}
    \cup {pages \in {ThreeLevelTable(S) : S \in SUBSET (1 .. 8)} : NoEmptyLeaf(pages)}

TableDatabases == {[pages |-> pages, table |-> 1, index |-> 0] : pages \in PagesOfTables}

-----------------------------------------------------------------------------
\* The entries of an index in their order, for an assignment of keys to rowids.
EntriesWith(key, reals) ==
  Sorted({[key |-> key[r], rowid |-> r, readable |-> key[r] # 0 /\ r \notin reals] :
            r \in DOMAIN key},
         LAMBDA a, b : a.key < b.key \/ (a.key = b.key /\ a.rowid < b.rowid))

Entries(key) == EntriesWith(key, {})

LeafIndex(entries) == [type |-> "leaf_index", cells |-> entries, right |-> 0]

\* Interior entries with the pages left of them, and the right-most page.
InteriorIndex(entries, children, right) ==
  [type |-> "interior_index", right |-> right,
   cells |-> [i \in DOMAIN entries |->
                [key |-> entries[i].key, rowid |-> entries[i].rowid,
                 readable |-> entries[i].readable, child |-> children[i]]]]

OneLeafIndex(e) == <<LeafIndex(e)>>

ThreeLeafIndex(e) ==
  << InteriorIndex(<<e[3], e[5]>>, <<2, 3>>, 4),
     LeafIndex(SubSeq(e, 1, 2)), LeafIndex(<<e[4]>>), LeafIndex(<<e[6]>>) >>

FourLeafIndex(e) ==
  << InteriorIndex(<<e[2], e[4], e[6]>>, <<2, 3, 4>>, 5),
     LeafIndex(<<e[1]>>), LeafIndex(<<e[3]>>), LeafIndex(<<e[5]>>), LeafIndex(<<e[7]>>) >>

ThreeLevelIndex(e) ==
  << InteriorIndex(<<e[4]>>, <<2>>, 3),
     InteriorIndex(<<e[2]>>, <<4>>, 5), InteriorIndex(<<e[6]>>, <<6>>, 7),
     LeafIndex(<<e[1]>>), LeafIndex(<<e[3]>>), LeafIndex(<<e[5]>>), LeafIndex(<<e[7]>>) >>

\* The table of an indexed database comes after the pages of its index.
SevenRowTable(first) ==
  << InteriorTable(<< <<first + 1, 2>>, <<first + 2, 4>>, <<first + 3, 7>> >>),
     LeafTable(1 .. 2), LeafTable(3 .. 4), LeafTable(5 .. 7) >>

Indexed(pages) ==
  [pages |-> pages \o SevenRowTable(Len(pages) + 1), table |-> Len(pages) + 1, index |-> 1]

IndexedDatabases ==
  {Indexed(OneLeafIndex(Entries(key))) : key \in [1 .. 5 -> Keys]}
    \cup {Indexed(ThreeLeafIndex(Entries(key))) : key \in [1 .. 6 -> Keys]}
    \cup {Indexed(ThreeLeafIndex(EntriesWith(key, {r}))) : key \in [1 .. 6 -> FewKeys], r \in 1 .. 6}
    \cup {Indexed(FourLeafIndex(Entries(key))) : key \in [1 .. 7 -> FewKeys]}
    \cup {Indexed(ThreeLevelIndex(Entries(key))) : key \in [1 .. 7 -> FewKeys]}

ASSUME OrderAssumption == OrderedTrees

MCDatabases == TableDatabases \cup IndexedDatabases

MCPredicates == {[op |-> "=", value |-> 2], [op |-> "=", value |-> 3]}
=============================================================================
