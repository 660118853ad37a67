---------------------------- MODULE MCPagerAndCodec ----------------------------
(***************************************************************************)
(* The page cache, with three slots for five pages, one of which the file  *)
(* does not hold in full, and MaxClock calls of get_page; and the reading  *)
(* of a page's bytes.  They share no state: each behaviour uses one of     *)
(* them, chosen by subject.                                                *)
(***************************************************************************)
EXTENDS MCFileFormat, Pager

CONSTANT MaxClock

VARIABLE subject

MCPages    == 1 .. 5
MCReadable == 1 .. 4

OneFile == Written(2, StoredPage("leaf table", [rowid |-> 1, values |-> Small],
                                               [rowid |-> 6, values |-> Small]))

MCInit ==
  /\ Init /\ ReaderInit
  /\ subject \in {"pager", "codec"}
  /\ subject = "pager" => file = OneFile

\* The process may exit, and the instances stop at MaxClock; the reading of a page
\* goes on to an end.
MCNext ==
  \/ /\ subject = "pager"
     /\ Release \/ \E p \in Pages : clock < MaxClock /\ CallerGets(p)
     /\ UNCHANGED <<reader_vars, subject>>
  \/ subject = "codec" /\ ReaderNext /\ UNCHANGED <<vars, subject>>
  \/ subject = "pager" /\ UNCHANGED <<vars, reader_vars, subject>>

MCSpec == MCInit /\ [][MCNext]_<<vars, reader_vars, subject>>
=============================================================================
