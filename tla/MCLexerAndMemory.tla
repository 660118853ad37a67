--------------------------- MODULE MCLexerAndMemory ---------------------------
(***************************************************************************)
(* The scanner, the hash map and the arena share no state: each behaviour  *)
(* uses one of them, chosen by subject.                                    *)
(***************************************************************************)
EXTENDS MCLexer, HashMap, Arena

VARIABLE subject

MCInit ==
  /\ Init /\ MapInit /\ ArenaInit
  /\ subject \in {"scanner", "map", "arena"}
  /\ subject # "scanner" => table = <<>>
  /\ subject # "arena" => buffer = 0 /\ capacity = MinArenaCapacity

\* Nobody has to go on using a map or an arena; the scanner goes on to an end.
MCNext ==
  \/ subject = "scanner" /\ Next /\ UNCHANGED <<map, arena, subject>>
  \/ subject = "map" /\ MapNext /\ UNCHANGED <<vars, arena, subject>>
  \/ subject = "arena" /\ ArenaNext /\ UNCHANGED <<vars, map, subject>>
  \/ subject # "scanner" /\ UNCHANGED <<vars, map, arena, subject>>

MCSpec == MCInit /\ [][MCNext]_<<vars, map, arena, subject>>

\* At every capacity some keys collide.
MCHash == [key \in Keys |-> CASE key = "k1" -> 0 [] key = "k2" -> 5 [] key = "k3" -> 4
                              [] key = "k4" -> 12 [] key = "k5" -> 6]
=============================================================================
