--------------------------------- MODULE Trie ---------------------------------
(***************************************************************************)
(* The trie of reserved words (src/trie.c): a pool of nodes, each with a   *)
(* child for every letter.  Node 1 is the root; 0 stands for EMPTY_CHILD.  *)
(* A word is a sequence of characters; upper and lower case share a child. *)
(***************************************************************************)
EXTENDS Integers, Sequences, SequencesExt

CONSTANTS
  Letters,    \* the letters of the alphabet, in lower case
  Lower,      \* the lower case of every character that is a letter
  MaxNodes    \* MAX_NODES

ASSUME TrieAssumption ==
  /\ Letters = {Lower[c] : c \in DOMAIN Lower} /\ Letters \subseteq DOMAIN Lower
  /\ MaxNodes \in Nat \ {0}

VARIABLES nodes, trie_status    \* "open", or "exited" when the pool ran out

Node == [sub_tries |-> [c \in Letters |-> 0], end_of_word |-> FALSE, token_type |-> "ERROR"]

TrieInit == nodes = <<Node>> /\ trie_status = "open"

\* One round of add_word_to_trie, at node curr of the pool.
Descend(at, c) ==
  LET next == at.pool[at.curr].sub_tries[Lower[c]] IN
  IF next # 0 THEN [at EXCEPT !.curr = next]
  ELSE [pool |-> Append([at.pool EXCEPT ![at.curr].sub_tries[Lower[c]] = Len(at.pool) + 1], Node),
        curr |-> Len(at.pool) + 1]

\* Wrong: a node that already ends a word is left as it is.
EndWordOnce(node, type) ==
  IF node.end_of_word THEN node
  ELSE [node EXCEPT !.end_of_word = TRUE, !.token_type = type]

EndWord(node, type) == [node EXCEPT !.end_of_word = TRUE, !.token_type = type]

\* The pool with the beginning of a word of each length, from the root down.
Descents(pool, word) ==
  LET at[n \in 0 .. Len(word)] ==
        IF n = 0 THEN [pool |-> pool, curr |-> 1] ELSE Descend(at[n - 1], word[n])
  IN at

AddWord(word, type) ==
  LET end == Descents(nodes, word)[Len(word)] IN
  IF Len(end.pool) > MaxNodes
  THEN trie_status' = "exited" /\ UNCHANGED nodes
  ELSE /\ nodes' = [end.pool EXCEPT ![end.curr] = EndWord(@, type)]
       /\ UNCHANGED trie_status

Follow(pool, curr, c) ==
  IF curr = 0 \/ c \notin DOMAIN Lower THEN 0 ELSE pool[curr].sub_tries[Lower[c]]

\* Where the beginnings of a word lead to, 0 when its path breaks off.
Path(pool, word) ==
  LET curr[n \in 0 .. Len(word)] == IF n = 0 THEN 1 ELSE Follow(pool, curr[n - 1], word[n])
  IN curr

\* identifier_type over is_word_in_trie.
TypeOfWord(word) ==
  LET end == Path(nodes, word)[Len(word)] IN
  IF end # 0 /\ nodes[end].end_of_word THEN nodes[end].token_type ELSE "IDENTIFIER"
=============================================================================
