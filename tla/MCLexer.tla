------------------------------- MODULE MCLexer -------------------------------
(***************************************************************************)
(* Small alphabets for the scanner: word tables of up to three words, some *)
(* equal but for case and some beginnings of others; and, with one table,  *)
(* all short texts over the characters that scan_token tells apart.        *)
(***************************************************************************)
EXTENDS Lexer

MCLower == [c \in {"a", "A", "s", "x", "X", "_"} |->
  CASE c = "A" -> "a" [] c = "X" -> "x" [] OTHER -> c]

Entries == {[word |-> <<"a">>, type |-> "ONE"], [word |-> <<"a", "s">>, type |-> "AS"],
            [word |-> <<"A", "s", "s">>, type |-> "LONG"], [word |-> <<"s", "a">>, type |-> "SA"],
            [word |-> <<"A", "s">>, type |-> "AGAIN"]}

MCTables == BoundedSeq(Entries, 3)

Table == <<[word |-> <<"a", "s">>, type |-> "AS"], [word |-> <<"A", "s", "s">>, type |-> "LONG"]>>

AllTexts ==
  BoundedSeq({"a", "s", "x", "1", "'", "\"", ".", "/", "newline", "blank", "=", "<", "!", "?"}, 3)
  \cup BoundedSeq({"A", "x", "1", "'"}, 6)
  \cup BoundedSeq({"X", "newline", "'", "a"}, 5)
  \cup BoundedSeq({"1", ".", "a", "*"}, 5)
  \cup BoundedSeq({"/", "newline", "\"", "'", "s"}, 5)

MCTexts(words) == IF words = Table THEN AllTexts ELSE {<<>>}

MCProbes == BoundedSeq({"a", "A", "s", "1"}, 3)
=============================================================================
