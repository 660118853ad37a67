------------------------------- MODULE MCParser -------------------------------
(***************************************************************************)
(* The texts the parsers are run on: every text of a small alphabet, up to *)
(* FreeLength tokens, and Corpus, statements that reach every parse        *)
(* function, with at most one of their tokens replaced.  The statements of *)
(* src/grammar.md have texts of their own.                                 *)
(***************************************************************************)
EXTENDS StatementReading

CONSTANTS FreeLength, FreeAlphabet, Substitutes

Id == "IDENTIFIER"
LP == "LEFT_PAREN"
RP == "RIGHT_PAREN"

Base == <<"SELECT", Id, "FROM", Id>>

Window == <<"PARTITION", "BY", Id, "ORDER", "BY", Id>>

Expressions == {
  <<"CAST", LP, Id, "AS", "TEXT", RP>>,
  <<"CASE", Id, "WHEN", Id, "THEN", "NUMBER", "ELSE", "STRING", "END">>,
  <<"CASE", "WHEN", Id, "LESS", "NUMBER", "THEN", "NULL", "END", "EQUAL", Id>>,
  <<LP, Id, "GREATER", "CURRENT_TIME", RP>>,
  <<LP, LP, Id, "COMMA", Id, RP, RP>>,
  <<LP, Id, "COMMA", Id, RP>>,
  <<LP, "SELECT", Id, "AS", Id, "FROM", Id, RP>>,
  <<LP, "SELECT", Id, "DOT", "STAR", "FROM", Id, RP>>,
  <<LP, "VALUES", LP, LP, LP, "NUMBER", "COMMA", Id, RP, RP, RP>>,
  <<Id, "DOT", Id>>, <<Id, "DOT", Id, "DOT", Id>>, <<Id, LP, Id, RP>>,
  <<"NOT", "EXISTS">>, <<"EXISTS", LP, "SELECT", Id, RP>>, <<"NOT", Id>>,
  <<"RAISE", LP, "IGNORE", RP>>, <<"RAISE", LP, "ROLLBACK", "COMMA", Id, RP>>,
  <<"PLUS", Id>>, <<"MINUS", Id>>, <<"TRUE">>, <<Id, "IS", "NULL">>, <<Id, "LIKE", "STRING">>}

Tails ==
  {<<"GROUP", "BY">> \o e : e \in Expressions} \cup
  {<<"GROUP", "BY", Id, "COMMA", Id, "HAVING", Id, "LESS", "NUMBER">>,
   <<"ORDER", "BY", Id, "COLLATE", "ASC", "NULLS", "LAST", "COMMA", Id>>,
   <<"LIMIT", "NUMBER", "OFFSET", "NUMBER">>,
   <<"UNION", "ALL", "SELECT", "DISTINCT", Id, "FROM", Id>>,
   <<"EXCEPT", "SELECT", "ALL", Id>>,
   <<"WINDOW", Id, "AS", Id>> \o Window \o <<"ROWS", "UNBOUNDED", "PRECEDING", RP>>,
   <<"WINDOW", Id, "AS">> \o Window \o <<"RANGE", "BETWEEN", "NUMBER", "PRECEDING", "AND",
     "CURRENT", "ROW", "EXCLUDE", "NO", "OTHERS", RP, "COMMA", Id, "AS", RP>>,
   <<"WINDOW", Id, "AS", "GROUPS", "CURRENT", "ROW", "EXCLUDE", "TIES", RP>>,
   <<"AS", Id, "WHERE", Id, "EQUAL", Id>>, <<"INDEXED", "BY", Id>>, <<"NOT", "INDEXED", Id>>,
   <<"COMMA", Id>>, <<"NATURAL", "LEFT", "OUTER", "JOIN", Id, "ON", Id>>,
   <<"CROSS", "JOIN", Id, "USING", LP, Id, RP>>,
   <<"UNION", "SELECT", "STAR", "FROM", Id, LP, Id, RP, Id>>,
   <<"UNION", "SELECT", "STAR", "FROM", Id, "DOT", Id, LP, Id, RP>>,
   <<"UNION", "SELECT", "STAR", "FROM", Id, "DOT", Id, Id>>,
   <<"UNION", "SELECT", "STAR", "FROM", LP, "SELECT", Id, "FROM", Id, RP, Id, RP>>,
   <<"UNION", "SELECT", "STAR", "FROM", LP, Id, Id>>}

Corpus == [
  parse |-> Supported \cup {Base \o tail \o <<"EOF">> : tail \in Tails},
  create |-> {
    <<"CREATE", "TABLE", Id, LP, Id, "INTEGER", "COMMA", "STRING", "TEXT", LP, "NUMBER", RP,
      "COMMA", Id, RP, "EOF">>,
    <<"CREATE", "TABLE", "STRING", LP, Id, Id, LP, "NUMBER", "COMMA", Id, RP, RP, "EOF">>},
  create_index |-> {
    <<"CREATE", "UNIQUE", "INDEX", "IF", "NOT", "EXISTS", Id, "ON", Id, LP, Id, "COMMA",
      Id, RP, "EOF">>,
    <<"CREATE", "INDEX", Id, "DOT", Id, "ON", Id, LP, Id, RP, "EOF">>,
    <<"CREATE", "INDEX", Id, "ON", Id, LP, Id, "COMMA", Id, "COMMA", Id, RP, "EOF">>}]

Differences(s, text) ==
  IF Len(s) > Len(text) THEN 2 ELSE Cardinality({i \in 1 .. Len(s) : s[i] # text[i]})

MCNextTokens(k, s) ==
  LET near == {text \in Corpus[k] : Len(s) < Len(text) /\ Differences(s, text) < 2} IN
  {"EOF"} \cup {text[Len(s) + 1] : text \in near}
          \cup (IF \E text \in near : Differences(s, text) = 0 THEN Substitutes ELSE {})
          \cup (IF k = "parse" /\ Len(s) < FreeLength /\ ToSet(s) \subseteq FreeAlphabet
                THEN FreeAlphabet ELSE {})

GrammarNextTokens(k, s) ==
  {"EOF"} \cup {text[Len(s) + 1] : text \in {t \in GrammarSentences : Len(s) < Len(t) /\ IsPrefix(s, t)}}
=============================================================================
