--------------------------- MODULE StatementReading ---------------------------
(***************************************************************************)
(* What the parsers promise about the statements they read, against a      *)
(* reference grammar.                                                      *)
(***************************************************************************)
EXTENDS Parser, SequencesExt

CONSTANT SentenceLength   \* the longest sentences of the reference grammar

ASSUME SentenceLengthAssumption == SentenceLength \in Nat

-----------------------------------------------------------------------------
(***************************************************************************)
(* The statements sgl executes, as parse reads them:                       *)
(*   SELECT list FROM name [WHERE list]                                    *)
(*   list ::= expr {, expr}     expr ::= term [op term]                    *)
(*   term ::= * | name | string | name ( [list] )                          *)
(* A string may only be the last token of a statement.  The grammar of     *)
(* src/grammar.md is a larger one: ReadsGrammar below compares parse with  *)
(* it.                                                                     *)
(***************************************************************************)
Ops == {"EQUAL", "LESS", "GREATER"}

\* All a \o middle \o b of n tokens, with a in A[i] and b in B[n - |middle| - i].
Joined(A, middle, B, n) ==
  UNION {{a \o middle \o b : a \in A[i], b \in B[n - Len(middle) - i]} :
           i \in 1 .. n - Len(middle) - 1}

\* The phrases of n tokens, from those of fewer.
Phrases == FoldLeft(
  LAMBDA p, n :
    LET calls == IF n < 3 THEN {}
                 ELSE {<<"IDENTIFIER", "LEFT_PAREN">> \o args \o <<"RIGHT_PAREN">> :
                         args \in IF n = 3 THEN {<<>>} ELSE p.list[n - 3]}
        terms == Append(p.term, calls \cup
                   IF n = 1 THEN {<<"STAR">>, <<"IDENTIFIER">>, <<"STRING">>} ELSE {})
        exprs == Append(p.expr, terms[n] \cup
                   UNION {Joined(terms, <<op>>, terms, n) : op \in Ops})
    IN [term |-> terms, expr |-> exprs,
        list |-> Append(p.list, exprs[n] \cup Joined(exprs, <<"COMMA">>, p.list, n))],
  [term |-> <<>>, expr |-> <<>>, list |-> <<>>],
  [n \in 1 .. SentenceLength - 3 |-> n])

Sentences ==
  LET selects == UNION {{<<"SELECT">> \o list \o <<"FROM", "IDENTIFIER">> :
                           list \in Phrases.list[n]} : n \in DOMAIN Phrases.list}
      wheres  == UNION {{<<"WHERE">> \o list : list \in Phrases.list[n]} :
                          n \in 1 .. SentenceLength - 5}
      all     == selects \cup
                 {s \o w : s \in {x \in selects : Len(x) < SentenceLength - 1},
                           w \in wheres}
  IN {s \in all : /\ Len(s) <= SentenceLength
                  /\ \A i \in 1 .. Len(s) - 1 : s[i] # "STRING"}

Beginnings == {<<>>} \cup UNION {{SubSeq(s, 1, n) : n \in 1 .. Len(s)} : s \in Sentences}

\* The tokens parse has taken for a statement when it returns.
Taken == SubSeq(source, 1,
  IF \E n \in ToSet(nodes) : n.node = "string" /\ n.to = current THEN current ELSE previous)

\* parse accepts exactly the sentences: what it takes for a statement is one,
\* and it gives up only at a token no sentence goes on with.  This is the
\* language of the statements that are executed (parser.c:234-359), the string
\* that is left unread at the end of a condition included, and not the one
\* src/grammar.md describes, to which ReadsGrammar compares it.
AcceptsSelectLanguage ==
  phase = "parse" =>
    /\ (status = "running" /\ todo = <<>> /\ Len(Taken) <= SentenceLength)
         => Taken \in Sentences
    /\ (status = "exited" /\ Len(source) < SentenceLength) => source \notin Beginnings

-----------------------------------------------------------------------------
Outermost(ns) ==
  {n \in ns : ~ \E m \in ns : m # n /\ m.from <= n.from /\ n.to <= m.to}

Nodes(tree, type) == {n \in ToSet(tree) : n.node = type}

\* The spans of the select list, and the first condition.
Columns(tree, type, from) ==
  {<<n.from, n.to>> : n \in Outermost({m \in Nodes(tree, type) : m.to < from})}

\* The tree that is executed and the tree that is printed speak of the same
\* statement: when parse_new has found the table, it is the one parse found,
\* the select lists are cut into the same columns, and a condition that is
\* executed is printed from the same token on (the two parsers of
\* command_sql, commands.c:53-61).
ParsersAgree ==
  LET old == Nodes(statement, "table")
      new == Nodes(nodes, "table") IN
  (phase = "parse_new" /\ status = "returned" /\ new # {}) =>
    \A t \in old :
      /\ t \in new
      /\ Columns(statement, "expression", t.from) = Columns(nodes, "result_column", t.from)
      /\ Nodes(statement, "where_list") # {} => t.to + 2 \in {n.from : n \in Nodes(nodes, "where")}

-----------------------------------------------------------------------------
\* Statements of the plain clauses, in the order SQL gives them.
Supported ==
  LET Optional(clause) == {<<>>, clause} IN
  {<<"SELECT">> \o columns \o <<"FROM", "IDENTIFIER">> \o where \o group \o order
     \o limit \o <<"EOF">> :
     columns \in {<<"STAR">>, <<"IDENTIFIER", "COMMA", "IDENTIFIER">>},
     where \in {<<>>, <<"WHERE", "IDENTIFIER", "EQUAL", "STRING">>,
                <<"WHERE", "IDENTIFIER", "LESS", "IDENTIFIER">>,
                <<"WHERE", "IDENTIFIER", "GREATER", "IDENTIFIER">>},
     group \in Optional(<<"GROUP", "BY", "IDENTIFIER">>),
     order \in Optional(<<"ORDER", "BY", "IDENTIFIER", "DESC", "COMMA", "IDENTIFIER">>),
     limit \in Optional(<<"LIMIT", "NUMBER">>)}

\* A statement of the plain clauses is read to its end by both parsers: no
\* clause is refused, and none is left unread by parse_new
\* (parser.c:1459-1530, 1857-1906).
SupportedIsReadWhole ==
  (kind = "parse" /\ \E text \in Supported : IsPrefix(source, text)) =>
    /\ status \in {"running", "returned"}
    /\ status = "returned" => CurrentIn({"EOF"})

-----------------------------------------------------------------------------
\* The columns a tree names are the tokens at these places, in order.
Names(tree, places) ==
  LET named == {i \in DOMAIN tree : tree[i].node = "column_name"}
  IN  /\ {tree[i].to : i \in named} = places
      /\ \A i, j \in named : i < j => tree[i].to < tree[j].to

Opens(i)  == Cardinality({j \in 1 .. i : source[j] = "LEFT_PAREN"})
Closes(i) == Cardinality({j \in 1 .. i : source[j] = "RIGHT_PAREN"})
Depth(i)  == Opens(i) - Closes(i)

\* The definitions of a CREATE TABLE begin behind its first parenthesis and
\* behind each comma.
Declared == {i \in 2 .. Len(source) - 1 :
               \/ source[i - 1] = "LEFT_PAREN" /\ Opens(i - 1) = 1
               \/ source[i - 1] = "COMMA" /\ Depth(i - 1) = 1}

\* What parse_create takes for the columns of a table are the first tokens of
\* its definitions, in order, as long as no comma stands between a
\* definition's own parentheses; an index is on the names between its
\* parentheses (parser.c:373-449).
ColumnsAsDeclared ==
  status = "returned" =>
    /\ (kind = "create" /\ \A i \in 1 .. Len(source) : source[i] = "COMMA" => Depth(i) = 1)
         => Names(nodes, Declared)
    /\ kind = "create_index" =>
         Names(nodes, {i \in 1 .. Len(source) : source[i] = "IDENTIFIER" /\ Depth(i) = 1})

-----------------------------------------------------------------------------
\* No text makes a parser run for ever (parser.c:361-2409).
Terminates == <>(status # "running")

\* README.md:11: sgl "supports COUNT as an aggregate operation".
CountSupported ==
  (kind = "parse" /\ IsPrefix(source, <<"SELECT", "IDENTIFIER", "LEFT_PAREN", "STAR",
                                       "RIGHT_PAREN", "FROM", "IDENTIFIER", "EOF">>))
    => status # "exited"

\* The statements of src/grammar.md:22-37 with one expression behind SELECT and up to
\* two behind WHERE, of a few terms and operators: an integer constant is a term, != an
\* operator, an expression goes on with any number of operators and terms, and the
\* conditions are separated by AND.
GrammarSentences ==
  LET Terms   == {<<"IDENTIFIER">>, <<"NUMBER">>}
      Chains  == {a \o <<op>> \o b : a \in Terms, op \in {"EQUAL", "BANG_EQUAL"}, b \in Terms}
      Longer  == {a \o <<"EQUAL">> \o b : a \in Chains, b \in Terms}
      Both    == {a \o <<"AND">> \o b : a \in Chains, b \in Chains}
      Selects == {<<"SELECT">> \o e \o <<"FROM", "IDENTIFIER">> :
                    e \in Terms \cup Chains \cup {<<"STAR">>}}
  IN  {s \o w : s \in Selects,
               w \in {<<>>} \cup {<<"WHERE">> \o e : e \in Chains \cup Longer \cup Both}}

\* grammar.md:22-37: a statement of its language is one that parse reads, to its end.
\* parse refuses integers, reads at most one operator of an expression and knows no !=,
\* and stops at AND (parser.c:234-359).
ReadsGrammar ==
  phase = "parse" =>
    \A text \in GrammarSentences :
      IsPrefix(source, Append(text, "EOF")) =>
        /\ status # "exited"
        /\ (status = "running" /\ todo = <<>>) => Taken = text

-----------------------------------------------------------------------------
TypeOK ==
  /\ StreamTypeOK
  /\ kind \in {"parse", "create", "create_index"}
  /\ phase \in {kind, "parse_new"}
  /\ status \in {"running", "returned", "exited", "crashed"}
  /\ \A n \in ToSet(nodes) \cup ToSet(statement) :
       {n.from, n.to} \subseteq 0 .. Len(source)
=============================================================================
