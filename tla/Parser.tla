------------------------------- MODULE Parser -------------------------------
(***************************************************************************)
(* sgl's parsers (src/parser.c): recursive descent over a TokenStream.     *)
(* command_sql reads a statement twice, with parse, whose tree is          *)
(* executed, and then with parse_new, whose tree is only printed; CREATE   *)
(* statements of the schema are read by parse_create and                   *)
(* parse_create_index.                                                     *)
(*                                                                         *)
(* A parse function is a sequence of instructions, one for each thing it   *)
(* does to the stream; a call puts the callee's instructions before those  *)
(* of the caller, so `todo` is the C stack.  The tree is the sequence of   *)
(* the nodes allocated, with the tokens each covers.  Every error ends the *)
(* process at once (error_at, exit(1)).                                    *)
(***************************************************************************)
EXTENDS TokenStream

VARIABLES
  phase,      \* the parser at work
  todo,       \* the instructions left
  nodes,      \* the nodes this parser has allocated, in order
  statement,  \* the nodes of parse, once parse_new runs
  status      \* "running", "returned", "exited" or "crashed"

vars == <<stream, phase, todo, nodes, statement, status>>

-----------------------------------------------------------------------------
(***************************************************************************)
(* The instructions.                                                       *)
(***************************************************************************)
Consume(type)   == [do |-> "consume", type |-> type]
Next1           == [do |-> "advance"]
Call(function)  == [do |-> "call", function |-> function]
Comma(function) == [do |-> "list", function |-> function]   \* do .. while match(COMMA)
Error           == [do |-> "error"]
Crash           == [do |-> "crash"]
Make(node)      == [do |-> "make", node |-> node]           \* named by the previous token
MakeHere(node)  == [do |-> "make_here", node |-> node]      \* named by the current one
Node(node, body) == [do |-> "node", node |-> node, body |-> body]

\* switch (current.type): the first arm with the type, or else the default.
Switch(arms, default) == [do |-> "switch", arms |-> arms, default |-> default]
On(types, body)       == [types |-> types, body |-> body]
At(types, body, else) == Switch(<<On(types, body)>>, else)
Match(type, body)     == At({type}, <<Next1>> \o body, <<>>)
OneOf(types)          == At(types, <<Next1>>, <<Error>>)
Require(types)        == At(types, <<>>, <<Error>>)

\* if (peek(n)->type == type).
Look(n, type, body, else) ==
  [do |-> "look", n |-> n, type |-> type, body |-> body, else |-> else]

Operators   == {"EQUAL", "LESS", "GREATER"}
Literals    == {"NUMBER", "STRING", "NULL",
                "CURRENT_TIME", "CURRENT_DATE", "CURRENT_TIMESTAMP"}
SelectStart == {"WITH", "SELECT", "VALUES"}
JoinStart   == {"COMMA", "JOIN", "NATURAL", "LEFT", "RIGHT", "FULL", "INNER", "CROSS"}

-----------------------------------------------------------------------------
(***************************************************************************)
(* parse: the statements that are executed.  A string is not advanced past *)
(* by parse_term, so it is always the last token of what is read.          *)
(***************************************************************************)
ParseTerm == <<Switch(<<
  On({"STAR"}, <<Next1, Make("star")>>),
  On({"IDENTIFIER"}, <<Next1, At({"LEFT_PAREN"},
       <<Make("function"), Call("function_call")>>, <<Make("column")>>)>>),
  On({"STRING"}, <<MakeHere("string")>>)>>, <<Error>>)>>

\* Wrong: an argument is always expected.
FunctionCallWithArguments == <<Consume("LEFT_PAREN"), Comma("expression"),
  Consume("RIGHT_PAREN")>>

ParseFunctionCall == <<Consume("LEFT_PAREN"),
  At({"RIGHT_PAREN"}, <<>>, <<Comma("expression")>>), Consume("RIGHT_PAREN")>>

ParseExpression == <<Node("expression",
  <<Call("term"), At(Operators, <<Next1, Call("term"), Make("binary")>>, <<>>)>>)>>

ParseSelect == <<Consume("SELECT"), Comma("expression"), Make("select_list"),
  Consume("FROM"), Consume("IDENTIFIER"), Make("table"),
  Match("WHERE", <<Comma("expression"), Make("where_list")>>)>>

(***************************************************************************)
(* parse_create and parse_create_index.  A column is the first token       *)
(* behind a comma, whatever the comma separates.                           *)
(***************************************************************************)
ParseCreate == <<Consume("CREATE"), Consume("TABLE"),
  OneOf({"STRING", "IDENTIFIER"}), Consume("LEFT_PAREN"), Call("create_columns")>>

\* Wrong: the name is taken when the definition has been skipped.
ColumnsAfterDefinition == <<At({"EOF"}, <<>>,
  <<OneOf({"STRING", "IDENTIFIER"}), Call("rest_of_column"), Make("column_name"),
    Match("COMMA", <<>>), Call("create_columns")>>)>>

CreateColumns == <<At({"EOF"}, <<>>,
  <<OneOf({"STRING", "IDENTIFIER"}), Make("column_name"), Call("rest_of_column"),
    Match("COMMA", <<>>), Call("create_columns")>>)>>

\* Wrong: only a comma ends a definition.
RestUntilComma == <<At({"COMMA"}, <<>>, <<Next1, Call("rest_of_column")>>)>>

RestOfColumn == <<At({"EOF", "COMMA"}, <<>>, <<Next1, Call("rest_of_column")>>)>>

ParseIndexedColumn == <<Consume("IDENTIFIER"), Make("column_name")>>

ParseCreateIndex == <<Consume("CREATE"), Match("UNIQUE", <<>>), Consume("INDEX"),
  Match("IF", <<>>), Match("NOT", <<>>), Match("EXISTS", <<>>),
  Consume("IDENTIFIER"), Match("DOT", <<Require({"IDENTIFIER"})>>),
  Consume("ON"), Consume("IDENTIFIER"), Consume("LEFT_PAREN"),
  Comma("indexed_column"), Consume("RIGHT_PAREN")>>

-----------------------------------------------------------------------------
(***************************************************************************)
(* parse_new: expressions.                                                 *)
(***************************************************************************)
ParseLiteral == <<OneOf(Literals \cup {"TRUE", "FALSE", "BLOB"}), Make("literal")>>

ParseTypeName == <<OneOf({"BLOB_KEYWORD", "INTEGER", "NULL", "REAL", "TEXT"})>>

ParseCast == <<Consume("CAST"), Consume("LEFT_PAREN"), Call("expr"),
  Consume("AS"), Call("type_name"), Consume("RIGHT_PAREN"), Make("cast")>>

ParseCase == <<Consume("CASE"), At({"WHEN"}, <<>>, <<Call("expr")>>),
  Call("when_clauses"), Match("ELSE", <<Call("expr")>>), Consume("END"), Make("case")>>

WhenClauses == <<Match("WHEN",
  <<Call("expr"), Consume("THEN"), Call("expr"), Call("when_clauses")>>)>>

\* Wrong: only one of the two directions is read.
OrderByAscending == <<Call("expr"), Match("COLLATE", <<>>), Match("ASC", <<>>),
  Match("NULLS", <<OneOf({"FIRST", "LAST"})>>), Make("order_by")>>

ParseOrderByClause == <<Call("expr"), Match("COLLATE", <<>>),
  At({"ASC", "DESC"}, <<Next1>>, <<>>),
  Match("NULLS", <<OneOf({"FIRST", "LAST"})>>), Make("order_by")>>

ParseFunctionArguments == <<At({"RIGHT_PAREN", "STAR"}, <<>>,
  <<Match("DISTINCT", <<>>), Comma("expr"),
    Match("ORDER", <<Consume("BY"), Comma("order_by")>>)>>)>>

ParseFilterClause == <<Consume("FILTER"), Consume("LEFT_PAREN"), Consume("WHERE"),
  Call("expr"), Consume("RIGHT_PAREN")>>

\* One end of a frame: UNBOUNDED edge, CURRENT ROW or an expression and a direction.
FrameBound(edge, directions) == Switch(<<
  On({"UNBOUNDED"}, <<Next1, Consume(edge)>>),
  On({"CURRENT"}, <<Next1, Consume("ROW")>>)>>,
  <<Call("expr"), OneOf(directions)>>)

ParseFrameSpec == <<OneOf({"RANGE", "ROWS", "GROUPS"}),
  At({"BETWEEN"},
     <<Next1, FrameBound("PRECEDING", {"PRECEDING", "FOLLOWING"}), Consume("AND"),
       FrameBound("FOLLOWING", {"PRECEDING", "FOLLOWING"})>>,
     <<FrameBound("PRECEDING", {"PRECEDING"})>>),
  Match("EXCLUDE", <<Switch(<<
    On({"NO"}, <<Next1, Consume("OTHERS")>>),
    On({"CURRENT"}, <<Next1, Consume("ROW")>>)>>, <<OneOf({"GROUP", "TIES"})>>)>>)>>

ParseWindowDefinition == <<Match("IDENTIFIER", <<>>),
  Match("PARTITION", <<Consume("BY"), Comma("expr")>>),
  Match("ORDER", <<Consume("BY"), Comma("order_by")>>),
  At({"RANGE", "ROWS", "GROUPS"}, <<Call("frame_spec")>>, <<>>),
  Consume("RIGHT_PAREN"), Make("window")>>

ParseOverClause == <<Consume("OVER"),
  At({"IDENTIFIER"}, <<Next1>>, <<Consume("LEFT_PAREN"), Call("window_definition")>>)>>

\* The name is still the current token when the parenthesis is expected.
ParseFunction == <<Require({"IDENTIFIER"}), Consume("LEFT_PAREN"),
  Call("function_arguments"), Consume("RIGHT_PAREN"),
  At({"FILTER"}, <<Call("filter")>>, <<>>), At({"OVER"}, <<Call("over")>>, <<>>),
  Make("function")>>

\* A part before a dot is advanced past before it is read.
ParseName == <<
  Look(3, "DOT", <<Next1, Consume("IDENTIFIER")>>, <<>>),
  Look(1, "DOT", <<Next1, Consume("IDENTIFIER")>>, <<>>),
  Consume("IDENTIFIER"), Make("name")>>

ParseRaiseExpr == <<Consume("RAISE"), Consume("LEFT_PAREN"), Switch(<<
  On({"IGNORE", "ABORT", "FAIL"}, <<>>),
  On({"ROLLBACK"}, <<Consume("COMMA"), Call("expr")>>)>>, <<Error>>),
  Consume("RIGHT_PAREN"), Make("raise")>>

ParseRowValueExpr == <<Consume("LEFT_PAREN"), Comma("expr"), Consume("RIGHT_PAREN")>>

ParseParenthesized == <<Next1, At(SelectStart, <<Call("select_statement")>>,
  <<Look(1, "COMMA", <<Call("row_value")>>, <<Call("expr")>>)>>),
  Consume("RIGHT_PAREN"), Make("grouping")>>

\* The cases parse_primary_expression and parse_expression_new share.
ParseOperand(default) == Switch(<<
  On(Literals, <<Call("literal")>>),
  On({"CAST"}, <<Call("cast")>>),
  On({"CASE"}, <<Call("case")>>),
  On({"IDENTIFIER"}, <<Look(1, "LEFT_PAREN", <<Call("function")>>, <<Call("name")>>)>>),
  On({"LEFT_PAREN"}, <<Call("parenthesized")>>),
  On({"NOT"}, <<Look(1, "EXISTS", <<>>, <<>>)>>),
  On({"EXISTS"}, <<>>),
  On({"RAISE"}, <<Call("raise")>>)>>, default)

ParsePrimaryExpression == <<ParseOperand(<<Error>>)>>

\* Patterns and operators are not advanced past before their right side is read.
ParsePatternMatch == <<Switch(<<
  On({"GLOB", "REGEXP", "MATCH"}, <<Call("expr")>>),
  On({"LIKE"}, <<Call("expr"), Match("ESCAPE", <<Call("expr")>>)>>)>>, <<Error>>)>>

ParseIsExpr == <<Consume("IS"), Match("NOT", <<>>),
  Match("DISTINCT", <<Consume("FROM")>>), Call("expr")>>

ParseBetweenExpr ==
  <<Consume("BETWEEN"), Call("expr"), Consume("AND"), Call("expr")>>

ParseSecondaryExpression == <<Call("primary"), Match("NOT", <<>>), Switch(<<
  On({"COLLATE"}, <<Next1, Consume("IDENTIFIER")>>),
  On({"LIKE", "GLOB", "REGEXP", "MATCH"}, <<Call("pattern_match")>>),
  On(Operators, <<Call("expr")>>),
  On({"ISNULL", "NOTNULL", "NULL"}, <<Next1>>),
  On({"IS"}, <<Call("is")>>),
  On({"BETWEEN"}, <<Call("between")>>),
  On({"IN"}, <<>>)>>, <<Error>>)>>

ParseNewUnaryExpr == <<Require({"PLUS"})>>

ParseNewBinaryExpr == <<OneOf(Operators), Call("expr"), Make("binary")>>

ParseExpressionNew == <<Node("expr",
  <<At({"PLUS", "MINUS"}, <<Call("unary")>>,
       <<ParseOperand(<<Call("secondary")>>)>>),
    At(Operators, <<Call("binary")>>, <<>>)>>)>>

-----------------------------------------------------------------------------
(***************************************************************************)
(* parse_new: select statements.                                           *)
(***************************************************************************)
\* The alias is written through a null pointer.
ParseResultColumn == <<Node("result_column", <<
  LET Expression == <<Call("expr"), Match("AS", <<Require({"IDENTIFIER"}), Crash>>)>> IN
  Switch(<<
    On({"STAR"}, <<Next1>>),
    On({"IDENTIFIER"},
       <<Look(1, "DOT", <<Next1, Next1, Consume("STAR")>>, Expression)>>)>>,
    Expression)>>)>>

TosParseAlias == <<Match("AS", <<>>), Match("IDENTIFIER", <<Make("alias")>>)>>

SchemaName == <<Look(1, "DOT", <<Next1, Consume("IDENTIFIER")>>, <<>>)>>

TosParseTableName == SchemaName \o <<Consume("IDENTIFIER"), Make("table"),
  Call("alias"), Switch(<<
    On({"INDEXED"}, <<Next1, Consume("BY"), Consume("IDENTIFIER")>>),
    On({"NOT"}, <<Next1, Consume("INDEXED"), Consume("IDENTIFIER")>>)>>, <<>>)>>

TosParseTableFunction == SchemaName \o <<Consume("IDENTIFIER"), Consume("LEFT_PAREN"),
  Comma("expr"), Consume("RIGHT_PAREN"), Call("alias"), Make("table_function")>>

ParseLimitClause == <<Call("expr"),
  At({"COMMA", "OFFSET"}, <<Next1, Call("expr")>>, <<>>), Make("limit")>>

ParseSelectStatementNew == <<Call("core"), Call("compound"),
  Match("ORDER", <<Consume("BY"), Comma("order_by")>>),
  Match("LIMIT", <<Call("limit")>>)>>

CompoundCores ==
  LET Core == <<Next1, Call("core"), Call("compound")>> IN
  <<Switch(<<
    On({"UNION"}, <<Look(1, "ALL", <<Next1>> \o Core, Core)>>),
    On({"INTERSECT", "EXCEPT"}, Core)>>, <<>>)>>

ParseTableOrSubquery == <<At(SelectStart,
  <<Call("select_statement"), Consume("RIGHT_PAREN"), Call("alias")>>,
  <<Look(1, "LEFT_PAREN", <<Call("table_function")>>,
      <<Look(1, "DOT",
          <<Look(3, "LEFT_PAREN", <<Call("table_function")>>, <<Call("table_name")>>)>>,
          <<Call("table_name")>>)>>)>>)>>

\* The operator's own word is left where JOIN is expected.
JoinOperator == <<Match("NATURAL", <<>>),
  Require({"CROSS", "COMMA", "LEFT", "RIGHT", "FULL", "INNER"}),
  Match("OUTER", <<>>), Consume("JOIN")>>

ColumnName == <<Next1>>

ParseJoinConstraint == <<Switch(<<
  On({"ON"}, <<Next1, Call("expr")>>),
  On({"USING"}, <<Next1, Consume("LEFT_PAREN"), Comma("column_name"),
                  Consume("RIGHT_PAREN")>>)>>, <<Error>>)>>

\* The rounds of parse_join_clause; a natural join is refused its constraint.
Joins ==
  LET Join(end) == <<Call("join_operator"), Call("table_expression"),
                     Call("join_constraint")>> \o end IN
  <<Switch(<<On({"NATURAL"}, Join(<<Error>>)),
             On(JoinStart, Join(<<Call("joins")>>))>>, <<>>)>>

ParseJoinClause == <<Call("table_expression"), Call("joins")>>

ParseTableExpression == <<At({"IDENTIFIER"}, <<Call("table_or_subquery")>>,
  <<Consume("LEFT_PAREN"), At(SelectStart,
      <<Call("table_or_subquery"), Consume("RIGHT_PAREN")>>,
      <<Call("join_clause")>>)>>)>>

ParseFromClause == <<Consume("FROM"), Call("join_clause")>>

\* Wrong: the condition is taken to begin with its keyword.
WhereWithKeyword == <<Node("where", <<Consume("WHERE"), Call("expr")>>)>>

ParseWhereClause == <<Consume("WHERE"), Node("where", <<Call("expr")>>)>>

ParseGroupBy == <<Consume("GROUP"), Consume("BY"), Comma("expr"), Make("group_by")>>

ParseHavingClause == <<Consume("HAVING"), Call("expr"), Make("having")>>

ParseWindowData == <<Consume("IDENTIFIER"), Consume("AS"), Call("window_definition")>>

ParseWindowClause == <<Consume("WINDOW"), Comma("window_data")>>

ValueRow == <<Consume("LEFT_PAREN"), Comma("expr"), Consume("RIGHT_PAREN")>>

CollectValues == <<Consume("LEFT_PAREN"), Comma("value_row")>>

ParseSelectCore == <<At({"VALUES"},
  <<Next1, Consume("LEFT_PAREN"), Call("values"), Consume("RIGHT_PAREN")>>,
  <<Consume("SELECT"), At({"DISTINCT", "ALL"}, <<Next1>>, <<>>),
    Comma("result_column"),
    At({"FROM"}, <<Call("from")>>, <<>>),
    At({"WHERE"}, <<Call("where")>>, <<>>),
    At({"GROUP"}, <<Call("group_by"), At({"HAVING"}, <<Call("having")>>, <<>>)>>, <<>>),
    At({"WINDOW"}, <<Call("window")>>, <<>>)>>)>>

Rules == [
  parse |-> ParseSelect, term |-> ParseTerm, function_call |-> ParseFunctionCall,
  expression |-> ParseExpression,
  create |-> ParseCreate, create_columns |-> CreateColumns,
  rest_of_column |-> RestOfColumn,
  create_index |-> ParseCreateIndex, indexed_column |-> ParseIndexedColumn,
  parse_new |-> ParseSelectStatementNew, select_statement |-> ParseSelectStatementNew,
  expr |-> ParseExpressionNew, primary |-> ParsePrimaryExpression,
  secondary |-> ParseSecondaryExpression, literal |-> ParseLiteral,
  type_name |-> ParseTypeName, cast |-> ParseCast, case |-> ParseCase,
  when_clauses |-> WhenClauses, order_by |-> ParseOrderByClause,
  function |-> ParseFunction, function_arguments |-> ParseFunctionArguments,
  filter |-> ParseFilterClause, over |-> ParseOverClause,
  frame_spec |-> ParseFrameSpec, window_definition |-> ParseWindowDefinition,
  name |-> ParseName, raise |-> ParseRaiseExpr, row_value |-> ParseRowValueExpr,
  parenthesized |-> ParseParenthesized, pattern_match |-> ParsePatternMatch,
  is |-> ParseIsExpr, between |-> ParseBetweenExpr, unary |-> ParseNewUnaryExpr,
  binary |-> ParseNewBinaryExpr, core |-> ParseSelectCore, compound |-> CompoundCores,
  limit |-> ParseLimitClause, result_column |-> ParseResultColumn,
  from |-> ParseFromClause, where |-> ParseWhereClause, group_by |-> ParseGroupBy,
  having |-> ParseHavingClause, window |-> ParseWindowClause,
  window_data |-> ParseWindowData, values |-> CollectValues, value_row |-> ValueRow,
  join_clause |-> ParseJoinClause, joins |-> Joins, join_operator |-> JoinOperator,
  join_constraint |-> ParseJoinConstraint, column_name |-> ColumnName,
  table_expression |-> ParseTableExpression,
  table_or_subquery |-> ParseTableOrSubquery, table_name |-> TosParseTableName,
  table_function |-> TosParseTableFunction, alias |-> TosParseAlias]

-----------------------------------------------------------------------------
(***************************************************************************)
(* The machine.                                                            *)
(***************************************************************************)
Init ==
  /\ StreamInit
  /\ source = <<>>
  /\ kind \in {"parse", "create", "create_index"}
  /\ phase = kind
  /\ todo = <<Next1, Call(kind)>>
  /\ nodes = <<>>
  /\ statement = <<>>
  /\ status = "running"

Now(op) == status = "running" /\ todo # <<>> /\ Head(todo).do = op

Continue(instructions) ==
  /\ todo' = instructions \o Tail(todo)
  /\ UNCHANGED status

\* error_at, exit(1) or a fault.
End(result) ==
  /\ status' = result
  /\ todo' = <<>>

AdvanceAndContinue ==
  /\ Advance
  /\ IF Scanned("ERROR") THEN End("exited") ELSE Continue(<<>>)

Read ==
  /\ Now("advance")
  /\ AdvanceAndContinue
  /\ UNCHANGED <<phase, nodes, statement>>

Expect ==
  /\ Now("consume")
  /\ IF CurrentIn({Head(todo).type})
     THEN AdvanceAndContinue
     ELSE End("exited") /\ UNCHANGED stream
  /\ UNCHANGED <<phase, nodes, statement>>

CallFunction ==
  /\ Now("call")
  /\ Continue(Rules[Head(todo).function])
  /\ UNCHANGED <<stream, phase, nodes, statement>>

\* parse_expression_list, collect_expressions and their likes.
ReadList ==
  LET function == Head(todo).function IN
  /\ Now("list")
  /\ Continue(<<Call(function), At({"COMMA"}, <<Next1, Comma(function)>>, <<>>)>>)
  /\ UNCHANGED <<stream, phase, nodes, statement>>

Branch ==
  LET arms == Head(todo).arms
      taken == {i \in DOMAIN arms : CurrentIn(arms[i].types)}
  IN
  /\ Now("switch")
  /\ Continue(IF taken = {} THEN Head(todo).default
              ELSE arms[CHOOSE i \in taken : \A j \in taken : i <= j].body)
  /\ UNCHANGED <<stream, phase, nodes, statement>>

LookAhead ==
  /\ Now("look")
  /\ count < Head(todo).n
  /\ FillOne
  /\ IF Scanned("ERROR") THEN End("exited") ELSE UNCHANGED <<todo, status>>
  /\ UNCHANGED <<phase, nodes, statement>>

Decide ==
  LET look == Head(todo) IN
  /\ Now("look")
  /\ count >= look.n
  /\ Continue(IF Peek(look.n) = look.type THEN look.body ELSE look.else)
  /\ UNCHANGED <<stream, phase, nodes, statement>>

\* A node covers the tokens from the one current when its function was
\* entered to the one read last when it returns.
OpenNode ==
  LET node == Head(todo) IN
  /\ Now("node")
  /\ Continue(node.body \o <<[do |-> "close", node |-> node.node, from |-> current]>>)
  /\ UNCHANGED <<stream, phase, nodes, statement>>

MakeNode ==
  LET op == Head(todo)
      Add(from, to) == nodes' = Append(nodes, [node |-> op.node, from |-> from, to |-> to])
  IN
  /\ \/ Now("close") /\ Add(op.from, previous)
     \/ Now("make") /\ Add(previous, previous)
     \/ Now("make_here") /\ Add(current, current)
  /\ Continue(<<>>)
  /\ UNCHANGED <<stream, phase, statement>>

Fail ==
  /\ \/ Now("error") /\ End("exited")
     \/ Now("crash") /\ End("crashed")
  /\ UNCHANGED <<stream, phase, nodes, statement>>

\* Between the two parsers of command_sql.
ParseAgain ==
  /\ status = "running"
  /\ todo = <<>>
  /\ phase = "parse"
  /\ phase' = "parse_new"
  /\ todo' = <<Next1, Call("parse_new")>>
  /\ statement' = nodes
  /\ nodes' = <<>>
  /\ StreamReset
  /\ UNCHANGED status

Return ==
  /\ status = "running"
  /\ todo = <<>>
  /\ phase # "parse"
  /\ status' = "returned"
  /\ UNCHANGED <<stream, phase, todo, nodes, statement>>

Step == \/ Read \/ Expect \/ CallFunction \/ ReadList \/ Branch \/ LookAhead \/ Decide
        \/ OpenNode \/ MakeNode \/ Fail \/ ParseAgain \/ Return

Ended == status # "running" /\ UNCHANGED vars

Next == Step \/ Ended

\* The parser is one thread, and nothing it waits for.
Spec == Init /\ [][Next]_vars /\ WF_vars(Step)
=============================================================================
