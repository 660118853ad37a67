--------------------------------- MODULE Lexer ---------------------------------
(***************************************************************************)
(* The scanner (src/lexer.c).  init_reserved_words fills the trie with the *)
(* words in the order of their table; after that each call of scan_token   *)
(* skips blanks and comments and takes one token from the text.            *)
(*                                                                         *)
(* The text is a sequence of characters, with a NUL behind its last one.   *)
(* A token keeps, besides its own start and length, the stretch of text    *)
(* scan_token went over, from `from` up to `to`.                           *)
(***************************************************************************)
EXTENDS Trie, FiniteSets

CONSTANTS
  Digits, HexLetters,
  Tables,     \* the tables of reserved words
  Texts(_)    \* the texts scanned with a table

VARIABLES
  table,     \* reserved_words, in order: [word, type]
  filled,    \* how many of them are in the trie
  text,
  current,   \* scanner->current
  line,
  tokens,
  status     \* "filling", "scanning", "ended", "exited" or "overrun"

vars == <<nodes, trie_status, table, filled, text, current, line, tokens, status>>

Alpha == DOMAIN Lower
Hex   == Digits \cup HexLetters

Quote == "\""

\* The characters that are not part of words, numbers or digits of a blob.
Marks == {"NUL", "blank", "newline", "'", Quote, "(", ")", ";", ",", ".", "-", "+", "/", "*",
          "!", "=", "<", ">"}

\* The types of the tokens that scan_token does not take from the table.
OwnTypes == {"EOF", "ERROR", "STRING", "NUMBER", "BLOB"}

\* A text ends before its NUL; a reserved word consists of letters.
ASSUME LexerAssumption ==
  /\ (Alpha \cup Hex) \cap Marks = {}
  /\ Alpha \cap Digits = {}
  /\ \A words \in Tables :
       /\ words \in Seq(ToSet(words))
       /\ \A i \in DOMAIN words : words[i].word \in Seq(Alpha) /\ words[i].type \notin OwnTypes
       /\ \A s \in Texts(words) : s \in Seq(ToSet(s) \ {"NUL"})

At(i) == IF i <= Len(text) THEN text[i] ELSE "NUL"

\* The first place at or behind i whose character is not in the set.
Past(i, chars) == CHOOSE j \in i .. Len(text) + 1 :
  At(j) \notin chars /\ \A k \in i .. j - 1 : At(k) \in chars

\* The first place at or behind i with the character, or the end.
Find(i, c) == CHOOSE j \in i .. Len(text) + 1 :
  At(j) \in {c, "NUL"} /\ \A k \in i .. j - 1 : At(k) # c

Newlines(from, to) == Cardinality({i \in from .. to - 1 : At(i) = "newline"})

\* Wrong: a comment is taken to end with the text.
SkipAllBehindComment(i) ==
  LET f[j \in i .. Len(text) + 1] ==
        IF At(j) \in {"blank", "newline"} THEN f[j + 1]
        ELSE IF At(j) = "/" /\ At(j + 1) = "/" THEN Len(text) + 1
        ELSE j
  IN f[i]

\* skip_whitespace.
SkipWhitespace(i) ==
  LET f[j \in i .. Len(text) + 1] ==
        IF At(j) \in {"blank", "newline"} THEN f[j + 1]
        ELSE IF At(j) = "/" /\ At(j + 1) = "/" THEN f[Find(j, "newline")]
        ELSE j
  IN f[i]

Start == SkipWhitespace(current)

LineAtStart == line + Newlines(current, Start)

-----------------------------------------------------------------------------
Init ==
  /\ TrieInit
  /\ table \in Tables
  /\ filled = 0
  /\ text = <<>>
  /\ current = 1
  /\ line = 1
  /\ tokens = <<>>
  /\ status = "filling"

\* One round of add_reserved_words_to_pool.
AddReservedWord ==
  /\ status = "filling"
  /\ filled < Len(table)
  /\ AddWord(table[filled + 1].word, table[filled + 1].type)
  /\ filled' = filled + 1
  /\ status' = IF trie_status' = "exited" THEN "exited" ELSE status
  /\ UNCHANGED <<table, text, current, line, tokens>>

\* init_scanner.
InitScanner ==
  /\ status = "filling"
  /\ filled = Len(table)
  /\ text' \in Texts(table)
  /\ status' = "scanning"
  /\ UNCHANGED <<nodes, trie_status, table, filled, current, line, tokens>>

Ready == status = "scanning"

\* The token that reaches up to `to`, its own text given apart.
TokenOf(type, to, start, length, newline) ==
  /\ current' = to
  /\ line' = newline
  /\ tokens' = Append(tokens, [type |-> type, from |-> Start, to |-> to,
                               start |-> start, length |-> length, line |-> newline])
  /\ status' = IF type \in {"EOF", "ERROR"} THEN "ended" ELSE status
  /\ UNCHANGED <<nodes, trie_status, table, filled, text>>

MakeToken(type, to) == TokenOf(type, to, Start, to - Start, LineAtStart)

ErrorToken(to) == MakeToken("ERROR", to)

ScanEnd == Ready /\ At(Start) = "NUL" /\ MakeToken("EOF", Start)

\* blob: the two advances go past the quote and the character behind it.
AtBlob == At(Start) \in {"x", "X"} /\ At(Start + 1) = "'"

Blob ==
  LET end == Past(Start + 3, Hex) IN
  /\ Ready
  /\ AtBlob
  /\ Start + 2 <= Len(text)
  /\ IF At(end) # "'" THEN ErrorToken(end)
     ELSE IF (end - (Start + 3)) % 2 # 0 THEN ErrorToken(end + 1)
     ELSE MakeToken("BLOB", end + 1)

\* With nothing behind its quote, the second advance leaves the text.
BlobOverrun ==
  /\ Ready
  /\ AtBlob
  /\ Start + 2 > Len(text)
  /\ status' = "overrun"
  /\ UNCHANGED <<nodes, trie_status, table, filled, text, current, line, tokens>>

\* Wrong: a digit ends a word.
WordEndWithoutDigits(i) == Past(i, Alpha)

WordEnd(i) == Past(i, Alpha \cup Digits)

Identifier ==
  /\ Ready
  /\ At(Start) \in Alpha
  /\ ~ AtBlob
  /\ LET end == WordEnd(Start + 1) IN
     MakeToken(TypeOfWord(SubSeq(text, Start, end - 1)), end)

Number ==
  LET whole == Past(Start, Digits) IN
  /\ Ready
  /\ At(Start) \in Digits
  /\ MakeToken("NUMBER",
       IF At(whole) = "." /\ At(whole + 1) \in Digits THEN Past(whole + 1, Digits) ELSE whole)

String ==
  LET close == Find(Start + 1, "'")
      newline == LineAtStart + Newlines(Start, close)
  IN
  /\ Ready
  /\ At(Start) = "'"
  /\ IF At(close) = "NUL"
     THEN TokenOf("ERROR", close, Start, close - Start, newline)
     ELSE TokenOf("STRING", close + 1, Start, (close + 1) - Start, newline)

\* quoted_identifier: the token is made before the closing quote is taken
\* and then loses two characters.
QuotedIdentifier ==
  LET close == Find(Start + 1, Quote) IN
  /\ Ready
  /\ At(Start) = Quote
  /\ IF At(close) = "NUL" THEN ErrorToken(close)
     ELSE TokenOf("IDENTIFIER", close + 1, Start + 1, close - Start - 2, LineAtStart)

Operators == [c \in {"!", "=", "<", ">"} |->
  CASE c = "!" -> "BANG" [] c = "=" -> "EQUAL" [] c = "<" -> "LESS" [] c = ">" -> "GREATER"]

OperatorsEqual == [c \in {"!", "<", ">"} |->
  CASE c = "!" -> "BANG_EQUAL" [] c = "<" -> "LESS_EQUAL" [] c = ">" -> "GREATER_EQUAL"]

Symbols == [c \in {"(", ")", ";", ",", ".", "-", "+", "/", "*"} |->
  CASE c = "(" -> "LEFT_PAREN" [] c = ")" -> "RIGHT_PAREN" [] c = ";" -> "SEMICOLON"
    [] c = "," -> "COMMA" [] c = "." -> "DOT" [] c = "-" -> "MINUS" [] c = "+" -> "PLUS"
    [] c = "/" -> "SLASH" [] c = "*" -> "STAR"]

Symbol ==
  LET c == At(Start) IN
  /\ Ready
  /\ \/ c \in DOMAIN Symbols /\ MakeToken(Symbols[c], Start + 1)
     \/ c \in DOMAIN OperatorsEqual /\ At(Start + 1) = "=" /\ MakeToken(OperatorsEqual[c], Start + 2)
     \/ /\ c \in DOMAIN Operators
        /\ ~ (c \in DOMAIN OperatorsEqual /\ At(Start + 1) = "=")
        /\ MakeToken(Operators[c], Start + 1)

Unexpected ==
  /\ Ready
  /\ At(Start) \notin {"NUL", "'", Quote} \cup Alpha \cup Digits \cup DOMAIN Symbols
                      \cup DOMAIN Operators
  /\ ErrorToken(Start + 1)

ScanToken == \/ ScanEnd \/ Blob \/ BlobOverrun \/ Identifier \/ Number \/ String
             \/ QuotedIdentifier \/ Symbol \/ Unexpected

Ended == status \in {"ended", "exited", "overrun"} /\ UNCHANGED vars

Next == AddReservedWord \/ InitScanner \/ ScanToken \/ Ended

Spec == Init /\ [][Next]_vars
-----------------------------------------------------------------------------
LowerCase(word) == [i \in DOMAIN word |-> IF word[i] \in Alpha THEN Lower[word[i]] ELSE word[i]]

CONSTANT Probes   \* the words looked up in ReservedAsInserted

ASSUME ProbesAssumption == \A word \in Probes : word \in Seq(ToSet(word))

\* Whatever the words share, in whatever order they came: the trie knows
\* exactly the words inserted, in any mixture of cases, each under the type
\* it was given last; a beginning of a word, a longer word and a word with a
\* digit are identifiers (trie.c:71-134).
ReservedAsInserted ==
  status = "filling" =>
    \A word \in Probes :
      LET same == {i \in 1 .. filled : LowerCase(table[i].word) = LowerCase(word)} IN
      TypeOfWord(word) = IF same = {} THEN "IDENTIFIER"
                         ELSE table[CHOOSE i \in same : \A j \in same : j <= i].type

Span(from, to) == SubSeq(text, from, to - 1)

\* A text that starts and ends with a quote, with none in between.
IsQuotedBy(s, quote) ==
  Len(s) >= 2 /\ {i \in 1 .. Len(s) : s[i] = quote} = {1, Len(s)}

IsWord(s) == s # <<>> /\ s[1] \in Alpha /\ ToSet(s) \subseteq Alpha \cup Digits

IsNumber(s) ==
  LET points == {i \in 1 .. Len(s) : s[i] \notin Digits} IN
  s # <<>> /\ (points = {} \/ \E i \in 2 .. Len(s) - 1 : points = {i} /\ s[i] = ".")

\* What x'...' encloses; its digits are looked at from the second one on, and
\* TakenBetweenQuotes says what they should be.
IsBlob(s) ==
  /\ Len(s) >= 4 /\ s[1] \in {"x", "X"} /\ s[2] = "'" /\ s[Len(s)] = "'"
  /\ \A i \in 4 .. Len(s) - 1 : s[i] \in Hex

IsOperator(s) ==
  \/ Len(s) = 1 /\ s[1] \in DOMAIN Symbols \cup DOMAIN Operators
  \/ Len(s) = 2 /\ s[1] \in DOMAIN OperatorsEqual /\ s[2] = "="

\* What a token stands for is a lexeme of its kind, and no longer one starts where
\* it starts.
IsLongest(Is(_), from, to) ==
  Is(Span(from, to)) /\ \A longer \in to + 1 .. Len(text) + 1 : ~ Is(Span(from, longer))

IsLexeme(t) ==
  LET s == Span(t.from, t.to) IN
  CASE t.type = "STRING" -> IsQuotedBy(s, "'")
    [] t.type = "NUMBER" -> IsLongest(IsNumber, t.from, t.to)
    [] t.type = "BLOB"   -> IsBlob(s)
    [] t.type = "IDENTIFIER" /\ s[1] = Quote ->
         IsQuotedBy(s, Quote) /\ t.start = t.from + 1
    [] t.type \in {"EOF", "ERROR"} -> TRUE
    [] OTHER -> IF s[1] \in Alpha THEN IsLongest(IsWord, t.from, t.to)
                ELSE IsLongest(IsOperator, t.from, t.to)

\* Every token goes over a lexeme of its type, a word, number or operator over the
\* longest that starts where it starts; a quoted identifier begins behind its
\* quote; nothing is scanned past the end or an error (lexer.c:256-400).
TokensAreLexemes ==
  \A i \in 1 .. Len(tokens) :
    IsLexeme(tokens[i]) /\ (tokens[i].type \in {"EOF", "ERROR"} => i = Len(tokens))

\* A token that is quoted is what stands between its quotes.  "Trim quotes off token"
\* (lexer.c:319): the token of a quoted identifier is made before the closing quote is
\* taken, so it loses its last character as well.  "Move past '\''" (lexer.c:329): the
\* advance moves past the first digit of a blob instead, which is neither tested nor
\* counted before "Odd number of hex characters." (lexer.c:342).
TakenBetweenQuotes ==
  \A t \in ToSet(tokens) :
    /\ t.type = "IDENTIFIER" /\ At(t.from) = Quote =>
         t.start = t.from + 1 /\ t.start + t.length = t.to - 1
    /\ t.type = "BLOB" =>
         /\ \A i \in t.from + 2 .. t.to - 2 : At(i) \in Hex
         /\ (t.to - t.from) % 2 = 1

-----------------------------------------------------------------------------
Behind(i) == IF i = 0 THEN 1 ELSE tokens[i].to

\* Behind `from` a comment has begun that reaches k.
InComment(from, k) ==
  \E j \in from .. k : /\ At(j) = "/" /\ At(j + 1) = "/"
                       /\ \A l \in j .. k : At(l) # "newline"

\* Line ends inside quoted identifiers, and the one a blob may start with.
Uncounted(k) ==
  \E u \in ToSet(tokens) :
    /\ u.from < k /\ k < u.to
    /\ At(u.from) = Quote \/ (At(u.from) \in {"x", "X"} /\ k = u.from + 2)

LinesBefore(to) == {k \in 1 .. to - 1 : At(k) = "newline" /\ ~ Uncounted(k)}

\* Nothing but blanks and comments lies between two tokens, no two tokens
\* share a character, the last token reaches the end or an error, and a
\* token's line is that of its last character, as far as line ends are counted
\* (lexer.c:229-267, 347-398).
TokensTileText ==
  /\ \A i \in 1 .. Len(tokens) :
       LET t == tokens[i] IN
       /\ Behind(i - 1) <= t.from
       /\ \A k \in Behind(i - 1) .. t.from - 1 :
            At(k) \in {"blank", "newline"} \/ InComment(Behind(i - 1), k)
       /\ At(t.from) \notin {"blank", "newline"}
       /\ ~ (At(t.from) = "/" /\ At(t.from + 1) = "/")
       /\ t.type \notin {"EOF", "ERROR"} => t.from < t.to
       /\ t.type = "EOF" => t.to = Len(text) + 1
       /\ t.line = 1 + Cardinality(LinesBefore(t.to))
  /\ status = "overrun" => At(Len(text) - 1) \in {"x", "X"} /\ At(Len(text)) = "'"
=============================================================================
