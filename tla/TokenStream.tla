----------------------------- MODULE TokenStream -----------------------------
(***************************************************************************)
(* What sgl's parsers see of their input (src/parser.c): the token before  *)
(* the current one, the current one, and a ring of tokens that were looked *)
(* at before their turn.  advance takes the next token from the ring, or   *)
(* from the scanner when the ring is empty; peek(n) scans until the ring   *)
(* holds n tokens.                                                         *)
(*                                                                         *)
(* A token is its place in source, the tokens scanned so far; its type is  *)
(* source[i], and 0 stands for a token never written.  The text is not     *)
(* known before it is scanned: NextTokens(kind, s) are the tokens that may *)
(* follow s in a text of that kind.  At its end the scanner returns EOF    *)
(* however often it is asked.                                              *)
(***************************************************************************)
EXTENDS Integers, Sequences

CONSTANTS
  BufferSize,        \* TOKEN_BUFFER_SIZE
  NextTokens(_, _)

ASSUME BufferSizeAssumption == BufferSize \in Nat \ {0}

VARIABLES
  kind,      \* the function that reads the text: its entry point
  source,    \* the tokens scanned so far, by any parser
  position,  \* how many of them this parser's scanner has returned
  buffer, head, count,
  current, previous

stream == <<kind, source, position, buffer, head, count, current, previous>>

Type(i) == IF i = 0 THEN "NONE" ELSE source[i]

CurrentIn(types) == Type(current) \in types

AtEnd == source # <<>> /\ source[Len(source)] = "EOF"

\* The token after token i: EOF is followed by itself.
After(i) == IF Type(i) = "EOF" THEN i ELSE i + 1

-----------------------------------------------------------------------------
\* parser_init, and a scanner at the start of the text.
StreamInit ==
  /\ position = 0
  /\ buffer = [i \in 0 .. BufferSize - 1 |-> 0]
  /\ head = 0
  /\ count = 0
  /\ current = 0
  /\ previous = 0

StreamReset ==
  /\ position' = 0
  /\ buffer' = [i \in 0 .. BufferSize - 1 |-> 0]
  /\ head' = 0
  /\ count' = 0
  /\ current' = 0
  /\ previous' = 0
  /\ UNCHANGED <<kind, source>>

\* scan_token: position' is the token scanned.
Scan ==
  /\ IF position < Len(source) \/ AtEnd
     THEN source' = source
     ELSE \E t \in NextTokens(kind, source) : source' = Append(source, t)
  /\ position' = IF position = Len(source) /\ AtEnd THEN position ELSE position + 1

Scanned(type) == source'[position'] = type

\* Wrong: head is left where it was.
ConsumeWithoutHead ==
  /\ current' = buffer[head]
  /\ head' = head
  /\ count' = count - 1

\* Wrong: head runs past the end of the ring.
ConsumeWithoutWrap ==
  /\ current' = buffer[head]
  /\ head' = head + 1
  /\ count' = count - 1

\* consume_next_token_from_buffer.
ConsumeFromBuffer ==
  /\ current' = buffer[head]
  /\ head' = (head + 1) % BufferSize
  /\ count' = count - 1

\* advance; an error token from the scanner ends the process (see Parser).
Advance ==
  /\ previous' = current
  /\ IF count > 0
     THEN ConsumeFromBuffer /\ UNCHANGED <<source, position>>
     ELSE Scan /\ current' = position' /\ UNCHANGED <<head, count>>
  /\ UNCHANGED <<kind, buffer>>

\* One round of read_n_tokens_into_buffer with write_token_into_buffer,
\* whose assertions are the first conjunct.
FillOne ==
  /\ count < BufferSize
  /\ Scan
  /\ buffer' = [buffer EXCEPT ![(head + count) % BufferSize] = position']
  /\ count' = count + 1
  /\ UNCHANGED <<kind, head, current, previous>>

\* What peek(n) returns once the ring holds n tokens.
Peek(n) == Type(buffer[(head + n - 1) % BufferSize])

-----------------------------------------------------------------------------
StreamTypeOK ==
  /\ source \in Seq(STRING)
  /\ position \in 0 .. Len(source)
  /\ buffer \in [0 .. BufferSize - 1 -> 0 .. Len(source)]
  /\ head \in 0 .. BufferSize - 1
  /\ count \in 0 .. BufferSize
  /\ current \in 0 .. Len(source)
  /\ previous \in 0 .. Len(source)

\* The tokens ahead, in the order advance will return them.
Ahead == [i \in 1 .. count |-> buffer[(head + i - 1) % BufferSize]]

\* The tokens of the ring are the ones that follow the current token, one
\* after the other, and the scanner stands behind the last of them, through
\* every mixture of looking ahead and advancing: no token is lost, read twice
\* or overwritten (the ring of parser.c:83-137).
LookaheadIsNext ==
  LET line == <<previous, current>> \o Ahead IN
  /\ current # 0 => \A i \in 1 .. count + 1 : line[i + 1] = After(line[i])
  /\ line[count + 2] = position
=============================================================================
