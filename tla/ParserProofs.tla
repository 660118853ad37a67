----------------------------- MODULE ParserProofs -----------------------------
(***************************************************************************)
(* Theorems about the tokens the parsers see, the columns they name and    *)
(* the spans of the nodes they make, for every text, every size of the     *)
(* ring and every sequence of calls the parse functions make.              *)
(***************************************************************************)
EXTENDS StatementReading, NumberLemmas, SequenceTheorems, FiniteSetTheorems, TLAPS

\* Tokens are named by strings, whatever the text.
TokensAreStrings ==
  \A k \in {"parse", "create", "create_index"}, s \in Seq(STRING) :
    NextTokens(k, s) \subseteq STRING

\* After, of any tokens scanned.
Follows(tokens, i) == IF i # 0 /\ tokens[i] = "EOF" THEN i ELSE i + 1

\* The i-th token ahead of the current one, which is the 0-th.
Place(i) == IF i = 0 THEN current ELSE buffer[(head + i - 1) % BufferSize]

\* The scanner never goes past an EOF.
OneEnd == \A i \in 1 .. Len(source) - 1 : source[i] # "EOF"

\* LookaheadIsNext, with the tokens ahead in a chain before the first advance too.
Chain ==
  /\ current # 0 => current = After(previous)
  /\ \A i \in 1 .. count : Place(i) = After(Place(i - 1))
  /\ Place(count) = position

StreamInv ==
  StreamTypeOK /\ OneEnd /\ Chain /\ kind \in {"parse", "create", "create_index"}
-----------------------------------------------------------------------------
\* Places in the ring.
LEMMA RingIndex ==
  ASSUME NEW h \in 0 .. BufferSize - 1, NEW i \in 0 .. BufferSize
  PROVE  /\ (h + i) % BufferSize = IF h + i < BufferSize THEN h + i ELSE h + i - BufferSize
         /\ (h + i) % BufferSize \in 0 .. BufferSize - 1
  BY BufferSizeAssumption

LEMMA RingPlacesDiffer ==
  ASSUME NEW h \in 0 .. BufferSize - 1, NEW i \in 0 .. BufferSize - 1,
         NEW j \in 0 .. BufferSize - 1, i # j
  PROVE  (h + i) % BufferSize # (h + j) % BufferSize
<1>1. \A k \in {i, j} : (h + k) % BufferSize = h + k \/ (h + k) % BufferSize = h + k - BufferSize
  BY BufferSizeAssumption
<1>2. \A k \in {i, j} : (h + k) % BufferSize \in 0 .. BufferSize - 1
  BY BufferSizeAssumption
<1> DEFINE a == (h + i) % BufferSize
           b == (h + j) % BufferSize
<1>3. a = h + i \/ a = h + i - BufferSize
  BY <1>1
<1>4. b = h + j \/ b = h + j - BufferSize
  BY <1>1
<1>5. a \in Int /\ b \in Int
  BY <1>2
<1> HIDE DEF a, b
<1>6. a # b
  BY <1>3, <1>4, <1>5, BufferSizeAssumption
<1> QED
  BY <1>6 DEF a, b

LEMMA NextRingIndex ==
  ASSUME NEW h \in 0 .. BufferSize - 1, NEW i \in 0 .. BufferSize - 1
  PROVE  (((h + 1) % BufferSize) + i) % BufferSize = (h + (i + 1)) % BufferSize
<1>1. BufferSize \in Nat \ {0}
  BY BufferSizeAssumption
<1>2. CASE h + 1 < BufferSize
  <2>1. (h + 1) % BufferSize = h + 1
    BY <1>1, <1>2
  <2> QED
    BY <1>1, <2>1
<1>3. CASE h + 1 = BufferSize
  <2>1. (h + 1) % BufferSize = 0
    BY <1>1, <1>3
  <2>2. (0 + i) % BufferSize = i
    BY <1>1
  <2>3. i + 1 \in 0 .. BufferSize /\ h + (i + 1) >= BufferSize
    BY <1>1, <1>3
  <2>4. (h + (i + 1)) % BufferSize = h + (i + 1) - BufferSize
    <3> DEFINE j == i + 1
    <3>1. j \in 0 .. BufferSize /\ h + j >= BufferSize
      BY <2>3
    <3> HIDE DEF j
    <3>2. (h + j) % BufferSize = h + j - BufferSize
      BY <1>1, <3>1
    <3> QED
      BY <3>2 DEF j
  <2> QED
    BY <1>1, <1>3, <2>1, <2>2, <2>4
<1> QED
  BY <1>1, <1>2, <1>3

LEMMA PlaceType ==
  ASSUME StreamTypeOK, NEW i \in 0 .. count
  PROVE  Place(i) \in 0 .. Len(source)
<1>1. CASE i = 0
  BY <1>1 DEF Place, StreamTypeOK
<1>2. CASE i # 0
  <2>1. i - 1 \in 0 .. BufferSize /\ head \in 0 .. BufferSize - 1
    BY <1>2, BufferSizeAssumption DEF StreamTypeOK
  <2>2. (head + (i - 1)) % BufferSize \in 0 .. BufferSize - 1
    BY <2>1, RingIndex
  <2>3. head + i - 1 = head + (i - 1)
    BY <2>1
  <2> QED
    BY <1>2, <2>2, <2>3 DEF Place, StreamTypeOK
<1> QED
  BY <1>1, <1>2

\* The invariant says what LookaheadIsNext says.
LEMMA ChainIsNext == StreamInv => LookaheadIsNext
<1> SUFFICES ASSUME StreamInv PROVE LookaheadIsNext
  OBVIOUS
<1> DEFINE line == <<previous, current>> \o Ahead
<1>1. count \in Nat
  BY BufferSizeAssumption DEF StreamInv, StreamTypeOK
<1>2. Ahead \in Seq(Int) /\ Len(Ahead) = count
  <2>1. \A i \in 1 .. count : Ahead[i] \in 0 .. Len(source)
    BY PlaceType DEF StreamInv, Ahead, Place
  <2> QED
    BY <1>1, <2>1 DEF Ahead
<1>3. \A i \in 0 .. count : line[i + 2] = Place(i)
  <2> SUFFICES ASSUME NEW i \in 0 .. count PROVE line[i + 2] = Place(i)
    OBVIOUS
  <2>1. CASE i = 0
    BY <1>1, <1>2, <2>1 DEF Place
  <2>2. CASE i # 0
    <3>1. line[i + 2] = Ahead[i]
      BY <1>1, <1>2, <2>2
    <3> QED
      BY <1>1, <2>2, <3>1 DEF Ahead, Place
  <2> QED
    BY <2>1, <2>2
<1>4. line[1] = previous
  BY <1>1, <1>2
<1>5. line[count + 2] = position
  <2>1. count \in 0 .. count
    BY <1>1
  <2> QED
    BY <1>3, <2>1 DEF StreamInv, Chain
<1>6. ASSUME current # 0, NEW i \in 1 .. count + 1
      PROVE  line[i + 1] = After(line[i])
  <2>1. CASE i = 1
    <3>1. line[2] = current
      BY <1>1, <1>3 DEF Place
    <3> QED
      BY <1>4, <1>6, <2>1, <3>1 DEF StreamInv, Chain
  <2>2. CASE i # 1
    <3>1. line[i + 1] = Place(i - 1) /\ line[i] = Place(i - 2)
      <4>1. i - 1 \in 0 .. count /\ i - 2 \in 0 .. count
        BY <1>1, <2>2
      <4>2. (i - 1) + 2 = i + 1 /\ (i - 2) + 2 = i
        OBVIOUS
      <4> QED
        BY <1>3, <4>1, <4>2
    <3>2. i - 1 \in 1 .. count /\ (i - 1) - 1 = i - 2
      BY <1>1, <2>2
    <3> QED
      BY <3>1, <3>2 DEF StreamInv, Chain
  <2> QED
    BY <2>1, <2>2
<1> QED
  BY <1>5, <1>6 DEF LookaheadIsNext

-----------------------------------------------------------------------------
\* The token scanned follows the one the scanner stood at, and no token scanned
\* before changes its type.
LEMMA ScanNext ==
  ASSUME StreamInv, TokensAreStrings, Scan, UNCHANGED kind
  PROVE  /\ source' \in Seq(STRING) /\ Len(source') >= Len(source)
         /\ \A i \in 0 .. Len(source) : i # 0 => source'[i] = source[i]
         /\ position' \in 0 .. Len(source')
         /\ position' = Follows(source', position)
         /\ OneEnd'
<1> USE DEF StreamInv, StreamTypeOK
<1>1. CASE position < Len(source) \/ AtEnd
  <2>1. source' = source
    BY <1>1 DEF Scan
  <2>2. CASE position = Len(source) /\ AtEnd
    <3>1. position' = position
      BY <2>2 DEF Scan
    <3>2. position # 0 /\ source[position] = "EOF"
      BY <2>2 DEF AtEnd
    <3> QED
      BY <2>1, <3>1, <3>2 DEF Follows, OneEnd
  <2>3. CASE ~ (position = Len(source) /\ AtEnd)
    <3>1. position < Len(source) /\ position' = position + 1
      BY <1>1, <2>3 DEF Scan
    <3>2. position # 0 => source[position] # "EOF"
      BY <3>1 DEF OneEnd
    <3> QED
      BY <2>1, <3>1, <3>2 DEF Follows, OneEnd
  <2> QED
    BY <2>2, <2>3
<1>2. CASE ~ (position < Len(source) \/ AtEnd)
  <2>1. PICK t \in NextTokens(kind, source) : source' = Append(source, t)
    BY <1>2 DEF Scan
  <2>2. t \in STRING
    BY DEF TokensAreStrings
  <2>3. /\ source' \in Seq(STRING) /\ Len(source') = Len(source) + 1
        /\ \A i \in 1 .. Len(source) : source'[i] = source[i]
    BY <2>1, <2>2
  <2>4. position = Len(source) /\ position' = position + 1
    BY <1>2 DEF Scan
  <2>5. \A i \in 1 .. Len(source) : source[i] # "EOF"
    BY <1>2 DEF AtEnd, OneEnd
  <2>6. position' = Follows(source', position)
    BY <2>3, <2>4, <2>5 DEF Follows
  <2> QED
    BY <2>3, <2>4, <2>5, <2>6 DEF OneEnd
<1> QED
  BY <1>1, <1>2

LEMMA AfterFollows ==
  ASSUME NEW i
  PROVE  After(i) = Follows(source, i)
  BY DEF After, Type, Follows

\* Chain, as it is seen from the next state.
LEMMA ChainFrom ==
  ASSUME StreamInv, TokensAreStrings, Scan \/ UNCHANGED source, UNCHANGED kind
  PROVE  /\ \A i \in 1 .. count : Place(i) = Follows(source', Place(i - 1))
         /\ current # 0 => current = Follows(source', previous)
<1>1. \A i \in 0 .. Len(source) : Follows(source', i) = Follows(source, i)
  BY ScanNext DEF Follows
<1>2. \A i \in 1 .. count : Place(i - 1) \in 0 .. Len(source)
  <2>1. \A i \in 1 .. count : i - 1 \in 0 .. count
    BY BufferSizeAssumption DEF StreamInv, StreamTypeOK
  <2> QED
    BY <2>1, PlaceType DEF StreamInv
<1>3. previous \in 0 .. Len(source)
  BY DEF StreamInv, StreamTypeOK
<1> QED
  BY <1>1, <1>2, <1>3, AfterFollows DEF StreamInv, Chain

LEMMA FillInv ==
  ASSUME StreamInv, TokensAreStrings, FillOne
  PROVE  StreamInv'
<1>1. /\ count < BufferSize /\ Scan
      /\ buffer' = [buffer EXCEPT ![(head + count) % BufferSize] = position']
      /\ count' = count + 1
      /\ UNCHANGED <<kind, head, current, previous>>
  BY DEF FillOne
<1>2. /\ source' \in Seq(STRING) /\ Len(source') >= Len(source)
      /\ position' \in 0 .. Len(source')
      /\ position' = Follows(source', position) /\ OneEnd'
  BY <1>1, ScanNext
<1>3. /\ BufferSize \in Nat \ {0} /\ head \in 0 .. BufferSize - 1 /\ count \in 0 .. BufferSize
      /\ buffer \in [0 .. BufferSize - 1 -> 0 .. Len(source)]
  BY BufferSizeAssumption DEF StreamInv, StreamTypeOK
<1>4. (head + count) % BufferSize \in 0 .. BufferSize - 1
  BY <1>3, RingIndex
<1>5. StreamTypeOK'
  <2>1. buffer' \in [0 .. BufferSize - 1 -> 0 .. Len(source')]
    BY <1>1, <1>2, <1>3, <1>4 DEF StreamInv, StreamTypeOK
  <2> QED
    BY <1>1, <1>2, <1>3, <2>1 DEF StreamInv, StreamTypeOK
<1>6. \A i \in 0 .. count : Place(i)' = Place(i)
  <2> SUFFICES ASSUME NEW i \in 1 .. count PROVE Place(i)' = Place(i)
    BY <1>1, <1>3 DEF Place
  <2>1. /\ i - 1 \in 0 .. BufferSize /\ head + i - 1 = head + (i - 1)
        /\ (head + (i - 1)) % BufferSize \in 0 .. BufferSize - 1
    <3>1. i - 1 \in 0 .. BufferSize /\ head + i - 1 = head + (i - 1)
      BY <1>3
    <3> QED
      BY <1>3, <3>1, RingIndex
  <2>2. (head + (i - 1)) % BufferSize # (head + count) % BufferSize
    <3>1. i - 1 \in 0 .. BufferSize - 1 /\ count \in 0 .. BufferSize - 1 /\ i - 1 # count
      BY <1>1, <1>3
    <3> QED
      BY <1>3, <3>1, RingPlacesDiffer
  <2> QED
    BY <1>1, <1>3, <2>1, <2>2 DEF Place
<1>7. Place(count)' = position'
  <2>1. count' # 0 /\ head' + count' - 1 = head + count
    BY <1>1, <1>3
  <2> QED
    BY <1>1, <1>3, <1>4, <2>1 DEF Place
<1>8. \A i \in 1 .. count' : Place(i)' = Follows(source', Place(i - 1)')
  <2> SUFFICES ASSUME NEW i \in 1 .. count' PROVE Place(i)' = Follows(source', Place(i - 1)')
    OBVIOUS
  <2>1. CASE i \in 1 .. count
    <3>1. i \in 0 .. count /\ i - 1 \in 0 .. count
      BY <1>3, <2>1
    <3>2. Place(i)' = Place(i) /\ Place(i - 1)' = Place(i - 1)
      BY <1>6, <3>1
    <3> QED
      BY <1>1, <2>1, <3>2, ChainFrom
  <2>2. CASE i = count + 1
    <3>1. Place(i - 1)' = position
      BY <1>3, <1>6, <2>2 DEF StreamInv, Chain
    <3> QED
      BY <1>1, <1>2, <1>7, <2>2, <3>1 DEF Place
  <2> QED
    BY <1>1, <1>3, <2>1, <2>2
<1>9. Chain'
  <2>1. \A i \in 1 .. count' : Place(i)' = After(Place(i - 1))'
    BY <1>8 DEF After, Type, Follows
  <2>2. (current # 0 => current = After(previous))'
    BY <1>1, ChainFrom DEF After, Type, Follows
  <2> QED
    BY <1>7, <2>1, <2>2 DEF Chain
<1> QED
  BY <1>1, <1>2, <1>5, <1>9 DEF StreamInv

LEMMA AdvanceInv ==
  ASSUME StreamInv, TokensAreStrings, Advance
  PROVE  StreamInv'
<1>1. previous' = current /\ UNCHANGED <<kind, buffer>>
  BY DEF Advance
<1>2. /\ BufferSize \in Nat \ {0} /\ head \in 0 .. BufferSize - 1 /\ count \in 0 .. BufferSize
      /\ buffer \in [0 .. BufferSize - 1 -> 0 .. Len(source)]
  BY BufferSizeAssumption DEF StreamInv, StreamTypeOK
<1>3. CASE count > 0
  <2>1. /\ current' = buffer[head] /\ head' = (head + 1) % BufferSize
        /\ count' = count - 1 /\ UNCHANGED <<source, position>>
    BY <1>3 DEF Advance, ConsumeFromBuffer
  <2>2. head' \in 0 .. BufferSize - 1
    <3>1. 1 \in 0 .. BufferSize
      BY <1>2
    <3> QED
      BY <1>2, <2>1, <3>1, RingIndex
  <2>3. StreamTypeOK'
    BY <1>1, <1>2, <1>3, <2>1, <2>2 DEF StreamInv, StreamTypeOK
  <2>4. \A i \in 0 .. count' : Place(i)' = Place(i + 1)
    <3> SUFFICES ASSUME NEW i \in 0 .. count' PROVE Place(i)' = Place(i + 1)
      OBVIOUS
    <3>1. CASE i = 0
      <4>1. (head + (0 + 1) - 1) % BufferSize = head
        BY <1>2
      <4> QED
        BY <2>1, <3>1, <4>1 DEF Place
    <3>2. CASE i # 0
      <4>1. i - 1 \in 0 .. BufferSize - 1
        BY <1>2, <2>1, <3>2
      <4>2. (head' + (i - 1)) % BufferSize = (head + ((i - 1) + 1)) % BufferSize
        BY <1>2, <2>1, <4>1, NextRingIndex
      <4>3. head' + i - 1 = head' + (i - 1) /\ head + ((i - 1) + 1) = head + (i + 1) - 1
        BY <1>2, <2>2
      <4> QED
        BY <1>1, <3>2, <4>2, <4>3 DEF Place
    <3> QED
      BY <3>1, <3>2
  <2>5. Chain'
    <3>1. \A i \in 1 .. count' : Place(i)' = Follows(source', Place(i - 1)')
      <4> SUFFICES ASSUME NEW i \in 1 .. count'
                   PROVE  Place(i)' = Follows(source', Place(i - 1)')
        OBVIOUS
      <4>1. Place(i)' = Place(i + 1) /\ Place(i - 1)' = Place((i - 1) + 1)
        BY <1>2, <2>1, <2>4
      <4>2. i + 1 \in 1 .. count /\ (i - 1) + 1 = (i + 1) - 1
        BY <1>2, <2>1
      <4> QED
        BY <1>1, <2>1, <4>1, <4>2, ChainFrom
    <3>2. Place(count)' = position'
      <4>1. Place(count)' = Place(count' + 1)
        <5>1. count' \in 0 .. count'
          BY <1>2, <1>3, <2>1
        <5> QED
          BY <2>4, <5>1 DEF Place
      <4> QED
        BY <1>2, <2>1, <4>1 DEF StreamInv, Chain
    <3>3. current' = Follows(source', previous')
      <4>1. current' = Place(1) /\ previous' = Place(0) /\ 1 \in 1 .. count
        <5>1. (head + 1 - 1) % BufferSize = head
          BY <1>2
        <5> QED
          BY <1>1, <1>2, <1>3, <2>1, <5>1 DEF Place
      <4> QED
        BY <1>1, <2>1, <4>1, ChainFrom
    <3>4. \A i \in 1 .. count' : Place(i)' = After(Place(i - 1))'
      BY <3>1 DEF After, Type, Follows
    <3>5. (current # 0 => current = After(previous))'
      BY <3>3 DEF After, Type, Follows
    <3> QED
      BY <3>2, <3>4, <3>5 DEF Chain
  <2> QED
    BY <1>1, <2>1, <2>3, <2>5 DEF StreamInv, OneEnd
<1>4. CASE ~ (count > 0)
  <2>1. Scan /\ current' = position' /\ UNCHANGED <<head, count>> /\ count = 0
    BY <1>2, <1>4 DEF Advance
  <2>2. /\ source' \in Seq(STRING) /\ Len(source') >= Len(source)
        /\ position' \in 0 .. Len(source')
        /\ position' = Follows(source', position) /\ OneEnd'
    BY <1>1, <2>1, ScanNext
  <2>3. StreamTypeOK'
    <3>1. buffer' \in [0 .. BufferSize - 1 -> 0 .. Len(source')]
      BY <1>1, <1>2, <2>2 DEF StreamInv, StreamTypeOK
    <3> QED
      BY <1>1, <1>2, <2>1, <2>2, <3>1 DEF StreamInv, StreamTypeOK
  <2>4. position = current
    BY <2>1 DEF StreamInv, Chain, Place
  <2>5. Chain'
    <3>1. (current # 0 => current = After(previous))'
      BY <1>1, <2>1, <2>2, <2>4 DEF After, Type, Follows
    <3> QED
      BY <2>1, <3>1 DEF Chain, Place
  <2> QED
    BY <1>1, <2>2, <2>3, <2>5 DEF StreamInv
<1> QED
  BY <1>3, <1>4

-----------------------------------------------------------------------------
LEMMA InitInv == Init => StreamInv
<1> SUFFICES ASSUME Init PROVE StreamInv
  OBVIOUS
<1>1. StreamTypeOK
  BY BufferSizeAssumption DEF Init, StreamInit, StreamTypeOK
<1>2. OneEnd /\ Chain
  BY DEF Init, StreamInit, OneEnd, Chain, Place
<1> QED
  BY <1>1, <1>2 DEF Init, StreamInv

\* A parser starts from the beginning of the text scanned so far.
LEMMA ResetInv ==
  ASSUME StreamInv, StreamReset
  PROVE  StreamInv'
<1>1. StreamTypeOK'
  BY BufferSizeAssumption DEF StreamInv, StreamReset, StreamTypeOK
<1>2. OneEnd'
  BY DEF StreamInv, StreamReset, OneEnd
<1>3. Chain'
  BY DEF StreamReset, Chain, Place
<1> QED
  BY <1>1, <1>2, <1>3 DEF StreamInv, StreamReset

LEMMA SameStreamInv ==
  ASSUME StreamInv, UNCHANGED stream
  PROVE  StreamInv'
  BY DEF StreamInv, stream, StreamTypeOK, OneEnd, Chain, Place, After, Type

\* What a parse function does to the stream is one of four things.
LEMMA StepInv ==
  ASSUME StreamInv, TokensAreStrings, [Next]_vars
  PROVE  StreamInv'
<1>1. ASSUME Advance \/ FillOne \/ StreamReset \/ UNCHANGED stream
      PROVE  StreamInv'
  BY <1>1, AdvanceInv, FillInv, ResetInv, SameStreamInv
<1>2. CASE Read
  BY <1>1, <1>2 DEF Read, AdvanceAndContinue
<1>3. CASE Expect
  BY <1>1, <1>3 DEF Expect, AdvanceAndContinue
<1>4. CASE CallFunction \/ ReadList \/ Branch \/ Decide
  BY <1>1, <1>4 DEF CallFunction, ReadList, Branch, Decide
<1>5. CASE LookAhead
  BY <1>1, <1>5 DEF LookAhead
<1>6. CASE OpenNode \/ MakeNode \/ Fail \/ Return
  BY <1>1, <1>6 DEF OpenNode, MakeNode, Fail, Return
<1>7. CASE ParseAgain
  BY <1>1, <1>7 DEF ParseAgain
<1>8. CASE Ended \/ UNCHANGED vars
  BY <1>1, <1>8 DEF Ended, vars
<1> QED
  BY <1>2, <1>3, <1>4, <1>5, <1>6, <1>7, <1>8 DEF Next, Step

THEOREM StreamInvariant ==
  ASSUME TokensAreStrings
  PROVE  Spec => []StreamInv
  BY InitInv, StepInv, PTL DEF Spec

\* However the parse functions mix looking ahead and advancing, the tokens of the
\* ring follow the current one without a gap or a repetition, and the scanner
\* stands behind the last of them, for every size of the ring (parser.c:83-137).
THEOREM LookaheadStaysNext ==
  ASSUME TokensAreStrings
  PROVE  Spec => []LookaheadIsNext
  BY StreamInvariant, ChainIsNext, PTL

-----------------------------------------------------------------------------
(***************************************************************************)
(* The instructions, one at a time.                                        *)
(***************************************************************************)
LEMMA WhichAction ==
  ASSUME Step, status = "running", todo # <<>>
  PROVE  /\ Head(todo).do = "advance" => Read
         /\ Head(todo).do = "consume" => Expect
         /\ Head(todo).do = "call" => CallFunction
         /\ Head(todo).do = "list" => ReadList
         /\ Head(todo).do = "switch" => Branch
         /\ Head(todo).do = "make" => MakeNode
         /\ Head(todo).do = "error" => Fail
<1>1. ~ParseAgain /\ ~Return
  BY DEF ParseAgain, Return
<1>2. /\ Read => Head(todo).do = "advance"
      /\ Expect => Head(todo).do = "consume"
      /\ CallFunction => Head(todo).do = "call"
      /\ ReadList => Head(todo).do = "list"
      /\ Branch => Head(todo).do = "switch"
      /\ LookAhead => Head(todo).do = "look"
      /\ Decide => Head(todo).do = "look"
      /\ OpenNode => Head(todo).do = "node"
      /\ Fail => Head(todo).do \in {"error", "crash"}
  BY DEF Now, Read, Expect, CallFunction, ReadList, Branch, LookAhead, Decide, OpenNode, Fail
<1>4. MakeNode => Head(todo).do \in {"close", "make", "make_here"}
  BY DEF Now, MakeNode
<1>3. \/ Read \/ Expect \/ CallFunction \/ ReadList \/ Branch \/ LookAhead \/ Decide
      \/ OpenNode \/ MakeNode \/ Fail
  BY <1>1 DEF Step
<1> QED
  BY <1>2, <1>3, <1>4

\* A parser that looks at no token ahead.
Forward == count = 0 /\ current = Len(source) /\ position = Len(source) /\ phase = kind

\* It has read one token more.
Moved ==
  /\ source' \in Seq(STRING) /\ Len(source') = Len(source) + 1
  /\ \A i \in 1 .. Len(source) : source'[i] = source[i]
  /\ current' = current + 1 /\ previous' = current

LEMMA ForwardMoves ==
  ASSUME StreamInv, TokensAreStrings, Forward, Type(current) # "EOF", Advance, UNCHANGED phase
  PROVE  Forward' /\ Moved
<1>1. Scan /\ current' = position' /\ count' = 0 /\ previous' = current /\ UNCHANGED kind
  BY DEF Advance, Forward
<1>2. source \in Seq(STRING) /\ Len(source) \in Nat
  BY DEF StreamInv, StreamTypeOK
<1>3. ~AtEnd
  BY <1>2 DEF AtEnd, Forward, Type
<1>4. PICK t \in NextTokens(kind, source) : source' = Append(source, t)
  BY <1>1, <1>3 DEF Scan, Forward
<1>5. t \in STRING
  BY <1>2 DEF TokensAreStrings, StreamInv
<1>6. source' \in Seq(STRING) /\ Len(source') = Len(source) + 1 /\ \A i \in 1 .. Len(source) : source'[i] = source[i]
  BY <1>2, <1>4, <1>5
<1>7. position' = position + 1
  BY <1>1, <1>3 DEF Scan
<1> QED
  BY <1>1, <1>6, <1>7 DEF Forward, Moved

\* What an instruction leaves alone, and what is left of the parse function.
Goes(rest) == status' = "running" /\ todo' = rest /\ UNCHANGED <<kind, phase>>

LEMMA ReadGoes ==
  ASSUME StreamInv, TokensAreStrings, Forward, Step, status = "running", todo # <<>>,
         Head(todo).do = "advance", Type(current) # "EOF"
  PROVE  \/ status' = "exited" /\ UNCHANGED kind
         \/ Goes(<<>> \o Tail(todo)) /\ Forward' /\ Moved /\ UNCHANGED nodes
<1>1. Read
  BY WhichAction
<1>2. Advance /\ UNCHANGED <<phase, nodes>>
  BY <1>1 DEF Read, AdvanceAndContinue
<1>3. Forward' /\ Moved
  BY <1>2, ForwardMoves
<1>4. status' = "exited" \/ (status' = "running" /\ todo' = <<>> \o Tail(todo))
  BY <1>1 DEF Read, AdvanceAndContinue, End, Continue
<1> QED
  BY <1>2, <1>3, <1>4 DEF Goes, Advance

LEMMA ExpectGoes ==
  ASSUME StreamInv, TokensAreStrings, Forward, Step, status = "running", todo # <<>>,
         Head(todo).do = "consume", Head(todo).type # "EOF"
  PROVE  \/ status' = "exited" /\ UNCHANGED kind
         \/ /\ Type(current) = Head(todo).type
            /\ Goes(<<>> \o Tail(todo)) /\ Forward' /\ Moved /\ UNCHANGED nodes
<1>1. Expect
  BY WhichAction
<1>2. CASE Type(current) = Head(todo).type
  <2>1. Advance /\ UNCHANGED <<phase, nodes>>
    BY <1>1, <1>2 DEF Expect, AdvanceAndContinue, CurrentIn
  <2>2. Forward' /\ Moved
    BY <1>2, <2>1, ForwardMoves
  <2>3. status' = "exited" \/ (status' = "running" /\ todo' = <<>> \o Tail(todo))
    BY <1>1, <1>2 DEF Expect, AdvanceAndContinue, CurrentIn, End, Continue
  <2> QED
    BY <1>2, <2>1, <2>2, <2>3 DEF Goes, Advance
<1>3. CASE Type(current) # Head(todo).type
  BY <1>1, <1>3 DEF Expect, CurrentIn, End, stream
<1> QED
  BY <1>2, <1>3

\* An instruction that reads nothing.
LEMMA CallGoes ==
  ASSUME Forward, Step, status = "running", todo # <<>>, Head(todo).do = "call"
  PROVE  Goes(Rules[Head(todo).function] \o Tail(todo)) /\ UNCHANGED <<stream, nodes>>
BY WhichAction DEF CallFunction, Continue, Goes, stream

LEMMA ListGoes ==
  ASSUME Forward, Step, status = "running", todo # <<>>, Head(todo).do = "list", NEW f, f = Head(todo).function
  PROVE  /\ Goes(<<Call(f), At({"COMMA"}, <<Next1, Comma(f)>>, <<>>)>> \o Tail(todo))
         /\ UNCHANGED <<stream, nodes>>
BY WhichAction DEF ReadList, Continue, Goes, stream

LEMMA BranchGoes ==
  ASSUME Forward, Step, status = "running", todo # <<>>, NEW types, NEW body, NEW other,
         Head(todo) = At(types, body, other)
  PROVE  /\ Goes((IF Type(current) \in types THEN body ELSE other) \o Tail(todo))
         /\ UNCHANGED <<stream, nodes>>
<1> DEFINE arms == Head(todo).arms
           taken == {i \in DOMAIN arms : CurrentIn(arms[i].types)}
<1>1. /\ Head(todo).do = "switch" /\ arms = <<On(types, body)>> /\ Head(todo).default = other
  BY DEF At, Switch
<1>2. Branch
  BY <1>1, WhichAction, SMTT(30)
<1>3. /\ todo' = (IF taken = {} THEN Head(todo).default
                  ELSE arms[CHOOSE i \in taken : \A j \in taken : i <= j].body) \o Tail(todo)
      /\ UNCHANGED <<status, stream, phase, nodes>>
  BY <1>2 DEF Branch, Continue
<1>4. taken = IF Type(current) \in types THEN {1} ELSE {}
  BY <1>1 DEF On, CurrentIn
<1>5. taken = {1} => (CHOOSE i \in taken : \A j \in taken : i <= j) = 1
  OBVIOUS
<1>6. arms[1].body = body
  BY <1>1 DEF On
<1> HIDE DEF arms, taken
<1>7. (IF taken = {} THEN Head(todo).default ELSE arms[CHOOSE i \in taken : \A j \in taken : i <= j].body)
        = IF Type(current) \in types THEN body ELSE other
  BY <1>1, <1>4, <1>5, <1>6
<1>8. todo' = (IF Type(current) \in types THEN body ELSE other) \o Tail(todo)
  BY <1>3, <1>7
<1>9. UNCHANGED <<status, kind, phase, stream, nodes>>
  BY <1>3 DEF stream
<1> QED
  BY <1>8, <1>9 DEF Goes

LEMMA MakeGoes ==
  ASSUME Forward, Step, status = "running", todo # <<>>, Head(todo).do = "make"
  PROVE  /\ Goes(<<>> \o Tail(todo)) /\ UNCHANGED stream
         /\ nodes' = Append(nodes, [node |-> Head(todo).node, from |-> previous, to |-> previous])
<1>1. MakeNode
  BY WhichAction
<1>2. UNCHANGED <<status, phase, stream>> /\ todo' = <<>> \o Tail(todo)
  BY <1>1 DEF MakeNode, Continue
<1>3. nodes' = Append(nodes, [node |-> Head(todo).node, from |-> previous, to |-> previous])
  BY <1>1 DEF MakeNode, Now
<1> QED
  BY <1>2, <1>3 DEF Goes, stream

LEMMA ErrorEnds ==
  ASSUME Step, status = "running", todo # <<>>, Head(todo).do = "error"
  PROVE  status' = "exited" /\ UNCHANGED kind
BY WhichAction DEF Fail, Now, End, stream

\* What is left of a parse function from its k-th instruction on.
From(program, k) == SubSeq(program, k, Len(program))

LEMMA FromNext ==
  ASSUME NEW S, NEW program \in Seq(S), NEW k \in 1 .. Len(program)
  PROVE  /\ From(program, k) \in Seq(S) /\ From(program, k) # <<>>
         /\ Head(From(program, k)) = program[k]
         /\ \A s : s \o Tail(From(program, k)) = s \o From(program, k + 1)
         /\ From(program, k + 1) \in Seq(S) /\ <<>> \o From(program, k + 1) = From(program, k + 1)
<1> DEFINE n == Len(program)
<1>1. n \in Nat /\ \A i \in 1 .. n : program[i] \in S
  BY LenProperties, ElementOfSeq
<1> HIDE DEF n
<1>2. /\ SubSeq(program, k, n) \in Seq(S) /\ SubSeq(program, k + 1, n) \in Seq(S)
      /\ Len(SubSeq(program, k, n)) = n - k + 1
  <2>1. k \in 1 .. n
    BY DEF n
  <2>2. k \in Int /\ k + 1 \in Int /\ k <= n /\ n \in Int
    BY <1>1, <2>1
  <2>3. (\A i \in k .. n : program[i] \in S) /\ (\A i \in k + 1 .. n : program[i] \in S)
    BY <1>1, <2>1
  <2> QED
    BY <2>2, <2>3, SubSeqProperties
<1>3. n - k + 1 # 0
  BY <1>1 DEF n
<1>4. SubSeq(program, k, n) # <<>>
  BY <1>2, <1>3, EmptySeq
<1>5. Head(SubSeq(program, k, n)) = program[k] /\ Tail(SubSeq(program, k, n)) = SubSeq(program, k + 1, n)
  BY <1>1, HeadTailOfSubSeq DEF n
<1> QED
  BY <1>2, <1>4, <1>5, ConcatEmptySeq DEF From, n

LEMMA FromEnds ==
  ASSUME NEW S, NEW program \in Seq(S)
  PROVE  From(program, 1) = program /\ From(program, Len(program) + 1) = <<>>
BY SubSeqFull, SubSeqEmpty, LenProperties DEF From

LEMMA PairJoined ==
  ASSUME NEW x, NEW y
  PROVE  <<x>> \o <<y>> = <<x, y>>
<1> DEFINE T == {x, y}
           a == <<x, y>>
           b == <<x>> \o <<y>>
<1>1. /\ Len(<<x>>) = 1 /\ Len(<<y>>) = 1 /\ <<x>>[1] = x /\ <<y>>[1] = y
      /\ <<x>> \in Seq(T) /\ <<y>> \in Seq(T)
  OBVIOUS
<1>2. b \in Seq(T) /\ Len(b) = 2 /\ b[1] = x /\ b[2] = y
  BY <1>1, ConcatProperties, SMTT(20)
<1>3. a \in Seq(T) /\ Len(a) = 2 /\ a[1] = x /\ a[2] = y
  OBVIOUS
<1> HIDE DEF T, a, b
<1>4. Len(a) = Len(b) /\ \A i \in 1 .. Len(a) : a[i] = b[i]
  BY <1>2, <1>3
<1>5. a = b
  BY <1>2, <1>3, <1>4, SeqEqual
<1> QED
  BY <1>5 DEF a, b

\* One or two instructions put before the rest.
LEMMA PutBefore ==
  ASSUME NEW S, NEW rest \in Seq(S), NEW x, NEW y
  PROVE  /\ <<x>> \o rest # <<>> /\ Head(<<x>> \o rest) = x /\ \A s : s \o Tail(<<x>> \o rest) = s \o rest
         /\ <<x, y>> \o rest # <<>> /\ Head(<<x, y>> \o rest) = x
         /\ \A s : s \o Tail(<<x, y>> \o rest) = s \o (<<y>> \o rest)
         /\ <<>> \o rest = rest
<1> DEFINE T == S \cup {x, y}
           n == Len(rest)
           one == <<x>> \o rest
           two == <<x, y>> \o rest
<1>1. rest \in Seq(T) /\ <<x>> \in Seq(T) /\ <<y>> \in Seq(T) /\ <<x, y>> \in Seq(T) /\ n \in Nat
  <2>1. rest \in Seq(T)
    BY SeqMonotonic
  <2> QED
    BY <2>1, LenProperties
<1> HIDE DEF T
<1>2. <<x, y>> = <<x>> \o <<y>>
  BY PairJoined
<1>3. two = <<x>> \o (<<y>> \o rest)
  BY <1>1, <1>2, ConcatAssociative
<1>4. ASSUME NEW s \in Seq(T)
      PROVE  <<x>> \o s # <<>> /\ Head(<<x>> \o s) = x /\ Tail(<<x>> \o s) = s
  <2> DEFINE long == <<x>> \o s
  <2>1. /\ long \in Seq(T) /\ Len(s) \in Nat /\ Len(long) = Len(s) + 1 /\ long[1] = x
        /\ \A i \in 1 .. Len(s) : long[i + 1] = s[i]
    BY <1>1, <1>4, ConcatProperties, LenProperties
  <2> HIDE DEF long
  <2>2. long # <<>>
    BY <2>1, EmptySeq
  <2>3. Head(long) = x
    BY <2>1, <2>2
  <2>4. Tail(long) \in Seq(T) /\ Len(Tail(long)) = Len(s) /\ \A i \in 1 .. Len(s) : Tail(long)[i] = s[i]
    BY <2>1, <2>2, HeadTailProperties
  <2>5. Tail(long) = s
    BY <1>4, <2>1, <2>4, SeqEqual
  <2> QED
    BY <2>2, <2>3, <2>5 DEF long
<1>5. <<y>> \o rest \in Seq(T) /\ <<>> \o (<<y>> \o rest) = <<y>> \o rest /\ <<>> \o rest = rest
  BY <1>1, ConcatProperties, ConcatEmptySeq
<1> QED
  BY <1>1, <1>3, <1>4, <1>5

Program(p) == \E S : p \in Seq(S)

\* The instructions are x and then those of rest.
Begins(t, x, rest) ==
  /\ t # <<>> /\ Head(t) = x /\ Program(rest)
  /\ <<>> \o Tail(t) = rest /\ \A s : s \o Tail(t) = s \o rest

LEMMA BeginsFrom ==
  ASSUME NEW p, Program(p), NEW k \in 1 .. Len(p)
  PROVE  Begins(From(p, k), p[k], From(p, k + 1))
<1>1. PICK S : p \in Seq(S)
  BY DEF Program
<1>2. /\ From(p, k) # <<>> /\ Head(From(p, k)) = p[k]
      /\ \A s : s \o Tail(From(p, k)) = s \o From(p, k + 1)
      /\ From(p, k + 1) \in Seq(S) /\ <<>> \o From(p, k + 1) = From(p, k + 1)
  BY <1>1, FromNext
<1> QED
  BY <1>2 DEF Begins, Program

LEMMA BeginsOne ==
  ASSUME NEW rest, Program(rest), NEW x
  PROVE  Begins(<<x>> \o rest, x, rest) /\ Program(<<x>> \o rest) /\ <<>> \o rest = rest
<1>1. PICK S : rest \in Seq(S)
  BY DEF Program
<1>2. /\ <<x>> \o rest # <<>> /\ Head(<<x>> \o rest) = x /\ <<>> \o rest = rest
      /\ \A s : s \o Tail(<<x>> \o rest) = s \o rest
  BY <1>1, PutBefore
<1>3. rest \in Seq(S \cup {x}) /\ <<x>> \in Seq(S \cup {x})
  BY <1>1, SeqMonotonic
<1>4. <<x>> \o rest \in Seq(S \cup {x})
  BY <1>3, ConcatProperties
<1> QED
  BY <1>1, <1>2, <1>4 DEF Begins, Program

LEMMA BeginsTwo ==
  ASSUME NEW rest, Program(rest), NEW x, NEW y
  PROVE  Begins(<<x, y>> \o rest, x, <<y>> \o rest)
<1>1. PICK S : rest \in Seq(S)
  BY DEF Program
<1>2. /\ <<x, y>> \o rest # <<>> /\ Head(<<x, y>> \o rest) = x
      /\ \A s : s \o Tail(<<x, y>> \o rest) = s \o (<<y>> \o rest)
  BY <1>1, PutBefore
<1>3. Program(<<y>> \o rest) /\ <<>> \o (<<y>> \o rest) = <<y>> \o rest
  <2>1. Program(<<y>> \o rest)
    BY BeginsOne
  <2> QED
    BY <2>1, BeginsOne
<1> QED
  BY <1>2, <1>3 DEF Begins

\* An error comes next.
Failing == todo # <<>> /\ Head(todo).do = "error"

\* One step of a parser that looks at no token ahead, by the first of the instructions.
Exits == status' = "exited" /\ UNCHANGED kind

LEMMA ReadAt ==
  ASSUME StreamInv, TokensAreStrings, Forward, Step, status = "running",
         NEW rest, Begins(todo, Next1, rest), Type(current) # "EOF"
  PROVE  Exits \/ (Goes(rest) /\ Forward' /\ Moved /\ UNCHANGED nodes)
<1>1. todo # <<>> /\ Head(todo).do = "advance" /\ <<>> \o Tail(todo) = rest
  BY DEF Begins, Next1
<1> QED
  BY <1>1, ReadGoes DEF Exits

LEMMA ExpectAt ==
  ASSUME StreamInv, TokensAreStrings, Forward, Step, status = "running",
         NEW rest, NEW type, type # "EOF", Begins(todo, Consume(type), rest)
  PROVE  Exits \/ (Type(current) = type /\ Goes(rest) /\ Forward' /\ Moved /\ UNCHANGED nodes)
<1>1. todo # <<>> /\ Head(todo).do = "consume" /\ Head(todo).type = type /\ <<>> \o Tail(todo) = rest
  BY DEF Begins, Consume
<1> QED
  BY <1>1, ExpectGoes DEF Exits

LEMMA CallAt ==
  ASSUME Forward, Step, status = "running", NEW rest, NEW f, Begins(todo, Call(f), rest)
  PROVE  Goes(Rules[f] \o rest) /\ UNCHANGED <<stream, nodes>>
<1>1. todo # <<>> /\ Head(todo).do = "call" /\ Head(todo).function = f
  BY DEF Begins, Call
<1>2. Rules[f] \o Tail(todo) = Rules[f] \o rest
  BY DEF Begins
<1> QED
  BY <1>1, <1>2, CallGoes

LEMMA ListAt ==
  ASSUME Forward, Step, status = "running", NEW rest, NEW f, Begins(todo, Comma(f), rest)
  PROVE  /\ Goes(<<Call(f), At({"COMMA"}, <<Next1, Comma(f)>>, <<>>)>> \o rest)
         /\ UNCHANGED <<stream, nodes>>
<1> DEFINE body == <<Call(f), At({"COMMA"}, <<Next1, Comma(f)>>, <<>>)>>
<1>1. todo # <<>> /\ Head(todo).do = "list" /\ Head(todo).function = f
  BY DEF Begins, Comma
<1>2. body \o Tail(todo) = body \o rest
  BY DEF Begins
<1>3. Goes(body \o Tail(todo)) /\ UNCHANGED <<stream, nodes>>
  BY <1>1, ListGoes
<1> QED
  BY <1>2, <1>3

LEMMA BranchAt ==
  ASSUME Forward, Step, status = "running", NEW rest, NEW types, NEW body, NEW other,
         Begins(todo, At(types, body, other), rest)
  PROVE  /\ Goes((IF Type(current) \in types THEN body ELSE other) \o rest)
         /\ UNCHANGED <<stream, nodes>>
<1>1. todo # <<>> /\ Head(todo) = At(types, body, other)
      /\ \A s : s \o Tail(todo) = s \o rest
  BY DEF Begins
<1>2. /\ Goes((IF Type(current) \in types THEN body ELSE other) \o Tail(todo))
      /\ UNCHANGED <<stream, nodes>>
  BY <1>1, BranchGoes
<1> DEFINE chosen == IF Type(current) \in types THEN body ELSE other
<1>3. chosen \o Tail(todo) = chosen \o rest
  <2> HIDE DEF chosen
  <2> QED
    BY <1>1
<1> QED
  BY <1>2, <1>3 DEF Goes

\* A token that is required: the error it is otherwise ends the process next.
LEMMA ChoiceAt ==
  ASSUME Forward, Step, status = "running", NEW rest, NEW types, NEW body,
         Begins(todo, At(types, body, <<Error>>), rest)
  PROVE  /\ status' = "running" /\ Forward' /\ UNCHANGED <<stream, nodes>>
         /\ (Type(current) \in types /\ todo' = body \o rest) \/ Failing'
<1>1. /\ Goes((IF Type(current) \in types THEN body ELSE <<Error>>) \o rest)
      /\ UNCHANGED <<stream, nodes>>
  BY BranchAt
<1>2. Begins(<<Error>> \o rest, Error, rest)
  <2>1. Program(rest)
    BY DEF Begins
  <2> QED
    BY <2>1, BeginsOne
<1>3. <<Error>> \o rest # <<>> /\ Head(<<Error>> \o rest).do = "error"
  BY <1>2 DEF Begins, Error
<1>4. todo' = <<Error>> \o rest => Failing'
  BY <1>3 DEF Failing
<1>5. Forward'
  BY <1>1 DEF Forward, Goes, stream
<1> QED
  BY <1>1, <1>4, <1>5 DEF Goes

LEMMA MakeAt ==
  ASSUME Forward, Step, status = "running", NEW rest, NEW node, Begins(todo, Make(node), rest)
  PROVE  /\ Goes(rest) /\ UNCHANGED stream
         /\ nodes' = Append(nodes, [node |-> node, from |-> previous, to |-> previous])
<1>1. todo # <<>> /\ Head(todo).do = "make" /\ Head(todo).node = node /\ <<>> \o Tail(todo) = rest
  BY DEF Begins, Make
<1>2. /\ Goes(<<>> \o Tail(todo)) /\ UNCHANGED stream
      /\ nodes' = Append(nodes, [node |-> Head(todo).node, from |-> previous, to |-> previous])
  BY <1>1, MakeGoes
<1> QED
  BY <1>1, <1>2

LEMMA FailingExits ==
  ASSUME Step, status = "running", Failing
  PROVE  Exits
BY ErrorEnds DEF Failing, Exits

LEMMA StillForward ==
  ASSUME Forward, NEW rest, Goes(rest), UNCHANGED stream
  PROVE  Forward' /\ status' = "running" /\ todo' = rest /\ UNCHANGED <<kind, source, current, previous>>
BY DEF Forward, Goes, stream

-----------------------------------------------------------------------------
(***************************************************************************)
(* The columns of a CREATE TABLE (parse_create).                           *)
(***************************************************************************)
\* The column names in a tree, which has no other nodes.
Listed(tree, places) ==
  /\ tree \in Seq([node : {"column_name"}, from : Nat, to : Nat])
  /\ {tree[i].to : i \in DOMAIN tree} = places
  /\ \A i, j \in DOMAIN tree : i < j => tree[i].to < tree[j].to

LEMMA ListedNone == Listed(<<>>, {})
BY DEF Listed

LEMMA ListedNext ==
  ASSUME NEW tree, NEW places, Listed(tree, places), NEW p \in Nat, \A q \in places : q < p
  PROVE  Listed(Append(tree, [node |-> "column_name", from |-> p, to |-> p]), places \cup {p})
<1> DEFINE N == [node : {"column_name"}, from : Nat, to : Nat]
           n == [node |-> "column_name", from |-> p, to |-> p]
           more == Append(tree, n)
           len == Len(tree)
<1>1. tree \in Seq(N) /\ n \in N /\ n.to = p
  BY DEF Listed
<1> HIDE DEF N, n
<1>2. /\ more \in Seq(N) /\ len \in Nat /\ DOMAIN tree = 1 .. len /\ DOMAIN more = 1 .. len + 1
      /\ more[len + 1] = n /\ \A i \in 1 .. len : more[i] = tree[i]
  BY <1>1
<1> HIDE DEF more, len
<1>3. /\ {tree[i].to : i \in 1 .. len} = places
      /\ \A i, j \in 1 .. len : i < j => tree[i].to < tree[j].to
  BY <1>2 DEF Listed
<1>4. {more[i].to : i \in 1 .. len + 1} = places \cup {p}
  <2>1. \A i : i \in 1 .. len + 1 <=> i \in 1 .. len \/ i = len + 1
    BY <1>2
  <2> QED
    BY <1>1, <1>2, <1>3, <2>1
<1>5. ASSUME NEW i \in 1 .. len + 1, NEW j \in 1 .. len + 1, i < j
      PROVE  more[i].to < more[j].to
  <2>1. i \in 1 .. len
    BY <1>2, <1>5
  <2>2. CASE j \in 1 .. len
    BY <1>2, <1>3, <1>5, <2>1, <2>2
  <2>3. CASE j = len + 1
    <3>1. tree[i].to \in places
      BY <1>3, <2>1
    <3> QED
      BY <1>1, <1>2, <2>1, <2>3, <3>1
  <2> QED
    BY <1>2, <2>2, <2>3
<1>6. Listed(more, places \cup {p})
  BY <1>2, <1>4, <1>5 DEF Listed, N
<1> QED
  BY <1>6 DEF more, n

LEMMA ListedNames ==
  ASSUME NEW tree, NEW places, Listed(tree, places)
  PROVE  Names(tree, places)
<1> DEFINE named == {i \in DOMAIN tree : tree[i].node = "column_name"}
<1>1. \A i \in DOMAIN tree : tree[i].node = "column_name"
  <2>1. tree \in Seq([node : {"column_name"}, from : Nat, to : Nat])
    BY DEF Listed
  <2>2. \A i \in DOMAIN tree : tree[i] \in [node : {"column_name"}, from : Nat, to : Nat]
    BY <2>1, LenProperties, ElementOfSeq
  <2> QED
    BY <2>2
<1>2. named = DOMAIN tree
  BY <1>1
<1> HIDE DEF named
<1>3. {tree[i].to : i \in named} = places /\ \A i, j \in named : i < j => tree[i].to < tree[j].to
  BY <1>2 DEF Listed
<1> QED
  BY <1>3 DEF Names, named

\* What a CREATE TABLE begins with.
Opening == <<{"CREATE"}, {"TABLE"}, {"STRING", "IDENTIFIER"}, {"LEFT_PAREN"}>>

\* The places up to n where a definition is taken to begin.
Starts(text, n) == {i \in 5 .. n : i = 5 \/ text[i - 1] = "COMMA"}

LEMMA StartsKept ==
  ASSUME NEW n \in Nat, NEW m \in Nat, NEW text, NEW longer, \A i \in 1 .. n : longer[i] = text[i], m <= n + 1
  PROVE  Starts(longer, m) = Starts(text, m)
<1>1. \A i \in 5 .. m : longer[i - 1] = text[i - 1]
  <2> SUFFICES ASSUME NEW i \in 5 .. m PROVE longer[i - 1] = text[i - 1]
    OBVIOUS
  <2>1. i - 1 \in 1 .. n
    OBVIOUS
  <2> QED
    BY <2>1
<1> QED
  BY <1>1 DEF Starts

LEMMA StartsNext ==
  ASSUME NEW n \in Nat, NEW text
  PROVE  Starts(text, n + 1) = IF n + 1 >= 5 /\ (n + 1 = 5 \/ text[n] = "COMMA")
                                 THEN Starts(text, n) \cup {n + 1} ELSE Starts(text, n)
<1>1. \A i : i \in 5 .. n + 1 <=> i \in 5 .. n \/ (i = n + 1 /\ n + 1 >= 5)
  OBVIOUS
<1>2. (n + 1) - 1 = n
  OBVIOUS
<1> QED
  BY <1>1, <1>2 DEF Starts

\* The instructions for a definition of a CREATE TABLE.
ColumnSteps ==
  <<OneOf({"STRING", "IDENTIFIER"}), Make("column_name"), Call("rest_of_column"),
    Match("COMMA", <<>>), Call("create_columns")>>

\* Before the first definition, by the tokens read.
AtOpening ==
  /\ nodes = <<>> /\ current <= 4 /\ \A i \in 1 .. current - 1 : source[i] \in Opening[i]
  /\ \/ current = 0 /\ todo = <<Next1, Call("create")>>
     \/ current = 1 /\ todo = <<Call("create")>>
     \/ current \in 1 .. 4 /\ todo = From(ParseCreate, current)
     \/ current = 3 /\ source[3] \in Opening[3] /\ todo = <<Next1>> \o From(ParseCreate, 4)

\* At a definition or at the end; the columns of those before are named.
AtColumn ==
  /\ Listed(nodes, Starts(source, current - 1))
  /\ \/ /\ source[current] = "EOF" \/ current \in Starts(source, current)
        /\ todo \in {From(ParseCreate, 5), From(ColumnSteps, 5), CreateColumns}
     \/ /\ source[current] # "EOF" /\ current \in Starts(source, current)
        /\ todo = ColumnSteps
     \/ /\ source[current] \in {"STRING", "IDENTIFIER"} /\ current \in Starts(source, current)
        /\ todo = <<Next1>> \o From(ColumnSteps, 2)
     \/ todo = <<>>

\* Behind the first token of a definition.
AtName ==
  /\ Listed(nodes, Starts(source, current - 2))
  /\ previous = current - 1 /\ current - 1 \in Starts(source, current - 1) /\ source[current - 1] # "COMMA"
  /\ todo = From(ColumnSteps, 2)

\* In the rest of a definition.
AtRest ==
  /\ current > 5 /\ source[current - 1] # "COMMA" /\ Listed(nodes, Starts(source, current - 1))
  /\ \/ todo \in {From(ColumnSteps, 3), <<Call("rest_of_column")>> \o From(ColumnSteps, 4),
                  RestOfColumn \o From(ColumnSteps, 4)}
     \/ /\ source[current] \notin {"EOF", "COMMA"}
        /\ todo = <<Next1, Call("rest_of_column")>> \o From(ColumnSteps, 4)
     \/ source[current] \in {"EOF", "COMMA"} /\ todo = From(ColumnSteps, 4)
     \/ source[current] = "COMMA" /\ todo = <<Next1>> \o From(ColumnSteps, 5)

Opened == current >= 5 /\ \A i \in 1 .. 4 : source[i] \in Opening[i]

\* A statement that was read names its columns; what is still read is at one of the
\* places above.
CreateInv ==
  kind = "create" =>
  /\ status = "running" =>
       Forward /\ (AtOpening \/ (Opened /\ (AtColumn \/ AtName \/ AtRest)) \/ Failing)
  /\ status = "returned" =>
       current = Len(source) /\ Opened /\ Listed(nodes, Starts(source, current - 1))

LEMMA FiveSteps ==
  ASSUME NEW a, NEW b, NEW c, NEW d, NEW e, NEW p, p = <<a, b, c, d, e>>
  PROVE  Program(p) /\ Len(p) = 5 /\ p[1] = a /\ p[2] = b /\ p[3] = c /\ p[4] = d /\ p[5] = e
<1>1. <<a, b, c, d, e>> \in Seq({a, b, c, d, e})
  OBVIOUS
<1> QED
  BY <1>1 DEF Program

LEMMA CreateRules ==
  /\ Rules["create"] = ParseCreate /\ Rules["create_columns"] = CreateColumns
  /\ Rules["rest_of_column"] = RestOfColumn
BY DEF Rules

LEMMA NothingBefore == Program(<<>>) /\ \A x : Begins(<<x>>, x, <<>>)
<1>1. \A x : <<x>> # <<>> /\ Head(<<x>>) = x /\ Tail(<<x>>) = <<>>
  OBVIOUS
<1>2. Program(<<>>)
  BY DEF Program
<1>3. <<>> \o <<>> = <<>>
  OBVIOUS
<1> QED
  BY <1>1, <1>2, <1>3 DEF Begins

LEMMA ConsumeAtOpening ==
  ASSUME StreamInv, TokensAreStrings, Forward, Step, status = "running", kind = "create",
         AtOpening, NEW k \in 1 .. 4, current = k, todo = From(ParseCreate, k),
         NEW type, type # "EOF", ParseCreate[k] = Consume(type), Opening[k] = {type}
  PROVE  \/ Exits
         \/ /\ Goes(From(ParseCreate, k + 1)) /\ Forward' /\ Moved /\ UNCHANGED nodes
            /\ source[k] \in Opening[k]
<1>1. Begins(todo, Consume(type), From(ParseCreate, k + 1))
  BY FiveSteps, BeginsFrom DEF ParseCreate
<1>2. Exits \/ (Type(current) = type /\ Goes(From(ParseCreate, k + 1)) /\ Forward' /\ Moved /\ UNCHANGED nodes)
  BY <1>1, ExpectAt
<1> QED
  BY <1>2 DEF Type

LEMMA CreateStays ==
  \/ Exits
  \/ /\ status' = "running" /\ Forward'
     /\ AtOpening' \/ (Opened' /\ (AtColumn' \/ AtName' \/ AtRest')) \/ Failing'
  => CreateInv'
BY DEF CreateInv, Exits

LEMMA OpeningStep ==
  ASSUME StreamInv, TokensAreStrings, Forward, Step, status = "running", kind = "create",
         AtOpening
  PROVE  CreateInv'
<1>1. current <= 4 /\ current \in Nat /\ current = Len(source) /\ source \in Seq(STRING)
  BY DEF AtOpening, Forward, StreamInv, StreamTypeOK
<1>2. nodes = <<>> /\ \A i \in 1 .. current - 1 : source[i] \in Opening[i]
  BY DEF AtOpening
<1>3. ASSUME Moved, current # 0 => source[current] \in Opening[current]
      PROVE  \A i \in 1 .. current : source'[i] \in Opening[i]
  <2> SUFFICES ASSUME NEW i \in 1 .. current PROVE source'[i] \in Opening[i]
    OBVIOUS
  <2>1. source'[i] = source[i]
    BY <1>1, <1>3 DEF Moved
  <2>2. i = current \/ i \in 1 .. current - 1
    BY <1>1
  <2> QED
    BY <1>1, <1>2, <1>3, <2>1, <2>2
<1>4. CASE current = 0 /\ todo = <<Next1, Call("create")>>
  <2>1. Begins(todo, Next1, <<Call("create")>>)
    <3>1. <<Next1, Call("create")>> # <<>> /\ Head(<<Next1, Call("create")>>) = Next1
          /\ Tail(<<Next1, Call("create")>>) = <<Call("create")>>
      OBVIOUS
    <3>2. <<Call("create")>> \in Seq({Call("create")}) /\ <<>> \o <<Call("create")>> = <<Call("create")>>
      OBVIOUS
    <3> QED
      BY <1>4, <3>1, <3>2 DEF Begins, Program
  <2>2. Exits \/ (Goes(<<Call("create")>>) /\ Forward' /\ Moved /\ UNCHANGED nodes)
    BY <1>4, <2>1, ReadAt DEF Type
  <2>3. CASE Goes(<<Call("create")>>) /\ Forward' /\ Moved /\ UNCHANGED nodes
    <3>1. AtOpening'
      BY <1>2, <1>4, <2>3 DEF AtOpening, Goes, Moved
    <3> QED
      BY <2>3, <3>1, CreateStays DEF Goes
  <2> QED
    BY <2>2, <2>3, CreateStays
<1>5. CASE current = 1 /\ todo = <<Call("create")>>
  <2>1. Goes(ParseCreate \o <<>>) /\ UNCHANGED <<stream, nodes>>
    BY <1>5, NothingBefore, CallAt, CreateRules
  <2>2. ParseCreate \o <<>> = From(ParseCreate, 1)
    <3>1. Program(ParseCreate)
      BY FiveSteps DEF ParseCreate
    <3>2. PICK S : ParseCreate \in Seq(S)
      BY <3>1 DEF Program
    <3> QED
      BY <3>2, FromEnds, ConcatEmptySeq
  <2>3. /\ Forward' /\ status' = "running" /\ todo' = From(ParseCreate, 1)
        /\ current' = 1 /\ source' = source /\ nodes' = <<>>
    BY <1>2, <1>5, <2>1, <2>2 DEF Goes, Forward, stream
  <2>4. AtOpening'
    BY <2>3 DEF AtOpening
  <2> QED
    BY <2>3, <2>4, CreateStays
<1>6. CASE current \in 1 .. 4 /\ todo = From(ParseCreate, current)
  <2>1. CASE current = 1
    <3>1. \/ Exits
          \/ /\ Goes(From(ParseCreate, 1 + 1)) /\ Forward' /\ Moved /\ UNCHANGED nodes
             /\ source[1] \in Opening[1]
      BY <1>6, <2>1, FiveSteps, ConsumeAtOpening DEF ParseCreate, Opening
    <3>2. CASE /\ Goes(From(ParseCreate, 2)) /\ Forward' /\ Moved /\ UNCHANGED nodes
               /\ source[1] \in Opening[1]
      <4>1. AtOpening'
        BY <1>2, <1>3, <2>1, <3>2 DEF AtOpening, Goes, Moved
      <4> QED
        BY <3>2, <4>1, CreateStays DEF Goes
    <3> QED
      BY <3>1, <3>2, CreateStays
  <2>2. CASE current = 2
    <3>1. \/ Exits
          \/ /\ Goes(From(ParseCreate, 2 + 1)) /\ Forward' /\ Moved /\ UNCHANGED nodes
             /\ source[2] \in Opening[2]
      BY <1>6, <2>2, FiveSteps, ConsumeAtOpening DEF ParseCreate, Opening
    <3>2. CASE /\ Goes(From(ParseCreate, 3)) /\ Forward' /\ Moved /\ UNCHANGED nodes
               /\ source[2] \in Opening[2]
      <4>1. AtOpening'
        BY <1>2, <1>3, <2>2, <3>2 DEF AtOpening, Goes, Moved
      <4> QED
        BY <3>2, <4>1, CreateStays DEF Goes
    <3> QED
      BY <3>1, <3>2, CreateStays
  <2>3. CASE current = 3
    <3>1. Begins(todo, OneOf({"STRING", "IDENTIFIER"}), From(ParseCreate, 4))
      BY <1>6, <2>3, FiveSteps, BeginsFrom DEF ParseCreate
    <3>2. /\ status' = "running" /\ Forward' /\ UNCHANGED <<stream, nodes>>
          /\ (source[3] \in Opening[3] /\ todo' = <<Next1>> \o From(ParseCreate, 4)) \/ Failing'
      BY <2>3, <3>1, ChoiceAt DEF OneOf, Type, Opening
    <3>3. CASE source[3] \in Opening[3] /\ todo' = <<Next1>> \o From(ParseCreate, 4)
      <4>1. AtOpening'
        BY <1>2, <2>3, <3>2, <3>3 DEF AtOpening, stream
      <4> QED
        BY <3>2, <4>1, CreateStays
    <3> QED
      BY <3>2, <3>3, CreateStays
  <2>4. CASE current = 4
    <3>1. \/ Exits
          \/ /\ Goes(From(ParseCreate, 4 + 1)) /\ Forward' /\ Moved /\ UNCHANGED nodes
             /\ source[4] \in Opening[4]
      BY <1>6, <2>4, FiveSteps, ConsumeAtOpening DEF ParseCreate, Opening
    <3>2. CASE /\ Goes(From(ParseCreate, 5)) /\ Forward' /\ Moved /\ UNCHANGED nodes
               /\ source[4] \in Opening[4]
      <4>1. current' = 5 /\ nodes' = <<>> /\ todo' = From(ParseCreate, 5)
        BY <1>2, <2>4, <3>2 DEF Moved, Goes
      <4>2. Opened'
        BY <1>3, <2>4, <3>2, <4>1 DEF Opened
      <4>3. Starts(source', current' - 1) = {} /\ current' \in Starts(source', current')
        BY <4>1 DEF Starts
      <4>4. Listed(nodes', Starts(source', current' - 1))
        BY <4>1, <4>3, ListedNone
      <4>5. AtColumn'
        BY <4>1, <4>3, <4>4 DEF AtColumn
      <4> QED
        BY <3>2, <4>2, <4>5, CreateStays DEF Goes
    <3> QED
      BY <3>1, <3>2, CreateStays
  <2> QED
    BY <1>6, <2>1, <2>2, <2>3, <2>4
<1>7. CASE current = 3 /\ source[3] \in Opening[3] /\ todo = <<Next1>> \o From(ParseCreate, 4)
  <2>1. Program(From(ParseCreate, 4))
    BY FiveSteps, BeginsFrom DEF ParseCreate, Begins
  <2>2. Begins(todo, Next1, From(ParseCreate, 4))
    BY <1>7, <2>1, BeginsOne
  <2>3. Type(current) # "EOF"
    BY <1>7 DEF Type, Opening
  <2>4. Exits \/ (Goes(From(ParseCreate, 4)) /\ Forward' /\ Moved /\ UNCHANGED nodes)
    BY <2>2, <2>3, ReadAt
  <2>5. CASE Goes(From(ParseCreate, 4)) /\ Forward' /\ Moved /\ UNCHANGED nodes
    <3>1. AtOpening'
      BY <1>2, <1>3, <1>7, <2>5 DEF AtOpening, Goes, Moved
    <3> QED
      BY <2>5, <3>1, CreateStays DEF Goes
  <2> QED
    BY <2>4, <2>5, CreateStays
<1> QED
  BY <1>4, <1>5, <1>6, <1>7 DEF AtOpening

LEMMA ColumnProgram ==
  /\ Program(ColumnSteps) /\ Len(ColumnSteps) = 5
  /\ \A k \in 1 .. 5 : Begins(From(ColumnSteps, k), ColumnSteps[k], From(ColumnSteps, k + 1))
  /\ \A k \in 1 .. 5 : Program(From(ColumnSteps, k + 1))
  /\ ColumnSteps = From(ColumnSteps, 1) /\ From(ColumnSteps, 6) = <<>>
  /\ From(ParseCreate, 6) = <<>>
<1>1. Program(ColumnSteps) /\ Len(ColumnSteps) = 5
  BY FiveSteps DEF ColumnSteps
<1>2. Program(ParseCreate) /\ Len(ParseCreate) = 5
  BY FiveSteps DEF ParseCreate
<1>3. ASSUME NEW p, Program(p), Len(p) = 5
      PROVE  p = From(p, 1) /\ From(p, 6) = <<>>
  <2>1. PICK S : p \in Seq(S)
    BY <1>3 DEF Program
  <2>2. From(p, 1) = p /\ From(p, Len(p) + 1) = <<>>
    BY <2>1, FromEnds
  <2> QED
    BY <1>3, <2>2
<1>4. \A k \in 1 .. 5 : Begins(From(ColumnSteps, k), ColumnSteps[k], From(ColumnSteps, k + 1))
  BY <1>1, BeginsFrom
<1>5. \A k \in 1 .. 5 : Program(From(ColumnSteps, k + 1))
  BY <1>4 DEF Begins
<1> QED
  BY <1>1, <1>2, <1>3, <1>4, <1>5

\* The places a longer text has begun at are those of the text read so far.
LEMMA MovedPlaces ==
  ASSUME StreamInv, Forward, Opened, Moved
  PROVE  /\ Opened' /\ current' = current + 1 /\ current \in Nat
         /\ source'[current] = source[current] /\ source'[current - 1] = source[current - 1]
         /\ \A m \in 0 .. current : Starts(source', m) = Starts(source, m)
<1>1. /\ source \in Seq(STRING) /\ Len(source) \in Nat /\ current = Len(source) /\ current >= 5
      /\ \A i \in 1 .. current : source'[i] = source[i]
      /\ current' = current + 1
  BY DEF StreamInv, StreamTypeOK, Forward, Moved, Opened
<1>2. \A m \in 0 .. current : Starts(source', m) = Starts(source, m)
  <2> SUFFICES ASSUME NEW m \in 0 .. current PROVE Starts(source', m) = Starts(source, m)
    OBVIOUS
  <2>1. m \in Nat /\ m <= current + 1 /\ current \in Nat
    BY <1>1
  <2> QED
    BY <1>1, <2>1, StartsKept
<1>3. Opened'
  BY <1>1 DEF Opened
<1> QED
  BY <1>1, <1>2, <1>3

LEMMA ColumnStep ==
  ASSUME StreamInv, TokensAreStrings, Forward, Step, status = "running", kind = "create",
         Opened, AtColumn, todo # <<>>
  PROVE  CreateInv'
<1>1. current >= 5 /\ current \in Nat /\ current = Len(source) /\ Type(current) = source[current]
  BY DEF Opened, Forward, StreamInv, StreamTypeOK, Type
<1>2. Listed(nodes, Starts(source, current - 1))
  BY DEF AtColumn
<1>3. CASE /\ source[current] = "EOF" \/ current \in Starts(source, current)
           /\ todo \in {From(ParseCreate, 5), From(ColumnSteps, 5)}
  <2>1. Begins(todo, Call("create_columns"), <<>>)
    <3>0. Program(ParseCreate) /\ Len(ParseCreate) = 5 /\ ParseCreate[5] = Call("create_columns")
      BY FiveSteps DEF ParseCreate
    <3>1. Begins(From(ParseCreate, 5), ParseCreate[5], From(ParseCreate, 6))
      <4>1. 5 \in 1 .. Len(ParseCreate) /\ 5 + 1 = 6
        BY <3>0
      <4>2. Begins(From(ParseCreate, 5), ParseCreate[5], From(ParseCreate, 5 + 1))
        BY <3>0, <4>1, BeginsFrom, Zenon
      <4> QED
        BY <4>1, <4>2
    <3>2. ColumnSteps[5] = Call("create_columns")
      BY FiveSteps DEF ColumnSteps
    <3> QED
      BY <1>3, <3>0, <3>1, <3>2, ColumnProgram
  <2>2. Goes(CreateColumns \o <<>>) /\ UNCHANGED <<stream, nodes>>
    BY <2>1, CallAt, CreateRules
  <2>3. CreateColumns \o <<>> = CreateColumns
    BY DEF CreateColumns
  <2>4. /\ Forward' /\ status' = "running" /\ todo' = CreateColumns
        /\ UNCHANGED <<source, current, nodes>>
    BY <2>2, <2>3, StillForward
  <2>5. Opened' /\ AtColumn'
    BY <1>2, <1>3, <2>4 DEF AtColumn, Opened
  <2> QED
    BY <2>4, <2>5, CreateStays
<1>4. CASE /\ source[current] = "EOF" \/ current \in Starts(source, current)
           /\ todo = CreateColumns
  <2>1. Begins(todo, At({"EOF"}, <<>>, ColumnSteps), <<>>)
    BY <1>4, NothingBefore DEF CreateColumns, ColumnSteps
  <2> DEFINE chosen == (IF Type(current) \in {"EOF"} THEN <<>> ELSE ColumnSteps) \o <<>>
  <2>2. Goes(chosen) /\ UNCHANGED <<stream, nodes>>
    BY <2>1, BranchAt
  <2>3. chosen = IF source[current] = "EOF" THEN <<>> ELSE ColumnSteps
    <3>1. <<>> \o <<>> = <<>> /\ ColumnSteps \o <<>> = ColumnSteps
      BY DEF ColumnSteps
    <3> QED
      BY <1>1, <3>1
  <2> HIDE DEF chosen
  <2>4. /\ Forward' /\ status' = "running" /\ todo' = chosen
        /\ UNCHANGED <<source, current, nodes>>
    BY <2>2 DEF Goes, Forward, stream
  <2>5. Opened' /\ AtColumn'
    BY <1>2, <1>4, <2>3, <2>4 DEF AtColumn, Opened
  <2> QED
    BY <2>4, <2>5, CreateStays
<1>5. CASE /\ source[current] # "EOF" /\ current \in Starts(source, current)
           /\ todo = ColumnSteps
  <2>1. Begins(todo, OneOf({"STRING", "IDENTIFIER"}), From(ColumnSteps, 2))
    <3>1. ColumnSteps[1] = OneOf({"STRING", "IDENTIFIER"})
      BY FiveSteps DEF ColumnSteps
    <3> QED
      BY <1>5, <3>1, ColumnProgram
  <2>2. /\ status' = "running" /\ Forward' /\ UNCHANGED <<stream, nodes>>
        /\ \/ source[current] \in {"STRING", "IDENTIFIER"} /\ todo' = <<Next1>> \o From(ColumnSteps, 2)
           \/ Failing'
    BY <1>1, <2>1, ChoiceAt DEF OneOf
  <2>3. CASE source[current] \in {"STRING", "IDENTIFIER"} /\ todo' = <<Next1>> \o From(ColumnSteps, 2)
    <3>1. Opened' /\ AtColumn'
      BY <1>2, <1>5, <2>2, <2>3 DEF AtColumn, Opened, stream
    <3> QED
      BY <2>2, <3>1, CreateStays
  <2> QED
    BY <2>2, <2>3, CreateStays
<1>6. CASE /\ source[current] \in {"STRING", "IDENTIFIER"} /\ current \in Starts(source, current)
           /\ todo = <<Next1>> \o From(ColumnSteps, 2)
  <2>1. Begins(todo, Next1, From(ColumnSteps, 2))
    <3>1. Program(From(ColumnSteps, 2))
      BY ColumnProgram
    <3> QED
      BY <1>6, <3>1, BeginsOne
  <2>2. Exits \/ (Goes(From(ColumnSteps, 2)) /\ Forward' /\ Moved /\ UNCHANGED nodes)
    BY <1>1, <1>6, <2>1, ReadAt
  <2>3. CASE Goes(From(ColumnSteps, 2)) /\ Forward' /\ Moved /\ UNCHANGED nodes
    <3>1. /\ Opened' /\ current' = current + 1 /\ source'[current] = source[current]
          /\ \A m \in 0 .. current : Starts(source', m) = Starts(source, m)
      BY <2>3, MovedPlaces
    <3>2. previous' = current /\ todo' = From(ColumnSteps, 2) /\ UNCHANGED nodes
      BY <2>3 DEF Moved, Goes
    <3>3. Starts(source', current) = Starts(source, current) /\ Starts(source', current - 1) = Starts(source, current - 1)
      BY <1>1, <3>1
    <3>4. current' - 1 = current /\ current' - 2 = current - 1
      BY <1>1, <3>1
    <3>5. AtName'
      BY <1>2, <1>6, <3>1, <3>2, <3>3, <3>4 DEF AtName
    <3> QED
      BY <2>3, <3>1, <3>5, CreateStays DEF Goes
  <2> QED
    BY <2>2, <2>3, CreateStays
<1> QED
  BY <1>3, <1>4, <1>5, <1>6 DEF AtColumn

LEMMA NameStep ==
  ASSUME StreamInv, TokensAreStrings, Forward, Step, status = "running", kind = "create",
         Opened, AtName
  PROVE  CreateInv'
<1>1. current >= 5 /\ current \in Nat
  BY DEF Opened, Forward, StreamInv, StreamTypeOK
<1>2. /\ Listed(nodes, Starts(source, current - 2)) /\ previous = current - 1
      /\ current - 1 \in Starts(source, current - 1) /\ source[current - 1] # "COMMA"
      /\ todo = From(ColumnSteps, 2)
  BY DEF AtName
<1>3. Begins(todo, Make("column_name"), From(ColumnSteps, 3))
  <2>1. ColumnSteps[2] = Make("column_name")
    BY FiveSteps DEF ColumnSteps
  <2> QED
    BY <1>2, <2>1, ColumnProgram
<1>4. /\ Goes(From(ColumnSteps, 3)) /\ UNCHANGED stream
      /\ nodes' = Append(nodes, [node |-> "column_name", from |-> previous, to |-> previous])
  BY <1>3, MakeAt
<1>5. current - 1 >= 5
  BY <1>2 DEF Starts
<1>6. Starts(source, current - 1) = Starts(source, current - 2) \cup {current - 1}
  <2>1. current - 2 \in Nat /\ (current - 2) + 1 = current - 1
    BY <1>1
  <2>2. current - 1 = 5 \/ source[current - 2] = "COMMA"
    BY <1>1, <1>2 DEF Starts
  <2>3. Starts(source, (current - 2) + 1) =
          IF (current - 2) + 1 >= 5 /\ ((current - 2) + 1 = 5 \/ source[current - 2] = "COMMA")
          THEN Starts(source, current - 2) \cup {(current - 2) + 1} ELSE Starts(source, current - 2)
    BY <2>1, StartsNext
  <2> QED
    BY <1>5, <2>1, <2>2, <2>3
<1>7. Listed(nodes', Starts(source, current - 1))
  <2>1. current - 1 \in Nat /\ \A q \in Starts(source, current - 2) : q < current - 1
    BY <1>1 DEF Starts
  <2>2. Listed(Append(nodes, [node |-> "column_name", from |-> current - 1, to |-> current - 1]),
               Starts(source, current - 2) \cup {current - 1})
    BY <1>2, <2>1, ListedNext
  <2> QED
    BY <1>2, <1>4, <1>6, <2>2
<1>8. /\ Forward' /\ status' = "running" /\ todo' = From(ColumnSteps, 3)
      /\ UNCHANGED <<source, current>>
  BY <1>4, StillForward
<1>9. Opened' /\ AtRest'
  BY <1>1, <1>2, <1>5, <1>7, <1>8 DEF Opened, AtRest
<1> QED
  BY <1>8, <1>9, CreateStays

LEMMA RestStep ==
  ASSUME StreamInv, TokensAreStrings, Forward, Step, status = "running", kind = "create",
         Opened, AtRest
  PROVE  CreateInv'
<1>1. current > 5 /\ current \in Nat /\ current = Len(source) /\ Type(current) = source[current]
  BY DEF AtRest, Forward, StreamInv, StreamTypeOK, Type
<1>2. source[current - 1] # "COMMA" /\ Listed(nodes, Starts(source, current - 1))
  BY DEF AtRest
<1>3. Starts(source, current) = Starts(source, current - 1)
  <2>1. current - 1 \in Nat /\ (current - 1) + 1 = current
    BY <1>1
  <2>2. Starts(source, (current - 1) + 1) =
          IF (current - 1) + 1 >= 5 /\ ((current - 1) + 1 = 5 \/ source[current - 1] = "COMMA")
          THEN Starts(source, current - 1) \cup {(current - 1) + 1} ELSE Starts(source, current - 1)
    BY <2>1, StartsNext
  <2> QED
    BY <1>1, <1>2, <2>1, <2>2
<1>4. /\ ColumnSteps[3] = Call("rest_of_column") /\ ColumnSteps[4] = Match("COMMA", <<>>)
      /\ Program(From(ColumnSteps, 4)) /\ Program(From(ColumnSteps, 5))
  <2>1. ColumnSteps[3] = Call("rest_of_column") /\ ColumnSteps[4] = Match("COMMA", <<>>)
    BY FiveSteps DEF ColumnSteps
  <2> QED
    BY <2>1, ColumnProgram
<1>5. CASE todo \in {From(ColumnSteps, 3), <<Call("rest_of_column")>> \o From(ColumnSteps, 4)}
  <2>1. Begins(todo, Call("rest_of_column"), From(ColumnSteps, 4))
    <3>1. Begins(From(ColumnSteps, 3), ColumnSteps[3], From(ColumnSteps, 4))
      BY ColumnProgram
    <3>2. Begins(<<Call("rest_of_column")>> \o From(ColumnSteps, 4), Call("rest_of_column"),
                 From(ColumnSteps, 4))
      BY <1>4, BeginsOne
    <3> QED
      BY <1>4, <1>5, <3>1, <3>2
  <2>2. Goes(RestOfColumn \o From(ColumnSteps, 4)) /\ UNCHANGED <<stream, nodes>>
    BY <2>1, CallAt, CreateRules
  <2>3. /\ Forward' /\ status' = "running" /\ todo' = RestOfColumn \o From(ColumnSteps, 4)
        /\ UNCHANGED <<source, current, nodes>>
    BY <2>2, StillForward
  <2>4. Opened' /\ AtRest'
    BY <1>1, <1>2, <2>3 DEF Opened, AtRest
  <2> QED
    BY <2>3, <2>4, CreateStays
<1>6. CASE todo = RestOfColumn \o From(ColumnSteps, 4)
  <2> DEFINE more == <<Next1, Call("rest_of_column")>>
             chosen == (IF Type(current) \in {"EOF", "COMMA"} THEN <<>> ELSE more)
                          \o From(ColumnSteps, 4)
  <2>1. Begins(todo, At({"EOF", "COMMA"}, <<>>, more), From(ColumnSteps, 4))
    BY <1>4, <1>6, BeginsOne DEF RestOfColumn
  <2>2. Goes(chosen) /\ UNCHANGED <<stream, nodes>>
    BY <2>1, BranchAt
  <2>3. chosen = IF source[current] \in {"EOF", "COMMA"} THEN From(ColumnSteps, 4)
                 ELSE <<Next1, Call("rest_of_column")>> \o From(ColumnSteps, 4)
    <3>1. <<>> \o From(ColumnSteps, 4) = From(ColumnSteps, 4)
      BY <1>4, BeginsOne
    <3> QED
      BY <1>1, <3>1
  <2> HIDE DEF chosen
  <2>4. /\ Forward' /\ status' = "running" /\ todo' = chosen
        /\ UNCHANGED <<source, current, nodes>>
    BY <2>2 DEF Goes, Forward, stream
  <2>5. Opened' /\ AtRest'
    BY <1>1, <1>2, <2>3, <2>4 DEF AtRest, Opened
  <2> QED
    BY <2>4, <2>5, CreateStays
<1>7. CASE /\ source[current] \notin {"EOF", "COMMA"}
           /\ todo = <<Next1, Call("rest_of_column")>> \o From(ColumnSteps, 4)
  <2> DEFINE rest == <<Call("rest_of_column")>> \o From(ColumnSteps, 4)
  <2>1. Begins(todo, Next1, rest)
    BY <1>4, <1>7, BeginsTwo
  <2> HIDE DEF rest
  <2>2. Exits \/ (Goes(rest) /\ Forward' /\ Moved /\ UNCHANGED nodes)
    BY <1>1, <1>7, <2>1, ReadAt
  <2>3. CASE Goes(rest) /\ Forward' /\ Moved /\ UNCHANGED nodes
    <3>1. /\ Opened' /\ current' = current + 1 /\ source'[current] = source[current]
          /\ Starts(source', current) = Starts(source, current)
      <4>1. current \in 0 .. current
        BY <1>1
      <4> QED
        BY <2>3, <4>1, MovedPlaces
    <3>2. todo' = rest /\ UNCHANGED nodes
      BY <2>3 DEF Goes
    <3>3. current' - 1 = current /\ current' > 5
      BY <1>1, <3>1
    <3>4. AtRest'
      BY <1>2, <1>3, <1>7, <3>1, <3>2, <3>3 DEF AtRest, rest
    <3> QED
      BY <2>3, <3>1, <3>4, CreateStays DEF Goes
  <2> QED
    BY <2>2, <2>3, CreateStays
<1>8. CASE source[current] \in {"EOF", "COMMA"} /\ todo = From(ColumnSteps, 4)
  <2> DEFINE chosen == (IF Type(current) \in {"COMMA"} THEN <<Next1>> \o <<>> ELSE <<>>)
                         \o From(ColumnSteps, 5)
  <2>1. Begins(todo, At({"COMMA"}, <<Next1>> \o <<>>, <<>>), From(ColumnSteps, 5))
    BY <1>4, <1>8, ColumnProgram DEF Match
  <2>2. Goes(chosen) /\ UNCHANGED <<stream, nodes>>
    BY <2>1, BranchAt
  <2>3. chosen = IF source[current] = "COMMA" THEN <<Next1>> \o From(ColumnSteps, 5)
                 ELSE From(ColumnSteps, 5)
    <3>1. <<>> \o From(ColumnSteps, 5) = From(ColumnSteps, 5)
      BY <1>4, BeginsOne
    <3>2. <<Next1>> \o <<>> = <<Next1>>
      OBVIOUS
    <3> QED
      BY <1>1, <3>1, <3>2
  <2> HIDE DEF chosen
  <2>4. /\ Forward' /\ status' = "running" /\ todo' = chosen
        /\ UNCHANGED <<source, current, nodes>>
    BY <2>2 DEF Goes, Forward, stream
  <2>5. Opened'
    BY <2>4 DEF Opened
  <2>6. CASE source[current] = "COMMA"
    <3>1. AtRest'
      BY <1>1, <1>2, <2>3, <2>4, <2>6 DEF AtRest
    <3> QED
      BY <2>4, <2>5, <3>1, CreateStays
  <2>7. CASE source[current] = "EOF"
    <3>1. AtColumn'
      BY <1>2, <2>3, <2>4, <2>7 DEF AtColumn
    <3> QED
      BY <2>4, <2>5, <3>1, CreateStays
  <2> QED
    BY <1>8, <2>6, <2>7
<1>9. CASE source[current] = "COMMA" /\ todo = <<Next1>> \o From(ColumnSteps, 5)
  <2>1. Begins(todo, Next1, From(ColumnSteps, 5))
    BY <1>4, <1>9, BeginsOne
  <2>2. Exits \/ (Goes(From(ColumnSteps, 5)) /\ Forward' /\ Moved /\ UNCHANGED nodes)
    BY <1>1, <1>9, <2>1, ReadAt
  <2>3. CASE Goes(From(ColumnSteps, 5)) /\ Forward' /\ Moved /\ UNCHANGED nodes
    <3>1. /\ Opened' /\ current' = current + 1 /\ source'[current] = source[current]
          /\ Starts(source', current) = Starts(source, current)
      <4>1. current \in 0 .. current
        BY <1>1
      <4> QED
        BY <2>3, <4>1, MovedPlaces
    <3>2. todo' = From(ColumnSteps, 5) /\ UNCHANGED nodes
      BY <2>3 DEF Goes
    <3>3. current' - 1 = current /\ current' > 5 /\ current' \in Nat
      BY <1>1, <3>1
    <3>4. current' \in Starts(source', current')
      BY <1>9, <3>1, <3>3 DEF Starts
    <3>5. AtColumn'
      BY <1>2, <1>3, <3>1, <3>2, <3>3, <3>4 DEF AtColumn
    <3> QED
      BY <2>3, <3>1, <3>5, CreateStays DEF Goes
  <2> QED
    BY <2>2, <2>3, CreateStays
<1> QED
  BY <1>5, <1>6, <1>7, <1>8, <1>9 DEF AtRest

LEMMA KindKept == Step => UNCHANGED kind
<1>1. Read \/ Expect => UNCHANGED kind
  BY DEF Read, Expect, AdvanceAndContinue, Advance, stream
<1>2. LookAhead => UNCHANGED kind
  BY DEF LookAhead, FillOne
<1>3. ParseAgain => UNCHANGED kind
  BY DEF ParseAgain, StreamReset
<1>4. CallFunction \/ ReadList \/ Branch \/ Decide \/ OpenNode => UNCHANGED kind
  BY DEF CallFunction, ReadList, Branch, Decide, OpenNode, stream
<1>5. MakeNode \/ Fail \/ Return => UNCHANGED kind
  BY DEF MakeNode, Fail, Return, stream
<1> QED
  BY <1>1, <1>2, <1>3, <1>4, <1>5 DEF Step

LEMMA NothingLeft ==
  ASSUME Step, status = "running", todo = <<>>, phase = kind, kind # "parse"
  PROVE  status' = "returned" /\ UNCHANGED <<stream, phase, todo, nodes>>
<1>1. Return
  BY DEF Step, Now, Read, Expect, CallFunction, ReadList, Branch, LookAhead, Decide, OpenNode,
         MakeNode, Fail, ParseAgain
<1> QED
  BY <1>1 DEF Return

LEMMA CreateNext ==
  ASSUME StreamInv, TokensAreStrings, CreateInv, [Next]_vars
  PROVE  CreateInv'
<1>1. CASE UNCHANGED vars \/ status # "running"
  <2>1. UNCHANGED vars
    <3>1. Step => status = "running"
      BY DEF Step, Now, Read, Expect, CallFunction, ReadList, Branch, LookAhead, Decide, OpenNode,
             MakeNode, Fail, ParseAgain, Return
    <3> QED
      BY <1>1, <3>1, SMTT(30) DEF Next, Ended
  <2>2. UNCHANGED <<kind, status, source, position, count, current, previous, phase, todo, nodes>>
    BY <2>1 DEF vars, stream
  <2>3. Forward' <=> Forward
    BY <2>2 DEF Forward
  <2>4. AtOpening' <=> AtOpening
    BY <2>2 DEF AtOpening
  <2>5. (Opened' <=> Opened) /\ (Failing' <=> Failing)
    BY <2>2 DEF Opened, Failing
  <2>6. AtColumn' <=> AtColumn
    BY <2>2 DEF AtColumn
  <2>7. (AtName' <=> AtName) /\ (AtRest' <=> AtRest)
    BY <2>2 DEF AtName, AtRest
  <2> QED
    BY <2>2, <2>3, <2>4, <2>5, <2>6, <2>7 DEF CreateInv
<1>2. CASE Step /\ status = "running" /\ kind = "create"
  <2>1. Forward
    BY <1>2 DEF CreateInv
  <2>2. CASE AtOpening
    BY <1>2, <2>1, <2>2, OpeningStep
  <2>3. CASE Opened /\ AtColumn /\ todo = <<>>
    <3>1. status' = "returned" /\ UNCHANGED <<stream, phase, todo, nodes>>
      BY <1>2, <2>1, <2>3, NothingLeft DEF Forward
    <3>2. UNCHANGED <<kind, source, current, nodes>> /\ current = Len(source)
      BY <2>1, <3>1 DEF stream, Forward
    <3>3. Listed(nodes, Starts(source, current - 1))
      BY <2>3 DEF AtColumn
    <3> QED
      BY <2>3, <3>1, <3>2, <3>3 DEF CreateInv, Opened
  <2>4. CASE Opened /\ AtColumn /\ todo # <<>>
    BY <1>2, <2>1, <2>4, ColumnStep
  <2>5. CASE Opened /\ AtName
    BY <1>2, <2>1, <2>5, NameStep
  <2>6. CASE Opened /\ AtRest
    BY <1>2, <2>1, <2>6, RestStep
  <2>7. CASE Failing
    BY <1>2, <2>7, FailingExits, CreateStays
  <2> QED
    BY <1>2, <2>2, <2>3, <2>4, <2>5, <2>6, <2>7 DEF CreateInv
<1>3. CASE Step /\ status = "running" /\ kind # "create"
  <2>1. UNCHANGED kind
    BY <1>3, KindKept
  <2> QED
    BY <1>3, <2>1 DEF CreateInv
<1> QED
  BY <1>1, <1>2, <1>3 DEF Next, Ended

-----------------------------------------------------------------------------
(***************************************************************************)
(* The columns of a CREATE INDEX (parse_create_index).                     *)
(***************************************************************************)
Plain(text, from, to) ==
  \A i \in from .. to : text[i] \notin {"LEFT_PAREN", "RIGHT_PAREN", "EOF"}

Identifiers(text, from, to) == {i \in from .. to : text[i] = "IDENTIFIER"}

\* The instructions left before the parenthesis; HeaderTaken, where a token is read first.
HeaderLeft ==
  {From(ParseCreateIndex, k) : k \in 1 .. 11} \cup
  {<<Require({"IDENTIFIER"})>> \o From(ParseCreateIndex, k) : k \in 1 .. 11}

HeaderTaken ==
  {<<Next1>> \o From(ParseCreateIndex, k) : k \in 1 .. 11} \cup
  {<<Next1, Require({"IDENTIFIER"})>> \o From(ParseCreateIndex, k) : k \in 1 .. 11}

\* Before the parenthesis.
AtHeader ==
  /\ nodes = <<>> /\ Plain(source, 1, current - 1)
  /\ \/ current = 0 /\ todo = <<Next1, Call("create_index")>>
     \/ current = 1 /\ todo = <<Call("create_index")>>
     \/ current # 0 /\ todo \in HeaderLeft
     \/ current # 0 /\ todo \in HeaderTaken /\ Plain(source, current, current)

AnotherColumn == At({"COMMA"}, <<Next1, Comma("indexed_column")>>, <<>>)

AfterColumn == <<AnotherColumn>> \o From(ParseCreateIndex, 13)

\* The statement has its parenthesis at q.
OpensAt(q) == q \in 1 .. current - 1 /\ source[q] = "LEFT_PAREN" /\ Plain(source, 1, q - 1)

\* Behind the parenthesis; the columns before are named.
AtIndexed(q) ==
  /\ OpensAt(q) /\ Plain(source, q + 1, current - 1)
  /\ Listed(nodes, Identifiers(source, q + 1, current - 1))
  /\ \/ todo \in {From(ParseCreateIndex, 12), From(ParseCreateIndex, 13),
                  <<Comma("indexed_column")>> \o From(ParseCreateIndex, 13),
                  <<Call("indexed_column"), AnotherColumn>> \o From(ParseCreateIndex, 13),
                  ParseIndexedColumn \o AfterColumn, AfterColumn}
     \/ /\ source[current] = "COMMA"
        /\ todo = <<Next1, Comma("indexed_column")>> \o From(ParseCreateIndex, 13)

\* Behind a column that is not named yet.
AtIdentifier(q) ==
  /\ OpensAt(q) /\ Plain(source, q + 1, current - 1) /\ q < current - 1
  /\ Listed(nodes, Identifiers(source, q + 1, current - 2))
  /\ previous = current - 1 /\ source[current - 1] = "IDENTIFIER"
  /\ todo = <<Make("column_name")>> \o AfterColumn

\* All is read.
Indexed(q) ==
  /\ OpensAt(q) /\ Plain(source, q + 1, current - 2) /\ q < current - 1
  /\ source[current - 1] = "RIGHT_PAREN"
  /\ Listed(nodes, Identifiers(source, q + 1, current - 1))

IndexInv ==
  kind = "create_index" =>
  /\ status = "running" =>
       /\ Forward
       /\ \/ AtHeader \/ Failing
          \/ \E q \in 1 .. current - 1 : AtIndexed(q) \/ AtIdentifier(q) \/ (Indexed(q) /\ todo = <<>>)
  /\ status = "returned" => current = Len(source) /\ \E q \in 1 .. current - 1 : Indexed(q)

LEMMA IndexProgram ==
  /\ Program(ParseCreateIndex) /\ Len(ParseCreateIndex) = 13
  /\ ParseCreateIndex[1] = Consume("CREATE") /\ ParseCreateIndex[2] = Match("UNIQUE", <<>>)
  /\ ParseCreateIndex[3] = Consume("INDEX") /\ ParseCreateIndex[4] = Match("IF", <<>>)
  /\ ParseCreateIndex[5] = Match("NOT", <<>>) /\ ParseCreateIndex[6] = Match("EXISTS", <<>>)
  /\ ParseCreateIndex[7] = Consume("IDENTIFIER")
  /\ ParseCreateIndex[8] = Match("DOT", <<Require({"IDENTIFIER"})>>)
  /\ ParseCreateIndex[9] = Consume("ON") /\ ParseCreateIndex[10] = Consume("IDENTIFIER")
  /\ ParseCreateIndex[11] = Consume("LEFT_PAREN")
  /\ ParseCreateIndex[12] = Comma("indexed_column")
  /\ ParseCreateIndex[13] = Consume("RIGHT_PAREN")
<1>1. ASSUME NEW a, NEW b, NEW c, NEW d, NEW e, NEW f, NEW g, NEW h, NEW i, NEW j, NEW k,
             NEW l, NEW m
      PROVE  LET p == <<a, b, c, d, e, f, g, h, i, j, k, l, m>>
             IN  /\ Program(p) /\ Len(p) = 13
                 /\ p[1] = a /\ p[2] = b /\ p[3] = c /\ p[4] = d /\ p[5] = e /\ p[6] = f
                 /\ p[7] = g /\ p[8] = h /\ p[9] = i /\ p[10] = j /\ p[11] = k /\ p[12] = l
                 /\ p[13] = m
  <2>1. <<a, b, c, d, e, f, g, h, i, j, k, l, m>> \in Seq({a, b, c, d, e, f, g, h, i, j, k, l, m})
    OBVIOUS
  <2> QED
    BY <2>1 DEF Program
<1> QED
  BY <1>1 DEF ParseCreateIndex

LEMMA IndexBegins ==
  ASSUME NEW k \in 1 .. 13
  PROVE  /\ Begins(From(ParseCreateIndex, k), ParseCreateIndex[k], From(ParseCreateIndex, k + 1))
         /\ Program(From(ParseCreateIndex, k)) /\ Program(From(ParseCreateIndex, k + 1))
<1>1. Program(ParseCreateIndex) /\ k \in 1 .. Len(ParseCreateIndex)
  BY IndexProgram
<1>2. Begins(From(ParseCreateIndex, k), ParseCreateIndex[k], From(ParseCreateIndex, k + 1))
  BY <1>1, BeginsFrom
<1>3. Program(From(ParseCreateIndex, k))
  <2>1. PICK S : ParseCreateIndex \in Seq(S)
    BY <1>1 DEF Program
  <2>2. From(ParseCreateIndex, k) \in Seq(S)
    BY <1>1, <2>1, FromNext
  <2> QED
    BY <2>2 DEF Program
<1> QED
  BY <1>2, <1>3 DEF Begins

LEMMA IndexEnds ==
  /\ From(ParseCreateIndex, 1) = ParseCreateIndex /\ ParseCreateIndex \o <<>> = ParseCreateIndex
  /\ From(ParseCreateIndex, 14) = <<>>
<1>1. Program(ParseCreateIndex) /\ Len(ParseCreateIndex) = 13
  BY IndexProgram
<1>2. PICK S : ParseCreateIndex \in Seq(S)
  BY <1>1 DEF Program
<1>3. From(ParseCreateIndex, Len(ParseCreateIndex) + 1) = <<>> /\ From(ParseCreateIndex, 1) = ParseCreateIndex
  BY <1>2, FromEnds
<1>4. Len(ParseCreateIndex) + 1 = 14
  BY <1>1
<1> QED
  BY <1>2, <1>3, <1>4, ConcatEmptySeq

LEMMA IndexRules ==
  Rules["create_index"] = ParseCreateIndex /\ Rules["indexed_column"] = ParseIndexedColumn
BY DEF Rules

LEMMA IndexStays ==
  \/ Exits
  \/ /\ status' = "running" /\ Forward'
     /\ \/ AtHeader' \/ Failing'
        \/ \E q \in 1 .. current' - 1 :
             AtIndexed(q)' \/ AtIdentifier(q)' \/ (Indexed(q)' /\ todo' = <<>>)
  => IndexInv'
BY DEF IndexInv, Exits, AtIndexed, AtIdentifier, Indexed, OpensAt

\* The text read so far is the beginning of a longer one.
LEMMA MovedTexts ==
  ASSUME StreamInv, Forward, Moved
  PROVE  /\ current' = current + 1 /\ current \in Nat /\ previous' = current
         /\ \A i \in 1 .. current : source'[i] = source[i]
         /\ \A a \in Nat \ {0}, b \in Int : b <= current =>
              /\ Plain(source', a, b) <=> Plain(source, a, b)
              /\ Identifiers(source', a, b) = Identifiers(source, a, b)
<1>1. /\ current \in Nat /\ current' = current + 1 /\ previous' = current
      /\ \A i \in 1 .. current : source'[i] = source[i]
  BY DEF StreamInv, StreamTypeOK, Forward, Moved
<1>2. ASSUME NEW a \in Nat \ {0}, NEW b \in Int, b <= current
      PROVE  /\ Plain(source', a, b) <=> Plain(source, a, b)
             /\ Identifiers(source', a, b) = Identifiers(source, a, b)
  <2>1. \A i \in a .. b : source'[i] = source[i]
    BY <1>1, <1>2
  <2> QED
    BY <2>1 DEF Plain, Identifiers
<1> QED
  BY <1>1, <1>2

\* An instruction before the parenthesis: a keyword, one that may be missing or a name.
LEMMA HeaderInstruction ==
  ASSUME NEW k \in 1 .. 10
  PROVE  \/ \E type \in {"CREATE", "INDEX", "IDENTIFIER", "ON"} :
              ParseCreateIndex[k] = Consume(type)
         \/ \E type \in {"UNIQUE", "IF", "NOT", "EXISTS", "DOT"},
               body \in {<<>>, <<Require({"IDENTIFIER"})>>} :
              ParseCreateIndex[k] = Match(type, body)
<1>1. k \in {1, 2, 3, 4, 5, 6, 7, 8, 9, 10}
  OBVIOUS
<1> QED
  BY <1>1, IndexProgram

\* A header stays one when it goes on with a token that is no parenthesis.
LEMMA HeaderKept ==
  ASSUME StreamInv, Forward, Moved, AtHeader, current # 0 => Plain(source, current, current)
  PROVE  Plain(source', 1, current' - 1) /\ current' # 0 /\ current' \in Nat
<1>1. current \in Nat /\ current' = current + 1 /\ \A i \in 1 .. current : source'[i] = source[i]
  BY MovedTexts
<1>2. Plain(source, 1, current - 1)
  BY DEF AtHeader
<1> QED
  BY <1>1, <1>2 DEF Plain

LEMMA HeaderStep ==
  ASSUME StreamInv, TokensAreStrings, Forward, Step, status = "running", kind = "create_index",
         AtHeader
  PROVE  IndexInv'
<1>1. current \in Nat /\ (current # 0 => Type(current) = source[current])
  BY DEF StreamInv, StreamTypeOK, Type
<1>2. nodes = <<>> /\ Plain(source, 1, current - 1)
  BY DEF AtHeader
<1>3. CASE current = 0 /\ todo = <<Next1, Call("create_index")>>
  <2>1. Begins(todo, Next1, <<Call("create_index")>>)
    <3>1. /\ <<Next1, Call("create_index")>> # <<>>
          /\ Head(<<Next1, Call("create_index")>>) = Next1
          /\ Tail(<<Next1, Call("create_index")>>) = <<Call("create_index")>>
      OBVIOUS
    <3>2. /\ <<Call("create_index")>> \in Seq({Call("create_index")})
          /\ <<>> \o <<Call("create_index")>> = <<Call("create_index")>>
      OBVIOUS
    <3> QED
      BY <1>3, <3>1, <3>2 DEF Begins, Program
  <2>2. Exits \/ (Goes(<<Call("create_index")>>) /\ Forward' /\ Moved /\ UNCHANGED nodes)
    BY <1>3, <2>1, ReadAt DEF Type
  <2>3. CASE Goes(<<Call("create_index")>>) /\ Forward' /\ Moved /\ UNCHANGED nodes
    <3>1. Plain(source', 1, current' - 1)
      BY <1>3, <2>3, HeaderKept
    <3>2. AtHeader'
      BY <1>2, <1>3, <2>3, <3>1 DEF AtHeader, Goes, Moved
    <3> QED
      BY <2>3, <3>2, IndexStays DEF Goes
  <2> QED
    BY <2>2, <2>3, IndexStays
<1>4. CASE current = 1 /\ todo = <<Call("create_index")>>
  <2>1. Goes(ParseCreateIndex \o <<>>) /\ UNCHANGED <<stream, nodes>>
    BY <1>4, NothingBefore, CallAt, IndexRules
  <2>2. ParseCreateIndex \o <<>> = From(ParseCreateIndex, 1)
    BY IndexEnds
  <2>3. /\ Forward' /\ status' = "running" /\ todo' = From(ParseCreateIndex, 1)
        /\ current' = 1 /\ source' = source /\ nodes' = <<>>
    BY <1>2, <1>4, <2>1, <2>2 DEF Goes, Forward, stream
  <2>4. AtHeader'
    BY <1>2, <1>4, <2>3 DEF AtHeader, HeaderLeft
  <2> QED
    BY <2>3, <2>4, IndexStays
<1>5. ASSUME current # 0, NEW k \in 1 .. 10, todo = From(ParseCreateIndex, k)
      PROVE  IndexInv'
  <2>1. /\ Begins(todo, ParseCreateIndex[k], From(ParseCreateIndex, k + 1)) /\ k + 1 \in 1 .. 11
        /\ Program(From(ParseCreateIndex, k + 1)) /\ From(ParseCreateIndex, k + 1) \in HeaderLeft
        /\ <<Next1>> \o From(ParseCreateIndex, k + 1) \in HeaderTaken
        /\ <<Next1, Require({"IDENTIFIER"})>> \o From(ParseCreateIndex, k + 1) \in HeaderTaken
    <3>1. k \in 1 .. 13 /\ k + 1 \in 1 .. 11
      BY SMTT(30)
    <3>2. /\ From(ParseCreateIndex, k + 1) \in HeaderLeft
          /\ <<Next1>> \o From(ParseCreateIndex, k + 1) \in HeaderTaken
          /\ <<Next1, Require({"IDENTIFIER"})>> \o From(ParseCreateIndex, k + 1) \in HeaderTaken
      BY <3>1 DEF HeaderLeft, HeaderTaken
    <3> QED
      BY <1>5, <3>1, <3>2, IndexBegins
  <2>2. CASE \E type \in {"CREATE", "INDEX", "IDENTIFIER", "ON"} : ParseCreateIndex[k] = Consume(type)
    <3>1. PICK type \in {"CREATE", "INDEX", "IDENTIFIER", "ON"} : ParseCreateIndex[k] = Consume(type)
      BY <2>2
    <3>2. \/ Exits
          \/ /\ Type(current) = type
             /\ Goes(From(ParseCreateIndex, k + 1)) /\ Forward' /\ Moved /\ UNCHANGED nodes
      BY <2>1, <3>1, ExpectAt
    <3>3. CASE /\ Type(current) = type
               /\ Goes(From(ParseCreateIndex, k + 1)) /\ Forward' /\ Moved /\ UNCHANGED nodes
      <4>1. Plain(source, current, current)
        BY <1>1, <1>5, <3>1, <3>3 DEF Plain
      <4>2. Plain(source', 1, current' - 1) /\ current' # 0
        BY <3>3, <4>1, HeaderKept
      <4>3. AtHeader'
        BY <1>2, <2>1, <3>3, <4>2 DEF AtHeader, Goes
      <4> QED
        BY <3>3, <4>3, IndexStays DEF Goes
    <3> QED
      BY <3>2, <3>3, IndexStays
  <2>3. CASE \E type \in {"UNIQUE", "IF", "NOT", "EXISTS", "DOT"},
                body \in {<<>>, <<Require({"IDENTIFIER"})>>} : ParseCreateIndex[k] = Match(type, body)
    <3>1. PICK type \in {"UNIQUE", "IF", "NOT", "EXISTS", "DOT"},
               body \in {<<>>, <<Require({"IDENTIFIER"})>>} : ParseCreateIndex[k] = Match(type, body)
      BY <2>3
    <3> DEFINE rest == From(ParseCreateIndex, k + 1)
               chosen == (IF Type(current) \in {type} THEN <<Next1>> \o body ELSE <<>>) \o rest
    <3>2. Begins(todo, At({type}, <<Next1>> \o body, <<>>), rest)
      BY <2>1, <3>1 DEF Match
    <3>3. Goes(chosen) /\ UNCHANGED <<stream, nodes>>
      BY <3>2, BranchAt
    <3>4. CASE source[current] = type
      <4> DEFINE both == <<Next1>> \o body
      <4>1. chosen = both \o rest
        <5>1. Type(current) \in {type}
          BY <1>1, <1>5, <3>4
        <5> HIDE DEF rest
        <5> QED
          BY <5>1, Zenon
      <4>2. <<Next1>> \o <<>> = <<Next1>>
        OBVIOUS
      <4>3. <<Next1>> \o <<Require({"IDENTIFIER"})>> = <<Next1, Require({"IDENTIFIER"})>>
        BY PairJoined
      <4>4. \/ chosen = <<Next1>> \o rest \/ chosen = <<Next1, Require({"IDENTIFIER"})>> \o rest
        <5>1. both = <<Next1>> \/ both = <<Next1, Require({"IDENTIFIER"})>>
          BY <3>1, <4>2, <4>3
        <5> HIDE DEF chosen, both, rest
        <5> QED
          BY <4>1, <5>1
      <4>5. Plain(source, current, current)
        BY <1>1, <3>1, <3>4 DEF Plain
      <4> HIDE DEF chosen
      <4>6. /\ Forward' /\ status' = "running" /\ todo' = chosen
            /\ UNCHANGED <<source, current, nodes>>
        BY <3>3 DEF Goes, Forward, stream
      <4>7. AtHeader'
        BY <1>2, <1>5, <2>1, <4>4, <4>5, <4>6 DEF AtHeader
      <4> QED
        BY <4>6, <4>7, IndexStays
    <3>5. CASE source[current] # type
      <4>1. <<>> \o rest = rest
        BY <2>1, BeginsOne
      <4>2. chosen = rest
        <5> DEFINE both == <<Next1>> \o body
        <5> HIDE DEF rest, both
        <5> QED
          BY <1>1, <1>5, <3>5, <4>1 DEF both
      <4> HIDE DEF chosen
      <4>3. /\ Forward' /\ status' = "running" /\ todo' = rest
            /\ UNCHANGED <<source, current, nodes>>
        BY <3>3, <4>2 DEF Goes, Forward, stream
      <4>4. AtHeader'
        BY <1>2, <1>5, <2>1, <4>3 DEF AtHeader
      <4> QED
        BY <4>3, <4>4, IndexStays
    <3> QED
      BY <3>4, <3>5
  <2> QED
    BY <2>2, <2>3, HeaderInstruction
<1>6. CASE current # 0 /\ todo = From(ParseCreateIndex, 11)
  <2>1. Begins(todo, Consume("LEFT_PAREN"), From(ParseCreateIndex, 12))
    <3>1. Begins(From(ParseCreateIndex, 11), ParseCreateIndex[11], From(ParseCreateIndex, 12))
      BY IndexBegins
    <3> QED
      BY <1>6, <3>1, IndexProgram
  <2>2. \/ Exits
        \/ /\ Type(current) = "LEFT_PAREN"
           /\ Goes(From(ParseCreateIndex, 12)) /\ Forward' /\ Moved /\ UNCHANGED nodes
    BY <2>1, ExpectAt
  <2>3. CASE /\ Type(current) = "LEFT_PAREN"
             /\ Goes(From(ParseCreateIndex, 12)) /\ Forward' /\ Moved /\ UNCHANGED nodes
    <3>1. /\ current' = current + 1 /\ source'[current] = "LEFT_PAREN" /\ current \in 1 .. current' - 1
          /\ Plain(source', 1, current - 1)
      BY <1>1, <1>2, <1>6, <2>3, MovedTexts
    <3>2. Plain(source', current + 1, current' - 1) /\ Identifiers(source', current + 1, current' - 1) = {}
      BY <1>1, <3>1 DEF Plain, Identifiers
    <3>3. Listed(nodes', Identifiers(source', current + 1, current' - 1))
      BY <1>2, <2>3, <3>2, ListedNone
    <3>4. todo' = From(ParseCreateIndex, 12)
      BY <2>3 DEF Goes
    <3>5. ASSUME NEW q, q = current
          PROVE  AtIndexed(q)'
      BY <3>1, <3>2, <3>3, <3>4, <3>5 DEF AtIndexed, OpensAt
    <3> QED
      BY <2>3, <3>1, <3>5, IndexStays DEF Goes
  <2> QED
    BY <2>2, <2>3, IndexStays
<1>7. ASSUME current # 0, NEW k \in 1 .. 11, Plain(source, current, current),
             \/ todo = <<Next1>> \o From(ParseCreateIndex, k)
             \/ todo = <<Next1, Require({"IDENTIFIER"})>> \o From(ParseCreateIndex, k)
      PROVE  IndexInv'
  <2>1. PICK rest \in HeaderLeft : Begins(todo, Next1, rest)
    <3>1. Program(From(ParseCreateIndex, k))
      BY IndexBegins
    <3>2. /\ From(ParseCreateIndex, k) \in HeaderLeft
          /\ <<Require({"IDENTIFIER"})>> \o From(ParseCreateIndex, k) \in HeaderLeft
      BY DEF HeaderLeft
    <3>3. CASE todo = <<Next1>> \o From(ParseCreateIndex, k)
      BY <3>1, <3>2, <3>3, BeginsOne
    <3>4. CASE todo = <<Next1, Require({"IDENTIFIER"})>> \o From(ParseCreateIndex, k)
      <4> DEFINE rest == <<Require({"IDENTIFIER"})>> \o From(ParseCreateIndex, k)
      <4>1. Begins(todo, Next1, rest)
        BY <3>1, <3>4, BeginsTwo
      <4> QED
        BY <3>2, <4>1
    <3> QED
      BY <1>7, <3>3, <3>4
  <2>2. Type(current) # "EOF"
    BY <1>1, <1>7 DEF Plain
  <2>3. Exits \/ (Goes(rest) /\ Forward' /\ Moved /\ UNCHANGED nodes)
    BY <2>1, <2>2, ReadAt
  <2>4. CASE Goes(rest) /\ Forward' /\ Moved /\ UNCHANGED nodes
    <3>1. Plain(source', 1, current' - 1) /\ current' # 0
      BY <1>7, <2>4, HeaderKept
    <3>2. AtHeader'
      BY <1>2, <2>1, <2>4, <3>1 DEF AtHeader, Goes
    <3> QED
      BY <2>4, <3>2, IndexStays DEF Goes
  <2> QED
    BY <2>3, <2>4, IndexStays
<1>8. ASSUME current # 0, NEW k \in 1 .. 11,
             todo = <<Require({"IDENTIFIER"})>> \o From(ParseCreateIndex, k)
      PROVE  IndexInv'
  <2>1. Program(From(ParseCreateIndex, k)) /\ <<>> \o From(ParseCreateIndex, k) = From(ParseCreateIndex, k)
    <3>1. Program(From(ParseCreateIndex, k))
      BY IndexBegins
    <3> QED
      BY <3>1, BeginsOne
  <2>2. Begins(todo, At({"IDENTIFIER"}, <<>>, <<Error>>), From(ParseCreateIndex, k))
    BY <1>8, <2>1, BeginsOne DEF Require
  <2>3. /\ status' = "running" /\ Forward' /\ UNCHANGED <<stream, nodes>>
        /\ todo' = <<>> \o From(ParseCreateIndex, k) \/ Failing'
    BY <2>2, ChoiceAt
  <2>4. CASE todo' = From(ParseCreateIndex, k)
    <3>1. todo' \in HeaderLeft
      BY <2>4 DEF HeaderLeft
    <3>2. AtHeader'
      BY <1>2, <1>8, <2>3, <3>1 DEF AtHeader, stream
    <3> QED
      BY <2>3, <3>2, IndexStays
  <2> QED
    BY <2>1, <2>3, <2>4, IndexStays
<1> QED
  <2>1. \A k \in 1 .. 11 : k \in 1 .. 10 \/ k = 11
    OBVIOUS
  <2>2. todo \in HeaderLeft /\ current # 0 => IndexInv'
    BY <1>5, <1>6, <1>8, <2>1 DEF HeaderLeft
  <2>3. todo \in HeaderTaken /\ current # 0 /\ Plain(source, current, current) => IndexInv'
    BY <1>7 DEF HeaderTaken
  <2> QED
    BY <1>3, <1>4, <2>2, <2>3 DEF AtHeader

LEMMA AfterColumnFacts ==
  /\ Program(From(ParseCreateIndex, 13)) /\ Program(AfterColumn)
  /\ Begins(AfterColumn, AnotherColumn, From(ParseCreateIndex, 13))
  /\ Begins(From(ParseCreateIndex, 12), Comma("indexed_column"), From(ParseCreateIndex, 13))
  /\ Begins(From(ParseCreateIndex, 13), Consume("RIGHT_PAREN"), <<>>)
<1>1. /\ Begins(From(ParseCreateIndex, 12), ParseCreateIndex[12], From(ParseCreateIndex, 13))
      /\ Begins(From(ParseCreateIndex, 13), ParseCreateIndex[13], From(ParseCreateIndex, 14))
      /\ Program(From(ParseCreateIndex, 13))
  BY IndexBegins
<1>2. Program(AfterColumn) /\ Begins(AfterColumn, AnotherColumn, From(ParseCreateIndex, 13))
  BY <1>1, BeginsOne DEF AfterColumn
<1> QED
  BY <1>1, <1>2, IndexProgram, IndexEnds

\* The step of a list without a column to name.
LEMMA IndexedStep ==
  ASSUME StreamInv, TokensAreStrings, Forward, Step, status = "running", kind = "create_index",
         NEW q, AtIndexed(q)
  PROVE  IndexInv'
<1> DEFINE rest == From(ParseCreateIndex, 13)
           another == <<Next1, Comma("indexed_column")>>
<1>1. /\ current \in Nat /\ Type(current) = source[current] /\ q \in 1 .. current - 1
      /\ OpensAt(q) /\ Plain(source, q + 1, current - 1)
      /\ Listed(nodes, Identifiers(source, q + 1, current - 1))
  BY DEF StreamInv, StreamTypeOK, Type, AtIndexed, OpensAt
<1>2. ASSUME Forward', status' = "running", UNCHANGED <<source, current, nodes>>,
             \/ todo' \in {<<Call("indexed_column"), AnotherColumn>> \o rest,
                           ParseIndexedColumn \o AfterColumn, rest}
             \/ source[current] = "COMMA" /\ todo' = another \o rest
      PROVE  IndexInv'
  <2>1. AtIndexed(q)'
    BY <1>1, <1>2 DEF AtIndexed, OpensAt
  <2> QED
    BY <1>1, <1>2, <2>1, IndexStays
<1>3. ASSUME Moved
      PROVE  /\ OpensAt(q)' /\ q \in 1 .. current' - 1 /\ q < current' - 1
             /\ current' = current + 1 /\ previous' = current
             /\ source'[current] = source[current]
             /\ Plain(source', q + 1, current - 1)
             /\ Identifiers(source', q + 1, current - 1) = Identifiers(source, q + 1, current - 1)
  <2>1. /\ current' = current + 1 /\ previous' = current
        /\ \A i \in 1 .. current : source'[i] = source[i]
    BY <1>3, MovedTexts
  <2>2. /\ Plain(source', 1, q - 1) <=> Plain(source, 1, q - 1)
        /\ Plain(source', q + 1, current - 1) <=> Plain(source, q + 1, current - 1)
        /\ Identifiers(source', q + 1, current - 1) = Identifiers(source, q + 1, current - 1)
    <3>1. /\ 1 \in Nat \ {0} /\ q - 1 \in Int /\ q - 1 <= current
          /\ q + 1 \in Nat \ {0} /\ current - 1 \in Int /\ current - 1 <= current
      BY <1>1
    <3> QED
      BY <1>3, <3>1, MovedTexts
  <2>3. OpensAt(q)'
    BY <1>1, <2>1, <2>2 DEF OpensAt
  <2> QED
    BY <1>1, <2>1, <2>2, <2>3
<1>4. CASE todo \in {From(ParseCreateIndex, 12), <<Comma("indexed_column")>> \o rest}
  <2>1. Begins(todo, Comma("indexed_column"), rest)
    <3>1. Begins(<<Comma("indexed_column")>> \o rest, Comma("indexed_column"), rest)
      BY AfterColumnFacts, BeginsOne
    <3> QED
      BY <1>4, <3>1, AfterColumnFacts
  <2>2. Goes(<<Call("indexed_column"), AnotherColumn>> \o rest) /\ UNCHANGED <<stream, nodes>>
    BY <2>1, ListAt DEF AnotherColumn
  <2>3. /\ Forward' /\ status' = "running" /\ UNCHANGED <<source, current, nodes>>
        /\ todo' = <<Call("indexed_column"), AnotherColumn>> \o rest
    BY <2>2, StillForward
  <2> QED
    BY <1>2, <2>3
<1>5. CASE todo = <<Call("indexed_column"), AnotherColumn>> \o rest
  <2>1. Begins(todo, Call("indexed_column"), AfterColumn)
    BY <1>5, AfterColumnFacts, BeginsTwo DEF AfterColumn
  <2>2. Goes(ParseIndexedColumn \o AfterColumn) /\ UNCHANGED <<stream, nodes>>
    BY <2>1, CallAt, IndexRules
  <2>3. /\ Forward' /\ status' = "running" /\ UNCHANGED <<source, current, nodes>>
        /\ todo' = ParseIndexedColumn \o AfterColumn
    BY <2>2, StillForward
  <2> QED
    BY <1>2, <2>3
<1>6. CASE todo = ParseIndexedColumn \o AfterColumn
  <2> DEFINE named == <<Make("column_name")>> \o AfterColumn
  <2>1. Begins(todo, Consume("IDENTIFIER"), named)
    BY <1>6, AfterColumnFacts, BeginsTwo DEF ParseIndexedColumn
  <2>2. Exits \/ (Type(current) = "IDENTIFIER" /\ Goes(named) /\ Forward' /\ Moved /\ UNCHANGED nodes)
    BY <2>1, ExpectAt
  <2>3. CASE Type(current) = "IDENTIFIER" /\ Goes(named) /\ Forward' /\ Moved /\ UNCHANGED nodes
    <3>1. current' - 1 = current /\ current' - 2 = current - 1
      BY <1>1, <1>3, <2>3
    <3>2. Plain(source', q + 1, current)
      BY <1>1, <1>3, <2>3 DEF Plain
    <3>3. AtIdentifier(q)'
      BY <1>1, <1>3, <2>3, <3>1, <3>2 DEF AtIdentifier, Goes
    <3> QED
      BY <1>3, <2>3, <3>3, IndexStays DEF Goes
  <2> QED
    BY <2>2, <2>3, IndexStays
<1>7. CASE todo = AfterColumn
  <2> DEFINE chosen == (IF Type(current) \in {"COMMA"} THEN another ELSE <<>>) \o rest
  <2>1. Begins(todo, At({"COMMA"}, another, <<>>), rest)
    BY <1>7, AfterColumnFacts DEF AnotherColumn
  <2>2. Goes(chosen) /\ UNCHANGED <<stream, nodes>>
    BY <2>1, BranchAt
  <2>3. chosen = IF source[current] = "COMMA" THEN another \o rest ELSE rest
    <3>1. <<>> \o rest = rest
      BY AfterColumnFacts, BeginsOne
    <3> QED
      BY <1>1, <3>1
  <2> HIDE DEF chosen
  <2>4. /\ Forward' /\ status' = "running" /\ todo' = chosen
        /\ UNCHANGED <<source, current, nodes>>
    BY <2>2 DEF Goes, Forward, stream
  <2> QED
    BY <1>2, <2>3, <2>4
<1>8. CASE source[current] = "COMMA" /\ todo = another \o rest
  <2> DEFINE next == <<Comma("indexed_column")>> \o rest
  <2>1. Begins(todo, Next1, next)
    BY <1>8, AfterColumnFacts, BeginsTwo
  <2>2. Exits \/ (Goes(next) /\ Forward' /\ Moved /\ UNCHANGED nodes)
    BY <1>1, <1>8, <2>1, ReadAt
  <2>3. CASE Goes(next) /\ Forward' /\ Moved /\ UNCHANGED nodes
    <3>1. current' - 1 = current
      BY <1>1, <1>3, <2>3
    <3>2. Plain(source', q + 1, current)
      BY <1>1, <1>3, <1>8, <2>3 DEF Plain
    <3>3. Identifiers(source', q + 1, current) = Identifiers(source, q + 1, current - 1)
      <4>1. Identifiers(source', q + 1, current) = Identifiers(source', q + 1, current - 1)
        BY <1>1, <1>3, <1>8, <2>3 DEF Identifiers
      <4> QED
        BY <1>3, <2>3, <4>1
    <3>4. AtIndexed(q)'
      BY <1>1, <1>3, <2>3, <3>1, <3>2, <3>3 DEF AtIndexed, Goes
    <3> QED
      BY <1>3, <2>3, <3>4, IndexStays DEF Goes
  <2> QED
    BY <2>2, <2>3, IndexStays
<1>9. CASE todo = rest
  <2>1. \/ Exits
        \/ Type(current) = "RIGHT_PAREN" /\ Goes(<<>>) /\ Forward' /\ Moved /\ UNCHANGED nodes
    BY <1>9, AfterColumnFacts, ExpectAt
  <2>2. CASE Type(current) = "RIGHT_PAREN" /\ Goes(<<>>) /\ Forward' /\ Moved /\ UNCHANGED nodes
    <3>1. current' - 1 = current /\ current' - 2 = current - 1
      BY <1>1, <1>3, <2>2
    <3>2. Identifiers(source', q + 1, current) = Identifiers(source, q + 1, current - 1)
      <4>1. Identifiers(source', q + 1, current) = Identifiers(source', q + 1, current - 1)
        BY <1>1, <1>3, <2>2 DEF Identifiers
      <4> QED
        BY <1>3, <2>2, <4>1
    <3>3. Indexed(q)' /\ todo' = <<>>
      BY <1>1, <1>3, <2>2, <3>1, <3>2 DEF Indexed, Goes
    <3> QED
      BY <1>3, <2>2, <3>3, IndexStays DEF Goes
  <2> QED
    BY <2>1, <2>2, IndexStays
<1> QED
  BY <1>4, <1>5, <1>6, <1>7, <1>8, <1>9 DEF AtIndexed

\* A column is named.
LEMMA IdentifierStep ==
  ASSUME StreamInv, TokensAreStrings, Forward, Step, status = "running", kind = "create_index",
         NEW q, AtIdentifier(q)
  PROVE  IndexInv'
<1>1. /\ current \in Nat /\ q \in 1 .. current - 1 /\ q < current - 1
      /\ OpensAt(q) /\ Plain(source, q + 1, current - 1)
      /\ Listed(nodes, Identifiers(source, q + 1, current - 2))
      /\ previous = current - 1 /\ source[current - 1] = "IDENTIFIER"
      /\ todo = <<Make("column_name")>> \o AfterColumn
  BY DEF StreamInv, StreamTypeOK, AtIdentifier, OpensAt
<1>2. Begins(todo, Make("column_name"), AfterColumn)
  BY <1>1, AfterColumnFacts, BeginsOne
<1>3. /\ Goes(AfterColumn) /\ UNCHANGED stream
      /\ nodes' = Append(nodes, [node |-> "column_name", from |-> previous, to |-> previous])
  BY <1>2, MakeAt
<1>4. Identifiers(source, q + 1, current - 1) = Identifiers(source, q + 1, current - 2) \cup {current - 1}
  <2>0. current \in Nat /\ q \in 1 .. current - 1 /\ q < current - 1
    BY <1>1
  <2>1. \A i : i \in q + 1 .. current - 1 <=> i \in q + 1 .. current - 2 \/ i = current - 1
    BY <2>0
  <2> QED
    BY <1>1, <2>1 DEF Identifiers
<1>5. Listed(nodes', Identifiers(source, q + 1, current - 1))
  <2>1. current - 1 \in Nat /\ \A p \in Identifiers(source, q + 1, current - 2) : p < current - 1
    BY <1>1 DEF Identifiers
  <2>2. Listed(Append(nodes, [node |-> "column_name", from |-> current - 1, to |-> current - 1]),
               Identifiers(source, q + 1, current - 2) \cup {current - 1})
    BY <1>1, <2>1, ListedNext
  <2> QED
    BY <1>1, <1>3, <1>4, <2>2
<1>6. /\ Forward' /\ status' = "running" /\ todo' = AfterColumn /\ UNCHANGED <<source, current>>
  BY <1>3, StillForward
<1>7. AtIndexed(q)'
  BY <1>1, <1>5, <1>6 DEF AtIndexed, OpensAt
<1> QED
  BY <1>1, <1>6, <1>7, IndexStays

LEMMA IndexNext ==
  ASSUME StreamInv, TokensAreStrings, IndexInv, [Next]_vars
  PROVE  IndexInv'
<1>1. CASE UNCHANGED vars \/ status # "running"
  <2>1. UNCHANGED vars
    <3>1. Step => status = "running"
      BY DEF Step, Now, Read, Expect, CallFunction, ReadList, Branch, LookAhead, Decide, OpenNode,
             MakeNode, Fail, ParseAgain, Return
    <3> QED
      BY <1>1, <3>1 DEF Next, Ended
  <2>2. UNCHANGED <<kind, status, source, position, count, current, previous, phase, todo, nodes>>
    BY <2>1 DEF vars, stream
  <2>3. (Forward' <=> Forward) /\ (Failing' <=> Failing)
    BY <2>2 DEF Forward, Failing
  <2>4. AtHeader' <=> AtHeader
    BY <2>2 DEF AtHeader
  <2>5. ASSUME NEW q
        PROVE  /\ AtIndexed(q)' <=> AtIndexed(q)
               /\ AtIdentifier(q)' <=> AtIdentifier(q)
               /\ Indexed(q)' <=> Indexed(q)
    BY <2>2 DEF AtIndexed, AtIdentifier, Indexed, OpensAt
  <2>6. CASE status = "running" /\ kind = "create_index"
    <3>1. /\ status' = "running" /\ Forward'
          /\ \/ AtHeader' \/ Failing'
             \/ \E q \in 1 .. current' - 1 :
                  AtIndexed(q)' \/ AtIdentifier(q)' \/ (Indexed(q)' /\ todo' = <<>>)
      BY <2>2, <2>3, <2>4, <2>5, <2>6 DEF IndexInv
    <3> QED
      BY <3>1, IndexStays
  <2>7. CASE status = "returned" /\ kind = "create_index"
    <3>1. /\ status' = "returned" /\ current' = Len(source')
          /\ \E q \in 1 .. current' - 1 : Indexed(q)'
      BY <2>2, <2>5, <2>7 DEF IndexInv
    <3> QED
      BY <3>1 DEF IndexInv, Indexed, OpensAt
  <2>8. CASE status \notin {"running", "returned"} \/ kind # "create_index"
    BY <2>2, <2>8 DEF IndexInv
  <2> QED
    BY <2>6, <2>7, <2>8
<1>2. CASE Step /\ status = "running" /\ kind = "create_index"
  <2>1. Forward
    BY <1>2 DEF IndexInv
  <2>2. CASE AtHeader
    BY <1>2, <2>1, <2>2, HeaderStep
  <2>3. CASE \E q \in 1 .. current - 1 : AtIndexed(q)
    BY <1>2, <2>1, <2>3, IndexedStep
  <2>4. CASE \E q \in 1 .. current - 1 : AtIdentifier(q)
    BY <1>2, <2>1, <2>4, IdentifierStep
  <2>5. CASE todo = <<>> /\ \E q \in 1 .. current - 1 : Indexed(q)
    <3>1. status' = "returned" /\ UNCHANGED <<stream, phase, todo, nodes>>
      BY <1>2, <2>1, <2>5, NothingLeft DEF Forward
    <3>2. UNCHANGED <<kind, source, current, nodes>> /\ current = Len(source)
      BY <2>1, <3>1 DEF stream, Forward
    <3>3. \E q \in 1 .. current' - 1 : Indexed(q)'
      BY <2>5, <3>2 DEF Indexed, OpensAt
    <3> QED
      BY <3>1, <3>2, <3>3 DEF IndexInv, Indexed, OpensAt
  <2>6. CASE Failing
    BY <1>2, <2>6, FailingExits, IndexStays
  <2> QED
    BY <1>2, <2>2, <2>3, <2>4, <2>5, <2>6 DEF IndexInv
<1>3. CASE Step /\ status = "running" /\ kind # "create_index"
  <2>1. UNCHANGED kind
    BY <1>3, KindKept
  <2> QED
    BY <1>3, <2>1 DEF IndexInv
<1> QED
  BY <1>1, <1>2, <1>3 DEF Next, Ended

LEMMA ColumnsInit == Init => CreateInv /\ IndexInv
<1> SUFFICES ASSUME Init PROVE CreateInv /\ IndexInv
  OBVIOUS
<1>1. /\ current = 0 /\ position = 0 /\ count = 0 /\ source = <<>> /\ phase = kind /\ nodes = <<>>
      /\ status = "running" /\ todo = <<Next1, Call(kind)>>
  BY DEF Init, StreamInit
<1>2. Forward
  BY <1>1 DEF Forward
<1>3. kind = "create" => AtOpening
  BY <1>1 DEF AtOpening
<1>4. kind = "create_index" => AtHeader
  BY <1>1 DEF AtHeader, Plain
<1> QED
  BY <1>1, <1>2, <1>3, <1>4 DEF CreateInv, IndexInv

-----------------------------------------------------------------------------
(***************************************************************************)
(* The columns of the tree are the columns of the text.                    *)
(***************************************************************************)
\* How many tokens of a type there are up to a place: none, or only the one at q.
Many(text, type, n) == Cardinality({j \in 1 .. n : text[j] = type})

LEMMA ParensCounted ==
  ASSUME NEW i
  PROVE  Opens(i) = Many(source, "LEFT_PAREN", i) /\ Closes(i) = Many(source, "RIGHT_PAREN", i)
BY DEF Opens, Closes, Many

LEMMA CountNone ==
  ASSUME NEW text, NEW type, NEW n \in Nat, \A j \in 1 .. n : text[j] # type
  PROVE  Many(text, type, n) = 0
<1>1. {j \in 1 .. n : text[j] = type} = {}
  OBVIOUS
<1> QED
  BY <1>1, FS_EmptySet DEF Many

LEMMA CountOne ==
  ASSUME NEW text, NEW type, NEW n \in Nat, NEW q \in 1 .. n, text[q] = type
  PROVE  Many(text, type, n) = 1
           <=> \A j \in 1 .. n : text[j] = type => j = q
<1> DEFINE S == {j \in 1 .. n : text[j] = type}
<1>1. IsFiniteSet(S)
  <2>1. IsFiniteSet(1 .. n)
    BY FS_Interval
  <2>2. S \subseteq 1 .. n
    OBVIOUS
  <2> QED
    BY <2>1, <2>2, FS_Subset
<1>2. q \in S
  OBVIOUS
<1>3. Cardinality(S) = 1 <=> \E x : S = {x}
  BY <1>1, FS_Singleton
<1>4. (\A j \in 1 .. n : text[j] = type => j = q) <=> S = {q}
  OBVIOUS
<1> HIDE DEF S
<1>5. (\E x : S = {x}) <=> S = {q}
  BY <1>2
<1> QED
  BY <1>3, <1>4, <1>5 DEF S, Many

LEMMA CreateNames ==
  ASSUME TokensAreStrings, StreamInv, CreateInv, status = "returned", kind = "create",
         \A i \in 1 .. Len(source) : source[i] = "COMMA" => Depth(i) = 1
  PROVE  Names(nodes, Declared)
<1> DEFINE n == Len(source)
<1>1. /\ current = n /\ n \in Nat /\ current >= 5
      /\ source[1] \notin {"LEFT_PAREN", "COMMA"} /\ source[2] \notin {"LEFT_PAREN", "COMMA"}
      /\ source[3] \notin {"LEFT_PAREN", "COMMA"} /\ source[4] = "LEFT_PAREN"
      /\ Listed(nodes, Starts(source, current - 1))
  <2>1. /\ source[1] \in Opening[1] /\ source[2] \in Opening[2]
        /\ source[3] \in Opening[3] /\ source[4] \in Opening[4]
    BY DEF CreateInv, Opened
  <2>2. /\ source[1] \notin {"LEFT_PAREN", "COMMA"} /\ source[2] \notin {"LEFT_PAREN", "COMMA"}
        /\ source[3] \notin {"LEFT_PAREN", "COMMA"} /\ source[4] = "LEFT_PAREN"
    BY <2>1 DEF Opening
  <2> QED
    BY <2>2 DEF CreateInv, Opened, StreamInv, StreamTypeOK
<1> HIDE DEF n
<1>2. ASSUME NEW m \in 4 .. n
      PROVE  Opens(m) = 1 <=> \A j \in 1 .. m : source[j] = "LEFT_PAREN" => j = 4
  <2>1. m \in Nat /\ 4 \in 1 .. m
    BY <1>1
  <2> QED
    BY <1>1, <2>1, CountOne, ParensCounted
<1>3. Starts(source, n - 1) \subseteq Declared
  <2> SUFFICES ASSUME NEW i \in Starts(source, n - 1) PROVE i \in Declared
    OBVIOUS
  <2>1. i \in 5 .. n - 1 /\ (i = 5 \/ source[i - 1] = "COMMA")
    BY DEF Starts
  <2>2. CASE i = 5
    <3>1. \A j \in 1 .. 4 : source[j] = "LEFT_PAREN" => j = 4
      <4>1. \A j \in 1 .. 4 : j = 1 \/ j = 2 \/ j = 3 \/ j = 4
        OBVIOUS
      <4> QED
        BY <1>1, <4>1
    <3>2. Opens(4) = 1
      BY <1>1, <1>2, <3>1
    <3> QED
      BY <1>1, <2>1, <2>2, <3>2 DEF Declared, n
  <2>3. CASE source[i - 1] = "COMMA"
    <3>1. i - 1 \in 1 .. Len(source)
      BY <1>1, <2>1 DEF n
    <3>2. Depth(i - 1) = 1
      BY <2>3, <3>1
    <3> QED
      BY <1>1, <2>1, <2>3, <3>2 DEF Declared, n
  <2> QED
    BY <2>1, <2>2, <2>3
<1>4. Declared \subseteq Starts(source, n - 1)
  <2> SUFFICES ASSUME NEW i \in Declared PROVE i \in Starts(source, n - 1)
    OBVIOUS
  <2>1. /\ i \in 2 .. n - 1
        /\ \/ source[i - 1] = "LEFT_PAREN" /\ Opens(i - 1) = 1
           \/ source[i - 1] = "COMMA"
    BY DEF Declared, n
  <2>2. i - 1 = 1 \/ i - 1 = 2 \/ i - 1 = 3 \/ i - 1 >= 4
    BY <1>1, <2>1
  <2>3. i - 1 >= 4
    BY <1>1, <2>1, <2>2
  <2>4. CASE source[i - 1] = "LEFT_PAREN" /\ Opens(i - 1) = 1
    <3>1. i - 1 \in 4 .. n /\ i - 1 \in 1 .. i - 1
      BY <1>1, <2>1, <2>3
    <3>2. i - 1 = 4
      BY <1>2, <2>4, <3>1
    <3> QED
      BY <1>1, <2>1, <3>2 DEF Starts
  <2>5. CASE source[i - 1] = "COMMA"
    <3>1. i - 1 # 4
      BY <1>1, <2>5
    <3>2. i \in 5 .. n - 1
      BY <1>1, <2>1, <2>3
    <3> QED
      BY <2>5, <3>2 DEF Starts
  <2> QED
    BY <2>1, <2>4, <2>5
<1>5. Starts(source, current - 1) = Declared
  BY <1>1, <1>3, <1>4
<1> QED
  BY <1>1, <1>5, ListedNames

LEMMA IndexNames ==
  ASSUME StreamInv, IndexInv, status = "returned", kind = "create_index"
  PROVE  Names(nodes, {i \in 1 .. Len(source) : source[i] = "IDENTIFIER" /\ Depth(i) = 1})
<1> DEFINE n == Len(source)
<1>1. PICK q \in 1 .. current - 1 : Indexed(q)
  BY DEF IndexInv
<1>2. current = n /\ n \in Nat
  BY DEF IndexInv, StreamInv, StreamTypeOK
<1> HIDE DEF n
<1>3. /\ q \in 1 .. n - 2 /\ source[q] = "LEFT_PAREN" /\ source[n - 1] = "RIGHT_PAREN"
      /\ \A i \in 1 .. q - 1 : source[i] \notin {"LEFT_PAREN", "RIGHT_PAREN"}
      /\ \A i \in q + 1 .. n - 2 : source[i] \notin {"LEFT_PAREN", "RIGHT_PAREN"}
      /\ Listed(nodes, Identifiers(source, q + 1, n - 1))
  BY <1>1, <1>2 DEF Indexed, OpensAt, Plain
<1>4. ASSUME NEW i \in 1 .. q - 1
      PROVE  Depth(i) = 0
  <2>1. i \in Nat /\ \A j \in 1 .. i : source[j] # "LEFT_PAREN" /\ source[j] # "RIGHT_PAREN"
    BY <1>2, <1>3
  <2>2. Opens(i) = 0 /\ Closes(i) = 0
    BY <2>1, CountNone, ParensCounted
  <2> QED
    BY <2>2 DEF Depth
<1>5. ASSUME NEW i \in q + 1 .. n - 2
      PROVE  Depth(i) = 1
  <2>1. /\ i \in Nat /\ q \in 1 .. i
        /\ \A j \in 1 .. i : (source[j] = "LEFT_PAREN" => j = q) /\ source[j] # "RIGHT_PAREN"
    <3>1. i \in Nat /\ q \in 1 .. i
      BY <1>2, <1>3
    <3>2. \A j \in 1 .. i : j \in 1 .. q - 1 \/ j = q \/ j \in q + 1 .. n - 2
      BY <1>2, <1>3
    <3> QED
      BY <1>3, <3>1, <3>2
  <2>2. Opens(i) = 1 /\ Closes(i) = 0
    BY <1>3, <2>1, CountNone, CountOne, ParensCounted
  <2> QED
    BY <2>2 DEF Depth
<1>6. ASSUME source[n] = "IDENTIFIER"
      PROVE  Depth(n) = 0
  <2>1. /\ n \in Nat /\ q \in 1 .. n /\ n - 1 \in 1 .. n
        /\ \A j \in 1 .. n : /\ source[j] = "LEFT_PAREN" => j = q
                             /\ source[j] = "RIGHT_PAREN" => j = n - 1
    <3>1. q \in 1 .. n /\ n - 1 \in 1 .. n
      BY <1>2, <1>3
    <3>2. \A j \in 1 .. n : j \in 1 .. q - 1 \/ j = q \/ j \in q + 1 .. n - 2 \/ j = n - 1 \/ j = n
      BY <1>2, <1>3
    <3> QED
      BY <1>2, <1>3, <1>6, <3>1, <3>2
  <2>2. Opens(n) = 1
    BY <1>3, <2>1, CountOne, ParensCounted
  <2>3. Closes(n) = 1
    BY <1>3, <2>1, CountOne, ParensCounted
  <2> QED
    BY <2>2, <2>3 DEF Depth
<1>7. {i \in 1 .. n : source[i] = "IDENTIFIER" /\ Depth(i) = 1} = Identifiers(source, q + 1, n - 1)
  <2>1. \A i \in 1 .. n : i \in 1 .. q - 1 \/ i = q \/ i \in q + 1 .. n - 2 \/ i = n - 1 \/ i = n
    BY <1>2, <1>3
  <2>2. \A i : i \in q + 1 .. n - 1 <=> i \in q + 1 .. n - 2 \/ i = n - 1
    BY <1>2, <1>3
  <2>3. \A i \in q + 1 .. n - 2 : i \in 1 .. n
    BY <1>2, <1>3
  <2> HIDE DEF Depth
  <2> QED
    BY <1>3, <1>4, <1>5, <1>6, <2>1, <2>2, <2>3 DEF Identifiers
<1> QED
  BY <1>3, <1>7, ListedNames DEF n

\* The columns of every CREATE TABLE and CREATE INDEX that parse_create and
\* parse_create_index read are those the text declares (parser.c:373-449).
THEOREM ColumnsAreDeclared ==
  ASSUME TokensAreStrings
  PROVE  Spec => []ColumnsAsDeclared
<1>1. Init => StreamInv /\ CreateInv /\ IndexInv
  BY InitInv, ColumnsInit
<1>2. StreamInv /\ CreateInv /\ IndexInv /\ [Next]_vars => StreamInv' /\ CreateInv' /\ IndexInv'
  BY StepInv, CreateNext, IndexNext
<1>3. StreamInv /\ CreateInv /\ IndexInv => ColumnsAsDeclared
  <2> SUFFICES ASSUME StreamInv, CreateInv, IndexInv, status = "returned"
               PROVE  /\ (kind = "create" /\ \A i \in 1 .. Len(source) : source[i] = "COMMA" => Depth(i) = 1)
                           => Names(nodes, Declared)
                      /\ kind = "create_index" =>
                           Names(nodes, {i \in 1 .. Len(source) : source[i] = "IDENTIFIER" /\ Depth(i) = 1})
    BY DEF ColumnsAsDeclared
  <2> QED
    BY CreateNames, IndexNames
<1> QED
  BY <1>1, <1>2, <1>3, PTL DEF Spec

-----------------------------------------------------------------------------
(***************************************************************************)
(* The places nodes speak of.  A "close" is only ever made by OpenNode: no *)
(* parse function contains one, at any depth, and every function that is   *)
(* called exists.                                                          *)
(***************************************************************************)
Closed(S) ==
  \A x \in S :
    /\ x.do # "close"
    /\ x.do \in {"call", "list"} => x.function \in DOMAIN Rules
    /\ x.do = "switch" =>
         /\ x.default \in Seq(S) /\ DOMAIN x.arms \subseteq Nat
         /\ \A i \in DOMAIN x.arms : x.arms[i].body \in Seq(S)
    /\ x.do = "look" => x.n \in 1 .. 3 /\ x.body \in Seq(S) /\ x.else \in Seq(S)
    /\ x.do = "node" => x.body \in Seq(S)

\* An instruction and what it may put before the rest, and a sequence of such.
Calm(x) == \E S : Closed(S) /\ x \in S

AllCalm(s) == \E R : s \in Seq(R) /\ \A x \in R : Calm(x)

\* Sets that are closed, together.
LEMMA ClosedTogether ==
  ASSUME NEW R, \A x \in R : Calm(x)
  PROVE  \E S : Closed(S) /\ R \subseteq S
<1> DEFINE set(x) == CHOOSE S : Closed(S) /\ x \in S
           all == UNION {set(x) : x \in R}
<1>1. \A x \in R : Closed(set(x)) /\ x \in set(x)
  BY DEF Calm
<1> HIDE DEF set
<1>2. ASSUME NEW x \in R
      PROVE  set(x) \subseteq all /\ Seq(set(x)) \subseteq Seq(all)
  <2>1. set(x) \subseteq all
    OBVIOUS
  <2> HIDE DEF all
  <2> QED
    BY <2>1, SeqMonotonic
<1>3. \A y \in all : \E x \in R : y \in set(x)
  OBVIOUS
<1> HIDE DEF all
<1>4. Closed(all)
  <2> SUFFICES ASSUME NEW y \in all
               PROVE  /\ y.do # "close"
                      /\ y.do \in {"call", "list"} => y.function \in DOMAIN Rules
                      /\ y.do = "switch" =>
                           /\ y.default \in Seq(all) /\ DOMAIN y.arms \subseteq Nat
                           /\ \A i \in DOMAIN y.arms : y.arms[i].body \in Seq(all)
                      /\ y.do = "look" => y.n \in 1 .. 3 /\ y.body \in Seq(all) /\ y.else \in Seq(all)
                      /\ y.do = "node" => y.body \in Seq(all)
    BY DEF Closed
  <2>1. PICK x \in R : y \in set(x)
    BY <1>3
  <2>2. Closed(set(x)) /\ Seq(set(x)) \subseteq Seq(all)
    BY <1>1, <1>2
  <2> QED
    BY <2>1, <2>2 DEF Closed
<1>5. R \subseteq all
  BY <1>1, <1>2
<1> QED
  BY <1>4, <1>5

LEMMA CalmSequence ==
  ASSUME NEW s, AllCalm(s)
  PROVE  \E S : Closed(S) /\ s \in Seq(S)
<1>1. PICK R : s \in Seq(R) /\ \A x \in R : Calm(x)
  BY DEF AllCalm
<1>2. PICK S : Closed(S) /\ R \subseteq S
  BY <1>1, ClosedTogether
<1>3. s \in Seq(S)
  BY <1>1, <1>2, SeqMonotonic
<1> QED
  BY <1>2, <1>3

\* The bodies of an instruction.
HasBodies(x, bodies) ==
  /\ x.do # "close"
  /\ x.do \in {"call", "list"} => x.function \in DOMAIN Rules
  /\ x.do = "switch" =>
       /\ x.default \in bodies /\ DOMAIN x.arms \subseteq Nat
       /\ \A i \in DOMAIN x.arms : x.arms[i].body \in bodies
  /\ x.do = "look" => x.n \in 1 .. 3 /\ x.body \in bodies /\ x.else \in bodies
  /\ x.do = "node" => x.body \in bodies

LEMMA CalmOne ==
  ASSUME NEW x, NEW bodies, HasBodies(x, bodies), \A s \in bodies : AllCalm(s)
  PROVE  Calm(x)
<1> DEFINE set(s) == CHOOSE S : Closed(S) /\ s \in Seq(S)
           elements == UNION {set(s) : s \in bodies}
<1>1. \A s \in bodies : Closed(set(s)) /\ s \in Seq(set(s))
  BY CalmSequence
<1> HIDE DEF set
<1>2. \A y \in elements : Calm(y)
  BY <1>1 DEF Calm
<1>3. \A s \in bodies : s \in Seq(elements)
  <2> SUFFICES ASSUME NEW s \in bodies PROVE s \in Seq(elements)
    OBVIOUS
  <2>1. set(s) \subseteq elements
    OBVIOUS
  <2> HIDE DEF elements
  <2> QED
    BY <1>1, <2>1, SeqMonotonic
<1> HIDE DEF elements
<1>4. PICK S : Closed(S) /\ elements \subseteq S
  BY <1>2, ClosedTogether
<1> DEFINE T == S \cup {x}
<1>5. \A s \in bodies : s \in Seq(T)
  <2> SUFFICES ASSUME NEW s \in bodies PROVE s \in Seq(T)
    OBVIOUS
  <2>1. elements \subseteq T
    BY <1>4
  <2> HIDE DEF T
  <2> QED
    BY <1>3, <2>1, SeqMonotonic
<1>6. Seq(S) \subseteq Seq(T)
  BY SeqMonotonic
<1>7. Closed(T)
  <2>1. \A y \in T : y \in S \/ y = x
    OBVIOUS
  <2> HIDE DEF T
  <2>2. /\ x.do # "close"
        /\ x.do \in {"call", "list"} => x.function \in DOMAIN Rules
        /\ x.do = "switch" =>
             /\ x.default \in Seq(T) /\ DOMAIN x.arms \subseteq Nat
             /\ \A i \in DOMAIN x.arms : x.arms[i].body \in Seq(T)
        /\ x.do = "look" => x.n \in 1 .. 3 /\ x.body \in Seq(T) /\ x.else \in Seq(T)
        /\ x.do = "node" => x.body \in Seq(T)
    <3>1. /\ x.do # "close"
          /\ x.do \in {"call", "list"} => x.function \in DOMAIN Rules
      BY DEF HasBodies
    <3>2. x.do = "switch" =>
            /\ x.default \in Seq(T) /\ DOMAIN x.arms \subseteq Nat
            /\ \A i \in DOMAIN x.arms : x.arms[i].body \in Seq(T)
      BY <1>5 DEF HasBodies
    <3>3. /\ x.do = "look" => x.n \in 1 .. 3 /\ x.body \in Seq(T) /\ x.else \in Seq(T)
          /\ x.do = "node" => x.body \in Seq(T)
      BY <1>5 DEF HasBodies
    <3> QED
      BY <3>1, <3>2, <3>3
  <2>3. ASSUME NEW y \in S
        PROVE  /\ y.do # "close"
               /\ y.do \in {"call", "list"} => y.function \in DOMAIN Rules
               /\ y.do = "switch" =>
                    /\ y.default \in Seq(T) /\ DOMAIN y.arms \subseteq Nat
                    /\ \A i \in DOMAIN y.arms : y.arms[i].body \in Seq(T)
               /\ y.do = "look" => y.n \in 1 .. 3 /\ y.body \in Seq(T) /\ y.else \in Seq(T)
               /\ y.do = "node" => y.body \in Seq(T)
    BY <1>4, <1>6 DEF Closed
  <2> QED
    BY <2>1, <2>2, <2>3 DEF Closed
<1> QED
  BY <1>7 DEF Calm

LEMMA CalmLeaves ==
  /\ Calm(Next1) /\ Calm(Error) /\ Calm(Crash)
  /\ \A type : Calm(Consume(type)) /\ Calm(Make(type)) /\ Calm(MakeHere(type))
  /\ \A f \in DOMAIN Rules : Calm(Call(f)) /\ Calm(Comma(f))
<1>1. ASSUME NEW x, x.do \in {"advance", "error", "crash", "consume", "make", "make_here"}
      PROVE  Calm(x)
  <2>1. HasBodies(x, {})
    BY <1>1 DEF HasBodies
  <2> QED
    BY <2>1, CalmOne
<1>2. ASSUME NEW x, x.do \in {"call", "list"}, x.function \in DOMAIN Rules
      PROVE  Calm(x)
  <2>1. HasBodies(x, {})
    BY <1>2 DEF HasBodies
  <2> QED
    BY <2>1, CalmOne
<1>3. Calm(Next1) /\ Calm(Error) /\ Calm(Crash)
  BY <1>1 DEF Next1, Error, Crash
<1>4. \A type : Calm(Consume(type)) /\ Calm(Make(type)) /\ Calm(MakeHere(type))
  BY <1>1 DEF Consume, Make, MakeHere
<1>5. \A f \in DOMAIN Rules : Calm(Call(f)) /\ Calm(Comma(f))
  BY <1>2 DEF Call, Comma
<1> QED
  BY <1>3, <1>4, <1>5

LEMMA CalmSet ==
  ASSUME NEW s, NEW R, s \in Seq(R), \A x \in R : Calm(x)
  PROVE  AllCalm(s)
BY DEF AllCalm

LEMMA CalmBodies ==
  /\ AllCalm(<<>>)
  /\ \A a : Calm(a) => AllCalm(<<a>>)
  /\ \A a, b : Calm(a) /\ Calm(b) => AllCalm(<<a, b>>)
  /\ \A a, b, c : Calm(a) /\ Calm(b) /\ Calm(c) => AllCalm(<<a, b, c>>)
  /\ \A a, b, c, d : Calm(a) /\ Calm(b) /\ Calm(c) /\ Calm(d) => AllCalm(<<a, b, c, d>>)
  /\ \A a, b, c, d, e : Calm(a) /\ Calm(b) /\ Calm(c) /\ Calm(d) /\ Calm(e)
       => AllCalm(<<a, b, c, d, e>>)
  /\ \A a, b, c, d, e, f : Calm(a) /\ Calm(b) /\ Calm(c) /\ Calm(d) /\ Calm(e) /\ Calm(f)
       => AllCalm(<<a, b, c, d, e, f>>)
  /\ \A a, b, c, d, e, f, g :
       Calm(a) /\ Calm(b) /\ Calm(c) /\ Calm(d) /\ Calm(e) /\ Calm(f) /\ Calm(g)
       => AllCalm(<<a, b, c, d, e, f, g>>)
<1>1. AllCalm(<<>>)
  <2> DEFINE R == {}
  <2>1. <<>> \in Seq(R)
    OBVIOUS
  <2>2. \A x \in R : Calm(x)
    OBVIOUS
  <2> HIDE DEF R
  <2> QED
    BY <2>1, <2>2, CalmSet
<1>2. ASSUME NEW a, Calm(a)
      PROVE  AllCalm(<<a>>)
  <2> DEFINE R == {a}
  <2>1. <<a>> \in Seq(R)
    OBVIOUS
  <2>2. \A x \in R : Calm(x)
    BY <1>2
  <2> HIDE DEF R
  <2> QED
    BY <2>1, <2>2, CalmSet
<1>3. ASSUME NEW a, NEW b, Calm(a), Calm(b)
      PROVE  AllCalm(<<a, b>>)
  <2> DEFINE R == {a, b}
  <2>1. <<a, b>> \in Seq(R)
    OBVIOUS
  <2>2. \A x \in R : Calm(x)
    BY <1>3
  <2> HIDE DEF R
  <2> QED
    BY <2>1, <2>2, CalmSet
<1>4. ASSUME NEW a, NEW b, NEW c, Calm(a), Calm(b), Calm(c)
      PROVE  AllCalm(<<a, b, c>>)
  <2> DEFINE R == {a, b, c}
  <2>1. <<a, b, c>> \in Seq(R)
    OBVIOUS
  <2>2. \A x \in R : Calm(x)
    BY <1>4
  <2> HIDE DEF R
  <2> QED
    BY <2>1, <2>2, CalmSet
<1>5. ASSUME NEW a, NEW b, NEW c, NEW d, Calm(a), Calm(b), Calm(c), Calm(d)
      PROVE  AllCalm(<<a, b, c, d>>)
  <2> DEFINE R == {a, b, c, d}
  <2>1. <<a, b, c, d>> \in Seq(R)
    OBVIOUS
  <2>2. \A x \in R : Calm(x)
    BY <1>5
  <2> HIDE DEF R
  <2> QED
    BY <2>1, <2>2, CalmSet
<1>6. ASSUME NEW a, NEW b, NEW c, NEW d, NEW e, Calm(a), Calm(b), Calm(c), Calm(d), Calm(e)
      PROVE  AllCalm(<<a, b, c, d, e>>)
  <2> DEFINE R == {a, b, c, d, e}
  <2>1. <<a, b, c, d, e>> \in Seq(R)
    OBVIOUS
  <2>2. \A x \in R : Calm(x)
    BY <1>6
  <2> HIDE DEF R
  <2> QED
    BY <2>1, <2>2, CalmSet
<1>7. ASSUME NEW a, NEW b, NEW c, NEW d, NEW e, NEW f,
             Calm(a), Calm(b), Calm(c), Calm(d), Calm(e), Calm(f)
      PROVE  AllCalm(<<a, b, c, d, e, f>>)
  <2> DEFINE R == {a, b, c, d, e, f}
  <2>1. <<a, b, c, d, e, f>> \in Seq(R)
    OBVIOUS
  <2>2. \A x \in R : Calm(x)
    BY <1>7
  <2> HIDE DEF R
  <2> QED
    BY <2>1, <2>2, CalmSet
<1>8. ASSUME NEW a, NEW b, NEW c, NEW d, NEW e, NEW f, NEW g,
             Calm(a), Calm(b), Calm(c), Calm(d), Calm(e), Calm(f), Calm(g)
      PROVE  AllCalm(<<a, b, c, d, e, f, g>>)
  <2> DEFINE R == {a, b, c, d, e, f, g}
  <2>1. <<a, b, c, d, e, f, g>> \in Seq(R)
    OBVIOUS
  <2>2. \A x \in R : Calm(x)
    BY <1>8
  <2> HIDE DEF R
  <2> QED
    BY <2>1, <2>2, CalmSet
<1> QED
  BY <1>1, <1>2, <1>3, <1>4, <1>5, <1>6, <1>7, <1>8

LEMMA CalmJoined ==
  ASSUME NEW s, NEW t, AllCalm(s), AllCalm(t)
  PROVE  AllCalm(s \o t)
<1>1. PICK R : s \in Seq(R) /\ \A x \in R : Calm(x)
  BY DEF AllCalm
<1>2. PICK Q : t \in Seq(Q) /\ \A x \in Q : Calm(x)
  BY DEF AllCalm
<1>3. s \in Seq(R \cup Q) /\ t \in Seq(R \cup Q)
  BY <1>1, <1>2, SeqMonotonic
<1>4. s \o t \in Seq(R \cup Q)
  BY <1>3, ConcatProperties
<1> QED
  BY <1>1, <1>2, <1>4 DEF AllCalm

LEMMA CalmChoices ==
  /\ \A types, body, other : AllCalm(body) /\ AllCalm(other) => Calm(At(types, body, other))
  /\ \A n \in 1 .. 3 : \A type, body, other :
       AllCalm(body) /\ AllCalm(other) => Calm(Look(n, type, body, other))
  /\ \A node, body : AllCalm(body) => Calm(Node(node, body))
  /\ \A type, body : AllCalm(body) => Calm(Match(type, body))
  /\ \A types : Calm(OneOf(types)) /\ Calm(Require(types))
<1>1. ASSUME NEW types, NEW body, NEW other, AllCalm(body), AllCalm(other)
      PROVE  Calm(At(types, body, other))
  <2> DEFINE x == At(types, body, other)
  <2>1. /\ x.do = "switch" /\ x.default = other /\ x.arms = <<On(types, body)>>
    BY DEF At, Switch
  <2>2. DOMAIN <<On(types, body)>> = {1} /\ <<On(types, body)>>[1].body = body
    BY DEF On
  <2> HIDE DEF x
  <2>3. DOMAIN x.arms \subseteq Nat /\ \A i \in DOMAIN x.arms : x.arms[i].body \in {body, other}
    BY <2>1, <2>2
  <2>4. HasBodies(x, {body, other}) /\ \A s \in {body, other} : AllCalm(s)
    BY <1>1, <2>1, <2>3 DEF HasBodies
  <2>5. Calm(x)
    BY <2>4, CalmOne
  <2> QED
    BY <2>5 DEF x
<1>2. ASSUME NEW n \in 1 .. 3, NEW type, NEW body, NEW other, AllCalm(body), AllCalm(other)
      PROVE  Calm(Look(n, type, body, other))
  <2> DEFINE x == Look(n, type, body, other)
  <2>1. x.do = "look" /\ x.n = n /\ x.body = body /\ x.else = other
    BY DEF Look
  <2> HIDE DEF x
  <2>2. Calm(x)
    <3>1. HasBodies(x, {body, other}) /\ \A s \in {body, other} : AllCalm(s)
      BY <1>2, <2>1 DEF HasBodies
    <3> QED
      BY <3>1, CalmOne
  <2> QED
    BY <2>2 DEF x
<1>3. ASSUME NEW node, NEW body, AllCalm(body)
      PROVE  Calm(Node(node, body))
  <2> DEFINE x == Node(node, body)
  <2>1. x.do = "node" /\ x.body = body
    BY DEF Node
  <2> HIDE DEF x
  <2>2. Calm(x)
    <3>1. HasBodies(x, {body}) /\ \A s \in {body} : AllCalm(s)
      BY <1>3, <2>1 DEF HasBodies
    <3> QED
      BY <3>1, CalmOne
  <2> QED
    BY <2>2 DEF x
<1>4. ASSUME NEW type, NEW body, AllCalm(body)
      PROVE  Calm(Match(type, body))
  <2>1. AllCalm(<<Next1>> \o body) /\ AllCalm(<<>>)
    BY <1>4, CalmLeaves, CalmBodies, CalmJoined
  <2> QED
    BY <1>1, <2>1 DEF Match
<1>5. ASSUME NEW types
      PROVE  Calm(OneOf(types)) /\ Calm(Require(types))
  <2>1. AllCalm(<<Next1>>) /\ AllCalm(<<>>) /\ AllCalm(<<Error>>)
    BY CalmLeaves, CalmBodies
  <2> QED
    BY <1>1, <2>1 DEF OneOf, Require
<1> QED
  BY <1>1, <1>2, <1>3, <1>4, <1>5

\* A switch of several arms.
LEMMA CalmSwitch ==
  ASSUME NEW arms, NEW other, AllCalm(other), DOMAIN arms \subseteq Nat,
         \A i \in DOMAIN arms : AllCalm(arms[i].body)
  PROVE  Calm(Switch(arms, other))
<1> DEFINE x == Switch(arms, other)
           bodies == {arms[i].body : i \in DOMAIN arms} \cup {other}
<1>1. x.do = "switch" /\ x.default = other /\ x.arms = arms
  BY DEF Switch
<1>2. \A s \in bodies : AllCalm(s)
  OBVIOUS
<1>3. other \in bodies /\ \A i \in DOMAIN arms : arms[i].body \in bodies
  OBVIOUS
<1> HIDE DEF x, bodies
<1>4. HasBodies(x, bodies)
  BY <1>1, <1>3 DEF HasBodies
<1>5. Calm(x)
  BY <1>2, <1>4, CalmOne
<1> QED
  BY <1>5 DEF x

\* Switches of several arms.
LEMMA CalmSwitches ==
  /\ \A s, t, other :
       AllCalm(s.body) /\ AllCalm(t.body) /\ AllCalm(other)
       => Calm(Switch(<<s, t>>, other))
  /\ \A s, t, u, other :
       AllCalm(s.body) /\ AllCalm(t.body) /\ AllCalm(u.body) /\ AllCalm(other)
       => Calm(Switch(<<s, t, u>>, other))
  /\ \A s, t, u, v, w, x, y, other :
       AllCalm(s.body) /\ AllCalm(t.body) /\ AllCalm(u.body) /\ AllCalm(v.body)
         /\ AllCalm(w.body) /\ AllCalm(x.body) /\ AllCalm(y.body) /\ AllCalm(other)
       => Calm(Switch(<<s, t, u, v, w, x, y>>, other))
  /\ \A s, t, u, v, w, x, y, z, other :
       AllCalm(s.body) /\ AllCalm(t.body) /\ AllCalm(u.body) /\ AllCalm(v.body)
         /\ AllCalm(w.body) /\ AllCalm(x.body) /\ AllCalm(y.body) /\ AllCalm(z.body) /\ AllCalm(other)
       => Calm(Switch(<<s, t, u, v, w, x, y, z>>, other))
<1>1. ASSUME NEW s, NEW t, NEW other,
             AllCalm(s.body), AllCalm(t.body),
             AllCalm(other)
      PROVE  Calm(Switch(<<s, t>>, other))
  <2> DEFINE arms == <<s, t>>
  <2>1. DOMAIN arms \subseteq Nat /\ \A i \in DOMAIN arms : AllCalm(arms[i].body)
    BY <1>1
  <2> HIDE DEF arms
  <2>2. Calm(Switch(arms, other))
    BY <1>1, <2>1, CalmSwitch
  <2> QED
    BY <2>2 DEF arms
<1>2. ASSUME NEW s, NEW t, NEW u, NEW other,
             AllCalm(s.body), AllCalm(t.body), AllCalm(u.body),
             AllCalm(other)
      PROVE  Calm(Switch(<<s, t, u>>, other))
  <2> DEFINE arms == <<s, t, u>>
  <2>1. DOMAIN arms \subseteq Nat /\ \A i \in DOMAIN arms : AllCalm(arms[i].body)
    BY <1>2
  <2> HIDE DEF arms
  <2>2. Calm(Switch(arms, other))
    BY <1>2, <2>1, CalmSwitch
  <2> QED
    BY <2>2 DEF arms
<1>3. ASSUME NEW s, NEW t, NEW u, NEW v, NEW w, NEW x, NEW y, NEW other,
             AllCalm(s.body), AllCalm(t.body), AllCalm(u.body), AllCalm(v.body),
             AllCalm(w.body), AllCalm(x.body), AllCalm(y.body), AllCalm(other)
      PROVE  Calm(Switch(<<s, t, u, v, w, x, y>>, other))
  <2> DEFINE arms == <<s, t, u, v, w, x, y>>
  <2>1. DOMAIN arms \subseteq Nat /\ \A i \in DOMAIN arms : AllCalm(arms[i].body)
    BY <1>3
  <2> HIDE DEF arms
  <2>2. Calm(Switch(arms, other))
    BY <1>3, <2>1, CalmSwitch
  <2> QED
    BY <2>2 DEF arms
<1>4. ASSUME NEW s, NEW t, NEW u, NEW v, NEW w, NEW x, NEW y, NEW z, NEW other,
             AllCalm(s.body), AllCalm(t.body), AllCalm(u.body), AllCalm(v.body),
             AllCalm(w.body), AllCalm(x.body), AllCalm(y.body), AllCalm(z.body), AllCalm(other)
      PROVE  Calm(Switch(<<s, t, u, v, w, x, y, z>>, other))
  <2> DEFINE arms == <<s, t, u, v, w, x, y, z>>
  <2>1. DOMAIN arms \subseteq Nat /\ \A i \in DOMAIN arms : AllCalm(arms[i].body)
    BY <1>4
  <2> HIDE DEF arms
  <2>2. Calm(Switch(arms, other))
    BY <1>4, <2>1, CalmSwitch
  <2> QED
    BY <2>2 DEF arms
<1> QED
  BY <1>1, <1>2, <1>3, <1>4

LEMMA CalmArms == \A types, body : On(types, body).body = body
BY DEF On

\* Every function is one of the parser's.
LEMMA CalmCalls ==
  \A f \in {
    "alias", "between", "binary", "case", "cast", "column_name", "compound",
    "core", "create_columns", "expr", "expression", "filter", "frame_spec",
    "from", "function", "function_arguments", "function_call", "group_by",
    "having", "indexed_column", "is", "join_clause", "join_constraint",
    "join_operator", "joins", "limit", "literal", "name", "order_by", "over",
    "parenthesized", "pattern_match", "primary", "raise", "rest_of_column",
    "result_column", "row_value", "secondary", "select_statement",
    "table_expression", "table_function", "table_name", "table_or_subquery",
    "term", "type_name", "unary", "value_row", "values", "when_clauses", "where",
    "window", "window_data", "window_definition"} :
    Calm(Call(f)) /\ Calm(Comma(f))
BY CalmLeaves DEF Rules

\* The instructions of every function are calm.
LEMMA RulesAreCalm == \A f \in DOMAIN Rules : AllCalm(Rules[f])
<1> USE CalmLeaves, CalmBodies, CalmChoices, CalmCalls, CalmArms
<1>1. AllCalm(ParseSelect)
  BY DEF ParseSelect
<1>2. AllCalm(ParseTerm)
  BY CalmSwitches DEF ParseTerm
<1>3. AllCalm(ParseFunctionCall)
  BY DEF ParseFunctionCall
<1>4. AllCalm(ParseExpression)
  BY DEF ParseExpression
<1>5. AllCalm(ParseCreate)
  BY DEF ParseCreate
<1>6. AllCalm(CreateColumns)
  BY DEF CreateColumns
<1>7. AllCalm(RestOfColumn)
  BY DEF RestOfColumn
<1>8. AllCalm(ParseCreateIndex)
  <2> DEFINE begin == <<Consume("CREATE"), Match("UNIQUE", <<>>), Consume("INDEX"),
                        Match("IF", <<>>), Match("NOT", <<>>), Match("EXISTS", <<>>)>>
             rest == <<Consume("IDENTIFIER"), Match("DOT", <<Require({"IDENTIFIER"})>>),
                       Consume("ON"), Consume("IDENTIFIER"), Consume("LEFT_PAREN"),
                       Comma("indexed_column"), Consume("RIGHT_PAREN")>>
  <2>1. AllCalm(begin) /\ AllCalm(rest)
    OBVIOUS
  <2>2. ParseCreateIndex = begin \o rest
    BY DEF ParseCreateIndex
  <2> HIDE DEF begin, rest
  <2> QED
    BY <2>1, <2>2, CalmJoined
<1>9. AllCalm(ParseIndexedColumn)
  BY DEF ParseIndexedColumn
<1>10. AllCalm(ParseSelectStatementNew)
  BY DEF ParseSelectStatementNew
<1>11. AllCalm(ParseExpressionNew)
  BY CalmSwitches DEF ParseExpressionNew, ParseOperand
<1>12. AllCalm(ParsePrimaryExpression)
  BY CalmSwitches DEF ParsePrimaryExpression, ParseOperand
<1>13. AllCalm(ParseSecondaryExpression)
  BY CalmSwitches DEF ParseSecondaryExpression
<1>14. AllCalm(ParseLiteral)
  BY DEF ParseLiteral
<1>15. AllCalm(ParseTypeName)
  BY DEF ParseTypeName
<1>16. AllCalm(ParseCast)
  BY DEF ParseCast
<1>17. AllCalm(ParseCase)
  BY DEF ParseCase
<1>18. AllCalm(WhenClauses)
  BY DEF WhenClauses
<1>19. AllCalm(ParseOrderByClause)
  BY DEF ParseOrderByClause
<1>20. AllCalm(ParseFunction)
  BY DEF ParseFunction
<1>21. AllCalm(ParseFunctionArguments)
  BY DEF ParseFunctionArguments
<1>22. AllCalm(ParseFilterClause)
  BY DEF ParseFilterClause
<1>23. AllCalm(ParseOverClause)
  BY DEF ParseOverClause
<1>24. AllCalm(ParseFrameSpec)
  BY CalmSwitches DEF ParseFrameSpec, FrameBound
<1>25. AllCalm(ParseWindowDefinition)
  BY DEF ParseWindowDefinition
<1>26. AllCalm(ParseName)
  BY DEF ParseName
<1>27. AllCalm(ParseRaiseExpr)
  BY CalmSwitches DEF ParseRaiseExpr
<1>28. AllCalm(ParseRowValueExpr)
  BY DEF ParseRowValueExpr
<1>29. AllCalm(ParseParenthesized)
  BY DEF ParseParenthesized
<1>30. AllCalm(ParsePatternMatch)
  BY CalmSwitches DEF ParsePatternMatch
<1>31. AllCalm(ParseIsExpr)
  BY DEF ParseIsExpr
<1>32. AllCalm(ParseBetweenExpr)
  BY DEF ParseBetweenExpr
<1>33. AllCalm(ParseNewUnaryExpr)
  BY DEF ParseNewUnaryExpr
<1>34. AllCalm(ParseNewBinaryExpr)
  BY DEF ParseNewBinaryExpr
<1>35. AllCalm(ParseSelectCore)
  BY DEF ParseSelectCore
<1>36. AllCalm(CompoundCores)
  BY CalmSwitches, CalmJoined DEF CompoundCores
<1>37. AllCalm(ParseLimitClause)
  BY DEF ParseLimitClause
<1>38. AllCalm(ParseResultColumn)
  BY CalmSwitches DEF ParseResultColumn
<1>39. AllCalm(ParseFromClause)
  BY DEF ParseFromClause
<1>40. AllCalm(ParseWhereClause)
  BY DEF ParseWhereClause
<1>41. AllCalm(ParseGroupBy)
  BY DEF ParseGroupBy
<1>42. AllCalm(ParseHavingClause)
  BY DEF ParseHavingClause
<1>43. AllCalm(ParseWindowClause)
  BY DEF ParseWindowClause
<1>44. AllCalm(ParseWindowData)
  BY DEF ParseWindowData
<1>45. AllCalm(CollectValues)
  BY DEF CollectValues
<1>46. AllCalm(ValueRow)
  BY DEF ValueRow
<1>47. AllCalm(ParseJoinClause)
  BY DEF ParseJoinClause
<1>48. AllCalm(Joins)
  BY CalmSwitches, CalmJoined DEF Joins
<1>49. AllCalm(JoinOperator)
  BY DEF JoinOperator
<1>50. AllCalm(ParseJoinConstraint)
  BY CalmSwitches DEF ParseJoinConstraint
<1>51. AllCalm(ColumnName)
  BY DEF ColumnName
<1>52. AllCalm(ParseTableExpression)
  BY DEF ParseTableExpression
<1>53. AllCalm(ParseTableOrSubquery)
  BY DEF ParseTableOrSubquery
<1>54. AllCalm(TosParseTableName)
  BY CalmSwitches, CalmJoined DEF TosParseTableName, SchemaName
<1>55. AllCalm(TosParseTableFunction)
  BY CalmJoined DEF TosParseTableFunction, SchemaName
<1>56. AllCalm(TosParseAlias)
  BY DEF TosParseAlias
<1> QED
  BY <1>1, <1>2, <1>3, <1>4, <1>5, <1>6, <1>7, <1>8, <1>9, <1>10, <1>11, <1>12, <1>13, <1>14, <1>15, <1>16, <1>17, <1>18, <1>19, <1>20, <1>21, <1>22, <1>23, <1>24, <1>25, <1>26, <1>27, <1>28, <1>29, <1>30, <1>31, <1>32, <1>33, <1>34, <1>35, <1>36, <1>37, <1>38, <1>39, <1>40, <1>41, <1>42, <1>43, <1>44, <1>45, <1>46, <1>47, <1>48, <1>49, <1>50, <1>51, <1>52, <1>53, <1>54, <1>55, <1>56 DEF Rules

-----------------------------------------------------------------------------
(***************************************************************************)
(* The invariant: what is left to do is calm, up to the nodes that are     *)
(* open, and what is open or made speaks of tokens scanned.                *)
(***************************************************************************)
Ready(x, top) == Calm(x) \/ (x.do = "close" /\ x.from \in 0 .. top)

AllReady(s, top) == \E R : s \in Seq(R) /\ \A x \in R : Ready(x, top)

Spans(tree, top) ==
  \E R : tree \in Seq(R) /\ \A n \in R : n.from \in 0 .. top /\ n.to \in 0 .. top

PlacesInv ==
  /\ AllReady(todo, Len(source))
  /\ Spans(nodes, Len(source)) /\ Spans(statement, Len(source))
  /\ phase \in {kind, "parse_new"}
  /\ status \in {"running", "returned", "exited", "crashed"}

\* What a calm instruction leaves to do.
LEMMA CalmParts ==
  ASSUME NEW x, Calm(x)
  PROVE  /\ x.do # "close"
         /\ x.do \in {"call", "list"} => x.function \in DOMAIN Rules
         /\ x.do = "switch" =>
              /\ AllCalm(x.default) /\ DOMAIN x.arms \subseteq Nat
              /\ \A i \in DOMAIN x.arms : AllCalm(x.arms[i].body)
         /\ x.do = "look" => x.n \in 1 .. 3 /\ AllCalm(x.body) /\ AllCalm(x.else)
         /\ x.do = "node" => AllCalm(x.body)
<1>1. PICK S : Closed(S) /\ x \in S
  BY DEF Calm
<1>2. \A s \in Seq(S) : AllCalm(s)
  <2>1. \A y \in S : Calm(y)
    BY <1>1 DEF Calm
  <2> QED
    BY <2>1 DEF AllCalm
<1>3. /\ x.do # "close"
      /\ x.do \in {"call", "list"} => x.function \in DOMAIN Rules
      /\ x.do = "switch" =>
           /\ x.default \in Seq(S) /\ DOMAIN x.arms \subseteq Nat
           /\ \A i \in DOMAIN x.arms : x.arms[i].body \in Seq(S)
      /\ x.do = "look" => x.n \in 1 .. 3 /\ x.body \in Seq(S) /\ x.else \in Seq(S)
      /\ x.do = "node" => x.body \in Seq(S)
  BY <1>1 DEF Closed
<1> QED
  BY <1>2, <1>3

LEMMA CalmIsReady ==
  ASSUME NEW s, NEW top, AllCalm(s)
  PROVE  AllReady(s, top)
BY DEF AllCalm, AllReady, Ready

LEMMA ReadyGrows ==
  ASSUME NEW s, NEW a \in Nat, NEW b \in Nat, a <= b, AllReady(s, a)
  PROVE  AllReady(s, b)
<1>1. \A x : Ready(x, a) => Ready(x, b)
  BY DEF Ready
<1> QED
  BY <1>1 DEF AllReady

LEMMA ReadyJoined ==
  ASSUME NEW s, NEW t, NEW top, AllReady(s, top), AllReady(t, top)
  PROVE  AllReady(s \o t, top)
<1>1. PICK R : s \in Seq(R) /\ \A x \in R : Ready(x, top)
  BY DEF AllReady
<1>2. PICK Q : t \in Seq(Q) /\ \A x \in Q : Ready(x, top)
  BY DEF AllReady
<1>3. s \in Seq(R \cup Q) /\ t \in Seq(R \cup Q)
  BY <1>1, <1>2, SeqMonotonic
<1>4. s \o t \in Seq(R \cup Q)
  BY <1>3, ConcatProperties
<1> QED
  BY <1>1, <1>2, <1>4 DEF AllReady

LEMMA ReadyTail ==
  ASSUME NEW s, NEW top, AllReady(s, top), s # <<>>
  PROVE  Ready(Head(s), top) /\ AllReady(Tail(s), top)
<1>1. PICK R : s \in Seq(R) /\ \A x \in R : Ready(x, top)
  BY DEF AllReady
<1>2. Head(s) \in R /\ Tail(s) \in Seq(R)
  BY <1>1, HeadTailProperties
<1> QED
  BY <1>1, <1>2 DEF AllReady

LEMMA SpansGrow ==
  ASSUME NEW tree, NEW a \in Nat, NEW b \in Nat, a <= b, Spans(tree, a)
  PROVE  Spans(tree, b)
<1>1. PICK R : tree \in Seq(R) /\ \A n \in R : n.from \in 0 .. a /\ n.to \in 0 .. a
  BY DEF Spans
<1>2. \A n \in R : n.from \in 0 .. b /\ n.to \in 0 .. b
  BY <1>1
<1> QED
  BY <1>1, <1>2 DEF Spans

LEMMA SpansAppended ==
  ASSUME NEW tree, NEW top, NEW n, Spans(tree, top),
         n.from \in 0 .. top, n.to \in 0 .. top
  PROVE  Spans(Append(tree, n), top)
<1>1. PICK R : tree \in Seq(R) /\ \A m \in R : m.from \in 0 .. top /\ m.to \in 0 .. top
  BY DEF Spans
<1> DEFINE Q == R \cup {n}
<1>2. tree \in Seq(Q)
  BY <1>1, SeqMonotonic
<1>3. Append(tree, n) \in Seq(Q)
  BY <1>2, AppendProperties
<1>4. \A m \in Q : m.from \in 0 .. top /\ m.to \in 0 .. top
  BY <1>1
<1> QED
  BY <1>3, <1>4 DEF Spans

LEMMA SpansHold ==
  ASSUME NEW tree, NEW top, Spans(tree, top), NEW n \in ToSet(tree)
  PROVE  {n.from, n.to} \subseteq 0 .. top
<1>1. PICK R : tree \in Seq(R) /\ \A m \in R : m.from \in 0 .. top /\ m.to \in 0 .. top
  BY DEF Spans
<1>2. n \in R
  BY <1>1 DEF ToSet
<1> QED
  BY <1>1, <1>2

\* Whatever a step puts before the rest, the places stay inside the text.
LEMMA ContinueKeeps ==
  ASSUME PlacesInv, todo # <<>>, Len(source) \in Nat, Len(source') \in Nat,
         Len(source) <= Len(source'), NEW instructions,
         AllReady(instructions, Len(source')), todo' = instructions \o Tail(todo)
  PROVE  AllReady(todo', Len(source'))
<1>1. AllReady(Tail(todo), Len(source))
  BY ReadyTail DEF PlacesInv
<1>2. AllReady(Tail(todo), Len(source'))
  BY <1>1, ReadyGrows
<1> QED
  BY <1>2, ReadyJoined

LEMMA EndKeeps ==
  ASSUME todo' = <<>>
  PROVE  AllReady(todo', Len(source'))
BY CalmBodies, CalmIsReady

\* What is at the head is calm, unless it closes a node.
LEMMA HeadIsCalm ==
  ASSUME PlacesInv, NEW op, Now(op)
  PROVE  /\ todo # <<>> /\ Head(todo).do = op /\ status = "running"
         /\ op # "close" => Calm(Head(todo))
         /\ op = "close" => Head(todo).from \in 0 .. Len(source)
<1>1. todo # <<>> /\ Head(todo).do = op /\ status = "running"
  BY DEF Now
<1>2. Ready(Head(todo), Len(source))
  BY <1>1, ReadyTail DEF PlacesInv
<1>3. Calm(Head(todo)) => Head(todo).do # "close"
  BY CalmParts
<1> QED
  BY <1>1, <1>2, <1>3 DEF Ready

LEMMA NoneReady == \A top : AllReady(<<>>, top)
BY CalmBodies, CalmIsReady

\* The text scanned only grows.
LEMMA TextGrows ==
  ASSUME StreamInv, TokensAreStrings, Advance \/ FillOne \/ UNCHANGED source
  PROVE  Len(source) \in Nat /\ Len(source') \in Nat /\ Len(source) <= Len(source')
<1>1. source \in Seq(STRING) /\ Len(source) \in Nat
  BY DEF StreamInv, StreamTypeOK
<1>2. CASE UNCHANGED source
  BY <1>1, <1>2
<1>3. CASE Scan /\ UNCHANGED kind
  <2>1. source' \in Seq(STRING) /\ Len(source') >= Len(source)
    BY <1>3, ScanNext
  <2> QED
    BY <1>1, <2>1
<1>4. Advance => (Scan /\ UNCHANGED kind) \/ UNCHANGED source
  BY DEF Advance
<1>5. FillOne => Scan /\ UNCHANGED kind
  BY DEF FillOne
<1> QED
  BY <1>2, <1>3, <1>4, <1>5

\* A step that makes no node.
LEMMA PlacesFrom ==
  ASSUME StreamInv, TokensAreStrings, PlacesInv,
         Advance \/ FillOne \/ UNCHANGED source,
         UNCHANGED <<nodes, statement, phase, kind>>,
         status' \in {"running", "returned", "exited", "crashed"},
         AllReady(todo', Len(source'))
  PROVE  PlacesInv'
<1>1. Len(source) \in Nat /\ Len(source') \in Nat /\ Len(source) <= Len(source')
  BY TextGrows
<1>2. Spans(nodes', Len(source')) /\ Spans(statement', Len(source'))
  BY <1>1, SpansGrow DEF PlacesInv
<1> QED
  BY <1>2 DEF PlacesInv

\* A step that goes on with instructions known to be ready.
LEMMA PlacesOn ==
  ASSUME StreamInv, TokensAreStrings, PlacesInv,
         Advance \/ FillOne \/ UNCHANGED source,
         UNCHANGED <<nodes, statement, phase, kind>>, todo # <<>>,
         NEW instructions, AllReady(instructions, Len(source')), Continue(instructions)
  PROVE  PlacesInv'
<1>1. Len(source) \in Nat /\ Len(source') \in Nat /\ Len(source) <= Len(source')
  BY TextGrows
<1>2. todo' = instructions \o Tail(todo) /\ status' = status
  BY DEF Continue
<1>3. AllReady(todo', Len(source'))
  BY <1>1, <1>2, ContinueKeeps
<1> QED
  BY <1>2, <1>3, PlacesFrom DEF PlacesInv

LEMMA PlacesEnd ==
  ASSUME StreamInv, TokensAreStrings, PlacesInv,
         Advance \/ FillOne \/ UNCHANGED source,
         UNCHANGED <<nodes, statement, phase, kind>>,
         NEW result \in {"exited", "crashed"}, End(result)
  PROVE  PlacesInv'
<1>1. status' = result /\ AllReady(todo', Len(source'))
  BY NoneReady DEF End
<1> QED
  BY <1>1, PlacesFrom

LEMMA PlacesAdvance ==
  ASSUME StreamInv, TokensAreStrings, PlacesInv, todo # <<>>, AdvanceAndContinue,
         UNCHANGED <<phase, nodes, statement>>
  PROVE  PlacesInv'
<1>1. Advance /\ UNCHANGED kind
  BY DEF AdvanceAndContinue, Advance
<1>2. End("exited") \/ Continue(<<>>)
  BY DEF AdvanceAndContinue
<1>3. AllReady(<<>>, Len(source'))
  BY NoneReady
<1>4. CASE End("exited")
  BY <1>1, <1>4, PlacesEnd
<1>5. CASE Continue(<<>>)
  BY <1>1, <1>3, <1>5, PlacesOn
<1> QED
  BY <1>2, <1>4, <1>5

LEMMA PlacesBranch ==
  ASSUME StreamInv, TokensAreStrings, PlacesInv, Branch
  PROVE  PlacesInv'
<1> DEFINE arms == Head(todo).arms
           taken == {i \in DOMAIN arms : CurrentIn(arms[i].types)}
           least == CHOOSE i \in taken : \A j \in taken : i <= j
           next == IF taken = {} THEN Head(todo).default ELSE arms[least].body
<1>1. Now("switch") /\ Continue(next) /\ UNCHANGED <<stream, phase, nodes, statement>>
  <2>1. Now("switch") /\ UNCHANGED <<stream, phase, nodes, statement>>
    BY DEF Branch
  <2>2. Continue(next)
    BY Zenon DEF Branch
  <2> HIDE DEF next
  <2> QED
    BY <2>1, <2>2
<1>2. Calm(Head(todo)) /\ Head(todo).do = "switch" /\ todo # <<>>
  BY <1>1, HeadIsCalm
<1>3. /\ AllCalm(Head(todo).default) /\ DOMAIN arms \subseteq Nat
      /\ \A i \in DOMAIN arms : AllCalm(arms[i].body)
  BY <1>2, CalmParts
<1>4. taken # {} => least \in DOMAIN arms
  <2>1. taken \subseteq DOMAIN arms /\ taken \subseteq Nat
    BY <1>3
  <2> HIDE DEF taken
  <2>2. taken # {} => \E i \in taken : \A j \in taken : i <= j
    BY <2>1, LeastNumber
  <2>3. taken # {} => least \in taken
    BY <2>2
  <2> HIDE DEF least
  <2> QED
    BY <2>1, <2>3
<1> HIDE DEF least
<1>5. AllCalm(next)
  BY <1>3, <1>4
<1> HIDE DEF next
<1>6. AllReady(next, Len(source'))
  BY <1>5, CalmIsReady
<1> QED
  BY <1>1, <1>2, <1>6, PlacesOn DEF stream

LEMMA PlacesOpen ==
  ASSUME StreamInv, TokensAreStrings, PlacesInv, OpenNode
  PROVE  PlacesInv'
<1> DEFINE node == Head(todo)
           close == [do |-> "close", node |-> node.node, from |-> current]
<1>1. Now("node") /\ Continue(node.body \o <<close>>) /\ UNCHANGED <<stream, phase, nodes, statement>>
  BY DEF OpenNode
<1>2. Calm(node) /\ node.do = "node" /\ todo # <<>>
  BY <1>1, HeadIsCalm
<1>3. AllReady(node.body, Len(source'))
  BY <1>2, CalmParts, CalmIsReady
<1>4. Ready(close, Len(source'))
  <2>1. current \in 0 .. Len(source) /\ source' = source
    BY <1>1 DEF StreamInv, StreamTypeOK, stream
  <2> QED
    BY <2>1 DEF Ready
<1> HIDE DEF close
<1>5. AllReady(<<close>>, Len(source'))
  <2> DEFINE R == {close}
  <2>1. <<close>> \in Seq(R) /\ \A x \in R : Ready(x, Len(source'))
    BY <1>4
  <2> HIDE DEF R
  <2> QED
    BY <2>1 DEF AllReady
<1> DEFINE next == node.body \o <<close>>
<1>6. AllReady(next, Len(source'))
  BY <1>3, <1>5, ReadyJoined
<1>7. Continue(next)
  BY <1>1 DEF close
<1> HIDE DEF next
<1> QED
  BY <1>1, <1>2, <1>6, <1>7, PlacesOn DEF stream

LEMMA PlacesMade ==
  ASSUME StreamInv, TokensAreStrings, PlacesInv, MakeNode
  PROVE  PlacesInv'
<1>1. Continue(<<>>) /\ UNCHANGED <<stream, phase, statement>> /\ todo # <<>>
  BY DEF MakeNode, Now
<1>2. source' = source /\ kind' = kind /\ Len(source) \in Nat
  BY <1>1 DEF StreamInv, StreamTypeOK, stream
<1>3. current \in 0 .. Len(source) /\ previous \in 0 .. Len(source)
  BY DEF StreamInv, StreamTypeOK
<1>4. \E n : nodes' = Append(nodes, n) /\ n.from \in 0 .. Len(source) /\ n.to \in 0 .. Len(source)
  <2> DEFINE made(from, to) == [node |-> Head(todo).node, from |-> from, to |-> to]
  <2>1. \/ Now("close") /\ nodes' = Append(nodes, made(Head(todo).from, previous))
        \/ nodes' = Append(nodes, made(previous, previous))
        \/ nodes' = Append(nodes, made(current, current))
    BY DEF MakeNode
  <2>2. \A from, to : made(from, to).from = from /\ made(from, to).to = to
    OBVIOUS
  <2> HIDE DEF made
  <2>3. Now("close") => Head(todo).from \in 0 .. Len(source)
    BY HeadIsCalm
  <2> QED
    BY <1>3, <2>1, <2>2, <2>3
<1>5. Spans(nodes', Len(source'))
  BY <1>2, <1>4, SpansAppended DEF PlacesInv
<1>6. todo' = <<>> \o Tail(todo) /\ status' = status
  BY <1>1 DEF Continue
<1>7. AllReady(todo', Len(source'))
  <2> DEFINE none == <<>>
  <2>1. AllReady(none, Len(source')) /\ todo' = none \o Tail(todo)
    BY <1>6, NoneReady
  <2>2. todo # <<>> /\ Len(source') \in Nat /\ Len(source) <= Len(source')
    BY <1>1, <1>2
  <2> HIDE DEF none
  <2> QED
    BY <1>2, <2>1, <2>2, ContinueKeeps
<1> QED
  BY <1>1, <1>2, <1>5, <1>6, <1>7 DEF PlacesInv

LEMMA PlacesNext ==
  ASSUME StreamInv, TokensAreStrings, PlacesInv, Next
  PROVE  PlacesInv'
<1>1. CASE Read
  BY <1>1, PlacesAdvance DEF Read, Now
<1>2. CASE Expect
  <2>1. todo # <<>> /\ UNCHANGED <<phase, nodes, statement>>
    BY <1>2 DEF Expect, Now
  <2>2. AdvanceAndContinue \/ (End("exited") /\ UNCHANGED stream)
    BY <1>2 DEF Expect
  <2>3. CASE AdvanceAndContinue
    BY <2>1, <2>3, PlacesAdvance
  <2>4. CASE End("exited") /\ UNCHANGED stream
    BY <2>1, <2>4, PlacesEnd DEF stream
  <2> QED
    BY <2>2, <2>3, <2>4
<1>3. CASE CallFunction
  <2>1. Calm(Head(todo)) /\ Head(todo).do = "call" /\ todo # <<>>
    BY <1>3, HeadIsCalm DEF CallFunction
  <2>2. AllCalm(Rules[Head(todo).function])
    BY <2>1, CalmParts, RulesAreCalm
  <2> DEFINE next == Rules[Head(todo).function]
  <2>3. AllReady(next, Len(source')) /\ Continue(next)
    BY <1>3, <2>2, CalmIsReady DEF CallFunction
  <2> HIDE DEF next
  <2> QED
    BY <1>3, <2>1, <2>3, PlacesOn DEF CallFunction, stream
<1>4. CASE ReadList
  <2> DEFINE f == Head(todo).function
             next == <<Call(f), At({"COMMA"}, <<Next1, Comma(f)>>, <<>>)>>
  <2>1. Calm(Head(todo)) /\ Head(todo).do = "list" /\ todo # <<>>
    BY <1>4, HeadIsCalm DEF ReadList
  <2>2. f \in DOMAIN Rules
    BY <2>1, CalmParts
  <2>3. AllCalm(next)
    <3> HIDE DEF f
    <3> QED
      BY <2>2, CalmLeaves, CalmBodies, CalmChoices
  <2>4. Continue(next) /\ UNCHANGED <<stream, phase, nodes, statement>>
    BY <1>4 DEF ReadList
  <2> HIDE DEF next
  <2>5. AllReady(next, Len(source'))
    BY <2>3, CalmIsReady
  <2> QED
    BY <2>1, <2>4, <2>5, PlacesOn DEF stream
<1>5. CASE Branch
  BY <1>5, PlacesBranch
<1>6. CASE LookAhead
  <2>1. FillOne /\ UNCHANGED <<phase, nodes, statement, kind>> /\ todo # <<>>
    BY <1>6 DEF LookAhead, FillOne, Now
  <2>2. End("exited") \/ UNCHANGED <<todo, status>>
    BY <1>6 DEF LookAhead
  <2>3. CASE End("exited")
    BY <2>1, <2>3, PlacesEnd
  <2>4. CASE UNCHANGED <<todo, status>>
    <3>1. Len(source) \in Nat /\ Len(source') \in Nat /\ Len(source) <= Len(source')
      BY <2>1, TextGrows
    <3>2. AllReady(todo', Len(source'))
      BY <2>4, <3>1, ReadyGrows DEF PlacesInv
    <3> QED
      BY <2>1, <2>4, <3>2, PlacesFrom DEF PlacesInv
  <2> QED
    BY <2>2, <2>3, <2>4
<1>7. CASE Decide
  <2> DEFINE next == IF Peek(Head(todo).n) = Head(todo).type THEN Head(todo).body
                     ELSE Head(todo).else
  <2>1. Calm(Head(todo)) /\ Head(todo).do = "look" /\ todo # <<>>
    BY <1>7, HeadIsCalm DEF Decide
  <2>2. Continue(next) /\ UNCHANGED <<stream, phase, nodes, statement>>
    BY <1>7 DEF Decide
  <2>3. AllCalm(next)
    BY <2>1, CalmParts
  <2> HIDE DEF next
  <2>4. AllReady(next, Len(source'))
    BY <2>3, CalmIsReady
  <2> QED
    BY <2>1, <2>2, <2>4, PlacesOn DEF stream
<1>8. CASE OpenNode
  BY <1>8, PlacesOpen
<1>9. CASE MakeNode
  BY <1>9, PlacesMade
<1>10. CASE Fail
  BY <1>10, PlacesEnd DEF Fail, stream
<1>11. CASE ParseAgain
  <2>1. /\ status' = status /\ phase' = "parse_new" /\ kind' = kind /\ source' = source
        /\ todo' = <<Next1, Call("parse_new")>> /\ statement' = nodes /\ nodes' = <<>>
    BY <1>11 DEF ParseAgain, StreamReset
  <2>2. AllReady(todo', Len(source'))
    <3>1. "parse_new" \in DOMAIN Rules
      BY DEF Rules
    <3>2. AllCalm(<<Next1, Call("parse_new")>>)
      BY <3>1, CalmLeaves, CalmBodies
    <3> QED
      BY <2>1, <3>2, CalmIsReady
  <2>3. Spans(<<>>, Len(source'))
    <3> DEFINE R == {}
    <3>1. <<>> \in Seq(R) /\ \A n \in R : n.from \in 0 .. Len(source') /\ n.to \in 0 .. Len(source')
      OBVIOUS
    <3> HIDE DEF R
    <3> QED
      BY <3>1 DEF Spans
  <2> QED
    BY <2>1, <2>2, <2>3 DEF PlacesInv
<1>12. CASE Return
  <2>1. todo' = todo /\ source' = source /\ status' = "returned" /\ UNCHANGED <<nodes, statement, phase, kind>>
    BY <1>12 DEF Return, stream
  <2> QED
    BY <2>1 DEF PlacesInv
<1>13. CASE Ended
  BY <1>13 DEF Ended, vars, stream, PlacesInv
<1> QED
  BY <1>1, <1>2, <1>3, <1>4, <1>5, <1>6, <1>7, <1>8, <1>9, <1>10, <1>11, <1>12, <1>13 DEF Next, Step

LEMMA PlacesInit == Init => PlacesInv
<1> SUFFICES ASSUME Init PROVE PlacesInv
  OBVIOUS
<1>1. /\ todo = <<Next1, Call(kind)>> /\ nodes = <<>> /\ statement = <<>>
      /\ kind \in {"parse", "create", "create_index"} /\ phase = kind /\ status = "running"
  BY DEF Init
<1>2. {"parse", "create", "create_index"} \subseteq DOMAIN Rules
  BY DEF Rules
<1>3. AllCalm(todo)
  BY <1>1, <1>2, CalmLeaves, CalmBodies
<1>4. Spans(<<>>, Len(source))
  <2> DEFINE R == {}
  <2>1. <<>> \in Seq(R) /\ \A n \in R : n.from \in 0 .. Len(source) /\ n.to \in 0 .. Len(source)
    OBVIOUS
  <2> HIDE DEF R
  <2> QED
    BY <2>1 DEF Spans
<1> QED
  BY <1>1, <1>3, <1>4, CalmIsReady DEF PlacesInv

LEMMA PlacesAlways ==
  ASSUME TokensAreStrings
  PROVE  Spec => []PlacesInv
<1>1. ASSUME StreamInv, PlacesInv, [Next]_vars
      PROVE  PlacesInv'
  <2>1. CASE UNCHANGED vars
    BY <1>1, <2>1 DEF vars, stream, PlacesInv
  <2> QED
    BY <1>1, <2>1, PlacesNext
<1>2. Spec => []StreamInv
  BY StreamInvariant
<1> QED
  BY <1>1, <1>2, PlacesInit, PTL DEF Spec

\* Whatever the text, every token is at a place of it that was scanned, and every
\* node of the two trees covers such tokens.
THEOREM TypesAreKept ==
  ASSUME TokensAreStrings
  PROVE  Spec => []TypeOK
<1>1. StreamInv /\ PlacesInv => TypeOK
  <2> SUFFICES ASSUME StreamInv, PlacesInv PROVE TypeOK
    OBVIOUS
  <2>1. \A n \in ToSet(nodes) \cup ToSet(statement) : {n.from, n.to} \subseteq 0 .. Len(source)
    BY SpansHold DEF PlacesInv
  <2> QED
    BY <2>1 DEF TypeOK, StreamInv, PlacesInv
<1> QED
  BY <1>1, StreamInvariant, PlacesAlways, PTL

\* No parse function looks further ahead than three tokens, so that a ring of that
\* size never overflows: the assertions of parser.c:102 and 117 hold for every text.
THEOREM LooksFitTheRing ==
  ASSUME TokensAreStrings, BufferSize >= 3
  PROVE  Spec => [](Now("look") => Head(todo).n \in 1 .. BufferSize)
<1>1. PlacesInv => (Now("look") => Head(todo).n \in 1 .. BufferSize)
  <2> SUFFICES ASSUME PlacesInv, Now("look") PROVE Head(todo).n \in 1 .. BufferSize
    OBVIOUS
  <2>1. Calm(Head(todo)) /\ Head(todo).do = "look"
    BY HeadIsCalm
  <2>2. Head(todo).n \in 1 .. 3
    BY <2>1, CalmParts
  <2> QED
    BY <2>2, BufferSizeAssumption
<1> QED
  BY <1>1, PlacesAlways, PTL
=============================================================================
