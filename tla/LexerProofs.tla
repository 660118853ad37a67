------------------------------ MODULE LexerProofs ------------------------------
(***************************************************************************)
(* Theorems about the scanner, for every alphabet, every table of reserved *)
(* words and every text.                                                   *)
(***************************************************************************)
EXTENDS Lexer, NumberLemmas, SequenceTheorems, FiniteSetTheorems

IsText == text \in Seq(ToSet(text) \ {"NUL"})

Places == 1 .. Len(text) + 1

-----------------------------------------------------------------------------
LEMMA Marked ==
  /\ \A c \in Alpha \cup Hex \cup Digits : c \notin Marks
  /\ \A c \in Alpha : c \notin Digits
  /\ \A c \in DOMAIN Symbols \cup DOMAIN Operators \cup DOMAIN OperatorsEqual : c \in Marks
BY LexerAssumption DEF Hex, Marks, Symbols, Operators, OperatorsEqual

\* The NUL is behind the text and nowhere else.
LEMMA TextEnds ==
  ASSUME IsText
  PROVE  /\ Len(text) \in Nat
         /\ \A i \in Int : i > Len(text) => At(i) = "NUL"
         /\ \A i \in 1 .. Len(text) : At(i) # "NUL"
<1>1. text \in Seq(ToSet(text) \ {"NUL"})
  BY DEF IsText
<1> DEFINE C == ToSet(text) \ {"NUL"}
<1> HIDE DEF C
<1>2. Len(text) \in Nat /\ \A i \in 1 .. Len(text) : text[i] \in C
  BY <1>1 DEF C
<1> QED
  BY <1>2 DEF At, C

\* The first place at or behind i with a property that the end has.
LEMMA FirstPlace ==
  ASSUME IsText, NEW i \in Places, NEW S, Len(text) + 1 \in S
  PROVE  \E j \in i .. Len(text) + 1 : j \in S /\ \A k \in i .. j - 1 : k \notin S
<1>1. Len(text) \in Nat
  BY TextEnds
<1> DEFINE T == {j \in i .. Len(text) + 1 : j \in S}
<1>2. T \subseteq Nat /\ T # {}
  BY <1>1 DEF Places
<1>3. PICK j \in T : \A m \in T : j <= m
  <2> HIDE DEF T
  <2> QED
    BY <1>2, LeastNumber
<1>4. \A k \in i .. j - 1 : k \notin S
  BY <1>1, <1>3 DEF Places
<1> QED
  BY <1>3, <1>4

LEMMA PastIs ==
  ASSUME IsText, NEW i \in Places, NEW chars, "NUL" \notin chars
  PROVE  /\ Past(i, chars) \in i .. Len(text) + 1
         /\ At(Past(i, chars)) \notin chars
         /\ \A k \in i .. Past(i, chars) - 1 : At(k) \in chars
<1> DEFINE S == {j \in Places : At(j) \notin chars}
<1>1. Len(text) + 1 \in S
  BY TextEnds DEF Places
<1>2. \E j \in i .. Len(text) + 1 : j \in S /\ \A k \in i .. j - 1 : k \notin S
  <2> HIDE DEF S
  <2> QED
    BY <1>1, FirstPlace
<1>3. \E j \in i .. Len(text) + 1 : At(j) \notin chars /\ \A k \in i .. j - 1 : At(k) \in chars
  BY <1>2, TextEnds DEF Places
<1> QED
  BY <1>3 DEF Past

LEMMA FindIs ==
  ASSUME IsText, NEW i \in Places, NEW c, c # "NUL"
  PROVE  /\ Find(i, c) \in i .. Len(text) + 1
         /\ At(Find(i, c)) \in {c, "NUL"}
         /\ \A k \in i .. Find(i, c) - 1 : At(k) # c
<1> DEFINE S == {j \in Places : At(j) \in {c, "NUL"}}
<1>1. Len(text) + 1 \in S
  BY TextEnds DEF Places
<1>2. \E j \in i .. Len(text) + 1 : j \in S /\ \A k \in i .. j - 1 : k \notin S
  <2> HIDE DEF S
  <2> QED
    BY <1>1, FirstPlace
<1>3. \E j \in i .. Len(text) + 1 : At(j) \in {c, "NUL"} /\ \A k \in i .. j - 1 : At(k) # c
  BY <1>2, TextEnds DEF Places
<1> QED
  BY <1>3 DEF Find
-----------------------------------------------------------------------------
IsBlank(i) == At(i) \in {"blank", "newline"}

IsCommentAt(i) == At(i) = "/" /\ At(i + 1) = "/"

\* What lies between two tokens.
IsSkipped(from, to) ==
  /\ to \in from .. Len(text) + 1
  /\ \A k \in from .. to - 1 : IsBlank(k) \/ InComment(from, k)

\* skip_whitespace stops at the first place that is not blank and no comment,
\* behind blanks and comments only.
LEMMA SkipIs ==
  ASSUME IsText, NEW i \in Places
  PROVE  /\ IsSkipped(i, SkipWhitespace(i))
         /\ ~ IsBlank(SkipWhitespace(i)) /\ ~ IsCommentAt(SkipWhitespace(i))
<1> DEFINE D == i .. Len(text) + 1
           Stop == {j \in D : ~ IsBlank(j) /\ ~ IsCommentAt(j)}
           value == [j \in D |-> j]
           next == [j \in D |-> IF IsBlank(j) THEN j + 1 ELSE Find(j, "newline")]
           rank == [j \in D |-> Len(text) + 1 - j]
           bound == Len(text) + 1
           Body(f, j) == IF At(j) \in {"blank", "newline"} THEN f[j + 1]
                         ELSE IF At(j) = "/" /\ At(j + 1) = "/" THEN f[Find(j, "newline")]
                         ELSE j
           F == CHOOSE f : f = [j \in D |-> Body(f, j)]
           Within == {j \in D : IsSkipped(i, j)}
           Results == {j \in Within : ~ IsBlank(j) /\ ~ IsCommentAt(j)}
<1>1. i \in Nat /\ Len(text) \in Nat /\ D \subseteq Places
  BY TextEnds DEF Places
<1>2. ASSUME NEW j \in D, j \notin Stop
      PROVE  next[j] \in D /\ next[j] > j /\ (IsSkipped(i, j) => IsSkipped(i, next[j]))
  <2>1. CASE IsBlank(j)
    <3>1. j <= Len(text)
      BY <1>1, <2>1, TextEnds DEF IsBlank
    <3>2. next[j] = j + 1
      BY <2>1
    <3>3. IsSkipped(i, j) => IsSkipped(i, j + 1)
      BY <1>1, <2>1, <3>1 DEF IsSkipped
    <3> QED
      BY <1>1, <3>1, <3>2, <3>3
  <2>2. CASE ~ IsBlank(j)
    <3>1. IsCommentAt(j) /\ next[j] = Find(j, "newline")
      BY <1>2, <2>2
    <3> DEFINE e == Find(j, "newline")
    <3>2. e \in j .. Len(text) + 1 /\ At(e) \in {"newline", "NUL"} /\ \A k \in j .. e - 1 : At(k) # "newline"
      BY <1>1, FindIs
    <3> HIDE DEF e
    <3>3. e > j
      BY <1>1, <3>1, <3>2 DEF IsCommentAt
    <3>4. ASSUME IsSkipped(i, j), NEW k \in i .. e - 1, ~ IsBlank(k)
          PROVE  InComment(i, k)
      <4>1. CASE k < j
        BY <1>1, <3>2, <3>4, <4>1 DEF IsSkipped
      <4>2. CASE k >= j
        <5>1. j \in i .. k /\ \A l \in j .. k : At(l) # "newline"
          BY <1>1, <3>2, <4>2
        <5> QED
          BY <3>1, <5>1 DEF InComment, IsCommentAt
      <4> QED
        BY <1>1, <3>2, <4>1, <4>2
    <3>5. IsSkipped(i, j) => IsSkipped(i, e)
      BY <1>1, <3>2, <3>4 DEF IsSkipped
    <3> QED
      BY <1>1, <3>1, <3>2, <3>3, <3>5 DEF e
  <2> QED
    BY <2>1, <2>2
<1>3. Descends(D, Stop, next, rank, bound)
  <2>1. rank \in [D -> 0 .. Len(text) + 1]
    BY <1>1
  <2>2. ASSUME NEW j \in D, j \notin Stop
        PROVE  next[j] \in D /\ rank[next[j]] < rank[j]
    <3>1. next[j] \in D /\ next[j] > j
      BY <1>2, <2>2
    <3> HIDE DEF next
    <3> QED
      BY <1>1, <3>1
  <2> HIDE DEF D, Stop, next, rank
  <2> QED
    BY <1>1, <2>1, <2>2 DEF Descends
<1>4. Recurses(F, D, Stop, value, next)
  <2>1. \A f : [j \in D |-> Body(f, j)] = [j \in D |-> IF j \in Stop THEN value[j] ELSE f[next[j]]]
    BY DEF IsBlank, IsCommentAt
  <2>2. \E f : Recurses(f, D, Stop, value, next)
    <3> HIDE DEF D, Stop, value, next, rank, bound
    <3> QED
      BY <1>3, TailRecursion
  <2> HIDE DEF D, Stop, value, next, Body
  <2>3. \E f : f = [j \in D |-> Body(f, j)]
    BY <2>1, <2>2 DEF Recurses
  <2>4. F = [j \in D |-> Body(F, j)]
    BY <2>3
  <2> HIDE DEF F
  <2> QED
    BY <2>1, <2>4 DEF Recurses
<1>5. Keeps(D, Stop, value, next, Within, Results)
  <2>1. ASSUME NEW j \in Within, j \notin Stop
        PROVE  next[j] \in Within
    BY <1>2, <2>1
  <2>2. ASSUME NEW j \in Within, j \in Stop
        PROVE  value[j] \in Results
    BY <2>2
  <2> QED
    BY <2>1, <2>2 DEF Keeps
<1>6. F[i] \in Results
  <2>1. i \in Within
    BY <1>1 DEF IsSkipped, Places
  <2> HIDE DEF D, Stop, value, next, rank, bound, Body, Within, F, Results
  <2>2. \A j \in Within : F[j] \in Results
    BY <1>3, <1>4, <1>5, TailRecursionResult
  <2> QED
    BY <2>1, <2>2
<1>7. SkipWhitespace(i) = F[i]
  BY DEF SkipWhitespace
<1> HIDE DEF F
<1> QED
  BY <1>6, <1>7
-----------------------------------------------------------------------------
(***************************************************************************)
(* The trie.  A node stands for the word that leads to it.                 *)
(***************************************************************************)
TokenTypes ==
  {"ERROR"} \cup UNION {{words[i].type : i \in DOMAIN words} : words \in Tables}

NodesOf(children) ==
  [sub_tries : [Letters -> children], end_of_word : BOOLEAN, token_type : TokenTypes]

Pools == {pool \in Seq(NodesOf(Nat)) : pool \in Seq(NodesOf(0 .. Len(pool))) /\ Len(pool) > 0}

Descending == {at \in [pool : Pools, curr : Nat] : at.curr \in 1 .. Len(at.pool)}

\* The words of the nodes, each of them that of a parent with a letter more.
IsSpelled(pool, spell) ==
  /\ spell \in [1 .. Len(pool) -> Seq(Letters)]
  /\ spell[1] = <<>>
  /\ \A m, n \in 1 .. Len(pool) : spell[m] = spell[n] => m = n
  /\ \A n \in 1 .. Len(pool), l \in Letters :
       pool[n].sub_tries[l] # 0 => spell[pool[n].sub_tries[l]] = Append(spell[n], l)
  /\ \A n \in 2 .. Len(pool) : \E m \in 1 .. Len(pool), l \in Letters : pool[m].sub_tries[l] = n

\* The first n characters of a word, in lower case.
Spelled(word, n) == [i \in 1 .. n |-> IF word[i] \in Alpha THEN Lower[word[i]] ELSE word[i]]

LEMMA PoolTypes ==
  ASSUME NEW pool \in Pools
  PROVE  /\ Len(pool) \in Nat \ {0}
         /\ \A n \in 1 .. Len(pool) :
              /\ pool[n] \in NodesOf(0 .. Len(pool))
              /\ pool[n].end_of_word \in BOOLEAN
              /\ \A l \in Letters : pool[n].sub_tries[l] \in 0 .. Len(pool)
<1>1. pool \in Seq(NodesOf(0 .. Len(pool))) /\ Len(pool) > 0
  BY DEF Pools
<1> DEFINE N == NodesOf(0 .. Len(pool))
<1>2. \A n \in 1 .. Len(pool) : pool[n] \in N
  <2> HIDE DEF N
  <2> QED
    BY <1>1 DEF N
<1>3. Len(pool) \in Nat
  BY <1>1
<1> QED
  BY <1>1, <1>2, <1>3 DEF NodesOf

LEMMA Lowered ==
  /\ \A c \in Alpha : Lower[c] \in Letters
  /\ Letters \subseteq Alpha
BY TrieAssumption DEF Alpha

LEMMA SpelledTypes ==
  ASSUME NEW pool, NEW spell, IsSpelled(pool, spell)
  PROVE  /\ \A n \in 1 .. Len(pool) : spell[n] \in Seq(Letters)
         /\ \A n \in 1 .. Len(pool), l \in Letters : \A m :
              m = pool[n].sub_tries[l] /\ m # 0 => spell[m] = Append(spell[n], l)
         /\ \A m, n \in 1 .. Len(pool) : spell[m] = spell[n] => m = n
         /\ \A n \in 2 .. Len(pool) : \E m \in 1 .. Len(pool), l \in Letters : pool[m].sub_tries[l] = n
<1>1. spell \in [1 .. Len(pool) -> Seq(Letters)]
  BY DEF IsSpelled
<1>2. \A n \in 1 .. Len(pool) : spell[n] \in Seq(Letters)
  <2> DEFINE W == Seq(Letters)
  <2> HIDE DEF W
  <2>1. spell \in [1 .. Len(pool) -> W]
    BY <1>1 DEF W
  <2>2. \A n \in 1 .. Len(pool) : spell[n] \in W
    BY <2>1
  <2> QED
    BY <2>2 DEF W
<1> QED
  BY <1>2, SMTT(30) DEF IsSpelled

\* Two words are one letter longer than equal words when they are equal.
LEMMA AppendedEqual ==
  ASSUME NEW S, NEW a \in Seq(S), NEW b \in Seq(S), NEW k \in S, NEW l \in S,
         Append(a, k) = Append(b, l)
  PROVE  a = b /\ k = l
<1>1. Len(a) = Len(b)
  BY AppendProperties
<1>2. k = l
  BY <1>1, AppendProperties
<1>3. \A i \in 1 .. Len(a) : a[i] = b[i]
  BY <1>1, AppendProperties
<1> QED
  BY <1>1, <1>2, <1>3

LEMMA SpelledMore ==
  ASSUME NEW word, NEW n \in Nat
  PROVE  /\ Spelled(word, 0) = <<>>
         /\ Spelled(word, n + 1) =
              Append(Spelled(word, n),
                     IF word[n + 1] \in Alpha THEN Lower[word[n + 1]] ELSE word[n + 1])
<1> DEFINE low(i) == IF word[i] \in Alpha THEN Lower[word[i]] ELSE word[i]
           s == [i \in 1 .. n |-> low(i)]
           t == [i \in 1 .. n + 1 |-> low(i)]
<1>1. s \in Seq({low(i) : i \in 1 .. n}) /\ Len(s) = n
  <2> HIDE DEF low
  <2> QED
    OBVIOUS
<1>2. t = Append(s, low(n + 1))
  <2> HIDE DEF low
  <2>1. Append(s, low(n + 1)) = [i \in 1 .. n + 1 |-> IF i = n + 1 THEN low(n + 1) ELSE s[i]]
    BY <1>1
  <2> QED
    BY <2>1
<1>3. Spelled(word, 0) = <<>>
  BY DEF Spelled
<1> QED
  BY <1>2, <1>3 DEF Spelled

\* The letter a character is taken for.
Letter(c) == IF c \in Alpha THEN Lower[c] ELSE c

\* A node's word ends with the letter its parent has it under.
LEMMA ParentOf ==
  ASSUME NEW pool \in Pools, NEW spell, IsSpelled(pool, spell),
         NEW n \in 1 .. Len(pool), NEW word, NEW k \in Nat, spell[n] = Spelled(word, k + 1)
  PROVE  /\ Letter(word[k + 1]) \in Letters
         /\ \E m \in 1 .. Len(pool) :
              spell[m] = Spelled(word, k) /\ pool[m].sub_tries[Letter(word[k + 1])] = n
<1> DEFINE s == Spelled(word, k)
           t == Spelled(word, k + 1)
<1>1. /\ s = [i \in 1 .. k |-> Letter(word[i])]
      /\ t = [i \in 1 .. k + 1 |-> Letter(word[i])]
  BY DEF Spelled, Letter
<1>2. Len(t) = k + 1 /\ t # <<>>
  <2> HIDE DEF s
  <2>1. t \in Seq({Letter(word[i]) : i \in 1 .. k + 1}) /\ Len(t) = k + 1
    BY <1>1
  <2> QED
    BY <2>1
<1>3. n # 1
  BY <1>2 DEF IsSpelled
<1>4. PICK m \in 1 .. Len(pool), l \in Letters : pool[m].sub_tries[l] = n
  BY <1>3, PoolTypes DEF IsSpelled
<1>5. t = Append(spell[m], l) /\ spell[m] \in Seq(Letters)
  <2> HIDE DEF s, t
  <2>1. pool[m].sub_tries[l] # 0
    BY <1>4
  <2>2. spell[pool[m].sub_tries[l]] = Append(spell[m], l)
    BY <2>1 DEF IsSpelled
  <2>3. spell[m] \in Seq(Letters)
    BY SpelledTypes
  <2> QED
    BY <1>4, <2>2, <2>3 DEF t
<1> HIDE DEF s, t
<1>6. Len(spell[m]) = k
  BY <1>2, <1>5
<1>7. \A i \in 1 .. k : spell[m][i] = Letter(word[i])
  BY <1>1, <1>5, <1>6
<1>8. l = Letter(word[k + 1])
  BY <1>1, <1>5, <1>6
<1>9. spell[m] = s
  BY <1>1, <1>5, <1>6, <1>7
<1> QED
  BY <1>4, <1>8, <1>9 DEF s

\* The recursion of Path.
LEMMA PathRecursion ==
  ASSUME NEW pool \in Pools, NEW word, Len(word) \in Nat
  PROVE  /\ Path(pool, word) \in [0 .. Len(word) -> 0 .. Len(pool)]
         /\ Path(pool, word)[0] = 1
         /\ \A n \in 1 .. Len(word) :
              Path(pool, word)[n] = Follow(pool, Path(pool, word)[n - 1], word[n])
<1> DEFINE D == 0 .. Len(pool)
           size == Len(word)
           one == 1
           Body(f, n) == IF n = 0 THEN 1 ELSE Follow(pool, f[n - 1], word[n])
           F == CHOOSE f : f = [n \in 0 .. size |-> Body(f, n)]
           step == [x \in D \X (1 .. size) |-> Follow(pool, x[1], word[x[2]])]
<1>1. IsStep(step, D, size) /\ one \in D
  <2>1. ASSUME NEW p \in D, NEW c PROVE Follow(pool, p, c) \in D
    <3>1. CASE p = 0 \/ c \notin DOMAIN Lower
      BY <3>1, PoolTypes DEF Follow
    <3>2. CASE p # 0 /\ c \in DOMAIN Lower
      BY <3>2, PoolTypes, Lowered DEF Follow, Alpha
    <3> QED
      BY <3>1, <3>2
  <2> HIDE DEF D
  <2>2. \A x \in D \X (1 .. size) : Follow(pool, x[1], word[x[2]]) \in D
    BY <2>1
  <2> QED
    BY <2>2, PoolTypes DEF IsStep, D
<1>2. \E f \in [0 .. size -> D] : f = [n \in 0 .. size |-> Body(f, n)]
  <2>1. PICK f : Iterates(f, D, size, one, step)
    <3> HIDE DEF D, step, one, size
    <3> QED
      BY <1>1, Iteration DEF size
  <2>2. ASSUME NEW n \in 0 .. size PROVE f[n] = Body(f, n)
    <3>1. CASE n = 0
      BY <2>1, <3>1 DEF Iterates
    <3>2. CASE n # 0
      <4>1. n \in 1 .. size /\ n - 1 \in 0 .. size
        BY <3>2
      <4>2. <<f[n - 1], n>> \in D \X (1 .. size)
        BY <2>1, <4>1 DEF Iterates
      <4>3. f[n] = step[<<f[n - 1], n>>]
        BY <2>1, <4>1 DEF Iterates
      <4> QED
        BY <3>2, <4>2, <4>3
    <3> QED
      BY <3>1, <3>2
  <2>3. f \in [0 .. size -> D]
    BY <2>1 DEF Iterates
  <2>4. f = [n \in 0 .. size |-> Body(f, n)]
    <3> HIDE DEF Body, D
    <3> QED
      BY <2>2, <2>3
  <2> QED
    BY <2>3, <2>4
<1>3. F = [n \in 0 .. size |-> Body(F, n)]
  <2> HIDE DEF Body
  <2> QED
    BY <1>2
<1>4. F[0] = 1 /\ \A n \in 1 .. size : F[n] = Follow(pool, F[n - 1], word[n])
  <2>1. \A n \in 0 .. size : F[n] = Body(F, n)
    <3> HIDE DEF F, Body
    <3> QED
      BY <1>3
  <2> HIDE DEF F
  <2>2. 0 \in 0 .. size /\ \A n \in 1 .. size : n \in 0 .. size /\ n # 0
    OBVIOUS
  <2> QED
    BY <2>1, <2>2
<1>5. F \in [0 .. size -> D]
  <2> DEFINE S == {n \in 0 .. size : F[n] \in D}
  <2> HIDE DEF F
  <2>1. 0 \in S
    BY <1>1, <1>4
  <2>2. ASSUME NEW n \in 0 .. size - 1, n \in S PROVE n + 1 \in S
    <3>1. n + 1 \in 1 .. size /\ (n + 1) - 1 = n
      OBVIOUS
    <3>2. step[<<F[n], n + 1>>] \in D
      BY <1>1, <2>2, <3>1 DEF IsStep
    <3>3. F[n + 1] = step[<<F[n], n + 1>>]
      BY <1>4, <2>2, <3>1
    <3> HIDE DEF D, step
    <3> QED
      BY <3>1, <3>2, <3>3
  <2>3. \A n \in 0 .. size : n \in S
    <3> HIDE DEF S, size
    <3> QED
      BY <2>1, <2>2, UpTo DEF size
  <2> HIDE DEF D, Body
  <2> QED
    BY <1>3, <2>3
<1>6. Path(pool, word) = F
  BY DEF Path
<1> HIDE DEF F
<1> QED
  BY <1>4, <1>5, <1>6

\* Path leads to the node whose word is the beginning of the word, if there is one.
LEMMA PathIs ==
  ASSUME NEW pool \in Pools, NEW spell, IsSpelled(pool, spell), NEW word, Len(word) \in Nat
  PROVE  \A n \in 0 .. Len(word), m \in 1 .. Len(pool) :
           spell[m] = Spelled(word, n) <=> m = Path(pool, word)[n]
<1> DEFINE path == Path(pool, word)
           Leads(n) == \A m \in 1 .. Len(pool) : spell[m] = Spelled(word, n) <=> m = path[n]
           S == {n \in 0 .. Len(word) : Leads(n)}
<1> HIDE DEF path
<1>1. /\ path \in [0 .. Len(word) -> 0 .. Len(pool)]
      /\ path[0] = 1
      /\ \A n \in 1 .. Len(word) : path[n] = Follow(pool, path[n - 1], word[n])
  BY PathRecursion DEF path
<1>2. 0 \in S
  <2>1. spell[1] = Spelled(word, 0) /\ 1 \in 1 .. Len(pool)
    BY SpelledMore, PoolTypes DEF IsSpelled
  <2> QED
    BY <1>1, <2>1 DEF IsSpelled
<1>3. ASSUME NEW n \in 0 .. Len(word) - 1, n \in S
      PROVE  n + 1 \in S
  <2> DEFINE c == word[n + 1]
             p == path[n]
             q == path[n + 1]
  <2>1. q = Follow(pool, p, c) /\ p \in 0 .. Len(pool) /\ q \in 0 .. Len(pool)
    BY <1>1
  <2>2. Leads(n) /\ n \in Nat
    BY <1>3
  <2> HIDE DEF p, q, c
  <2>3. ASSUME NEW m \in 1 .. Len(pool), spell[m] = Spelled(word, n + 1)
        PROVE  m = q
    <3>1. Letter(c) \in Letters
      BY <2>2, <2>3, ParentOf DEF c
    <3>2. PICK o \in 1 .. Len(pool) : spell[o] = Spelled(word, n) /\ pool[o].sub_tries[Letter(c)] = m
      BY <2>2, <2>3, ParentOf DEF c
    <3>3. o = p
      BY <2>2, <3>2, SMTT(30) DEF p
    <3>4. c \in Alpha
      BY <3>1, Lowered DEF Letter
    <3> QED
      BY <2>1, <3>2, <3>3, <3>4 DEF Follow, Letter, Alpha
  <2>4. ASSUME q # 0
        PROVE  spell[q] = Spelled(word, n + 1)
    <3>1. p # 0 /\ c \in Alpha /\ q = pool[p].sub_tries[Lower[c]]
      BY <2>1, <2>4 DEF Follow, Alpha
    <3>2. spell[p] = Spelled(word, n)
      BY <2>1, <2>2, <3>1 DEF p
    <3>3. spell[q] = Append(spell[p], Lower[c])
      BY <2>1, <2>4, <3>1, Lowered DEF IsSpelled
    <3> QED
      BY <2>2, <3>1, <3>2, <3>3, SpelledMore DEF c
  <2>5. Leads(n + 1)
    BY <2>1, <2>3, <2>4 DEF q
  <2> QED
    BY <2>5
<1>4. \A n \in 0 .. Len(word) : n \in S
  <2> DEFINE size == Len(word)
  <2> HIDE DEF S, size
  <2>1. \A n \in 0 .. size - 1 : n \in S => n + 1 \in S
    BY <1>3 DEF size
  <2>2. \A n \in 0 .. size : n \in S
    BY <1>2, <2>1, UpTo DEF size
  <2> QED
    BY <2>2 DEF size
<1> QED
  BY <1>4 DEF path

LEMMA PathType ==
  ASSUME NEW pool \in Pools, NEW word, Len(word) \in Nat
  PROVE  \A n \in 0 .. Len(word) : Path(pool, word)[n] \in 0 .. Len(pool)
BY PathRecursion
-----------------------------------------------------------------------------
\* What is kept of a pool when it grows.
IsGrown(pool, spell, at, longer) ==
  /\ at \in Descending
  /\ IsSpelled(at.pool, longer)
  /\ Len(pool) <= Len(at.pool)
  /\ \A n \in 1 .. Len(pool) :
       /\ longer[n] = spell[n]
       /\ at.pool[n].end_of_word = pool[n].end_of_word
       /\ at.pool[n].token_type = pool[n].token_type
  /\ \A n \in Len(pool) + 1 .. Len(at.pool) : ~ at.pool[n].end_of_word

\* A step down leads to the node with a letter more, a new one if there was none.
LEMMA DescendGrows ==
  ASSUME NEW at \in Descending, NEW spell, IsSpelled(at.pool, spell), NEW c \in Alpha
  PROVE  \E longer :
           /\ IsGrown(at.pool, spell, Descend(at, c), longer)
           /\ longer[Descend(at, c).curr] = Append(spell[at.curr], Lower[c])
<1> DEFINE l == Lower[c]
           next == at.pool[at.curr].sub_tries[l]
           size == Len(at.pool)
<1>1. l \in Letters /\ size \in Nat \ {0} /\ at.pool \in Pools /\ at.curr \in 1 .. size
      /\ next \in 0 .. size
  BY Lowered, PoolTypes DEF Descending
<1>2. \A o \in 1 .. Len(at.pool), j \in Letters : \A i :
        i = at.pool[o].sub_tries[j] /\ i # 0 => spell[i] = Append(spell[o], j)
  BY SpelledTypes
<1>3. CASE next # 0
  <2>1. Descend(at, c) = [pool |-> at.pool, curr |-> next]
    BY <1>3 DEF Descend, Descending
  <2>2. [pool |-> at.pool, curr |-> next] \in Descending
    BY <1>1, <1>3 DEF Descending
  <2>3. spell[next] = Append(spell[at.curr], l)
    BY <1>1, <1>3 DEF IsSpelled
  <2>4. IsGrown(at.pool, spell, [pool |-> at.pool, curr |-> next], spell)
    <3> HIDE DEF next
    <3> QED
      BY <1>1, <2>2 DEF IsGrown
  <2>5. spell[[pool |-> at.pool, curr |-> next].curr] = Append(spell[at.curr], l)
    BY <2>3
  <2> QED
    BY <2>1, <2>4, <2>5
<1>4. CASE next = 0
  <2> DEFINE linked == [at.pool EXCEPT ![at.curr].sub_tries[l] = size + 1]
             pool == Append(linked, Node)
             longer == [n \in 1 .. size + 1 |-> IF n = size + 1 THEN Append(spell[at.curr], l) ELSE spell[n]]
  <2>1. Descend(at, c) = [pool |-> pool, curr |-> size + 1]
    BY <1>4 DEF Descend
  <2>2. /\ Len(pool) = size + 1 /\ pool \in Seq(NodesOf(0 .. size + 1))
        /\ pool[size + 1] = Node
        /\ \A n \in 1 .. size :
             /\ pool[n].end_of_word = at.pool[n].end_of_word
             /\ pool[n].token_type = at.pool[n].token_type
             /\ \A k \in Letters :
                  pool[n].sub_tries[k] = IF n = at.curr /\ k = l THEN size + 1 ELSE at.pool[n].sub_tries[k]
    <3> DEFINE N == NodesOf(0 .. size + 1)
    <3>1. \A n \in 1 .. size :
            /\ at.pool[n] \in NodesOf(0 .. size)
            /\ linked[n] = IF n = at.curr THEN [at.pool[n] EXCEPT !.sub_tries[l] = size + 1] ELSE at.pool[n]
      <4>1. at.pool \in Seq(NodesOf(0 .. size))
        BY <1>1 DEF Pools
      <4>2. DOMAIN at.pool = 1 .. size
        BY <1>1, <4>1
      <4> QED
        BY <1>1, <4>2, PoolTypes
    <3>2. \A n \in 1 .. size :
            /\ linked[n] \in N
            /\ linked[n].end_of_word = at.pool[n].end_of_word
            /\ linked[n].token_type = at.pool[n].token_type
            /\ \A k \in Letters :
                  linked[n].sub_tries[k] = IF n = at.curr /\ k = l THEN size + 1 ELSE at.pool[n].sub_tries[k]
      <4> SUFFICES ASSUME NEW n \in 1 .. size PROVE
            /\ linked[n] \in N
            /\ linked[n].end_of_word = at.pool[n].end_of_word
            /\ linked[n].token_type = at.pool[n].token_type
            /\ \A k \in Letters :
                  linked[n].sub_tries[k] = IF n = at.curr /\ k = l THEN size + 1 ELSE at.pool[n].sub_tries[k]
        OBVIOUS
      <4> DEFINE node == at.pool[n]
      <4>1. node \in NodesOf(0 .. size) /\ node.sub_tries \in [Letters -> 0 .. size]
        BY <3>1 DEF NodesOf
      <4>2. linked[n] = IF n = at.curr THEN [node EXCEPT !.sub_tries[l] = size + 1] ELSE node
        BY <3>1
      <4> HIDE DEF node, linked
      <4>3. CASE n = at.curr
        <5>1. linked[n] = [node EXCEPT !.sub_tries[l] = size + 1]
          BY <4>2, <4>3
        <5>2. linked[n] = [node EXCEPT !.sub_tries = [node.sub_tries EXCEPT ![l] = size + 1]]
          BY <5>1
        <5> DEFINE subs == [node.sub_tries EXCEPT ![l] = size + 1]
        <5>3. subs \in [Letters -> 0 .. size + 1] /\ subs[l] = size + 1
              /\ \A k \in Letters : k # l => subs[k] = node.sub_tries[k]
          BY <1>1, <4>1
        <5> HIDE DEF subs
        <5>4. linked[n] = [node EXCEPT !.sub_tries = subs]
          BY <5>2 DEF subs
        <5>5. linked[n] \in N /\ linked[n].sub_tries = subs
          BY <4>1, <5>3, <5>4 DEF NodesOf
        <5>6. linked[n].end_of_word = node.end_of_word /\ linked[n].token_type = node.token_type
          BY <4>1, <5>4 DEF NodesOf
        <5> QED
          BY <4>3, <5>3, <5>5, <5>6 DEF node
      <4>4. CASE n # at.curr
        <5>1. linked[n] = node
          BY <4>2, <4>4
        <5>2. 0 .. size \subseteq 0 .. size + 1
          BY <1>1
        <5>3. node \in N
          BY <4>1, <5>2 DEF NodesOf
        <5> QED
          BY <4>4, <5>1, <5>3 DEF node
      <4> QED
        BY <4>3, <4>4
    <3>3. linked \in Seq(N) /\ Len(linked) = size
      <4>1. linked = [n \in 1 .. size |-> linked[n]]
        <5>1. DOMAIN at.pool = 1 .. size
          BY <1>1 DEF Pools
        <5> QED
          BY <5>1
      <4>2. \A n \in 1 .. size : linked[n] \in N
        BY <3>2
      <4> HIDE DEF linked, N, size
      <4>3. linked \in Seq(N)
        BY <1>1, <4>1, <4>2
      <4>4. Len(linked) = size
        BY <1>1, <4>1, <4>3
      <4> QED
        BY <4>3, <4>4
    <3>4. Node \in N
      <4>1. "ERROR" \in TokenTypes
        BY DEF TokenTypes
      <4> QED
        BY <1>1, <4>1 DEF Node, NodesOf
    <3> HIDE DEF linked, N
    <3>5. /\ Len(pool) = size + 1 /\ pool \in Seq(N) /\ pool[size + 1] = Node
          /\ \A n \in 1 .. size : pool[n] = linked[n]
      BY <1>1, <3>3, <3>4
    <3> HIDE DEF pool
    <3> QED
      BY <3>2, <3>5 DEF N
  <2> HIDE DEF pool
  <2>3. [pool |-> pool, curr |-> size + 1] \in Descending
    <3>1. NodesOf(0 .. size + 1) \subseteq NodesOf(Nat)
      BY <1>1 DEF NodesOf
    <3>2. pool \in Seq(NodesOf(Nat))
      <4> DEFINE N == NodesOf(0 .. size + 1)
                 M == NodesOf(Nat)
      <4> HIDE DEF N, M
      <4>1. pool \in Seq(N) /\ N \subseteq M
        BY <2>2, <3>1 DEF N, M
      <4>2. pool \in Seq(M)
        BY <4>1
      <4> QED
        BY <4>2 DEF M
    <3>3. pool \in Pools
      BY <1>1, <2>2, <3>2 DEF Pools
    <3> QED
      BY <1>1, <2>2, <3>3 DEF Descending
  <2>4. IsSpelled(pool, longer)
    <3> DEFINE new == Append(spell[at.curr], l)
    <3>1. new \in Seq(Letters) /\ spell[at.curr] \in Seq(Letters) /\ new # <<>>
      <4>1. spell[at.curr] \in Seq(Letters)
        BY <1>1, SpelledTypes
      <4> DEFINE a == spell[at.curr]
      <4> HIDE DEF a, l
      <4>2. Append(a, l) \in Seq(Letters) /\ Append(a, l) # <<>>
        BY <1>1, <4>1, AppendProperties DEF a
      <4> QED
        BY <4>1, <4>2 DEF a
    <3>2. \A n \in 1 .. size : longer[n] = spell[n] /\ spell[n] \in Seq(Letters)
      BY <1>1, SpelledTypes
    <3>3. longer[size + 1] = new
      BY <1>1
    <3>4. longer \in [1 .. Len(pool) -> Seq(Letters)] /\ longer[1] = <<>>
      <4>1. longer[1] = <<>>
        BY <1>1, <3>2 DEF IsSpelled
      <4>2. \A n \in 1 .. size + 1 : longer[n] \in Seq(Letters)
        <5> DEFINE W == Seq(Letters)
        <5> HIDE DEF W, longer, new
        <5>1. \A n \in 1 .. size : longer[n] \in W
          BY <3>2 DEF W
        <5>2. longer[size + 1] \in W
          BY <3>1, <3>3 DEF W
        <5>3. \A n \in 1 .. size + 1 : longer[n] \in W
          BY <1>1, <5>1, <5>2
        <5> QED
          BY <5>3 DEF W
      <4>3. longer = [n \in 1 .. size + 1 |-> longer[n]]
        OBVIOUS
      <4> HIDE DEF longer
      <4> QED
        BY <2>2, <4>1, <4>2, <4>3
    <3> HIDE DEF longer
    <3>5. ASSUME NEW n \in 1 .. size, spell[n] = new
          PROVE  FALSE
      <4>1. n # 1
        BY <3>1, <3>5 DEF IsSpelled
      <4>2. PICK m \in 1 .. size, k \in Letters : at.pool[m].sub_tries[k] = n
        BY <1>1, <4>1 DEF IsSpelled
      <4>3. spell[n] = Append(spell[m], k)
        <5>1. n = at.pool[m].sub_tries[k] /\ n # 0 /\ m \in 1 .. Len(at.pool)
          BY <4>2
        <5> QED
          BY <1>2, <5>1
      <4>4. spell[m] = spell[at.curr] /\ k = l
        <5> DEFINE a == spell[m]
                   b == spell[at.curr]
        <5>1. a \in Seq(Letters) /\ b \in Seq(Letters) /\ Append(a, k) = Append(b, l)
          BY <3>1, <3>2, <3>5, <4>3
        <5> HIDE DEF a, b
        <5> HIDE DEF l
        <5>2. a = b /\ k = l
          BY <1>1, <5>1, AppendedEqual
        <5> QED
          BY <5>2 DEF a, b
      <4>5. m = at.curr
        BY <1>1, <4>4 DEF IsSpelled
      <4> QED
        BY <1>1, <1>4, <4>2, <4>4, <4>5
    <3>6. \A m, n \in 1 .. Len(pool) : longer[m] = longer[n] => m = n
      <4>1. \A n \in 1 .. Len(pool) : n \in 1 .. size \/ n = size + 1
        BY <1>1, <2>2
      <4> QED
        BY <3>2, <3>3, <3>5, <4>1, ZenonT(40) DEF IsSpelled
    <3>7. ASSUME NEW n \in 1 .. Len(pool), NEW k \in Letters, pool[n].sub_tries[k] # 0
          PROVE  longer[pool[n].sub_tries[k]] = Append(longer[n], k)
      <4>1. CASE n = size + 1
        BY <2>2, <3>7, <4>1 DEF Node
      <4>2. CASE n \in 1 .. size /\ n = at.curr /\ k = l
        BY <2>2, <3>2, <3>3, <4>2
      <4>3. CASE n \in 1 .. size /\ ~ (n = at.curr /\ k = l)
        <5> DEFINE child == at.pool[n].sub_tries[k]
        <5>1. pool[n].sub_tries[k] = child
          BY <2>2, <4>3
        <5>2. child \in 1 .. size
          BY <1>1, <3>7, <4>3, <5>1, PoolTypes
        <5>3. spell[child] = Append(spell[n], k)
          <6>1. child = at.pool[n].sub_tries[k] /\ child # 0 /\ n \in 1 .. Len(at.pool)
            BY <1>1, <4>3, <5>2
          <6> HIDE DEF child
          <6> QED
            BY <1>2, <6>1
        <5> HIDE DEF child
        <5> QED
          BY <3>2, <4>3, <5>1, <5>2, <5>3
      <4> QED
        BY <1>1, <2>2, <4>1, <4>2, <4>3
    <3>8. ASSUME NEW n \in 2 .. Len(pool)
          PROVE  \E m \in 1 .. Len(pool), k \in Letters : pool[m].sub_tries[k] = n
      <4>1. CASE n = size + 1
        <5>1. pool[at.curr].sub_tries[l] = size + 1 /\ at.curr \in 1 .. Len(pool)
          BY <1>1, <2>2
        <5> QED
          BY <1>1, <4>1, <5>1
      <4>2. CASE n # size + 1
        <5>1. n \in 2 .. size
          BY <1>1, <2>2, <4>2
        <5>2. PICK m \in 1 .. size, k \in Letters : at.pool[m].sub_tries[k] = n
          BY <5>1 DEF IsSpelled
        <5>3. ~ (m = at.curr /\ k = l)
          BY <1>4, <5>1, <5>2
        <5>4. pool[m].sub_tries[k] = n /\ m \in 1 .. Len(pool)
          BY <1>1, <2>2, <5>2, <5>3
        <5> QED
          BY <5>4
      <4> QED
        BY <4>1, <4>2
    <3> QED
      BY <3>4, <3>6, <3>7, <3>8 DEF IsSpelled
  <2>5. IsGrown(at.pool, spell, [pool |-> pool, curr |-> size + 1], longer)
    <3>1. ~ Node.end_of_word
      BY DEF Node
    <3>2. \A n \in 1 .. size : longer[n] = spell[n]
      BY <1>1
    <3> HIDE DEF pool, longer
    <3>3. \A n \in size + 1 .. Len(pool) : n = size + 1
      BY <1>1, <2>2
    <3>4. size <= Len(pool)
      BY <1>1, <2>2
    <3> QED
      BY <1>1, <2>2, <2>3, <2>4, <3>1, <3>2, <3>3, <3>4 DEF IsGrown
  <2>6. longer[size + 1] = Append(spell[at.curr], l)
    BY <1>1
  <2> HIDE DEF pool, longer
  <2> QED
    BY <2>1, <2>5, <2>6
<1> QED
  BY <1>3, <1>4
-----------------------------------------------------------------------------
\* The recursion of Descents.
LEMMA DescentsRecursion ==
  ASSUME NEW pool \in Pools, NEW spell, IsSpelled(pool, spell), NEW word \in Seq(Alpha)
  PROVE  /\ Descents(pool, word)[0] = [pool |-> pool, curr |-> 1]
         /\ \A n \in 1 .. Len(word) :
              Descents(pool, word)[n] = Descend(Descents(pool, word)[n - 1], word[n])
<1> DEFINE D == {at \in Descending : \E s : IsSpelled(at.pool, s)}
           size == Len(word)
           root == [pool |-> pool, curr |-> 1]
           Body(f, n) == IF n = 0 THEN root ELSE Descend(f[n - 1], word[n])
           F == CHOOSE f : f = [n \in 0 .. size |-> Body(f, n)]
           step == [x \in D \X (1 .. size) |-> Descend(x[1], word[x[2]])]
<1>1. IsStep(step, D, size) /\ root \in D
  <2>1. \A at \in D, c \in Alpha : Descend(at, c) \in D
    BY DescendGrows DEF IsGrown
  <2>2. \A i \in 1 .. size : word[i] \in Alpha
    OBVIOUS
  <2>3. root \in D
    BY PoolTypes DEF Descending
  <2> HIDE DEF D, root
  <2>4. \A x \in D \X (1 .. size) : Descend(x[1], word[x[2]]) \in D
    BY <2>1, <2>2
  <2> QED
    BY <2>3, <2>4 DEF IsStep
<1>2. \E f \in [0 .. size -> D] : f = [n \in 0 .. size |-> Body(f, n)]
  <2>1. PICK f : Iterates(f, D, size, root, step)
    <3>1. size \in Nat
      OBVIOUS
    <3> HIDE DEF D, step, root, size
    <3> QED
      BY <1>1, <3>1, Iteration
  <2> HIDE DEF D
  <2>2. ASSUME NEW n \in 0 .. size PROVE f[n] = Body(f, n)
    <3>1. CASE n = 0
      BY <2>1, <3>1 DEF Iterates
    <3>2. CASE n # 0
      <4>1. n \in 1 .. size /\ n - 1 \in 0 .. size
        BY <3>2
      <4>2. <<f[n - 1], n>> \in D \X (1 .. size)
        BY <2>1, <4>1 DEF Iterates
      <4>3. f[n] = step[<<f[n - 1], n>>]
        BY <2>1, <4>1 DEF Iterates
      <4> QED
        BY <3>2, <4>2, <4>3
    <3> QED
      BY <3>1, <3>2
  <2>3. f \in [0 .. size -> D]
    BY <2>1 DEF Iterates
  <2>4. f = [n \in 0 .. size |-> Body(f, n)]
    <3> HIDE DEF Body
    <3> QED
      BY <2>2, <2>3
  <2> QED
    BY <2>3, <2>4
<1>3. F = [n \in 0 .. size |-> Body(F, n)]
  <2> HIDE DEF Body
  <2> QED
    BY <1>2
<1>4. F[0] = root /\ \A n \in 1 .. size : F[n] = Descend(F[n - 1], word[n])
  <2>1. \A n \in 0 .. size : F[n] = Body(F, n)
    <3> HIDE DEF F, Body
    <3> QED
      BY <1>3
  <2> HIDE DEF F
  <2>2. 0 \in 0 .. size /\ \A n \in 1 .. size : n \in 0 .. size /\ n # 0
    OBVIOUS
  <2> QED
    BY <2>1, <2>2
<1>5. Descents(pool, word) = F
  BY DEF Descents
<1> HIDE DEF F
<1> QED
  BY <1>4, <1>5

LEMMA GrownTwice ==
  ASSUME NEW pool \in Pools, NEW spell, NEW at, NEW longer, NEW last, NEW longest,
         IsGrown(pool, spell, at, longer), IsGrown(at.pool, longer, last, longest)
  PROVE  IsGrown(pool, spell, last, longest)
<1>1. Len(pool) \in Nat /\ Len(at.pool) \in Nat /\ Len(last.pool) \in Nat
  BY PoolTypes DEF IsGrown, Descending
<1>2. Len(pool) <= Len(at.pool) /\ Len(at.pool) <= Len(last.pool)
  BY DEF IsGrown
<1>3. \A n \in 1 .. Len(pool) : n \in 1 .. Len(at.pool)
  BY <1>1, <1>2
<1>4. ASSUME NEW n \in Len(pool) + 1 .. Len(last.pool)
      PROVE  ~ last.pool[n].end_of_word
  <2>1. CASE n \in Len(pool) + 1 .. Len(at.pool)
    <3>1. n \in 1 .. Len(at.pool)
      BY <1>1, <2>1
    <3>2. ~ at.pool[n].end_of_word
      BY <2>1 DEF IsGrown
    <3> QED
      BY <3>1, <3>2 DEF IsGrown
  <2>2. CASE n \in Len(at.pool) + 1 .. Len(last.pool)
    BY <2>2 DEF IsGrown
  <2> QED
    BY <1>1, <1>2, <2>1, <2>2
<1> QED
  BY <1>1, <1>2, <1>3, <1>4 DEF IsGrown

\* The nodes of a word's beginnings are there in the end, and no node is lost.
LEMMA DescentsIs ==
  ASSUME NEW pool \in Pools, NEW spell, IsSpelled(pool, spell), NEW word \in Seq(Alpha)
  PROVE  \E longer :
           /\ IsGrown(pool, spell, Descents(pool, word)[Len(word)], longer)
           /\ longer[Descents(pool, word)[Len(word)].curr] = Spelled(word, Len(word))
<1> DEFINE at == Descents(pool, word)
           Spells(n, longer) == /\ IsGrown(pool, spell, at[n], longer)
                                /\ longer[at[n].curr] = Spelled(word, n)
           S == {n \in 0 .. Len(word) : \E longer : Spells(n, longer)}
           size == Len(word)
<1> HIDE DEF at
<1>1. at[0] = [pool |-> pool, curr |-> 1] /\ \A n \in 1 .. size : at[n] = Descend(at[n - 1], word[n])
  BY DescentsRecursion DEF at
<1>2. 0 \in S
  <2>1. at[0] \in Descending /\ at[0].pool = pool /\ at[0].curr = 1 /\ Len(pool) \in Nat
    BY <1>1, PoolTypes DEF Descending
  <2>2. spell[1] = Spelled(word, 0)
    BY SpelledMore DEF IsSpelled
  <2>3. Spells(0, spell)
    BY <2>1, <2>2 DEF IsGrown
  <2> QED
    BY <2>3
<1>3. ASSUME NEW n \in 0 .. size - 1, n \in S
      PROVE  n + 1 \in S
  <2>1. PICK longer : Spells(n, longer)
    BY <1>3
  <2> DEFINE c == word[n + 1]
  <2>2. n + 1 \in 1 .. size /\ (n + 1) - 1 = n /\ n \in Nat
    OBVIOUS
  <2>3. c \in Alpha
    BY <2>2
  <2>4. at[n + 1] = Descend(at[n], c)
    BY <1>1, <2>2
  <2> HIDE DEF c
  <2>5. at[n] \in Descending /\ IsSpelled(at[n].pool, longer)
    BY <2>1 DEF IsGrown
  <2>6. PICK longest : /\ IsGrown(at[n].pool, longer, at[n + 1], longest)
                       /\ longest[at[n + 1].curr] = Append(longer[at[n].curr], Lower[c])
    BY <2>3, <2>4, <2>5, DescendGrows
  <2>7. IsGrown(pool, spell, at[n + 1], longest)
    BY <2>1, <2>6, GrownTwice
  <2>8. longest[at[n + 1].curr] = Spelled(word, n + 1)
    BY <2>1, <2>2, <2>3, <2>6, SpelledMore DEF c
  <2> QED
    BY <2>2, <2>7, <2>8
<1>4. \A n \in 0 .. size : n \in S
  <2>1. size \in Nat
    OBVIOUS
  <2> HIDE DEF S, size
  <2> QED
    BY <1>2, <1>3, <2>1, UpTo DEF size
<1>5. size \in S
  <2>1. size \in 0 .. size
    OBVIOUS
  <2> HIDE DEF S, size
  <2> QED
    BY <1>4, <2>1
<1> QED
  BY <1>5 DEF at
-----------------------------------------------------------------------------
(***************************************************************************)
(* Filling the trie.                                                       *)
(***************************************************************************)
\* The first k words of the table are in the trie, each under its last type.
IsFilled(words, pool, spell, k) ==
  /\ \A n \in 1 .. Len(pool) : pool[n].end_of_word =>
       \E i \in 1 .. k : /\ spell[n] = LowerCase(words[i].word)
                         /\ pool[n].token_type = words[i].type
                         /\ \A j \in 1 .. k : spell[n] = LowerCase(words[j].word) => j <= i
  /\ \A i \in 1 .. k : \E n \in 1 .. Len(pool) :
       spell[n] = LowerCase(words[i].word) /\ pool[n].end_of_word

TrieInv ==
  /\ table \in Tables
  /\ filled \in Nat
  /\ status # "exited" =>
       /\ trie_status = "open"
       /\ filled <= Len(table)
       /\ nodes \in Pools
       /\ \E spell : IsSpelled(nodes, spell) /\ IsFilled(table, nodes, spell, filled)

LEMMA TableTypes ==
  ASSUME table \in Tables
  PROVE  /\ Len(table) \in Nat
         /\ \A i \in 1 .. Len(table) :
              /\ table[i].word \in Seq(Alpha)
              /\ table[i].type \in TokenTypes /\ table[i].type \notin OwnTypes
<1>1. table \in Seq(ToSet(table))
  BY LexerAssumption
<1>2. Len(table) \in Nat /\ DOMAIN table = 1 .. Len(table)
  <2> DEFINE S == ToSet(table)
  <2> HIDE DEF S
  <2>1. table \in Seq(S)
    BY <1>1 DEF S
  <2> QED
    BY <2>1
<1>3. \A i \in DOMAIN table : table[i].word \in Seq(Alpha) /\ table[i].type \notin OwnTypes
  BY LexerAssumption
<1> QED
  BY <1>2, <1>3 DEF TokenTypes

LEMMA LowerCaseIs ==
  ASSUME NEW word, NEW S, word \in Seq(S)
  PROVE  LowerCase(word) = Spelled(word, Len(word)) /\ Len(word) \in Nat
<1>1. DOMAIN word = 1 .. Len(word) /\ Len(word) \in Nat
  OBVIOUS
<1> QED
  BY <1>1 DEF LowerCase, Spelled

LEMMA TrieInitInv == Init => TrieInv
<1> SUFFICES ASSUME Init PROVE TrieInv
  OBVIOUS
<1> DEFINE spell == [n \in 1 .. 1 |-> <<>>]
<1>1. nodes = <<Node>> /\ trie_status = "open" /\ table \in Tables /\ filled = 0
  BY DEF Init, TrieInit
<1>2. Len(nodes) = 1 /\ nodes[1] = Node
  BY <1>1
<1>3. nodes \in Pools
  <2>1. Node \in NodesOf(0 .. 1) /\ Node \in NodesOf(Nat)
    BY DEF Node, NodesOf, TokenTypes
  <2>2. nodes \in Seq(NodesOf(0 .. 1)) /\ nodes \in Seq(NodesOf(Nat))
    <3> DEFINE N == NodesOf(0 .. 1)
               M == NodesOf(Nat)
    <3> HIDE DEF N, M
    <3>1. Node \in N /\ Node \in M
      BY <2>1 DEF N, M
    <3>2. <<Node>> \in Seq(N) /\ <<Node>> \in Seq(M)
      BY <3>1
    <3> QED
      BY <1>1, <3>2 DEF N, M
  <2>3. 0 .. 1 = 0 .. Len(nodes) /\ Len(nodes) > 0
    BY <1>2
  <2> QED
    BY <2>2, <2>3 DEF Pools
<1>4. IsSpelled(nodes, spell)
  <2>1. spell \in [1 .. 1 -> Seq(Letters)] /\ spell[1] = <<>>
    <3>1. <<>> \in Seq(Letters)
      OBVIOUS
    <3> DEFINE W == Seq(Letters)
               empty == <<>>
    <3> HIDE DEF W, empty
    <3>2. [n \in 1 .. 1 |-> empty] \in [1 .. 1 -> W] /\ [n \in 1 .. 1 |-> empty][1] = empty
      BY <3>1 DEF W, empty
    <3> QED
      BY <3>2 DEF W, empty
  <2>2. \A l \in Letters : nodes[1].sub_tries[l] = 0
    BY <1>2 DEF Node
  <2> HIDE DEF spell
  <2> QED
    BY <1>2, <2>1, <2>2 DEF IsSpelled
<1>5. IsFilled(table, nodes, spell, 0)
  BY <1>2 DEF IsFilled, Node
<1>6. 0 <= Len(table)
  BY <1>1, TableTypes
<1> HIDE DEF spell
<1> QED
  BY <1>1, <1>3, <1>4, <1>5, <1>6 DEF TrieInv

\* A node's word, its end and type apart, is that of its path.
LEMMA SpelledKept ==
  ASSUME NEW pool, NEW other, NEW spell, IsSpelled(pool, spell), Len(other) = Len(pool),
         \A n \in 1 .. Len(pool) : other[n].sub_tries = pool[n].sub_tries
  PROVE  IsSpelled(other, spell)
<1>1. DOMAIN spell = 1 .. Len(other) /\ spell \in [1 .. Len(other) -> Seq(Letters)]
  BY DEF IsSpelled
<1>2. \A n \in 1 .. Len(other) : other[n].sub_tries = pool[n].sub_tries
  OBVIOUS
<1>3. \A n \in 2 .. Len(other) : \E m \in 1 .. Len(other), l \in Letters : other[m].sub_tries[l] = n
  BY <1>2, SpelledTypes
<1>4. \A n \in 1 .. Len(other), l \in Letters :
        other[n].sub_tries[l] # 0 => spell[other[n].sub_tries[l]] = Append(spell[n], l)
  BY <1>2, SMTT(30) DEF IsSpelled
<1>5. spell[1] = <<>> /\ \A m, n \in 1 .. Len(other) : spell[m] = spell[n] => m = n
  BY DEF IsSpelled
<1> QED
  BY <1>1, <1>3, <1>4, <1>5 DEF IsSpelled

LEMMA EndWordSets ==
  ASSUME NEW pool \in Pools, NEW m \in 1 .. Len(pool), NEW type \in TokenTypes
  PROVE  /\ [pool EXCEPT ![m] = EndWord(@, type)] \in Pools
         /\ Len([pool EXCEPT ![m] = EndWord(@, type)]) = Len(pool)
         /\ \A n \in 1 .. Len(pool) :
              LET node == [pool EXCEPT ![m] = EndWord(@, type)][n] IN
              /\ node.sub_tries = pool[n].sub_tries
              /\ node.end_of_word = (n = m \/ pool[n].end_of_word)
              /\ node.token_type = IF n = m THEN type ELSE pool[n].token_type
<1> DEFINE other == [pool EXCEPT ![m] = EndWord(@, type)]
           size == Len(pool)
           ended == [pool[m] EXCEPT !.end_of_word = TRUE, !.token_type = type]
<1>1. size \in Nat \ {0} /\ pool \in Seq(NodesOf(0 .. size)) /\ DOMAIN pool = 1 .. size
  BY PoolTypes DEF Pools
<1>2. other = [n \in 1 .. size |-> IF n = m THEN ended ELSE pool[n]]
  BY <1>1 DEF EndWord
<1>3. /\ ended \in NodesOf(0 .. size) /\ ended.sub_tries = pool[m].sub_tries
      /\ ended.end_of_word = TRUE /\ ended.token_type = type
  <2>1. pool[m] \in NodesOf(0 .. size)
    BY PoolTypes
  <2> DEFINE node == pool[m]
  <2> HIDE DEF node, size
  <2> QED
    BY <2>1 DEF NodesOf, node
<1> HIDE DEF other, ended
<1>4. \A n \in 1 .. size : other[n] \in NodesOf(0 .. size)
  BY <1>2, <1>3, PoolTypes
<1>5. Len(other) = size /\ other \in Seq(NodesOf(0 .. size))
  <2> DEFINE N == NodesOf(0 .. size)
  <2> HIDE DEF N, size
  <2>1. \A n \in 1 .. size : other[n] \in N
    BY <1>4 DEF N
  <2>2. other = [n \in 1 .. size |-> other[n]]
    BY <1>2
  <2>3. other \in Seq(N)
    BY <1>1, <2>1, <2>2
  <2>4. Len(other) = size
    BY <1>1, <2>2, <2>3
  <2> QED
    BY <2>3, <2>4 DEF N
<1>6. other \in Seq(NodesOf(Nat))
  <2> DEFINE N == NodesOf(0 .. size)
             M == NodesOf(Nat)
  <2>1. N \subseteq M
    BY <1>1 DEF NodesOf
  <2> HIDE DEF N, M
  <2>2. other \in Seq(M)
    BY <1>5, <2>1 DEF N
  <2> QED
    BY <2>2 DEF M
<1>7. other \in Pools
  BY <1>1, <1>5, <1>6 DEF Pools
<1>8. \A n \in 1 .. size : /\ other[n].sub_tries = pool[n].sub_tries
                          /\ other[n].end_of_word = (n = m \/ pool[n].end_of_word)
                          /\ other[n].token_type = IF n = m THEN type ELSE pool[n].token_type
  <2> SUFFICES ASSUME NEW n \in 1 .. size
               PROVE  /\ other[n].sub_tries = pool[n].sub_tries
                      /\ other[n].end_of_word = (n = m \/ pool[n].end_of_word)
                      /\ other[n].token_type = IF n = m THEN type ELSE pool[n].token_type
    OBVIOUS
  <2>1. CASE n = m
    BY <1>2, <1>3, <2>1
  <2>2. CASE n # m
    <3>1. other[n] = pool[n] /\ pool[n].end_of_word \in BOOLEAN
      BY <1>2, <2>2, PoolTypes
    <3> QED
      BY <2>2, <3>1
  <2> QED
    BY <2>1, <2>2
<1> QED
  BY <1>5, <1>7, <1>8 DEF other

\* A word more: it is in the trie under its type, which no other word's node gets.
LEMMA AddWordFills ==
  ASSUME TrieInv, status = "filling", AddReservedWord, trie_status' # "exited"
  PROVE  nodes' \in Pools /\ \E spell : IsSpelled(nodes', spell) /\ IsFilled(table, nodes', spell, filled + 1)
<1> DEFINE entry == table[filled + 1]
           end == Descents(nodes, entry.word)[Len(entry.word)]
           m == end.curr
<1>1. filled \in Nat /\ filled + 1 \in 1 .. Len(table) /\ table \in Tables /\ nodes \in Pools
  BY TableTypes DEF TrieInv, AddReservedWord
<1>2. entry.word \in Seq(Alpha) /\ entry.type \in TokenTypes
  BY <1>1, TableTypes
<1>3. PICK spell : IsSpelled(nodes, spell) /\ IsFilled(table, nodes, spell, filled)
  BY DEF TrieInv
<1> HIDE DEF entry
<1>4. PICK longer : IsGrown(nodes, spell, end, longer) /\ longer[m] = Spelled(entry.word, Len(entry.word))
  BY <1>1, <1>2, <1>3, DescentsIs
<1>5. nodes' = [end.pool EXCEPT ![m] = EndWord(@, entry.type)]
  BY DEF AddReservedWord, AddWord, entry
<1> HIDE DEF end
<1>6. end.pool \in Pools /\ m \in 1 .. Len(end.pool) /\ IsSpelled(end.pool, longer)
  BY <1>4 DEF IsGrown, Descending
<1>7. /\ nodes' \in Pools /\ Len(nodes') = Len(end.pool)
      /\ \A n \in 1 .. Len(end.pool) :
           /\ nodes'[n].sub_tries = end.pool[n].sub_tries
           /\ nodes'[n].end_of_word = (n = m \/ end.pool[n].end_of_word)
           /\ nodes'[n].token_type = IF n = m THEN entry.type ELSE end.pool[n].token_type
  BY <1>2, <1>5, <1>6, EndWordSets
<1>8. IsSpelled(nodes', longer)
  BY <1>6, <1>7, SpelledKept
<1>9. longer[m] = LowerCase(entry.word)
  BY <1>2, <1>4, LowerCaseIs
<1>10. \A n \in 1 .. Len(nodes) :
         /\ n \in 1 .. Len(end.pool) /\ longer[n] = spell[n]
         /\ end.pool[n].end_of_word = nodes[n].end_of_word
         /\ end.pool[n].token_type = nodes[n].token_type
  <2>1. Len(nodes) \in Nat /\ Len(end.pool) \in Nat /\ Len(nodes) <= Len(end.pool)
    BY <1>1, <1>4, <1>6, PoolTypes DEF IsGrown
  <2> QED
    BY <1>4, <2>1 DEF IsGrown
<1>11. \A n \in 1 .. Len(end.pool) : end.pool[n].end_of_word => n \in 1 .. Len(nodes)
  <2>1. Len(nodes) \in Nat /\ Len(end.pool) \in Nat
    BY <1>1, <1>6, PoolTypes
  <2>2. \A n \in 1 .. Len(end.pool) : n \in 1 .. Len(nodes) \/ n \in Len(nodes) + 1 .. Len(end.pool)
    BY <2>1
  <2> QED
    BY <1>4, <2>2 DEF IsGrown
<1>12. ASSUME NEW n \in 1 .. Len(nodes'), nodes'[n].end_of_word
       PROVE  \E i \in 1 .. filled + 1 :
                /\ longer[n] = LowerCase(table[i].word)
                /\ nodes'[n].token_type = table[i].type
                /\ \A j \in 1 .. filled + 1 : longer[n] = LowerCase(table[j].word) => j <= i
  <2>1. CASE n = m
    <3>1. longer[n] = LowerCase(table[filled + 1].word) /\ nodes'[n].token_type = table[filled + 1].type
      BY <1>6, <1>7, <1>9, <2>1 DEF entry
    <3>2. filled + 1 \in 1 .. filled + 1 /\ \A j \in 1 .. filled + 1 : j <= filled + 1
      BY <1>1
    <3> QED
      BY <3>1, <3>2
  <2>2. CASE n # m
    <3>1. n \in 1 .. Len(nodes) /\ nodes[n].end_of_word /\ nodes'[n].token_type = nodes[n].token_type
          /\ longer[n] = spell[n]
      BY <1>7, <1>10, <1>11, <1>12, <2>2
    <3>2. PICK i \in 1 .. filled :
            /\ spell[n] = LowerCase(table[i].word)
            /\ nodes[n].token_type = table[i].type
            /\ \A j \in 1 .. filled : spell[n] = LowerCase(table[j].word) => j <= i
      BY <1>3, <3>1 DEF IsFilled
    <3>3. longer[n] # LowerCase(table[filled + 1].word)
      BY <1>6, <1>7, <1>9, <1>12, <2>2, SpelledTypes DEF entry
    <3>4. \A j \in 1 .. filled + 1 : j \in 1 .. filled \/ j = filled + 1
      BY <1>1
    <3>5. i \in 1 .. filled + 1
      BY <1>1
    <3> QED
      BY <3>1, <3>2, <3>3, <3>4, <3>5
  <2> QED
    BY <2>1, <2>2
<1>13. ASSUME NEW i \in 1 .. filled + 1
       PROVE  \E n \in 1 .. Len(nodes') : longer[n] = LowerCase(table[i].word) /\ nodes'[n].end_of_word
  <2>1. CASE i = filled + 1
    BY <1>6, <1>7, <1>9, <2>1 DEF entry
  <2>2. CASE i # filled + 1
    <3>1. i \in 1 .. filled
      BY <1>1, <2>2
    <3>2. PICK n \in 1 .. Len(nodes) : spell[n] = LowerCase(table[i].word) /\ nodes[n].end_of_word
      BY <1>3, <3>1 DEF IsFilled
    <3> QED
      BY <1>7, <1>10, <3>2
  <2> QED
    BY <2>1, <2>2
<1>14. IsFilled(table, nodes', longer, filled + 1)
  BY <1>12, <1>13 DEF IsFilled
<1> QED
  BY <1>7, <1>8, <1>14

LEMMA ScanKeeps ==
  ScanToken => status = "scanning" /\ status' # "exited"
               /\ UNCHANGED <<nodes, trie_status, table, filled, text>>
<1> USE DEF Ready, TokenOf, MakeToken, ErrorToken
<1>1. ScanEnd \/ Identifier \/ Number \/ Unexpected =>
        status = "scanning" /\ status' # "exited" /\ UNCHANGED <<nodes, trie_status, table, filled, text>>
  BY DEF ScanEnd, Identifier, Number, Unexpected
<1>2. Blob \/ BlobOverrun =>
        status = "scanning" /\ status' # "exited" /\ UNCHANGED <<nodes, trie_status, table, filled, text>>
  BY DEF Blob, BlobOverrun
<1>3. String \/ QuotedIdentifier =>
        status = "scanning" /\ status' # "exited" /\ UNCHANGED <<nodes, trie_status, table, filled, text>>
  BY DEF String, QuotedIdentifier
<1>4. Symbol =>
        status = "scanning" /\ status' # "exited" /\ UNCHANGED <<nodes, trie_status, table, filled, text>>
  BY DEF Symbol
<1> QED
  BY <1>1, <1>2, <1>3, <1>4 DEF ScanToken

LEMMA TrieNextInv == TrieInv /\ [Next]_vars => TrieInv'
<1> SUFFICES ASSUME TrieInv, [Next]_vars PROVE TrieInv'
  OBVIOUS
<1>1. CASE AddReservedWord
  <2>1. status = "filling" /\ table' = table /\ filled' = filled + 1 /\ filled < Len(table)
    BY <1>1 DEF AddReservedWord
  <2>2. trie_status = "open" /\ filled \in Nat /\ table \in Tables
    BY <2>1 DEF TrieInv
  <2>3. filled + 1 <= Len(table) /\ filled + 1 \in Nat
    BY <2>1, <2>2, TableTypes
  <2>4. status' # "exited" => trie_status' # "exited"
    BY <1>1 DEF AddReservedWord
  <2>5. trie_status' # "exited" => trie_status' = "open"
    BY <1>1, <2>2 DEF AddReservedWord, AddWord
  <2>6. ASSUME status' # "exited"
        PROVE  nodes' \in Pools
               /\ \E spell : IsSpelled(nodes', spell) /\ IsFilled(table', nodes', spell, filled')
    BY <1>1, <2>1, <2>4, <2>6, AddWordFills
  <2> QED
    BY <2>1, <2>2, <2>3, <2>4, <2>5, <2>6 DEF TrieInv
<1>2. CASE UNCHANGED <<nodes, trie_status, table, filled>> /\ (status' # "exited" => status # "exited")
  BY <1>2 DEF TrieInv
<1>3. CASE InitScanner
  BY <1>2, <1>3 DEF InitScanner
<1>4. CASE ScanToken
  BY <1>2, <1>4, ScanKeeps
<1>5. CASE Ended \/ UNCHANGED vars
  BY <1>2, <1>5 DEF Ended, vars
<1> QED
  BY <1>1, <1>3, <1>4, <1>5 DEF Next

THEOREM TrieInvariant == Spec => []TrieInv
BY TrieInitInv, TrieNextInv, PTL DEF Spec

LEMMA ReservedFromTrieInv == TrieInv => ReservedAsInserted
<1> SUFFICES ASSUME TrieInv, status = "filling", NEW word \in Probes
    PROVE  LET same == {i \in 1 .. filled : LowerCase(table[i].word) = LowerCase(word)} IN
           TypeOfWord(word) = IF same = {} THEN "IDENTIFIER"
                              ELSE table[CHOOSE i \in same : \A j \in same : j <= i].type
  BY DEF ReservedAsInserted
<1> DEFINE same == {i \in 1 .. filled : LowerCase(table[i].word) = LowerCase(word)}
           end == Path(nodes, word)[Len(word)]
<1>1. nodes \in Pools /\ filled \in Nat
  BY DEF TrieInv
<1>2. PICK spell : IsSpelled(nodes, spell) /\ IsFilled(table, nodes, spell, filled)
  BY DEF TrieInv
<1>3. LowerCase(word) = Spelled(word, Len(word)) /\ Len(word) \in Nat
  BY ProbesAssumption, LowerCaseIs
<1>4. end \in 0 .. Len(nodes) /\ \A m \in 1 .. Len(nodes) : spell[m] = LowerCase(word) <=> m = end
  <2>1. Len(word) \in 0 .. Len(word)
    BY <1>3
  <2> QED
    BY <1>1, <1>2, <1>3, <2>1, PathIs, PathType
<1>5. TypeOfWord(word) = IF end # 0 /\ nodes[end].end_of_word THEN nodes[end].token_type ELSE "IDENTIFIER"
  BY DEF TypeOfWord
<1> HIDE DEF end
<1>6. CASE end # 0 /\ nodes[end].end_of_word
  <2>1. end \in 1 .. Len(nodes) /\ spell[end] = LowerCase(word)
    BY <1>1, <1>4, <1>6, PoolTypes
  <2>2. PICK i \in 1 .. filled :
          /\ spell[end] = LowerCase(table[i].word)
          /\ nodes[end].token_type = table[i].type
          /\ \A j \in 1 .. filled : spell[end] = LowerCase(table[j].word) => j <= i
    BY <1>2, <1>6, <2>1 DEF IsFilled
  <2>3. i \in same /\ \A j \in same : j <= i
    BY <2>1, <2>2
  <2>4. (CHOOSE k \in same : \A j \in same : j <= k) = i
    <3> DEFINE k == CHOOSE k \in same : \A j \in same : j <= k
    <3>1. k \in same /\ \A j \in same : j <= k
      <4> HIDE DEF same
      <4> QED
        BY <2>3
    <3>2. k <= i /\ i <= k /\ k \in 1 .. filled
      BY <2>3, <3>1
    <3> HIDE DEF k
    <3>3. k = i
      BY <1>1, <3>2
    <3> QED
      BY <3>3 DEF k
  <2> QED
    BY <1>5, <1>6, <2>2, <2>3, <2>4
<1>7. CASE ~ (end # 0 /\ nodes[end].end_of_word)
  <2>1. ASSUME NEW i \in same PROVE FALSE
    <3>1. PICK n \in 1 .. Len(nodes) : spell[n] = LowerCase(table[i].word) /\ nodes[n].end_of_word
      BY <1>2 DEF IsFilled
    <3>2. n = end
      BY <1>4, <3>1
    <3> QED
      BY <1>1, <1>7, <3>1, <3>2, PoolTypes
  <2>2. same = {}
    BY <2>1
  <2> QED
    BY <1>5, <1>7, <2>2
<1> QED
  BY <1>6, <1>7

\* However the words of the table begin and end alike, in whatever mixture of
\* cases and in whatever order they come, the trie knows exactly the words that
\* were inserted, each under the type it was given last (trie.c:71-134).
THEOREM ReservedWordsFound == Spec => []ReservedAsInserted
BY TrieInvariant, ReservedFromTrieInv, PTL
-----------------------------------------------------------------------------
(***************************************************************************)
(* The tokens.                                                             *)
(***************************************************************************)
\* A line end that a token goes over without counting it.
IsExempt(from, to, k) ==
  /\ from < k /\ k < to
  /\ At(from) = Quote \/ (At(from) \in {"x", "X"} /\ k = from + 2)

LinesIn(from, to) == {k \in from .. to - 1 : At(k) = "newline" /\ ~ IsExempt(from, to, k)}

\* What scan_token makes of the text from Start on.
IsToken(type, to, newline) ==
  /\ to \in Start .. Len(text) + 1
  /\ type \notin {"EOF", "ERROR"} => Start < to
  /\ type = "EOF" => to = Len(text) + 1
  /\ newline = LineAtStart + Cardinality(LinesIn(Start, to))

TileInv ==
  /\ IsText
  /\ tokens \in Seq(ToSet(tokens))
  /\ status = "filling" => text = <<>> /\ tokens = <<>>
  /\ current = Behind(Len(tokens)) /\ current \in Places
  /\ line = 1 + Cardinality(LinesBefore(current))
  /\ \A i \in 1 .. Len(tokens) : tokens[i].from \in Places /\ tokens[i].to \in tokens[i].from .. current
  /\ TokensTileText

LEMMA StartIs ==
  ASSUME IsText, current \in Places
  PROVE  /\ Start \in current .. Len(text) + 1 /\ Start \in Places
         /\ IsSkipped(current, Start) /\ ~ IsBlank(Start) /\ ~ IsCommentAt(Start)
<1>1. IsSkipped(current, Start) /\ ~ IsBlank(Start) /\ ~ IsCommentAt(Start)
  BY SkipIs DEF Start
<1> HIDE DEF Start
<1>2. Start \in current .. Len(text) + 1
  BY <1>1 DEF IsSkipped
<1> QED
  BY <1>1, <1>2, TextEnds DEF Places

\* A place whose character is not NUL is in the text.
LEMMA InText ==
  ASSUME IsText, NEW i \in Nat \ {0}, At(i) # "NUL"
  PROVE  i \in 1 .. Len(text)
BY TextEnds

LEMMA NoLines ==
  ASSUME NEW from, NEW to, \A k \in from .. to - 1 : At(k) = "newline" => IsExempt(from, to, k)
  PROVE  Cardinality(LinesIn(from, to)) = 0
<1>1. LinesIn(from, to) = {}
  BY DEF LinesIn
<1> QED
  BY <1>1, FS_EmptySet

LEMMA WordTypes ==
  ASSUME TrieInv, status = "scanning", NEW word, Len(word) \in Nat
  PROVE  TypeOfWord(word) \notin OwnTypes
<1> DEFINE end == Path(nodes, word)[Len(word)]
<1>1. end \in 0 .. Len(nodes) /\ nodes \in Pools /\ Len(nodes) \in Nat
  <2>1. Len(word) \in 0 .. Len(word)
    OBVIOUS
  <2> QED
    BY <2>1, PathType, PoolTypes DEF TrieInv
<1>2. TypeOfWord(word) = IF end # 0 /\ nodes[end].end_of_word THEN nodes[end].token_type ELSE "IDENTIFIER"
  BY DEF TypeOfWord
<1> HIDE DEF end
<1>3. CASE end # 0 /\ nodes[end].end_of_word
  <2>1. PICK spell : IsFilled(table, nodes, spell, filled)
    BY DEF TrieInv
  <2>2. end \in 1 .. Len(nodes)
    BY <1>1, <1>3
  <2>3. PICK i \in 1 .. filled : nodes[end].token_type = table[i].type
    BY <1>3, <2>1, <2>2 DEF IsFilled
  <2>4. i \in 1 .. Len(table) /\ table \in Tables
    BY TableTypes DEF TrieInv
  <2> QED
    BY <1>2, <1>3, <2>3, <2>4, TableTypes
<1> QED
  BY <1>2, <1>3 DEF OwnTypes

LEMMA SomePlaces ==
  ASSUME NEW a \in Int, NEW b \in Int, NEW S, S \subseteq a .. b
  PROVE  IsFiniteSet(S) /\ Cardinality(S) \in Nat
<1>1. IsFiniteSet(a .. b)
  BY FS_Interval
<1>2. IsFiniteSet(S)
  BY <1>1, FS_Subset
<1> QED
  BY <1>2, FS_CardinalityType

LEMMA LineTypes ==
  ASSUME IsText, current \in Places, line \in Nat
  PROVE  LineAtStart \in Nat
<1>1. Start \in Int /\ current \in Int
  BY StartIs, TextEnds DEF Places
<1> HIDE DEF Start
<1>2. Newlines(current, Start) \in Nat
  <2> DEFINE S == {i \in current .. Start - 1 : At(i) = "newline"}
  <2>1. S \subseteq current .. Start - 1
    OBVIOUS
  <2> DEFINE b == Start - 1
  <2>2. b \in Int /\ current \in Int
    BY <1>1
  <2> HIDE DEF S, b
  <2>3. Cardinality(S) \in Nat
    BY <2>1, <2>2, SomePlaces DEF b
  <2> QED
    BY <2>3 DEF S, Newlines
<1> QED
  BY <1>2 DEF LineAtStart

\* A token made by make_token, whose characters hold no line end.
LEMMA MadeToken ==
  ASSUME IsText, current \in Places, line \in Nat, NEW type, NEW to \in Start .. Len(text) + 1,
         \A k \in Start .. to - 1 : At(k) = "newline" => IsExempt(Start, to, k),
         type \notin {"EOF", "ERROR"} => Start < to,
         type = "EOF" => to = Len(text) + 1
  PROVE  IsToken(type, to, LineAtStart)
<1>1. Cardinality(LinesIn(Start, to)) = 0
  <2> HIDE DEF Start
  <2> QED
    BY NoLines
<1>2. LineAtStart \in Nat
  BY LineTypes
<1> QED
  BY <1>1, <1>2 DEF IsToken

Scans == TileInv /\ TrieInv /\ Ready

LEMMA ScansFacts ==
  ASSUME Scans
  PROVE  /\ IsText /\ current \in Places /\ line \in Nat
         /\ Len(text) \in Nat
         /\ Start \in Places /\ ~ IsBlank(Start)
<1>1. IsText /\ current \in Places /\ line = 1 + Cardinality(LinesBefore(current))
  BY DEF Scans, TileInv
<1>2. Cardinality(LinesBefore(current)) \in Nat
  <2> DEFINE S == LinesBefore(current)
  <2>1. S \subseteq 1 .. current - 1
    BY DEF LinesBefore
  <2> DEFINE b == current - 1
  <2>2. b \in Int /\ 1 \in Int
    BY <1>1, TextEnds DEF Places
  <2> HIDE DEF S, b
  <2>3. Cardinality(S) \in Nat
    BY <2>1, <2>2, SomePlaces DEF b
  <2> QED
    BY <2>3 DEF S
<1> QED
  BY <1>1, <1>2, StartIs, TextEnds

\* What one call of scan_token makes: the token, and where it is from.
Scanned(type, to, start, length, newline) ==
  [type |-> type, from |-> Start, to |-> to, start |-> start, length |-> length, line |-> newline]

IsScan(type, to, start, length, newline) ==
  /\ TokenOf(type, to, start, length, newline)
  /\ IsToken(type, to, newline)
  /\ IsLexeme(Scanned(type, to, start, length, newline))

IsScanned == \E type, to, start, length, newline : IsScan(type, to, start, length, newline)

LEMMA QuoteIs == Quote # "NUL" /\ Quote # "'" /\ Quote \in Marks /\ Quote \notin Alpha
<1>1. Quote # "NUL" /\ Quote # "'"
  BY Zenon DEF Quote
<1>2. Quote \in Marks
  BY DEF Marks
<1> QED
  BY <1>1, <1>2, Marked

\* The kinds of lexemes.
LEMMA LexemeIs ==
  ASSUME NEW type, NEW to, NEW start, NEW length, NEW newline
  PROVE  LET s == Span(Start, to)
             t == Scanned(type, to, start, length, newline)
         IN
         /\ type \in {"EOF", "ERROR"} => IsLexeme(t)
         /\ type = "STRING" /\ IsQuotedBy(s, "'") => IsLexeme(t)
         /\ type = "NUMBER" /\ IsLongest(IsNumber, Start, to) => IsLexeme(t)
         /\ type = "BLOB" /\ IsBlob(s) => IsLexeme(t)
         /\ /\ type = "IDENTIFIER" /\ s[1] = Quote /\ IsQuotedBy(s, Quote)
            /\ start = Start + 1
            => IsLexeme(t)
         /\ type \notin OwnTypes /\ s[1] # Quote /\ s[1] \in Alpha /\ IsLongest(IsWord, Start, to)
            => IsLexeme(t)
         /\ /\ type \notin OwnTypes /\ s[1] # Quote /\ s[1] \notin Alpha
            /\ IsLongest(IsOperator, Start, to)
            => IsLexeme(t)
<1> DEFINE s == Span(Start, to)
           t == Scanned(type, to, start, length, newline)
           number == IsLongest(IsNumber, Start, to)
           word == IsLongest(IsWord, Start, to)
           operator == IsLongest(IsOperator, Start, to)
<1>1. t.type = type /\ t.from = Start /\ t.to = to /\ t.start = start /\ t.length = length
  BY DEF Scanned
<1>2. IsLexeme(t) <=>
        CASE type = "STRING" -> IsQuotedBy(s, "'")
          [] type = "NUMBER" -> number
          [] type = "BLOB"   -> IsBlob(s)
          [] type = "IDENTIFIER" /\ s[1] = Quote ->
               IsQuotedBy(s, Quote) /\ start = Start + 1
          [] type \in {"EOF", "ERROR"} -> TRUE
          [] OTHER -> IF s[1] \in Alpha THEN word ELSE operator
  BY <1>1 DEF IsLexeme
<1> HIDE DEF s, t, number, word, operator
<1> QED
  BY <1>2 DEF s, t, number, word, operator, OwnTypes

\* A stretch of the text.
LEMMA SpanIs ==
  ASSUME IsText, NEW from \in Places, NEW to \in from .. Len(text) + 1
  PROVE  /\ Len(Span(from, to)) = to - from /\ to - from \in Nat
         /\ DOMAIN Span(from, to) = 1 .. to - from
         /\ \A k \in 1 .. to - from : Span(from, to)[k] = At(from + k - 1)
         /\ \A k \in from .. to - 1 : k - from + 1 \in 1 .. to - from
                                     /\ At(k) = Span(from, to)[k - from + 1]
         /\ Span(from, to) = <<>> <=> to = from
<1> DEFINE C == ToSet(text) \ {"NUL"}
<1>1. text \in Seq(C) /\ Len(text) \in Nat
  BY TextEnds DEF IsText
<1> HIDE DEF C
<1>2. from \in 1 .. Len(text) + 1 /\ to \in Int /\ from <= to /\ to - 1 <= Len(text)
  BY <1>1 DEF Places
<1>3. /\ Len(Span(from, to)) = to - from /\ to - from \in Nat /\ DOMAIN Span(from, to) = 1 .. to - from
      /\ \A k \in 1 .. to - from : Span(from, to)[k] = text[from + k - 1]
  BY <1>1, <1>2 DEF Span
<1>4. \A k \in 1 .. to - from : Span(from, to)[k] = At(from + k - 1)
  BY <1>1, <1>2, <1>3 DEF At
<1> DEFINE s == Span(from, to)
<1> HIDE DEF s
<1>5. ASSUME NEW k \in from .. to - 1
      PROVE  k - from + 1 \in 1 .. to - from /\ At(k) = s[k - from + 1]
  <2> DEFINE j == k - from + 1
  <2>1. j \in 1 .. to - from /\ from + j - 1 = k
    BY <1>2
  <2> HIDE DEF j
  <2> QED
    BY <1>4, <2>1 DEF j, s
<1>6. s \in Seq(C)
  BY <1>1, <1>2 DEF Span, s
<1>7. s = <<>> <=> Len(s) = 0
  BY <1>6, EmptySeq
<1>8. s = <<>> <=> to = from
  BY <1>2, <1>3, <1>7 DEF s
<1> QED
  BY <1>3, <1>4, <1>5, <1>8 DEF s

LEMMA WordSpan ==
  ASSUME IsText, NEW from \in Places, NEW to \in from .. Len(text) + 1
  PROVE  IsWord(Span(from, to)) <=>
           /\ from < to /\ At(from) \in Alpha
           /\ \A k \in from .. to - 1 : At(k) \in Alpha \cup Digits
<1> DEFINE s == Span(from, to)
<1>1. /\ Len(s) = to - from /\ to - from \in Nat /\ DOMAIN s = 1 .. to - from
      /\ \A k \in 1 .. to - from : s[k] = At(from + k - 1)
      /\ \A k \in from .. to - 1 : k - from + 1 \in 1 .. to - from /\ At(k) = s[k - from + 1]
  BY SpanIs
<1>2. from \in Nat \ {0} /\ to \in Nat /\ Len(text) \in Nat
  BY TextEnds DEF Places
<1>3. s = <<>> <=> to = from
  BY SpanIs
<1>4. IsWord(s) <=> s # <<>> /\ s[1] \in Alpha /\ \A k \in 1 .. to - from : s[k] \in Alpha \cup Digits
  BY <1>1 DEF IsWord, ToSet
<1> HIDE DEF s
<1>5. from < to => s[1] = At(from)
  BY <1>1, <1>2
<1>6. ASSUME \A k \in from .. to - 1 : At(k) \in Alpha \cup Digits, NEW k \in 1 .. to - from
      PROVE  s[k] \in Alpha \cup Digits
  <2>1. from + k - 1 \in from .. to - 1
    BY <1>2
  <2> QED
    BY <1>1, <1>6, <2>1
<1> QED
  BY <1>1, <1>2, <1>3, <1>4, <1>5, <1>6 DEF s

LEMMA NumberSpan ==
  ASSUME IsText, NEW from \in Places, NEW to \in from .. Len(text) + 1
  PROVE  IsNumber(Span(from, to)) <=>
           /\ from < to
           /\ \/ \A k \in from .. to - 1 : At(k) \in Digits
              \/ \E i \in from + 1 .. to - 2 :
                   At(i) = "." /\ \A k \in from .. to - 1 : k # i => At(k) \in Digits
<1> DEFINE s == Span(from, to)
           points == {i \in 1 .. Len(s) : s[i] \notin Digits}
<1>1. /\ Len(s) = to - from /\ to - from \in Nat
      /\ \A k \in 1 .. to - from : s[k] = At(from + k - 1)
      /\ \A k \in from .. to - 1 : k - from + 1 \in 1 .. to - from /\ At(k) = s[k - from + 1]
  BY SpanIs
<1>2. from \in Nat \ {0} /\ to \in Nat /\ Len(text) \in Nat
  BY TextEnds DEF Places
<1>3. s = <<>> <=> to = from
  BY SpanIs
<1>4. IsNumber(s) <=> s # <<>> /\ (points = {} \/ \E i \in 2 .. Len(s) - 1 : points = {i} /\ s[i] = ".")
  BY DEF IsNumber
<1>5. "." \notin Digits
  BY Marked DEF Marks
<1> HIDE DEF s
<1>6. points = {} <=> \A k \in from .. to - 1 : At(k) \in Digits
  <2>1. \A k \in 1 .. to - from : from + k - 1 \in from .. to - 1
    BY <1>2
  <2> QED
    BY <1>1, <2>1
<1>7. ASSUME NEW i \in 2 .. Len(s) - 1, points = {i}, s[i] = "."
      PROVE  \E j \in from + 1 .. to - 2 :
               At(j) = "." /\ \A k \in from .. to - 1 : k # j => At(k) \in Digits
  <2> DEFINE j == from + i - 1
  <2>1. j \in from + 1 .. to - 2 /\ i \in 1 .. to - from
    BY <1>1, <1>2
  <2>2. At(j) = "."
    BY <1>1, <1>7, <2>1
  <2>3. \A k \in from .. to - 1 : k # j => k - from + 1 # i
    BY <1>2, <2>1
  <2> HIDE DEF j
  <2>4. \A k \in from .. to - 1 : k # j => At(k) \in Digits
    BY <1>1, <1>7, <2>3
  <2> QED
    BY <2>1, <2>2, <2>4
<1>8. ASSUME NEW j \in from + 1 .. to - 2, At(j) = ".",
             \A k \in from .. to - 1 : k # j => At(k) \in Digits
      PROVE  \E i \in 2 .. Len(s) - 1 : points = {i} /\ s[i] = "."
  <2> DEFINE i == j - from + 1
  <2>1. i \in 2 .. Len(s) - 1 /\ i \in 1 .. to - from /\ from + i - 1 = j /\ i \in 1 .. Len(s)
    BY <1>1, <1>2
  <2>2. s[i] = "."
    BY <1>1, <1>8, <2>1
  <2>3. \A k \in 1 .. to - from : from + k - 1 \in from .. to - 1 /\ (k # i => from + k - 1 # j)
    BY <1>2, <2>1
  <2> HIDE DEF i
  <2>4. points = {i}
    BY <1>1, <1>5, <1>8, <2>1, <2>2, <2>3
  <2> QED
    BY <2>1, <2>2, <2>4
<1> DEFINE single == \E i \in 2 .. Len(s) - 1 : points = {i} /\ s[i] = "."
<1>9. single <=> \E j \in from + 1 .. to - 2 :
                   At(j) = "." /\ \A k \in from .. to - 1 : k # j => At(k) \in Digits
  BY <1>7, <1>8
<1>10. IsNumber(s) <=> s # <<>> /\ (points = {} \/ single)
  BY <1>4
<1> HIDE DEF points, single
<1>11. s # <<>> <=> from < to
  BY <1>1, <1>2, <1>3
<1> QED
  BY <1>6, <1>9, <1>10, <1>11 DEF s

LEMMA QuotedSpan ==
  ASSUME IsText, NEW from \in Places, NEW close \in from + 1 .. Len(text), NEW c,
         At(from) = c, At(close) = c, \A k \in from + 1 .. close - 1 : At(k) # c
  PROVE  IsQuotedBy(Span(from, close + 1), c)
<1> DEFINE to == close + 1
           s == Span(from, to)
<1>1. from \in Nat \ {0} /\ Len(text) \in Nat /\ to \in from .. Len(text) + 1
  BY TextEnds DEF Places
<1>2. close = to - 1 /\ from + 1 <= to - 1
  BY <1>1
<1> HIDE DEF to
<1>3. /\ Len(s) = to - from /\ to - from \in Nat
      /\ \A k \in 1 .. to - from : s[k] = At(from + k - 1)
  BY <1>1, SpanIs
<1> HIDE DEF s
<1>4. Len(s) >= 2 /\ 1 \in 1 .. to - from /\ Len(s) \in 1 .. to - from
  BY <1>1, <1>2, <1>3
<1>5. s[1] = c /\ s[Len(s)] = c
  BY <1>1, <1>2, <1>3, <1>4
<1>6. ASSUME NEW k \in 1 .. Len(s), k # 1, k # Len(s)
      PROVE  s[k] # c
  <2>1. from + k - 1 \in from + 1 .. close - 1
    BY <1>1, <1>2, <1>3, <1>6
  <2> QED
    BY <1>3, <1>6, <2>1
<1>7. {k \in 1 .. Len(s) : s[k] = c} = {1, Len(s)}
  BY <1>3, <1>4, <1>5, <1>6
<1> QED
  BY <1>4, <1>7 DEF IsQuotedBy, s, to

LEMMA EndScanned == Scans /\ ScanEnd => IsScanned
<1> SUFFICES ASSUME Scans, ScanEnd PROVE IsScanned
  OBVIOUS
<1>1. IsText /\ current \in Places /\ line \in Nat /\ Start \in Places
  BY ScansFacts
<1>2. At(Start) = "NUL" /\ TokenOf("EOF", Start, Start, Start - Start, LineAtStart)
  BY DEF ScanEnd, MakeToken
<1>3. Start = Len(text) + 1
  <2> HIDE DEF Start
  <2> QED
    BY <1>1, <1>2, TextEnds DEF Places
<1>4. Start \in Start .. Len(text) + 1 /\ \A k \in Start .. Start - 1 : FALSE
  <2> HIDE DEF Start
  <2> QED
    BY <1>1, <1>3, TextEnds DEF Places
<1>5. IsToken("EOF", Start, LineAtStart)
  BY <1>1, <1>3, <1>4, MadeToken
<1>6. IsLexeme(Scanned("EOF", Start, Start, Start - Start, LineAtStart))
  BY LexemeIs
<1> QED
  BY <1>2, <1>5, <1>6 DEF IsScanned, IsScan

LEMMA BlobScanned == Scans /\ Blob => IsScanned
<1> SUFFICES ASSUME Scans, Blob PROVE IsScanned
  OBVIOUS
<1> DEFINE end == Past(Start + 3, Hex)
<1>1. IsText /\ current \in Places /\ line \in Nat /\ Start \in Places /\ Len(text) \in Nat
  BY ScansFacts
<1>2. At(Start) \in {"x", "X"} /\ At(Start + 1) = "'" /\ Start + 2 <= Len(text)
  BY DEF Blob, AtBlob
<1> DEFINE to == IF At(end) = "'" THEN end + 1 ELSE end
           type == IF At(end) = "'" /\ (end - (Start + 3)) % 2 = 0 THEN "BLOB" ELSE "ERROR"
<1>3. TokenOf(type, to, Start, to - Start, LineAtStart)
  BY DEF Blob, ErrorToken, MakeToken
<1> HIDE DEF Start
<1>4. "NUL" \notin Hex /\ "newline" \notin Hex
  BY Marked DEF Marks
<1>5. Start + 3 \in Places
  BY <1>1, <1>2 DEF Places
<1>6. /\ end \in Start + 3 .. Len(text) + 1
      /\ \A k \in Start + 3 .. end - 1 : At(k) \in Hex
  BY <1>1, <1>4, <1>5, PastIs
<1> HIDE DEF end
<1>7. to \in Start .. Len(text) + 1 /\ Start < to /\ to \in {end, end + 1}
  BY <1>1, <1>6, TextEnds DEF Places
<1>8. \A k \in Start .. to - 1 : k \in {Start, Start + 1, Start + 2, end} \/ k \in Start + 3 .. end - 1
  BY <1>1, <1>6, <1>7 DEF Places
<1>9. \A k \in Start .. to - 1 : At(k) = "newline" => k = Start + 2
  <2>1. At(end) = "newline" => end \notin Start .. to - 1
    BY <1>1, <1>6, <1>7 DEF Places
  <2> QED
    BY <1>2, <1>4, <1>6, <1>8, <2>1
<1>10. \A k \in Start .. to - 1 : At(k) = "newline" => IsExempt(Start, to, k)
  <2> SUFFICES ASSUME NEW k \in Start .. to - 1, At(k) = "newline" PROVE IsExempt(Start, to, k)
    OBVIOUS
  <2>1. k = Start + 2
    BY <1>9
  <2>2. Start < k /\ k < to
    BY <1>1, <1>7, <2>1 DEF Places
  <2> QED
    BY <1>2, <2>1, <2>2 DEF IsExempt
<1>11. type \in {"BLOB", "ERROR"}
  OBVIOUS
<1> HIDE DEF to, type
<1>12. IsToken(type, to, LineAtStart)
  BY <1>1, <1>7, <1>10, <1>11, MadeToken
<1>13. type = "BLOB" => IsBlob(Span(Start, to))
  <2> SUFFICES ASSUME type = "BLOB" PROVE IsBlob(Span(Start, to))
    OBVIOUS
  <2>1. At(end) = "'" /\ to = end + 1
    BY DEF type, to
  <2> DEFINE s == Span(Start, to)
  <2>2. /\ Len(s) = to - Start /\ to - Start \in Nat
        /\ \A k \in 1 .. to - Start : s[k] = At(Start + k - 1)
    BY <1>1, <1>7, SpanIs
  <2> HIDE DEF s
  <2>3. Start \in Nat /\ end \in Nat /\ end >= Start + 3
    BY <1>1, <1>6 DEF Places
  <2>4. Len(s) >= 4
    BY <2>1, <2>2, <2>3
  <2>5. 1 \in 1 .. to - Start /\ 2 \in 1 .. to - Start /\ Len(s) \in 1 .. to - Start
    BY <2>1, <2>2, <2>3
  <2>6. s[1] = At(Start) /\ s[2] = At(Start + 1) /\ s[Len(s)] = At(end)
    <3>1. Start + 1 - 1 = Start /\ Start + 2 - 1 = Start + 1 /\ Start + Len(s) - 1 = end
      BY <2>1, <2>2, <2>3
    <3> QED
      BY <2>2, <2>5, <3>1
  <2>7. ASSUME NEW i \in 4 .. Len(s) - 1 PROVE s[i] \in Hex
    <3>1. i \in 1 .. to - Start /\ Start + i - 1 \in Start + 3 .. end - 1
      BY <2>1, <2>2, <2>3
    <3> QED
      BY <1>6, <2>2, <3>1
  <2> QED
    BY <1>2, <2>1, <2>4, <2>6, <2>7 DEF IsBlob, s
<1>14. IsLexeme(Scanned(type, to, Start, to - Start, LineAtStart))
  BY <1>11, <1>13, LexemeIs
<1> QED
  BY <1>3, <1>12, <1>14 DEF IsScanned, IsScan

LEMMA IdentifierScanned == Scans /\ Identifier => IsScanned
<1> SUFFICES ASSUME Scans, Identifier PROVE IsScanned
  OBVIOUS
<1> DEFINE end == WordEnd(Start + 1)
           word == SubSeq(text, Start, end - 1)
           type == TypeOfWord(word)
<1>1. IsText /\ current \in Places /\ line \in Nat /\ Start \in Places /\ Len(text) \in Nat
  BY ScansFacts
<1>2. At(Start) \in Alpha /\ TokenOf(type, end, Start, end - Start, LineAtStart)
  BY DEF Identifier, MakeToken
<1> HIDE DEF Start
<1>3. "NUL" \notin Alpha \cup Digits /\ "newline" \notin Alpha \cup Digits
  BY Marked DEF Marks, Hex
<1>4. Start \in 1 .. Len(text) /\ Start + 1 \in Places
  BY <1>1, <1>2, <1>3, InText DEF Places
<1>5. /\ end \in Start + 1 .. Len(text) + 1 /\ At(end) \notin Alpha \cup Digits
      /\ \A k \in Start + 1 .. end - 1 : At(k) \in Alpha \cup Digits
  <2> DEFINE chars == Alpha \cup Digits
             from == Start + 1
  <2>1. from \in Places /\ "NUL" \notin chars
    BY <1>3, <1>4
  <2> HIDE DEF chars, from
  <2>2. /\ Past(from, chars) \in from .. Len(text) + 1 /\ At(Past(from, chars)) \notin chars
        /\ \A k \in from .. Past(from, chars) - 1 : At(k) \in chars
    BY <1>1, <2>1, PastIs
  <2> QED
    BY <2>2 DEF chars, from, WordEnd
<1>6. type \notin OwnTypes
  <2>1. Len(word) \in Nat
    <3>1. text \in Seq(ToSet(text) \ {"NUL"})
      BY <1>1 DEF IsText
    <3> DEFINE C == ToSet(text) \ {"NUL"}
    <3> HIDE DEF C, end
    <3>2. word \in Seq(C)
      BY <1>1, <1>4, <1>5, <3>1 DEF C
    <3> QED
      BY <3>2
  <2> HIDE DEF word
  <2> QED
    BY <2>1, WordTypes DEF Scans, Ready
<1> HIDE DEF end, type
<1>7. end \in Start .. Len(text) + 1 /\ Start < end
  BY <1>4, <1>5
<1>8. \A k \in Start .. end - 1 : At(k) # "newline"
  <2>1. \A k \in Start .. end - 1 : k = Start \/ k \in Start + 1 .. end - 1
    BY <1>4, <1>5
  <2> QED
    BY <1>2, <1>3, <1>5, <2>1
<1>9. IsToken(type, end, LineAtStart)
  <2>1. type \notin {"EOF", "ERROR"}
    BY <1>6 DEF OwnTypes
  <2> QED
    BY <1>1, <1>7, <1>8, <2>1, MadeToken
<1>10. IsLongest(IsWord, Start, end)
  <2>1. IsWord(Span(Start, end))
    <3>1. \A k \in Start .. end - 1 : k = Start \/ k \in Start + 1 .. end - 1
      BY <1>4, <1>5
    <3>2. \A k \in Start .. end - 1 : At(k) \in Alpha \cup Digits
      BY <1>2, <1>5, <3>1
    <3> QED
      BY <1>1, <1>2, <1>7, <3>2, WordSpan
  <2>2. ASSUME NEW longer \in end + 1 .. Len(text) + 1
        PROVE  ~ IsWord(Span(Start, longer))
    <3>1. longer \in Start .. Len(text) + 1 /\ end \in Start .. longer - 1
      BY <1>1, <1>4, <1>5
    <3> QED
      BY <1>1, <1>5, <3>1, WordSpan
  <2> QED
    BY <2>1, <2>2 DEF IsLongest
<1>11. Span(Start, end)[1] = At(Start)
  <2>1. 1 \in 1 .. end - Start /\ Start + 1 - 1 = Start
    BY <1>4, <1>5
  <2> QED
    BY <1>1, <1>7, <2>1, SpanIs
<1>12. IsLexeme(Scanned(type, end, Start, end - Start, LineAtStart))
  BY <1>2, <1>6, <1>10, <1>11, QuoteIs, LexemeIs
<1> QED
  BY <1>2, <1>9, <1>12 DEF IsScanned, IsScan

LEMMA NumberScanned == Scans /\ Number => IsScanned
<1> SUFFICES ASSUME Scans, Number PROVE IsScanned
  OBVIOUS
<1> DEFINE whole == Past(Start, Digits)
           hasFraction == At(whole) = "." /\ At(whole + 1) \in Digits
           to == IF hasFraction THEN Past(whole + 1, Digits) ELSE whole
<1>1. IsText /\ current \in Places /\ line \in Nat /\ Start \in Places /\ Len(text) \in Nat
  BY ScansFacts
<1>2. At(Start) \in Digits /\ TokenOf("NUMBER", to, Start, to - Start, LineAtStart)
  BY DEF Number, MakeToken
<1> HIDE DEF Start
<1>3. "NUL" \notin Digits /\ "newline" \notin Digits /\ "." # "newline" /\ "." \notin Digits
  BY Marked DEF Marks, Hex
<1>4. /\ whole \in Start .. Len(text) + 1 /\ At(whole) \notin Digits
      /\ \A k \in Start .. whole - 1 : At(k) \in Digits
  BY <1>1, <1>3, PastIs
<1> HIDE DEF whole
<1>5. Start < whole /\ whole \in Places
  BY <1>1, <1>2, <1>4 DEF Places
<1>6. CASE hasFraction
  <2> DEFINE end == Past(whole + 1, Digits)
  <2>1. whole + 1 \in Places
    <3>1. whole + 1 \in Nat \ {0} /\ At(whole + 1) # "NUL"
      BY <1>3, <1>5, <1>6, <1>1 DEF Places
    <3> QED
      BY <1>1, <3>1, InText DEF Places
  <2>2. /\ end \in whole + 1 .. Len(text) + 1 /\ At(end) \notin Digits
        /\ \A k \in whole + 1 .. end - 1 : At(k) \in Digits
    BY <1>1, <1>3, <2>1, PastIs
  <2>3. to = end
    BY <1>6
  <2> HIDE DEF end, to, hasFraction
  <2>4. \A k \in Start .. end - 1 : k \in Start .. whole - 1 \/ k = whole \/ k \in whole + 1 .. end - 1
    BY <1>1, <1>5, <2>2 DEF Places
  <2>5. \A k \in Start .. end - 1 : At(k) # "newline"
    BY <1>3, <1>4, <1>6, <2>2, <2>4 DEF hasFraction
  <2>6. to \in Start .. Len(text) + 1 /\ Start < to
    BY <1>1, <1>5, <2>2, <2>3 DEF Places
  <2>7. IsToken("NUMBER", to, LineAtStart)
    BY <1>1, <2>3, <2>5, <2>6, MadeToken
  <2>8. At(whole) = "." /\ At(whole + 1) \in Digits
    BY <1>6 DEF hasFraction
  <2>9. IsNumber(Span(Start, to))
    <3>1. whole \in Start + 1 .. to - 2
      <4>1. end # whole + 1
        BY <2>2, <2>8
      <4> QED
        BY <1>1, <1>5, <2>2, <2>3, <4>1 DEF Places
    <3>2. \A k \in Start .. to - 1 : k # whole => At(k) \in Digits
      BY <1>4, <2>2, <2>3, <2>4
    <3> QED
      BY <1>1, <2>6, <2>8, <3>1, <3>2, NumberSpan
  <2>10. ASSUME NEW longer \in to + 1 .. Len(text) + 1
         PROVE  ~ IsNumber(Span(Start, longer))
    <3>1. /\ longer \in Start .. Len(text) + 1
          /\ whole \in Start .. longer - 1 /\ end \in Start .. longer - 1 /\ whole # end
      BY <1>1, <1>5, <2>2, <2>3, <2>6 DEF Places
    <3> QED
      BY <1>1, <1>4, <2>2, <3>1, NumberSpan
  <2>11. IsLexeme(Scanned("NUMBER", to, Start, to - Start, LineAtStart))
    <3>1. IsLongest(IsNumber, Start, to)
      BY <2>9, <2>10 DEF IsLongest
    <3> QED
      BY <3>1, LexemeIs
  <2> QED
    BY <1>2, <2>7, <2>11 DEF IsScanned, IsScan
<1>7. CASE ~ hasFraction
  <2>1. to = whole
    BY <1>7
  <2> HIDE DEF to
  <2>2. IsToken("NUMBER", to, LineAtStart)
    BY <1>1, <1>3, <1>4, <1>5, <2>1, MadeToken
  <2>3. IsNumber(Span(Start, to))
    BY <1>1, <1>4, <1>5, <2>1, NumberSpan
  <2>4. ASSUME NEW longer \in to + 1 .. Len(text) + 1
        PROVE  ~ IsNumber(Span(Start, longer))
    <3>1. longer \in Start .. Len(text) + 1 /\ whole \in Start .. longer - 1
      BY <1>1, <1>5, <2>1 DEF Places
    <3>2. ASSUME NEW i \in Start + 1 .. longer - 2, At(i) = ".",
                 \A k \in Start .. longer - 1 : k # i => At(k) \in Digits
          PROVE  FALSE
      <4>1. i = whole
        BY <1>4, <3>1, <3>2
      <4>2. whole + 1 \in Start .. longer - 1 /\ whole + 1 # i
        BY <1>1, <3>1, <3>2, <4>1 DEF Places
      <4>3. At(whole) = "." /\ At(whole + 1) \in Digits
        BY <3>2, <4>1, <4>2
      <4> QED
        BY <1>7, <4>3 DEF hasFraction
    <3> QED
      BY <1>1, <1>4, <3>1, <3>2, NumberSpan
  <2>5. IsLexeme(Scanned("NUMBER", to, Start, to - Start, LineAtStart))
    <3>1. IsLongest(IsNumber, Start, to)
      BY <2>3, <2>4 DEF IsLongest
    <3> QED
      BY <3>1, LexemeIs
  <2> QED
    BY <1>2, <2>2, <2>5 DEF IsScanned, IsScan
<1> QED
  BY <1>6, <1>7

\* What a quote at Start leads to.
LEMMA CloseIs ==
  ASSUME IsText, Start \in Places, NEW c, c # "NUL", At(Start) = c
  PROVE  /\ Start \in 1 .. Len(text)
         /\ Find(Start + 1, c) \in Start + 1 .. Len(text) + 1
         /\ At(Find(Start + 1, c)) \in {c, "NUL"}
         /\ At(Find(Start + 1, c)) = c => Find(Start + 1, c) \in Start + 1 .. Len(text)
         /\ \A k \in Start + 1 .. Find(Start + 1, c) - 1 : At(k) # c
<1> HIDE DEF Start
<1>1. Start \in 1 .. Len(text) /\ Start + 1 \in Places /\ Len(text) \in Nat
  <2>1. Start \in Nat \ {0} /\ Len(text) \in Nat
    BY TextEnds DEF Places
  <2>2. Start \in 1 .. Len(text)
    BY <2>1, InText
  <2> QED
    BY <2>1, <2>2 DEF Places
<1> DEFINE from == Start + 1
<1> HIDE DEF from
<1>2. Find(from, c) \in from .. Len(text) + 1 /\ At(Find(from, c)) \in {c, "NUL"}
      /\ \A k \in from .. Find(from, c) - 1 : At(k) # c
  BY <1>1, FindIs DEF from
<1> DEFINE close == Find(from, c)
<1>3. At(Len(text) + 1) = "NUL"
  BY <1>1, TextEnds
<1>4. At(close) = c => close \in from .. Len(text)
  <2>1. At(close) = c => close # Len(text) + 1
    BY <1>3
  <2> HIDE DEF close
  <2>2. close \in from .. Len(text) + 1
    BY <1>2 DEF close
  <2> QED
    BY <1>1, <2>1, <2>2 DEF from
<1> QED
  BY <1>1, <1>2, <1>4 DEF from

LEMMA StringScanned == Scans /\ String => IsScanned
<1> SUFFICES ASSUME Scans, String PROVE IsScanned
  OBVIOUS
<1> DEFINE close == Find(Start + 1, "'")
           newline == LineAtStart + Newlines(Start, close)
           to == IF At(close) = "NUL" THEN close ELSE close + 1
           type == IF At(close) = "NUL" THEN "ERROR" ELSE "STRING"
<1>1. IsText /\ current \in Places /\ line \in Nat /\ Start \in Places /\ Len(text) \in Nat
  BY ScansFacts
<1>2. At(Start) = "'" /\ TokenOf(type, to, Start, to - Start, newline)
  <2>1. CASE At(close) = "NUL"
    BY <2>1 DEF String
  <2>2. CASE At(close) # "NUL"
    <3>1. At(Start) = "'" /\ TokenOf("STRING", close + 1, Start, (close + 1) - Start, newline)
      BY <2>2 DEF String
    <3>2. type = "STRING" /\ to = close + 1
      BY <2>2
    <3> HIDE DEF type, to, newline
    <3> QED
      BY <3>1, <3>2 DEF TokenOf
  <2> QED
    BY <2>1, <2>2
<1>3. /\ Start \in 1 .. Len(text)
      /\ close \in Start + 1 .. Len(text) + 1
      /\ At(close) \in {"'", "NUL"}
      /\ At(close) = "'" => close \in Start + 1 .. Len(text)
      /\ \A k \in Start + 1 .. close - 1 : At(k) # "'"
  BY <1>1, <1>2, CloseIs
<1> HIDE DEF Start, close
<1>4. to \in Start .. Len(text) + 1 /\ Start < to /\ to \in {close, close + 1}
  <2>1. CASE At(close) = "NUL"
    BY <1>1, <1>3, <2>1
  <2>2. CASE At(close) # "NUL"
    <3>1. close \in Start + 1 .. Len(text) /\ to = close + 1
      BY <1>3, <2>2
    <3> HIDE DEF to
    <3> QED
      BY <1>1, <1>3, <3>1
  <2> QED
    BY <2>1, <2>2
<1>5. {i \in Start .. close - 1 : At(i) = "newline"} = LinesIn(Start, to)
  <2>1. \A k : ~ IsExempt(Start, to, k)
    BY <1>2, QuoteIs DEF IsExempt
  <2>2. \A k \in Start .. to - 1 : k \in Start .. close - 1 \/ k = close
    BY <1>3, <1>4
  <2>3. \A k \in Start .. close - 1 : k \in Start .. to - 1
    BY <1>3, <1>4
  <2> HIDE DEF to
  <2> QED
    BY <1>3, <2>1, <2>2, <2>3 DEF LinesIn
<1>6. newline = LineAtStart + Cardinality(LinesIn(Start, to))
  BY <1>5 DEF Newlines
<1>7. type \in {"STRING", "ERROR"}
  OBVIOUS
<1>8. IsToken(type, to, newline)
  BY <1>4, <1>6, <1>7 DEF IsToken
<1>9. IsLexeme(Scanned(type, to, Start, to - Start, newline))
  <2>1. CASE At(close) = "NUL"
    BY <2>1, LexemeIs
  <2>2. CASE At(close) # "NUL"
    <3>1. At(close) = "'" /\ close \in Start + 1 .. Len(text) /\ type = "STRING" /\ to = close + 1
      BY <1>3, <2>2
    <3>2. IsQuotedBy(Span(Start, close + 1), "'")
      BY <1>1, <1>2, <1>3, <3>1, QuotedSpan
    <3>3. IsQuotedBy(Span(Start, to), "'")
      BY <3>1, <3>2
    <3> HIDE DEF type, to, newline
    <3> QED
      BY <3>1, <3>3, LexemeIs
  <2> QED
    BY <2>1, <2>2
<1> QED
  BY <1>2, <1>8, <1>9 DEF IsScanned, IsScan

LEMMA QuotedIdentifierScanned == Scans /\ QuotedIdentifier => IsScanned
<1> SUFFICES ASSUME Scans, QuotedIdentifier PROVE IsScanned
  OBVIOUS
<1> DEFINE close == Find(Start + 1, Quote)
           to == IF At(close) = "NUL" THEN close ELSE close + 1
           type == IF At(close) = "NUL" THEN "ERROR" ELSE "IDENTIFIER"
           start == IF At(close) = "NUL" THEN Start ELSE Start + 1
           length == IF At(close) = "NUL" THEN close - Start ELSE close - Start - 2
<1>1. IsText /\ current \in Places /\ line \in Nat /\ Start \in Places /\ Len(text) \in Nat
      /\ ~ IsBlank(Start)
  BY ScansFacts
<1>2. At(Start) = Quote /\ TokenOf(type, to, start, length, LineAtStart)
  BY DEF QuotedIdentifier, ErrorToken, MakeToken
<1>3. Quote # "NUL" /\ \A k : (Start < k /\ k < to) => IsExempt(Start, to, k)
  BY <1>2, QuoteIs, Zenon DEF IsExempt
<1>4. type \in {"IDENTIFIER", "ERROR"}
  OBVIOUS
<1> HIDE DEF Start, start, length, type
<1>5. /\ Start \in 1 .. Len(text)
      /\ close \in Start + 1 .. Len(text) + 1
      /\ At(close) \in {Quote, "NUL"}
      /\ At(close) = Quote => close \in Start + 1 .. Len(text)
      /\ \A k \in Start + 1 .. close - 1 : At(k) # Quote
  BY <1>1, <1>2, <1>3, CloseIs
<1> HIDE DEF close
<1>6. to \in Start .. Len(text) + 1 /\ Start < to
  <2>1. CASE At(close) = "NUL"
    BY <1>1, <1>5, <2>1
  <2>2. CASE At(close) # "NUL"
    <3>1. close \in Start + 1 .. Len(text) /\ to = close + 1
      BY <1>5, <2>2
    <3> QED
      BY <1>1, <1>5, <3>1
  <2> QED
    BY <2>1, <2>2
<1> HIDE DEF to
<1>7. \A k \in Start .. to - 1 : At(k) = "newline" => IsExempt(Start, to, k)
  <2> SUFFICES ASSUME NEW k \in Start .. to - 1, k # Start PROVE IsExempt(Start, to, k)
    BY <1>1 DEF IsBlank
  <2>1. Start < k /\ k < to
    BY <1>5, <1>6
  <2> QED
    BY <1>3, <2>1
<1>8. IsToken(type, to, LineAtStart)
  BY <1>1, <1>4, <1>6, <1>7, MadeToken
<1>9. IsLexeme(Scanned(type, to, start, length, LineAtStart))
  <2>1. CASE At(close) = "NUL"
    BY <2>1, LexemeIs DEF type
  <2>2. CASE At(close) # "NUL"
    <3>1. At(close) = Quote /\ close \in Start + 1 .. Len(text)
      BY <1>5, <2>2
    <3>2. /\ type = "IDENTIFIER" /\ to = close + 1
          /\ start = Start + 1
      BY <2>2 DEF type, to, start
    <3> DEFINE s == Span(Start, to)
    <3>3. IsQuotedBy(s, Quote)
      BY <1>1, <1>2, <1>5, <3>1, <3>2, QuotedSpan
    <3>4. /\ Len(s) = to - Start /\ to - Start \in Nat
          /\ \A k \in 1 .. to - Start : s[k] = At(Start + k - 1)
      BY <1>1, <1>6, SpanIs
    <3> HIDE DEF s
    <3>5. s[1] = Quote
      <4>1. 1 \in 1 .. to - Start /\ Start + 1 - 1 = Start
        BY <1>5, <1>6, <3>4
      <4> QED
        BY <1>2, <3>4, <4>1
    <3> QED
      BY <3>2, <3>3, <3>5, LexemeIs DEF s
  <2> QED
    BY <2>1, <2>2
<1> QED
  BY <1>2, <1>8, <1>9 DEF IsScanned, IsScan

LEMMA SymbolScanned == Scans /\ Symbol => IsScanned
<1> SUFFICES ASSUME Scans, Symbol PROVE IsScanned
  OBVIOUS
<1>1. IsText /\ current \in Places /\ line \in Nat /\ Start \in Places /\ Len(text) \in Nat
      /\ ~ IsBlank(Start)
  BY ScansFacts
<1>2. PICK type \in {"LEFT_PAREN", "RIGHT_PAREN", "SEMICOLON", "COMMA", "DOT", "MINUS", "PLUS", "SLASH",
                    "STAR", "BANG", "EQUAL", "LESS", "GREATER", "BANG_EQUAL", "LESS_EQUAL",
                    "GREATER_EQUAL"}, to \in {Start + 1, Start + 2} :
        /\ MakeToken(type, to)
        /\ At(Start) \in Marks \ {"NUL", Quote}
        /\ to = Start + 1 =>
             /\ At(Start) \in DOMAIN Symbols \cup DOMAIN Operators
             /\ ~ (At(Start) \in DOMAIN OperatorsEqual /\ At(Start + 1) = "=")
        /\ to = Start + 2 => At(Start) \in DOMAIN OperatorsEqual /\ At(Start + 1) = "="
  <2> DEFINE c == At(Start)
  <2>1. c \in DOMAIN Symbols \cup DOMAIN Operators \cup DOMAIN OperatorsEqual => c \in Marks \ {"NUL", Quote}
    <3>1. /\ Quote \notin {"(", ")", ";", ",", ".", "-", "+", "/", "*"}
          /\ Quote \notin {"!", "=", "<", ">"}
      BY Zenon DEF Quote
    <3> QED
      BY <3>1, Marked DEF Symbols, Operators, OperatorsEqual
  <2>2. CASE c \in DOMAIN Symbols /\ MakeToken(Symbols[c], Start + 1)
    <3>1. Symbols[c] \in {"LEFT_PAREN", "RIGHT_PAREN", "SEMICOLON", "COMMA", "DOT", "MINUS", "PLUS",
                          "SLASH", "STAR"}
      BY <2>2 DEF Symbols
    <3>2. c \in Marks \ {"NUL", Quote} /\ ~ (Start + 1 = Start + 2)
      BY <1>1, <2>1, <2>2 DEF Places
    <3>3. c \notin DOMAIN OperatorsEqual
      BY <2>2 DEF Symbols, OperatorsEqual
    <3> HIDE DEF c
    <3> QED
      BY <2>2, <3>1, <3>2, <3>3 DEF c
  <2>3. CASE c \in DOMAIN OperatorsEqual /\ At(Start + 1) = "=" /\ MakeToken(OperatorsEqual[c], Start + 2)
    <3>1. OperatorsEqual[c] \in {"BANG_EQUAL", "LESS_EQUAL", "GREATER_EQUAL"}
      BY <2>3 DEF OperatorsEqual
    <3>2. c \in Marks \ {"NUL", Quote} /\ ~ (Start + 2 = Start + 1)
      BY <1>1, <2>1, <2>3 DEF Places
    <3> HIDE DEF c
    <3> QED
      BY <2>3, <3>1, <3>2 DEF c
  <2>4. CASE /\ c \in DOMAIN Operators /\ MakeToken(Operators[c], Start + 1)
             /\ ~ (c \in DOMAIN OperatorsEqual /\ At(Start + 1) = "=")
    <3>1. Operators[c] \in {"BANG", "EQUAL", "LESS", "GREATER"}
      BY <2>4 DEF Operators
    <3>2. c \in Marks \ {"NUL", Quote} /\ ~ (Start + 1 = Start + 2)
      BY <1>1, <2>1, <2>4 DEF Places
    <3> HIDE DEF c
    <3> QED
      BY <2>4, <3>1, <3>2 DEF c
  <2> QED
    BY <2>2, <2>3, <2>4 DEF Symbol
<1>3. TokenOf(type, to, Start, to - Start, LineAtStart)
  BY <1>2 DEF MakeToken
<1> HIDE DEF Start
<1>4. Start \in 1 .. Len(text)
  BY <1>1, <1>2, InText DEF Places
<1>5. to = Start + 2 => Start + 1 \in 1 .. Len(text)
  BY <1>1, <1>2, <1>4, InText
<1>6. to \in Start .. Len(text) + 1 /\ Start < to
  BY <1>2, <1>4, <1>5
<1>7. \A k \in Start .. to - 1 : At(k) # "newline"
  <2>1. \A k \in Start .. to - 1 : k = Start \/ (k = Start + 1 /\ to = Start + 2)
    BY <1>2, <1>4
  <2> QED
    BY <1>1, <1>2, <2>1 DEF IsBlank
<1>8. IsToken(type, to, LineAtStart)
  <2>1. type \notin {"EOF", "ERROR"}
    BY <1>2
  <2> QED
    BY <1>1, <1>6, <1>7, <2>1, MadeToken
<1>9. IsLexeme(Scanned(type, to, Start, to - Start, LineAtStart))
  <2> DEFINE s == Span(Start, to)
  <2>1. type \notin OwnTypes
    BY <1>2 DEF OwnTypes
  <2>2. At(Start) \notin Alpha /\ At(Start) # Quote
    BY <1>2, Marked
  <2>3. /\ Len(s) = to - Start /\ to - Start \in Nat
        /\ \A k \in 1 .. to - Start : s[k] = At(Start + k - 1)
    BY <1>1, <1>6, SpanIs
  <2> HIDE DEF s
  <2>4. s[1] = At(Start)
    BY <1>4, <1>6, <2>3
  <2>5. IsOperator(s)
    <3>1. CASE to = Start + 1
      <4>1. Len(s) = 1
        BY <1>4, <2>3, <3>1
      <4> QED
        BY <1>2, <2>4, <3>1, <4>1 DEF IsOperator
    <3>2. CASE to = Start + 2
      <4>1. 2 \in 1 .. to - Start /\ Start + 2 - 1 = Start + 1 /\ to - Start = 2
        BY <1>4, <3>2
      <4>2. Len(s) = 2 /\ s[2] = "="
        BY <1>2, <2>3, <3>2, <4>1
      <4> QED
        BY <1>2, <2>4, <3>2, <4>2 DEF IsOperator
    <3> QED
      BY <1>2, <3>1, <3>2
  <2>6. ASSUME NEW longer \in to + 1 .. Len(text) + 1 PROVE ~ IsOperator(Span(Start, longer))
    <3> DEFINE u == Span(Start, longer)
    <3>1. longer \in Start .. Len(text) + 1 /\ longer \in Int
      BY <1>1, <1>4, <1>6
    <3>2. Len(u) = longer - Start /\ \A k \in 1 .. longer - Start : u[k] = At(Start + k - 1)
      BY <1>1, <3>1, SpanIs
    <3> HIDE DEF u
    <3>3. CASE longer = Start + 2
      <4>1. to = Start + 1
        BY <1>2, <1>4, <3>3
      <4>2. /\ 1 \in 1 .. longer - Start /\ 2 \in 1 .. longer - Start
            /\ Start + 1 - 1 = Start /\ Start + 2 - 1 = Start + 1
        BY <1>4, <3>3
      <4>3. Len(u) = 2 /\ u[1] = At(Start) /\ u[2] = At(Start + 1)
        <5>1. Len(u) = 2
          BY <1>4, <3>2, <3>3
        <5> QED
          BY <3>2, <4>2, <5>1
      <4>4. ~ (u[1] \in DOMAIN OperatorsEqual /\ u[2] = "=")
        BY <1>2, <4>1, <4>3
      <4> QED
        BY <4>3, <4>4 DEF IsOperator, u
    <3>4. CASE longer # Start + 2
      <4>1. Len(u) # 1 /\ Len(u) # 2
        BY <1>2, <1>4, <3>1, <3>2, <3>4
      <4> QED
        BY <4>1 DEF IsOperator, u
    <3> QED
      BY <3>3, <3>4
  <2>7. IsLongest(IsOperator, Start, to)
    BY <2>5, <2>6 DEF IsLongest, s
  <2> QED
    BY <2>1, <2>2, <2>4, <2>7, LexemeIs DEF s
<1> QED
  BY <1>3, <1>8, <1>9 DEF IsScanned, IsScan

LEMMA UnexpectedScanned == Scans /\ Unexpected => IsScanned
<1> SUFFICES ASSUME Scans, Unexpected PROVE IsScanned
  OBVIOUS
<1>1. IsText /\ current \in Places /\ line \in Nat /\ Start \in Places /\ Len(text) \in Nat
      /\ ~ IsBlank(Start)
  BY ScansFacts
<1>2. At(Start) # "NUL" /\ TokenOf("ERROR", Start + 1, Start, (Start + 1) - Start, LineAtStart)
  <2>1. At(Start) # "NUL"
    BY DEF Unexpected
  <2>2. ErrorToken(Start + 1)
    BY DEF Unexpected
  <2> QED
    BY <2>1, <2>2 DEF ErrorToken, MakeToken
<1> HIDE DEF Start
<1>3. Start \in 1 .. Len(text)
  BY <1>1, <1>2, InText DEF Places
<1>4. Start + 1 \in Start .. Len(text) + 1 /\ \A k \in Start .. (Start + 1) - 1 : k = Start
  BY <1>3
<1>5. IsToken("ERROR", Start + 1, LineAtStart)
  BY <1>1, <1>4, MadeToken DEF IsBlank
<1>6. IsLexeme(Scanned("ERROR", Start + 1, Start, (Start + 1) - Start, LineAtStart))
  BY LexemeIs
<1> QED
  BY <1>2, <1>5, <1>6 DEF IsScanned, IsScan

LEMMA TokenAdded ==
  ASSUME tokens \in Seq(ToSet(tokens)), NEW type, NEW to, NEW start, NEW length, NEW newline,
         TokenOf(type, to, start, length, newline)
  PROVE  /\ Len(tokens) \in Nat /\ Len(tokens') = Len(tokens) + 1
         /\ \A i \in 1 .. Len(tokens) : tokens'[i] = tokens[i]
         /\ tokens'[Len(tokens) + 1] = [type |-> type, from |-> Start, to |-> to, start |-> start,
                                        length |-> length, line |-> newline]
         /\ tokens' \in Seq(ToSet(tokens'))
         /\ ToSet(tokens') = ToSet(tokens) \cup {tokens'[Len(tokens) + 1]}
<1> DEFINE t == [type |-> type, from |-> Start, to |-> to, start |-> start, length |-> length,
                 line |-> newline]
           Old == ToSet(tokens)
<1>1. tokens' = Append(tokens, t)
  BY DEF TokenOf
<1>2. tokens \in Seq(Old) /\ Old = {tokens[i] : i \in DOMAIN tokens}
  BY DEF ToSet
<1> HIDE DEF t, Old
<1>3. /\ Len(tokens) \in Nat /\ Len(tokens') = Len(tokens) + 1
      /\ \A i \in 1 .. Len(tokens) : tokens'[i] = tokens[i]
      /\ tokens'[Len(tokens) + 1] = t
      /\ tokens' \in Seq(Old \cup {t})
  BY <1>1, <1>2
<1>4. DOMAIN tokens = 1 .. Len(tokens) /\ DOMAIN tokens' = 1 .. Len(tokens) + 1
  BY <1>2, <1>3
<1>5. {tokens'[i] : i \in DOMAIN tokens'} = Old \cup {t}
  <2>1. \A i \in 1 .. Len(tokens) + 1 : i \in 1 .. Len(tokens) \/ i = Len(tokens) + 1
    BY <1>3
  <2>2. \A i \in 1 .. Len(tokens) : i \in 1 .. Len(tokens) + 1
    BY <1>3
  <2>3. Len(tokens) + 1 \in 1 .. Len(tokens) + 1
    BY <1>3
  <2> QED
    BY <1>2, <1>3, <1>4, <2>1, <2>2, <2>3
<1>6. ToSet(tokens') = Old \cup {t}
  BY <1>5 DEF ToSet
<1> QED
  BY <1>3, <1>6 DEF t, Old

\* The text and what it says of a place stay.
LEMMA TextStays ==
  ASSUME text' = text
  PROVE  /\ \A i : At(i)' = At(i)
         /\ \A from, k : InComment(from, k)' <=> InComment(from, k)
         /\ IsText' = IsText /\ Places' = Places
<1>1. \A i : At(i)' = At(i)
  BY DEF At
<1>2. \A from, k : InComment(from, k)' <=> InComment(from, k)
  BY <1>1 DEF InComment
<1> QED
  BY <1>1, <1>2 DEF IsText, Places

\* The tokens so far lie before current.
LEMMA UncountedBefore ==
  ASSUME TileInv, NEW k \in Int, Uncounted(k)
  PROVE  k < current
<1>1. PICK u \in ToSet(tokens) : u.from < k /\ k < u.to
  BY DEF Uncounted
<1>2. PICK i \in DOMAIN tokens : u = tokens[i]
  BY <1>1 DEF ToSet
<1>3. DOMAIN tokens = 1 .. Len(tokens)
  <2> DEFINE S == ToSet(tokens)
  <2>1. tokens \in Seq(S)
    BY DEF TileInv
  <2> HIDE DEF S
  <2> QED
    BY <2>1
<1>4. u.from \in Places /\ u.to \in u.from .. current /\ current \in Places /\ Len(text) \in Nat
  BY <1>2, <1>3, TextEnds DEF TileInv
<1> QED
  BY <1>1, <1>4 DEF Places

\* One token more: the line ends in front of it are those in front of the last
\* one, those between the two and those that this one counts.
LEMMA LinesAdded ==
  ASSUME Scans, NEW type, NEW to, NEW start, NEW length, NEW newline,
         IsScan(type, to, start, length, newline)
  PROVE  /\ \A x \in 1 .. current : LinesBefore(x)' = LinesBefore(x)
         /\ newline = 1 + Cardinality(LinesBefore(to)')
<1> DEFINE A == LinesBefore(current)
           B == {k \in current .. Start - 1 : At(k) = "newline"}
           C == LinesIn(Start, to)
<1>1. /\ IsText /\ current \in Places /\ line = 1 + Cardinality(A)
      /\ tokens \in Seq(ToSet(tokens)) /\ Len(text) \in Nat
  BY TextEnds DEF Scans, TileInv
<1>2. Start \in current .. Len(text) + 1 /\ Start \in Places
  BY <1>1, StartIs
<1>3. TokenOf(type, to, start, length, newline) /\ IsToken(type, to, newline)
  BY DEF IsScan
<1>4. to \in Start .. Len(text) + 1 /\ newline = line + Cardinality(B) + Cardinality(C)
  BY <1>3 DEF IsToken, LineAtStart, Newlines
<1>5. text' = text
  BY <1>3 DEF TokenOf
<1>6. \A i : At(i)' = At(i)
  BY <1>5, TextStays
<1>7. \A k : Uncounted(k)' <=> Uncounted(k) \/ IsExempt(Start, to, k)
  <2> DEFINE t == tokens'[Len(tokens) + 1]
  <2>1. t.from = Start /\ t.to = to /\ ToSet(tokens') = ToSet(tokens) \cup {t}
    <3>1. /\ t = [type |-> type, from |-> Start, to |-> to, start |-> start, length |-> length,
                  line |-> newline]
          /\ ToSet(tokens') = ToSet(tokens) \cup {t}
      BY <1>1, <1>3, TokenAdded
    <3> QED
      BY <3>1
  <2> DEFINE OldTokens == ToSet(tokens)
             NewTokens == ToSet(tokens')
             Counts(u, k) == /\ u.from < k /\ k < u.to
                             /\ At(u.from) = Quote \/ (At(u.from) \in {"x", "X"} /\ k = u.from + 2)
  <2>2. \A k : Uncounted(k) <=> \E u \in OldTokens : Counts(u, k)
    BY DEF Uncounted
  <2>3. \A k : Uncounted(k)' <=> \E u \in NewTokens : Counts(u, k)
    BY <1>6 DEF Uncounted
  <2>4. \A k : Counts(t, k) <=> IsExempt(Start, to, k)
    BY <2>1, Zenon DEF IsExempt
  <2>5. NewTokens = OldTokens \cup {t}
    BY <2>1
  <2> HIDE DEF OldTokens, NewTokens, Counts, t
  <2> QED
    BY <2>2, <2>3, <2>4, <2>5
<1> HIDE DEF Start
<1>8. \A k \in Int : Uncounted(k) => k < current
  BY UncountedBefore DEF Scans
<1>9. \A k \in Int : IsExempt(Start, to, k) => k > Start
  BY <1>2 DEF IsExempt, Places
<1>10. ASSUME NEW x \in 1 .. current
       PROVE  LinesBefore(x)' = LinesBefore(x)
  <2>1. \A k \in 1 .. x - 1 : ~ IsExempt(Start, to, k)
    BY <1>1, <1>2, <1>9 DEF Places
  <2> QED
    BY <1>6, <1>7, <2>1 DEF LinesBefore
<1>11. LinesBefore(to)' = A \cup B \cup C
  <2>1. \A k \in 1 .. to - 1 : k \in 1 .. current - 1 \/ k \in current .. Start - 1 \/ k \in Start .. to - 1
    BY <1>1, <1>2, <1>4 DEF Places
  <2>2. \A k \in 1 .. current - 1 : k \in 1 .. to - 1 /\ ~ IsExempt(Start, to, k)
    BY <1>1, <1>2, <1>4, <1>9 DEF Places
  <2>3. \A k \in current .. Start - 1 : k \in 1 .. to - 1 /\ ~ IsExempt(Start, to, k) /\ ~ Uncounted(k)
    BY <1>1, <1>2, <1>4, <1>8, <1>9 DEF Places
  <2>4. \A k \in Start .. to - 1 : k \in 1 .. to - 1 /\ ~ Uncounted(k)
    BY <1>1, <1>2, <1>4, <1>8 DEF Places
  <2>5. LinesBefore(to)' = {k \in 1 .. to - 1 : At(k) = "newline" /\ ~ (Uncounted(k) \/ IsExempt(Start, to, k))}
    BY <1>6, <1>7 DEF LinesBefore
  <2> QED
    BY <2>1, <2>2, <2>3, <2>4, <2>5 DEF LinesBefore, LinesIn
<1>12. A \subseteq 1 .. current - 1 /\ B \subseteq current .. Start - 1 /\ C \subseteq Start .. to - 1
  BY DEF LinesBefore, LinesIn
<1> HIDE DEF A, B, C
<1>13. /\ IsFiniteSet(A) /\ IsFiniteSet(B) /\ IsFiniteSet(C)
       /\ Cardinality(A) \in Nat /\ Cardinality(B) \in Nat /\ Cardinality(C) \in Nat
  <2> DEFINE a == current - 1
             b == Start - 1
             c == to - 1
  <2>1. 1 \in Int /\ a \in Int /\ b \in Int /\ c \in Int /\ current \in Int /\ Start \in Int
    BY <1>1, <1>2, <1>4 DEF Places
  <2>2. A \subseteq 1 .. a /\ B \subseteq current .. b /\ C \subseteq Start .. c
    BY <1>12
  <2> HIDE DEF a, b, c
  <2>3. IsFiniteSet(A) /\ Cardinality(A) \in Nat
    BY <2>1, <2>2, SomePlaces
  <2>4. IsFiniteSet(B) /\ Cardinality(B) \in Nat
    BY <2>1, <2>2, SomePlaces
  <2>5. IsFiniteSet(C) /\ Cardinality(C) \in Nat
    BY <2>1, <2>2, SomePlaces
  <2> QED
    BY <2>3, <2>4, <2>5
<1>14. A \cap B = {} /\ (A \cup B) \cap C = {}
  BY <1>1, <1>2, <1>4, <1>12 DEF Places
<1>15. Cardinality(A \cup B) = Cardinality(A) + Cardinality(B) /\ IsFiniteSet(A \cup B)
  BY <1>13, <1>14, FS_Union, FS_EmptySet
<1>17. Cardinality(A \cup B \cup C) = Cardinality(A) + Cardinality(B) + Cardinality(C)
  <2> DEFINE D == A \cup B
  <2>1. IsFiniteSet(D) /\ D \cap C = {} /\ Cardinality(D) = Cardinality(A) + Cardinality(B)
    BY <1>14, <1>15
  <2> HIDE DEF D
  <2>2. Cardinality(D \cup C) = Cardinality(D) + Cardinality(C) - Cardinality(D \cap C)
    BY <1>13, <2>1, FS_Union
  <2>3. Cardinality(D \cap C) = 0
    BY <2>1, FS_EmptySet
  <2> QED
    BY <1>13, <2>1, <2>2, <2>3 DEF D
<1> QED
  BY <1>1, <1>4, <1>10, <1>11, <1>13, <1>17

\* What TokensTileText says of one token.
Tiled(i) ==
  LET t == tokens[i] IN
  /\ Behind(i - 1) <= t.from
  /\ \A k \in Behind(i - 1) .. t.from - 1 :
       At(k) \in {"blank", "newline"} \/ InComment(Behind(i - 1), k)
  /\ At(t.from) \notin {"blank", "newline"}
  /\ ~ (At(t.from) = "/" /\ At(t.from + 1) = "/")
  /\ t.type \notin {"EOF", "ERROR"} => t.from < t.to
  /\ t.type = "EOF" => t.to = Len(text) + 1
  /\ t.line = 1 + Cardinality(LinesBefore(t.to))

LEMMA TiledIs ==
  TokensTileText <=> /\ \A i \in 1 .. Len(tokens) : Tiled(i)
                     /\ status = "overrun" => At(Len(text) - 1) \in {"x", "X"} /\ At(Len(text)) = "'"
BY DEF TokensTileText, Tiled

LEMMA ScannedTiles == Scans /\ IsScanned => TileInv'
<1> SUFFICES ASSUME Scans, NEW type, NEW to, NEW start, NEW length, NEW newline,
                    IsScan(type, to, start, length, newline)
    PROVE  TileInv'
  BY DEF IsScanned
<1> DEFINE n == Len(tokens)
           t == [type |-> type, from |-> Start, to |-> to, start |-> start, length |-> length,
                 line |-> newline]
<1>1. /\ IsText /\ tokens \in Seq(ToSet(tokens)) /\ current = Behind(n) /\ current \in Places
      /\ \A i \in 1 .. n : tokens[i].from \in Places /\ tokens[i].to \in tokens[i].from .. current
      /\ \A i \in 1 .. n : Tiled(i)
      /\ status = "scanning"
  BY TiledIs DEF Scans, TileInv, Ready
<1>2. /\ TokenOf(type, to, start, length, newline)
      /\ to \in Start .. Len(text) + 1
      /\ type \notin {"EOF", "ERROR"} => Start < to
      /\ type = "EOF" => to = Len(text) + 1
  BY DEF IsScan, IsToken
<1>3. /\ n \in Nat /\ Len(tokens') = n + 1 /\ tokens'[n + 1] = t
      /\ \A i \in 1 .. n : tokens'[i] = tokens[i]
      /\ tokens' \in Seq(ToSet(tokens'))
  BY <1>1, <1>2, TokenAdded
<1>4. /\ Start \in current .. Len(text) + 1 /\ Start \in Places
      /\ IsSkipped(current, Start) /\ ~ IsBlank(Start) /\ ~ IsCommentAt(Start)
      /\ Len(text) \in Nat
  BY <1>1, StartIs, TextEnds
<1>5. /\ text' = text /\ current' = to /\ line' = newline
      /\ status' \in {"scanning", "ended"}
  BY <1>1, <1>2 DEF TokenOf
<1>6. /\ t.type = type /\ t.from = Start /\ t.to = to /\ t.line = newline
  OBVIOUS
<1> HIDE DEF Start, t
<1>7. /\ \A i : At(i)' = At(i)
      /\ \A from, k : InComment(from, k)' <=> InComment(from, k)
      /\ IsText' /\ Places' = Places
  BY <1>1, <1>5, TextStays
<1>8. /\ \A x \in 1 .. current : LinesBefore(x)' = LinesBefore(x)
      /\ newline = 1 + Cardinality(LinesBefore(to)')
  BY LinesAdded
<1>9. current' = Behind(Len(tokens))' /\ current' \in Places'
  <2>1. Len(tokens') # 0 /\ tokens'[Len(tokens')].to = to
    BY <1>3, <1>6
  <2>2. to \in Places
    BY <1>2, <1>4 DEF Places
  <2> QED
    BY <1>5, <1>7, <2>1, <2>2 DEF Behind
<1>10. line' = 1 + Cardinality(LinesBefore(current)')
  <2>1. LinesBefore(current)' = LinesBefore(to)'
    BY <1>5 DEF LinesBefore
  <2> QED
    BY <1>5, <1>8, <2>1
<1>11. ASSUME NEW i \in 1 .. n + 1
       PROVE  tokens'[i].from \in Places /\ tokens'[i].to \in tokens'[i].from .. to
  <2>1. CASE i \in 1 .. n
    <3>1. tokens'[i] = tokens[i] /\ tokens[i].from \in Places /\ tokens[i].to \in tokens[i].from .. current
      BY <1>1, <1>3, <2>1
    <3> QED
      BY <1>1, <1>2, <1>4, <3>1 DEF Places
  <2>2. CASE i = n + 1
    BY <1>2, <1>3, <1>4, <1>6, <2>2 DEF Places
  <2> QED
    BY <1>3, <2>1, <2>2
<1>12. \A i \in 0 .. n : Behind(i)' = Behind(i)
  BY <1>3 DEF Behind
<1>13. ASSUME NEW i \in 1 .. n + 1
       PROVE  Tiled(i)'
  <2>1. i - 1 \in 0 .. n /\ Behind(i - 1)' = Behind(i - 1)
    BY <1>3, <1>12
  <2>2. CASE i \in 1 .. n
    <3>1. tokens'[i] = tokens[i] /\ Tiled(i)
      BY <1>1, <1>3, <2>2
    <3>2. tokens[i].to \in 1 .. current
      BY <1>1, <1>4, <2>2 DEF Places
    <3>3. LinesBefore(tokens[i].to)' = LinesBefore(tokens[i].to)
      <4> DEFINE x == tokens[i].to
      <4>1. LinesBefore(x)' = {k \in 1 .. x - 1 : At(k)' = "newline" /\ ~ Uncounted(k)'}
        BY <3>1 DEF LinesBefore
      <4>2. \A y : LinesBefore(y)' = {k \in 1 .. y - 1 : At(k)' = "newline" /\ ~ Uncounted(k)'}
        BY DEF LinesBefore
      <4> HIDE DEF x
      <4> QED
        BY <1>8, <3>2, <4>1, <4>2 DEF x
    <3> QED
      BY <1>5, <1>7, <2>1, <3>1, <3>3 DEF Tiled
  <2>3. CASE i = n + 1
    <3>1. tokens'[i] = t /\ Behind(i - 1) = current
      BY <1>1, <1>3, <2>3
    <3>2. \A k \in current .. Start - 1 : At(k) \in {"blank", "newline"} \/ InComment(current, k)
      BY <1>4 DEF IsSkipped, IsBlank
    <3>3. current <= Start /\ At(Start) \notin {"blank", "newline"} /\ ~ (At(Start) = "/" /\ At(Start + 1) = "/")
      BY <1>1, <1>4 DEF IsBlank, IsCommentAt, Places
    <3>4. /\ tokens'[i].from = Start /\ tokens'[i].to = to /\ tokens'[i].type = type
          /\ tokens'[i].line = newline
      BY <1>6, <3>1
    <3>5. newline = 1 + Cardinality(LinesBefore(tokens[i].to)')
      <4>1. LinesBefore(tokens[i].to)' = LinesBefore(to)'
        BY <3>4 DEF LinesBefore
      <4> QED
        BY <1>8, <4>1
    <3>6. /\ Behind(i - 1)' <= tokens'[i].from
          /\ (\A k \in Behind(i - 1) .. tokens[i].from - 1 :
                At(k) \in {"blank", "newline"} \/ InComment(Behind(i - 1), k))'
      BY <1>7, <2>1, <3>1, <3>2, <3>3, <3>4 DEF InComment
    <3>7. At(tokens[i].from)' = At(Start) /\ At(tokens[i].from + 1)' = At(Start + 1)
      BY <1>5, <3>4 DEF At
    <3> QED
      BY <1>2, <1>5, <1>6, <1>7, <2>1, <3>1, <3>3, <3>4, <3>5, <3>6, <3>7 DEF Tiled
  <2> QED
    BY <1>3, <2>2, <2>3
<1>14. TokensTileText'
  BY <1>3, <1>5, <1>13 DEF TokensTileText, Tiled
<1> QED
  BY <1>3, <1>5, <1>7, <1>9, <1>10, <1>11, <1>14 DEF TileInv

LEMMA KeptTiles ==
  ASSUME TileInv, UNCHANGED <<text, current, line, tokens>>,
         status' = "filling" => status = "filling",
         status' = "overrun" => At(Len(text) - 1) \in {"x", "X"} /\ At(Len(text)) = "'"
  PROVE  TileInv'
<1>1. /\ \A i : At(i)' = At(i)
      /\ \A from, k : InComment(from, k)' <=> InComment(from, k)
      /\ IsText' = IsText /\ Places' = Places
  BY TextStays
<1>2. \A i : Behind(i)' = Behind(i)
  BY DEF Behind
<1>3. LinesBefore(current)' = LinesBefore(current) /\ Behind(Len(tokens))' = Behind(Len(tokens))
  BY <1>1 DEF LinesBefore, Uncounted, Behind
<1>4. ASSUME NEW i \in 1 .. Len(tokens) PROVE Tiled(i)'
  <2>1. Tiled(i)
    BY TiledIs DEF TileInv
  <2>2. LinesBefore(tokens[i].to)' = LinesBefore(tokens[i].to)
    BY <1>1 DEF LinesBefore, Uncounted
  <2>3. (\A k \in Behind(i - 1) .. tokens[i].from - 1 :
           At(k) \in {"blank", "newline"} \/ InComment(Behind(i - 1), k))'
    BY <1>1, <1>2, <2>1 DEF Tiled, InComment
  <2>4. At(tokens[i].from)' = At(tokens[i].from) /\ At(tokens[i].from + 1)' = At(tokens[i].from + 1)
    BY DEF At
  <2> QED
    BY <1>2, <2>1, <2>2, <2>3, <2>4 DEF Tiled
<1>5. (status = "overrun" => At(Len(text) - 1) \in {"x", "X"} /\ At(Len(text)) = "'")'
  BY DEF At
<1>6. TokensTileText'
  BY <1>4, <1>5 DEF TokensTileText, Tiled
<1> QED
  BY <1>1, <1>3, <1>6 DEF TileInv

LEMMA OverrunTiles == Scans /\ BlobOverrun => TileInv'
<1> SUFFICES ASSUME Scans, BlobOverrun PROVE TileInv'
  OBVIOUS
<1>1. /\ TileInv /\ IsText /\ Start \in Places /\ Len(text) \in Nat
  BY ScansFacts DEF Scans
<1>2. At(Start) \in {"x", "X"} /\ At(Start + 1) = "'" /\ Start + 2 > Len(text)
  BY DEF BlobOverrun, AtBlob
<1>3. status' = "overrun" /\ UNCHANGED <<text, current, line, tokens>>
  BY DEF BlobOverrun
<1> HIDE DEF Start
<1>4. Start = Len(text) - 1 /\ Start + 1 = Len(text)
  <2>1. Start \in 1 .. Len(text)
    BY <1>1, <1>2, InText DEF Places
  <2>2. Start + 1 \in 1 .. Len(text)
    BY <1>1, <1>2, <2>1, InText
  <2> QED
    BY <1>1, <1>2, <2>1, <2>2
<1>5. At(Len(text) - 1) \in {"x", "X"} /\ At(Len(text)) = "'"
  BY <1>2, <1>4
<1> QED
  BY <1>1, <1>3, <1>5, KeptTiles

\* Before the first token.
LEMMA FreshTiles ==
  ASSUME IsText, tokens = <<>>, current = 1, line = 1, status # "overrun",
         status = "filling" => text = <<>>
  PROVE  TileInv
<1>1. Len(tokens) = 0 /\ tokens \in Seq(ToSet(tokens))
  <2>1. \A S : <<>> \in Seq(S)
    OBVIOUS
  <2> QED
    BY <2>1
<1>2. Behind(0) = 1 /\ LinesBefore(1) = {}
  BY DEF Behind, LinesBefore
<1>3. Cardinality(LinesBefore(current)) = 0
  BY <1>2, FS_EmptySet
<1>4. current \in Places
  BY TextEnds DEF Places
<1>5. TokensTileText
  BY <1>1 DEF TokensTileText
<1> QED
  BY <1>1, <1>2, <1>3, <1>4, <1>5 DEF TileInv

LEMMA FillingIsFresh ==
  ASSUME TileInv, status = "filling"
  PROVE  text = <<>> /\ tokens = <<>> /\ current = 1 /\ line = 1
<1>1. tokens = <<>> /\ text = <<>> /\ current = Behind(Len(tokens))
  BY DEF TileInv
<1>2. current = 1
  BY <1>1 DEF Behind
<1>3. LinesBefore(current) = {}
  BY <1>2 DEF LinesBefore
<1>4. line = 1
  BY <1>3, FS_EmptySet DEF TileInv
<1> QED
  BY <1>1, <1>2, <1>4

LEMMA TileInitInv == Init => TileInv
<1> SUFFICES ASSUME Init PROVE TileInv
  OBVIOUS
<1>1. text = <<>> /\ tokens = <<>> /\ current = 1 /\ line = 1 /\ status = "filling"
  BY DEF Init
<1>2. IsText
  <2>1. \A S : <<>> \in Seq(S)
    OBVIOUS
  <2> QED
    BY <1>1, <2>1 DEF IsText
<1> QED
  BY <1>1, <1>2, FreshTiles

LEMMA TileNextInv == TileInv /\ TrieInv /\ [Next]_vars => TileInv'
<1> SUFFICES ASSUME TileInv, TrieInv, [Next]_vars PROVE TileInv'
  OBVIOUS
<1>1. CASE AddReservedWord
  <2>1. /\ status = "filling" /\ status' \in {"filling", "exited"}
        /\ UNCHANGED <<text, current, line, tokens>>
    BY <1>1 DEF AddReservedWord
  <2>2. text' = <<>> /\ tokens' = <<>> /\ current' = 1 /\ line' = 1
    BY <2>1, FillingIsFresh
  <2>3. IsText'
    BY <2>1 DEF TileInv, IsText
  <2>4. (IsText /\ tokens = <<>> /\ current = 1 /\ line = 1 /\ status # "overrun"
         /\ (status = "filling" => text = <<>>) => TileInv)'
    BY FreshTiles, PTL
  <2> QED
    BY <2>1, <2>2, <2>3, <2>4
<1>2. CASE InitScanner
  <2>1. /\ status = "filling" /\ status' = "scanning" /\ text' \in Texts(table)
        /\ UNCHANGED <<current, line, tokens>>
    BY <1>2 DEF InitScanner
  <2>2. tokens' = <<>> /\ current' = 1 /\ line' = 1
    BY <2>1, FillingIsFresh
  <2>3. IsText'
    BY <2>1, LexerAssumption DEF TrieInv, IsText
  <2>4. (IsText /\ tokens = <<>> /\ current = 1 /\ line = 1 /\ status # "overrun"
         /\ (status = "filling" => text = <<>>) => TileInv)'
    BY FreshTiles, PTL
  <2> QED
    BY <2>1, <2>2, <2>3, <2>4
<1>3. CASE ScanToken
  <2>1. Scans
    BY <1>3, ScanKeeps DEF Scans, Ready
  <2>2. CASE BlobOverrun
    BY <2>1, <2>2, OverrunTiles
  <2>3. CASE ~ BlobOverrun
    <3>1. IsScanned
      BY <1>3, <2>1, <2>3, EndScanned, BlobScanned, IdentifierScanned, NumberScanned, StringScanned,
         QuotedIdentifierScanned, SymbolScanned, UnexpectedScanned DEF ScanToken
    <3> QED
      BY <2>1, <3>1, ScannedTiles
  <2> QED
    BY <2>2, <2>3
<1>4. CASE Ended \/ UNCHANGED vars
  <2>1. UNCHANGED <<text, current, line, tokens, status>>
    BY <1>4 DEF Ended, vars
  <2> QED
    BY <2>1, KeptTiles DEF TileInv, TokensTileText
<1> QED
  BY <1>1, <1>2, <1>3, <1>4 DEF Next

\* Every character of the text belongs to one token or to the blanks and
\* comments between two, no token reaches into another, the token EOF stands at the end,
\* and a token's line is right but for the line ends that quoted identifiers
\* and a blob's first character hide (lexer.c:229-267, 347-398).
THEOREM TokensTile == Spec => []TokensTileText
<1>1. Init => TrieInv /\ TileInv
  BY TrieInitInv, TileInitInv
<1>2. TrieInv /\ TileInv /\ [Next]_vars => (TrieInv /\ TileInv)'
  BY TrieNextInv, TileNextInv
<1>3. TileInv => TokensTileText
  BY DEF TileInv
<1> QED
  BY <1>1, <1>2, <1>3, PTL DEF Spec
-----------------------------------------------------------------------------
\* While there is more to scan, no token is the end or an error.
LexemeInv ==
  /\ \A i \in 1 .. Len(tokens) : IsLexeme(tokens[i])
  /\ \A i \in 1 .. Len(tokens) : tokens[i].type \in {"EOF", "ERROR"} => i = Len(tokens)
  /\ status = "scanning" => \A i \in 1 .. Len(tokens) : tokens[i].type \notin {"EOF", "ERROR"}

LEMMA LexemeNextInv == LexemeInv /\ TileInv /\ TrieInv /\ [Next]_vars => LexemeInv'
<1> SUFFICES ASSUME LexemeInv, TileInv, TrieInv, [Next]_vars PROVE LexemeInv'
  OBVIOUS
<1>1. CASE UNCHANGED <<text, tokens>> /\ (status' = "scanning" => status = "scanning")
  <2>1. \A i \in 1 .. Len(tokens) : IsLexeme(tokens[i])' <=> IsLexeme(tokens[i])
    BY <1>1 DEF IsLexeme, IsLongest, Span
  <2> QED
    BY <1>1, <2>1 DEF LexemeInv
<1>2. CASE InitScanner
  <2>1. tokens' = <<>>
    BY <1>2, FillingIsFresh DEF InitScanner
  <2> QED
    BY <2>1 DEF LexemeInv
<1>3. CASE AddReservedWord \/ BlobOverrun \/ Ended \/ UNCHANGED vars
  <2>1. UNCHANGED <<text, tokens>> /\ (status' = "scanning" => status = "scanning")
    BY <1>3 DEF AddReservedWord, BlobOverrun, Ended, vars
  <2> QED
    BY <1>1, <2>1
<1>4. CASE ScanToken /\ ~ BlobOverrun
  <2>1. Scans
    BY <1>4, ScanKeeps DEF Scans, Ready
  <2>2. IsScanned
    BY <1>4, <2>1, EndScanned, BlobScanned, IdentifierScanned, NumberScanned, StringScanned,
       QuotedIdentifierScanned, SymbolScanned, UnexpectedScanned DEF ScanToken
  <2>3. PICK type, to, start, length, newline : IsScan(type, to, start, length, newline)
    BY <2>2 DEF IsScanned
  <2> DEFINE n == Len(tokens)
  <2>4. PICK t : t = Scanned(type, to, start, length, newline)
    OBVIOUS
  <2>5. TokenOf(type, to, start, length, newline) /\ IsLexeme(t)
    BY <2>3, <2>4 DEF IsScan
  <2>6. t.type = type
    BY <2>4 DEF Scanned
  <2>7. /\ n \in Nat /\ Len(tokens') = n + 1 /\ tokens'[n + 1] = t
        /\ \A i \in 1 .. n : tokens'[i] = tokens[i]
    BY <2>1, <2>4, <2>5, TokenAdded DEF Scanned, Scans, TileInv
  <2>8. /\ text' = text /\ status = "scanning"
        /\ status' = IF type \in {"EOF", "ERROR"} THEN "ended" ELSE status
    BY <2>1, <2>5 DEF TokenOf, Scans, Ready
  <2>9. \A i \in 1 .. n : IsLexeme(tokens[i]) /\ tokens[i].type \notin {"EOF", "ERROR"}
    BY <2>8 DEF LexemeInv
  <2>10. \A i \in 1 .. n + 1 : i \in 1 .. n \/ i = n + 1
    BY <2>7
  <2>11. ASSUME NEW i \in 1 .. n + 1 PROVE IsLexeme(tokens[i])'
    <3>1. PICK u : u = tokens'[i]
      OBVIOUS
    <3>2. IsLexeme(u)
      BY <2>5, <2>7, <2>9, <2>10, <3>1
    <3>3. IsLexeme(tokens[i])' <=> IsLexeme(u)
      BY <2>8, <3>1 DEF IsLexeme, IsLongest, Span
    <3> QED
      BY <3>2, <3>3
  <2> QED
    BY <2>6, <2>7, <2>8, <2>9, <2>10, <2>11 DEF LexemeInv
<1> QED
  BY <1>2, <1>3, <1>4 DEF Next, ScanToken

\* Every token goes over a lexeme of its type, words, numbers and operators over the
\* longest that starts where they start, a quoted identifier begins behind its quote,
\* and nothing is scanned past the end or an error (lexer.c:256-400).
THEOREM TokensLexed == Spec => []TokensAreLexemes
<1> DEFINE Inv == TrieInv /\ TileInv /\ LexemeInv
<1>1. Init => Inv
  <2>1. Init => LexemeInv
    BY DEF Init, LexemeInv
  <2> QED
    BY <2>1, TrieInitInv, TileInitInv
<1>2. Inv /\ [Next]_vars => Inv'
  BY TrieNextInv, TileNextInv, LexemeNextInv
<1>3. Inv => TokensAreLexemes
  BY DEF LexemeInv, TokensAreLexemes
<1> HIDE DEF Inv
<1> QED
  BY <1>1, <1>2, <1>3, PTL DEF Spec
=============================================================================
