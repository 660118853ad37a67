------------------------------ MODULE Dictionary ------------------------------
(***************************************************************************)
(* What a hash map promises its callers (src/planning, src/ast.c): it is a *)
(* partial function from keys to values, and each call answers from it.    *)
(***************************************************************************)
EXTENDS Naturals, Sequences

CONSTANTS Keys, Values, NoValue

VARIABLES contents, answer

Empty == [key \in Keys |-> NoValue]

Held == {key \in Keys : contents[key] # NoValue}

Init == contents = Empty /\ answer = <<"new">>

Set(key, value) ==
  /\ answer' = <<"set", key, value>>
  /\ contents' = [contents EXCEPT ![key] = value]

Get(key) == answer' = <<"value", key, contents[key]>> /\ UNCHANGED contents

ContainsKey(key) == answer' = <<"contains", key, key \in Held>> /\ UNCHANGED contents

\* Every key once, in no particular order.
GetKeys ==
  /\ answer'[1] = "keys"
  /\ {answer'[2][i] : i \in 1 .. Len(answer'[2])} = Held
  /\ \A i, j \in 1 .. Len(answer'[2]) : answer'[2][i] = answer'[2][j] => i = j
  /\ UNCHANGED contents

New == answer' = <<"new">> /\ contents' = Empty

Exit == answer' = <<"exited">> /\ UNCHANGED contents

Next ==
  \/ \E key \in Keys, value \in Values : Set(key, value)
  \/ \E key \in Keys : Get(key) \/ ContainsKey(key)
  \/ GetKeys \/ New \/ Exit

Spec == Init /\ [][Next]_<<contents, answer>>
=============================================================================
