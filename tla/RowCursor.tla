------------------------------ MODULE RowCursor ------------------------------
(***************************************************************************)
(* What a scan promises to the operators above it: the rows of an answer,  *)
(* each exactly once and in ascending order of their rowids, then the end  *)
(* of the scan.  Only a file the scan cannot read may end the process.     *)
(***************************************************************************)
EXTENDS Naturals, Sequences

VARIABLES
  answer,     \* the set of rowids the scan is to return
  sound,      \* whether the scan can read all of the file
  emitted,    \* the rowids it has returned
  status      \* "open", "end" or "failed"

vars == <<answer, sound, emitted, status>>

Init ==
  /\ answer \subseteq Nat /\ emitted = <<>>
  /\ sound \in BOOLEAN
  /\ status \in {"open", "failed"} /\ (status = "failed" => ~sound)

Remaining == {r \in answer : \A k \in DOMAIN emitted : emitted[k] # r}

Emit ==
  /\ status = "open"
  /\ \E r \in Remaining :
       /\ \A q \in Remaining : r <= q
       /\ emitted' = Append(emitted, r)
  /\ UNCHANGED <<answer, sound, status>>

End ==
  /\ status = "open" /\ Remaining = {}
  /\ status' = "end"
  /\ UNCHANGED <<answer, sound, emitted>>

Fail ==
  /\ status = "open" /\ ~sound
  /\ status' = "failed"
  /\ UNCHANGED <<answer, sound, emitted>>

Next == Emit \/ End \/ Fail

SafetySpec == Init /\ [][Next]_vars
=============================================================================
