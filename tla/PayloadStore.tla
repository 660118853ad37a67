----------------------------- MODULE PayloadStore -----------------------------
(***************************************************************************)
(* What reading a cell's payload promises, with no cache, no slots and no  *)
(* overflow chains: a reader asks for a cell and is given exactly that     *)
(* cell's payload, unless the process gives up on an unreadable file.      *)
(***************************************************************************)
CONSTANTS
  Cells,          \* the cells of the file
  Contents(_),    \* the payload of each
  None

VARIABLES request, payload, failed

vars == <<request, payload, failed>>

Init == request = None /\ payload = None /\ failed = FALSE

Ask(c) ==
  /\ ~failed /\ request = None
  /\ request' = c
  /\ UNCHANGED <<payload, failed>>

Answer ==
  /\ ~failed /\ request # None /\ payload = None
  /\ payload' = Contents(request)
  /\ UNCHANGED <<request, failed>>

GiveUp ==
  /\ ~failed /\ request # None /\ payload = None
  /\ failed' = TRUE
  /\ UNCHANGED <<request, payload>>

Take ==
  /\ ~failed /\ payload # None
  /\ request' = None
  /\ payload' = None
  /\ UNCHANGED failed

Next == Answer \/ GiveUp \/ Take \/ \E c \in Cells : Ask(c)

\* What a read may do: nothing but the cell's payload is ever handed on.
SafetySpec == Init /\ [][Next]_vars

\* Every request is answered or given up, and every answer is taken.
Spec == SafetySpec /\ WF_vars(Answer \/ GiveUp) /\ WF_vars(Take)
=============================================================================
