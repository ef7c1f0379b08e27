---------------------------- MODULE ExceptionPhases ----------------------------
(***************************************************************************)
(* What the lifecycle of risk/exception_manager.py promises: an exception  *)
(* is opened, a named human may authorize it once and until a day of his   *)
(* choice, and nothing that has lapsed or been closed comes back.          *)
(***************************************************************************)
EXTENDS Naturals

CONSTANT Exception

VARIABLES
    today,  \* the calendar
    phase   \* where each exception stands

phaseVars == <<today, phase>>

Phase == {"none", "open", "active", "lapsed", "closed"}

Init ==
    /\ today \in Nat
    /\ phase = [e \in Exception |-> "none"]

Move(e, from, to) ==
    /\ phase[e] = from
    /\ phase' = [phase EXCEPT ![e] = to]
    /\ UNCHANGED today

Raise(e) == Move(e, "none", "open")

\* An authorization that was over before it was given is born lapsed.
Authorize(e) == Move(e, "open", "active") \/ Move(e, "open", "lapsed")

Close(e) == \E from \in {"open", "active", "lapsed"} : Move(e, from, "closed")

\* Midnight: the authorizations in S have run out.
NewDay(S) ==
    /\ \A e \in S : phase[e] = "active"
    /\ today' = today + 1
    /\ phase' = [e \in Exception |-> IF e \in S THEN "lapsed" ELSE phase[e]]

Next ==
    \/ \E e \in Exception : Raise(e) \/ Authorize(e) \/ Close(e)
    \/ \E S \in SUBSET Exception : NewDay(S)

Spec == Init /\ [][Next]_phaseVars
=============================================================================
