---------------------------- MODULE AlertRateLimit ----------------------------
(***************************************************************************)
(* What the alert prioritizer does for each condition, with no batches, no *)
(* collapsing and no ranking: of the conditions a call puts up, exactly    *)
(* those fire that never did or whose last firing is an interval old.      *)
(*                                                                         *)
(* The docstring of prioritizer.py:7-11 promises two ends of suppression,  *)
(* "until the condition resolves or a configurable re-alert interval       *)
(* elapses".  The code has the second only: nothing tells it that a        *)
(* condition resolved, so one that resolves and comes back within the      *)
(* interval stays suppressed.  This module states the code: a condition    *)
(* that a call in between did not put up keeps its time in `fired`.        *)
(***************************************************************************)
EXTENDS Naturals

CONSTANTS
    Key,        \* the conditions that can be alerted on
    Interval,   \* the re-alert interval, in clock ticks
    Never       \* "this key has not fired"

VARIABLES
    now,
    fired,      \* key -> when it last fired
    asked       \* the conditions that the call just answered has put up

rlVars == <<now, fired, asked>>

Due(k) == fired[k] = Never \/ now - fired[k] >= Interval

Init ==
    /\ now = 0
    /\ fired = [k \in Key |-> Never]
    /\ asked = {}

Tick ==
    /\ now' = now + 1
    /\ asked' = {}
    /\ UNCHANGED fired

\* A call fires what it puts up and is due, all of it and nothing else.
Ask(S) ==
    /\ asked' = S
    /\ fired' = [k \in Key |-> IF k \in S /\ Due(k) THEN now ELSE fired[k]]
    /\ UNCHANGED now

Forget ==
    /\ fired' = [k \in Key |-> Never]
    /\ asked' = {}
    /\ UNCHANGED now

Next == Tick \/ Forget \/ \E S \in SUBSET Key : Ask(S)

Spec == Init /\ [][Next]_rlVars
=============================================================================
