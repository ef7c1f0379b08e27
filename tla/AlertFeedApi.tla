----------------------------- MODULE AlertFeedApi -----------------------------
(***************************************************************************)
(* GET /v1/alerts/feed (api/routers/risk_extended.py) under overlapping    *)
(* requests.  The handler is a plain `def`, so the server runs each        *)
(* request on a thread of its pool, and all of them share the published    *)
(* cycle outputs (api/state.py) and the one deduplication registry of      *)
(* alerting/prioritizer.py, which no lock protects.                        *)
(*                                                                         *)
(* Collapsing and ranking work on the request's own data and are in        *)
(* AlertPrioritizer; here a snapshot is the list of keys that the          *)
(* deduplication pass walks.  A request takes far less than the re-alert   *)
(* interval, so a key that is in the registry suppresses.                  *)
(***************************************************************************)
EXTENDS Naturals, Sequences

CONSTANTS
    Request,    \* threads that serve a GET
    Key,        \* deduplication keys
    MaxList,    \* bound on the alerts of a snapshot
    NoOutputs   \* _latest is None

ASSUME FeedAssumption ==
    /\ MaxList \in Nat
    /\ NoOutputs \notin Seq(Key)

Lists == UNION {[1..n -> Key] : n \in 0..MaxList}

VARIABLES
    latest,      \* api/state.py _latest
    registry,    \* the keys of _dedup_registry
    pc,          \* where each request is
    snapshot,    \* the list a request is working on
    pos,         \* the alert of the snapshot it is at
    seen,        \* what its last look into the registry said
    active,      \* positions it decided to show
    suppressed,  \* positions it decided to suppress
    \* History of a request, which no step reads:
    firedSince,  \* keys recorded by any request since this one's reset
    resetSince,  \* another request reset the registry since this one's reset
    overlapped   \* another request was served at the same time

local == <<pc, snapshot, pos, seen, active, suppressed>>
history == <<firedSince, resetSince, overlapped>>
vars == <<latest, registry, local, history>>

Step == {"idle", "reset", "lookup", "record", "reply"}
InFlight(r) == pc[r] # "idle"

\* Past its own reset and before its answer is gone.
Prioritizing(r) == pc[r] \in {"lookup", "record", "reply"}

Init ==
    /\ latest = NoOutputs
    /\ registry = {}
    /\ pc = [r \in Request |-> "idle"]
    /\ snapshot = [r \in Request |-> <<>>]
    /\ pos = [r \in Request |-> 1]
    /\ seen = [r \in Request |-> FALSE]
    /\ active = [r \in Request |-> {}]
    /\ suppressed = [r \in Request |-> {}]
    /\ firedSince = [r \in Request |-> {}]
    /\ resetSince = [r \in Request |-> FALSE]
    /\ overlapped = [r \in Request |-> FALSE]

\* set_latest_cycle_outputs
Publish(list) ==
    /\ latest' = list
    /\ UNCHANGED <<registry, local, history>>

\* _require_outputs; without outputs the handler answers 503 and is done.
Begin(r) ==
    /\ pc[r] = "idle"
    /\ latest # NoOutputs
    /\ pc' = [pc EXCEPT ![r] = "reset"]
    /\ snapshot' = [snapshot EXCEPT ![r] = latest]
    /\ overlapped' = [q \in Request |->
          IF q = r THEN \E p \in Request : InFlight(p)
                   ELSE overlapped[q] \/ InFlight(q)]
    /\ UNCHANGED <<latest, registry, pos, seen, active, suppressed,
                   firedSince, resetSince>>

\* Mutant: the pass runs one alert past the end of the list.
AfterAlertLate(r, at) == IF at > Len(snapshot[r]) + 1 THEN "reply" ELSE "lookup"

\* The for loop over the list: go on with alert `at`, or answer after the last.
AfterAlert(r, at) == IF at > Len(snapshot[r]) THEN "reply" ELSE "lookup"

\* Mutant: the handler does not reset.
ResetSkipped(r) ==
    /\ pc[r] = "reset"
    /\ pc' = [pc EXCEPT ![r] = AfterAlert(r, 1)]
    /\ UNCHANGED <<latest, registry, snapshot, pos, seen, active, suppressed,
                   firedSince, resetSince, overlapped>>

\* reset_dedup_registry binds the name to an empty dict.
ResetRegistry(r) ==
    /\ pc[r] = "reset"
    /\ registry' = {}
    /\ pc' = [pc EXCEPT ![r] = AfterAlert(r, 1)]
    /\ firedSince' = [firedSince EXCEPT ![r] = {}]
    /\ resetSince' = [q \in Request |-> q # r /\ (resetSince[q] \/ Prioritizing(q))]
    /\ UNCHANGED <<latest, snapshot, pos, seen, active, suppressed, overlapped>>

\* last_fired = _dedup_registry.get(key)
Lookup(r) ==
    /\ pc[r] = "lookup"
    /\ seen' = [seen EXCEPT ![r] = snapshot[r][pos[r]] \in registry]
    /\ pc' = [pc EXCEPT ![r] = "record"]
    /\ UNCHANGED <<latest, registry, snapshot, pos, active, suppressed, history>>

\* Suppress a key that was found.
Suppress(r) ==
    /\ pc[r] = "record"
    /\ seen[r]
    /\ suppressed' = [suppressed EXCEPT ![r] = @ \cup {pos[r]}]
    /\ pos' = [pos EXCEPT ![r] = @ + 1]
    /\ pc' = [pc EXCEPT ![r] = AfterAlert(r, pos[r] + 1)]
    /\ UNCHANGED <<latest, registry, snapshot, seen, active, history>>

\* Mutant: the key is not written.
FireUnrecorded(r) ==
    /\ pc[r] = "record"
    /\ ~seen[r]
    /\ active' = [active EXCEPT ![r] = @ \cup {pos[r]}]
    /\ pos' = [pos EXCEPT ![r] = @ + 1]
    /\ pc' = [pc EXCEPT ![r] = AfterAlert(r, pos[r] + 1)]
    /\ UNCHANGED <<latest, registry, snapshot, seen, suppressed, history>>

\* _dedup_registry[key] = now, and show the alert.
Fire(r) ==
    LET key == snapshot[r][pos[r]] IN
    /\ pc[r] = "record"
    /\ ~seen[r]
    /\ registry' = registry \cup {key}
    /\ active' = [active EXCEPT ![r] = @ \cup {pos[r]}]
    /\ pos' = [pos EXCEPT ![r] = @ + 1]
    /\ pc' = [pc EXCEPT ![r] = AfterAlert(r, pos[r] + 1)]
    /\ firedSince' = [q \in Request |->
          IF Prioritizing(q) THEN firedSince[q] \cup {key} ELSE firedSince[q]]
    /\ UNCHANGED <<latest, snapshot, seen, suppressed, resetSince, overlapped>>

\* The response has been sent; the thread is free for another request.
Reply(r) ==
    /\ pc[r] = "reply"
    /\ pc' = [pc EXCEPT ![r] = "idle"]
    /\ snapshot' = [snapshot EXCEPT ![r] = <<>>]
    /\ pos' = [pos EXCEPT ![r] = 1]
    /\ seen' = [seen EXCEPT ![r] = FALSE]
    /\ active' = [active EXCEPT ![r] = {}]
    /\ suppressed' = [suppressed EXCEPT ![r] = {}]
    /\ firedSince' = [firedSince EXCEPT ![r] = {}]
    /\ resetSince' = [resetSince EXCEPT ![r] = FALSE]
    /\ overlapped' = [overlapped EXCEPT ![r] = FALSE]
    /\ UNCHANGED <<latest, registry>>

Next ==
    \/ \E list \in Lists : Publish(list)
    \/ \E r \in Request :
          \/ Begin(r)
          \/ ResetRegistry(r)
          \/ Lookup(r)
          \/ Suppress(r)
          \/ Fire(r)
          \/ Reply(r)

Spec == Init /\ [][Next]_vars

-----------------------------------------------------------------------------
(* Properties *)

\* Every variable has its type and a request never works past its snapshot.
TypeOK ==
    /\ latest \in Lists \cup {NoOutputs}
    /\ registry \subseteq Key
    /\ pc \in [Request -> Step]
    /\ snapshot \in [Request -> Lists]
    /\ pos \in [Request -> 1..MaxList + 1]
    /\ seen \in [Request -> BOOLEAN]
    /\ active \in [Request -> SUBSET (1..MaxList)]
    /\ suppressed \in [Request -> SUBSET (1..MaxList)]
    /\ firedSince \in [Request -> SUBSET Key]
    /\ resetSince \in [Request -> BOOLEAN]
    /\ overlapped \in [Request -> BOOLEAN]
    /\ \A r \in Request :
          /\ pc[r] \in {"idle", "reset"} => pos[r] = 1
          /\ pc[r] \in {"lookup", "record"} => pos[r] \in DOMAIN snapshot[r]

\* An alert is left out of an answer only when some request has put its key in an
\* answer since this request's own reset: between them, the requests lose nothing.
SuppressedWasFired ==
    \A r \in Request : \A i \in suppressed[r] : snapshot[r][i] \in firedSince[r]

\* One answer shows a key twice only when another request emptied the registry
\* in the middle of the pass.
DuplicateNeedsReset ==
    \A r \in Request : \A i, j \in active[r] :
        i # j /\ snapshot[r][i] = snapshot[r][j] => resetSince[r]

\* The first alert of each key, which the comment at the reset promises to show.
FirstPositions(r) ==
    {i \in DOMAIN snapshot[r] : \A j \in 1..i - 1 : snapshot[r][j] # snapshot[r][i]}

\* A request that met no other one shows each key of its snapshot, once.
AloneIsFresh ==
    \A r \in Request :
        pc[r] = "reply" /\ ~overlapped[r] => active[r] = FirstPositions(r)

\* "Reset dedup for API calls so every GET returns fresh prioritization": the
\* answer of every request shows each key of its snapshot.
EveryGetFresh ==
    \A r \in Request : pc[r] = "reply" => FirstPositions(r) \subseteq active[r]
=============================================================================
