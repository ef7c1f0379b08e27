------------------------------ MODULE DeskApprovals ------------------------------
(***************************************************************************)
(* Approve or reject: POST /v1/recommendations/approval-decision           *)
(* (api/routers/desk.py) against the in-memory store (api/state.py).       *)
(*                                                                         *)
(* The handlers run in the threads of the server's pool.  Only the         *)
(* reference to the latest outputs is read and written under a lock: the   *)
(* search, the assignment of approval_status and the answer, which reads   *)
(* the status again, work on objects that other requests share and that    *)
(* the next cycle may already have replaced.  Every cycle gives its        *)
(* recommendations new ids (uuid4), so an id is a cycle and a target.      *)
(***************************************************************************)
EXTENDS Naturals

CONSTANTS
    Target,    \* what the engines recommend on: positions, counterparties
    Listed,    \* targets of the engines whose recommendations have a screen
    Request,   \* requests the server handles at one time
    MaxCycle   \* bound on the cycles that publish

ASSUME ApprovalAssumption == MaxCycle \in Nat /\ Listed \subseteq Target

Cycle == 1..MaxCycle
RecommendationId == Cycle \X Target
Decision == {"APPROVED", "REJECTED"}

VARIABLES
    latest,    \* the cycle whose outputs are served, 0 before the first
    status,    \* approval_status of every recommendation, served or replaced
    step,      \* where each request is
    outputs,   \* the cycle whose outputs the request fetched
    ask,       \* its recommendation_id and decision
    answer,    \* new_status of the last answer of each request slot
    \* History, which no step reads:
    overtaken  \* another request decided on the same id between this one's
               \* decision and its answer

vars == <<latest, status, step, outputs, ask, answer, overtaken>>

Init ==
    /\ latest = 0
    /\ status = [id \in RecommendationId |-> "PROPOSED"]
    /\ step = [r \in Request |-> "idle"]
    /\ outputs = [r \in Request |-> 0]
    /\ ask \in [Request -> [id : RecommendationId, decision : Decision]]
    /\ answer = [r \in Request |-> "none"]
    /\ overtaken = [r \in Request |-> FALSE]

-----------------------------------------------------------------------------
(* Screens *)

\* _to_recommendation_response
Response(id) == [recommendation_id |-> id, approval_status |-> status[id]]

\* GET /v1/optimization, /v1/pricing and /v1/growth recommendations: what the outputs
\* served hold, as it is now.  What the recall and corporate-action engines recommend can
\* be decided on but is on no screen.  The limit of 50 rows is left out.
Screen == {Response(id) : id \in {i \in RecommendationId : i[1] = latest /\ i[2] \in Listed}}

-----------------------------------------------------------------------------
(* Cycles and decisions *)

\* set_latest_cycle_outputs: the decisions on the old recommendations go with them.
PublishCycle ==
    /\ latest < MaxCycle
    /\ latest' = latest + 1
    /\ UNCHANGED <<status, step, outputs, ask, answer, overtaken>>

\* Mutant: no test that a cycle has completed.
FetchUnchecked(r, id, decision) ==
    /\ step[r] = "idle"
    /\ ask' = [ask EXCEPT ![r] = [id |-> id, decision |-> decision]]
    /\ outputs' = [outputs EXCEPT ![r] = latest]
    /\ step' = [step EXCEPT ![r] = "fetched"]
    /\ answer' = [answer EXCEPT ![r] = "none"]
    /\ overtaken' = [overtaken EXCEPT ![r] = FALSE]
    /\ UNCHANGED <<latest, status>>

\* _require_outputs, 503 before the first cycle.
Fetch(r, id, decision) ==
    /\ step[r] = "idle"
    /\ ask' = [ask EXCEPT ![r] = [id |-> id, decision |-> decision]]
    /\ outputs' = [outputs EXCEPT ![r] = latest]
    /\ IF latest = 0
       THEN /\ step' = step
            /\ answer' = [answer EXCEPT ![r] = "503"]
       ELSE /\ step' = [step EXCEPT ![r] = "fetched"]
            /\ answer' = [answer EXCEPT ![r] = "none"]
    /\ overtaken' = [overtaken EXCEPT ![r] = FALSE]
    /\ UNCHANGED <<latest, status>>

\* Mutant: the recommendation is looked up among all there ever were.
FoundAnywhere(r) == ask[r].id[1] <= outputs[r]

\* The id is one of the recommendations of the outputs the request fetched.
Found(r) == ask[r].id[1] = outputs[r]

NotFound(r) ==
    /\ step[r] = "fetched"
    /\ ~Found(r)
    /\ step' = [step EXCEPT ![r] = "idle"]
    /\ answer' = [answer EXCEPT ![r] = "404"]
    /\ UNCHANGED <<latest, status, outputs, ask, overtaken>>

\* The request has decided on the id and not answered yet.
Awaits(r, id) == step[r] = "decided" /\ ask[r].id = id

\* Mutant: the decision is written to all recommendations on the target.
DecideOnTarget(r) ==
    /\ step[r] = "fetched"
    /\ Found(r)
    /\ status' = [id \in RecommendationId |->
          IF id[2] = ask[r].id[2] THEN ask[r].decision ELSE status[id]]
    /\ step' = [step EXCEPT ![r] = "decided"]
    /\ overtaken' = [s \in Request |-> s # r /\ (overtaken[s] \/ Awaits(s, ask[r].id))]
    /\ UNCHANGED <<latest, outputs, ask, answer>>

\* Whatever the status was: a decision may change an earlier one.
Decide(r) ==
    /\ step[r] = "fetched"
    /\ Found(r)
    /\ status' = [status EXCEPT ![ask[r].id] = ask[r].decision]
    /\ step' = [step EXCEPT ![r] = "decided"]
    /\ overtaken' = [s \in Request |-> s # r /\ (overtaken[s] \/ Awaits(s, ask[r].id))]
    /\ UNCHANGED <<latest, outputs, ask, answer>>

\* The answer reports the status the recommendation has by now.
Respond(r) ==
    /\ step[r] = "decided"
    /\ step' = [step EXCEPT ![r] = "idle"]
    /\ answer' = [answer EXCEPT ![r] = status[ask[r].id]]
    /\ UNCHANGED <<latest, status, outputs, ask, overtaken>>

Next ==
    \/ PublishCycle
    \/ \E r \in Request :
          \/ \E id \in RecommendationId, decision \in Decision : Fetch(r, id, decision)
          \/ NotFound(r)
          \/ Decide(r)
          \/ Respond(r)

Spec == Init /\ [][Next]_vars

-----------------------------------------------------------------------------
(* Properties *)

\* Every variable has its type; a request past _require_outputs holds outputs, and
\* one that has decided found its recommendation there, which stays decided.
TypeOK ==
    /\ latest \in 0..MaxCycle
    /\ status \in [RecommendationId -> {"PROPOSED"} \cup Decision]
    /\ step \in [Request -> {"idle", "fetched", "decided"}]
    /\ outputs \in [Request -> 0..latest]
    /\ ask \in [Request -> [id : RecommendationId, decision : Decision]]
    /\ answer \in [Request -> {"none", "503", "404"} \cup Decision]
    /\ overtaken \in [Request -> BOOLEAN]
    /\ \A r \in Request : step[r] # "idle" => outputs[r] \in Cycle
    /\ \A r \in Request : step[r] = "decided" => Found(r) /\ status[ask[r].id] \in Decision

Acknowledged(r) == step[r] = "idle" /\ answer[r] \in Decision

\* The answer's new_status, read a second time from the shared object, is what the
\* caller decided, unless another request decided on that very recommendation in
\* between: neither a new cycle nor a decision on another one gets into the answer.
AnswerIsOwn ==
    \A r \in Request : Acknowledged(r) => answer[r] = ask[r].decision \/ overtaken[r]

\* Whoever is told 200 decided on a recommendation of the outputs fetched: as long
\* as no cycle has published since, its screen, if it has one, shows it decided.
DecisionIsServed ==
    \A r \in Request : Acknowledged(r) /\ outputs[r] = latest /\ ask[r].id[2] \in Listed =>
        \E row \in Screen :
            /\ row.recommendation_id = ask[r].id
            /\ row.approval_status \in Decision

\* "No code path auto-transitions a recommendation to APPROVED": a step changes the
\* status of one recommendation at most, to what a request for it has asked, and
\* only if its cycle has published.
OnlyRequestsDecide ==
    [][\A id \in RecommendationId : status'[id] # status[id] =>
          /\ id[1] <= latest
          /\ \E r \in Request : ask[r].id = id /\ ask[r].decision = status'[id]
                                /\ step[r] = "fetched" /\ step'[r] = "decided"]_vars

=============================================================================
