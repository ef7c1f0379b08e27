-------------------------- MODULE DeskApprovals_proofs --------------------------
(* Proofs about the approval decisions of the desk. *)
EXTENDS DeskApprovals, TLAPS

\* What a request that has decided knows: its recommendation is one of the outputs it
\* fetched and carries a decision, its own unless it was overtaken.
Carried(r) ==
    /\ Found(r)
    /\ status[ask[r].id] \in Decision
    /\ status[ask[r].id] = ask[r].decision \/ overtaken[r]

\* What remains of it after the answer.
Answered(r) ==
    /\ Found(r)
    /\ status[ask[r].id] \in Decision
    /\ answer[r] = ask[r].decision \/ overtaken[r]

IInv ==
    /\ TypeOK
    /\ \A r \in Request : step[r] = "decided" => Carried(r)
    /\ \A r \in Request : Acknowledged(r) => Answered(r)

LEMMA TypeInit == Init => TypeOK
BY ApprovalAssumption DEF Init, TypeOK, Cycle

LEMMA TypeStep == TypeOK /\ [Next]_vars => TypeOK'
<1> SUFFICES ASSUME TypeOK, [Next]_vars PROVE TypeOK'
  OBVIOUS
<1> USE ApprovalAssumption DEF TypeOK, Cycle, Found
<1>1. CASE PublishCycle
  BY <1>1 DEF PublishCycle
<1>2. ASSUME NEW r \in Request, NEW id \in RecommendationId, NEW decision \in Decision,
             Fetch(r, id, decision)
      PROVE  TypeOK'
  <2>1. /\ step' \in [Request -> {"idle", "fetched", "decided"}]
        /\ answer' \in [Request -> {"none", "503", "404"} \cup Decision]
        /\ \A s \in Request : step'[s] = "decided" => s # r /\ step[s] = "decided"
        /\ \A s \in Request : step'[s] # "idle" =>
              (s # r /\ step[s] # "idle") \/ (s = r /\ latest # 0)
    BY <1>2 DEF Fetch
  <2>2. /\ ask' = [ask EXCEPT ![r] = [id |-> id, decision |-> decision]]
        /\ outputs' = [outputs EXCEPT ![r] = latest]
        /\ overtaken' = [overtaken EXCEPT ![r] = FALSE]
        /\ latest' = latest /\ status' = status
    BY <1>2 DEF Fetch
  <2>3. QED
    BY <2>1, <2>2
<1>3. ASSUME NEW r \in Request, NotFound(r) PROVE TypeOK'
  BY <1>3 DEF NotFound
<1>4. ASSUME NEW r \in Request, Decide(r) PROVE TypeOK'
  <2>1. status' \in [RecommendationId -> {"PROPOSED"} \cup Decision]
    <3>1. ask[r].decision \in Decision
      OBVIOUS
    <3>2. QED
      BY <1>4, <3>1 DEF Decide
  <2>2. overtaken' \in [Request -> BOOLEAN] /\ UNCHANGED <<latest, outputs, ask, answer>>
    <3>1. \A s \in Request : (s # r /\ (overtaken[s] \/ Awaits(s, ask[r].id))) \in BOOLEAN
      OBVIOUS
    <3>2. QED
      BY <1>4, <3>1 DEF Decide
  <2>3. /\ step' \in [Request -> {"idle", "fetched", "decided"}]
        /\ \A s \in Request : step'[s] # "idle" => step[s] # "idle"
        /\ \A s \in Request : step'[s] = "decided" => s = r \/ step[s] = "decided"
    BY <1>4 DEF Decide
  <2>4. Found(r)
    BY <1>4 DEF Decide
  <2>5. \A s \in Request : step'[s] # "idle" => outputs'[s] \in Cycle
    BY <2>2, <2>3
  <2>6. \A s \in Request : step'[s] = "decided" => Found(s)'
    BY <2>2, <2>3, <2>4
  <2>7. \A s \in Request : step'[s] = "decided" => status'[ask[s].id] \in Decision
    BY <1>4, <2>3 DEF Decide
  <2>8. latest' = latest /\ outputs' = outputs /\ ask' = ask /\ answer' = answer
    BY <2>2
  <2>9. QED
    BY <2>1, <2>2, <2>3, <2>5, <2>6, <2>7, <2>8
<1>5. ASSUME NEW r \in Request, Respond(r) PROVE TypeOK'
  <2>1. status[ask[r].id] \in Decision
    BY <1>5 DEF Respond
  <2>2. answer' \in [Request -> {"none", "503", "404"} \cup Decision]
    BY <1>5, <2>1 DEF Respond
  <2>3. QED
    BY <1>5, <2>2 DEF Respond
<1>6. CASE UNCHANGED vars
  BY <1>6 DEF vars
<1>7. QED
  BY <1>1, <1>2, <1>3, <1>4, <1>5, <1>6 DEF Next

\* THEOREM: in every state the variables have their types, and a request that has
\* passed the 503 holds the outputs of some cycle.
THEOREM ApprovalTypeCorrect == Spec => []TypeOK
BY TypeInit, TypeStep, PTL DEF Spec

LEMMA InvInit == Init => IInv
BY TypeInit DEF Init, IInv, Acknowledged, Decision

LEMMA InvStep == IInv /\ [Next]_vars => IInv'
<1> SUFFICES ASSUME IInv, [Next]_vars PROVE IInv'
  OBVIOUS
<1>1. TypeOK /\ TypeOK'
  BY TypeStep DEF IInv
<1> USE <1>1
<1>2. CASE PublishCycle
  BY <1>2 DEF PublishCycle, IInv, Carried, Answered, Acknowledged, Found
<1>3. ASSUME NEW r \in Request, NEW id \in RecommendationId, NEW decision \in Decision,
             Fetch(r, id, decision)
      PROVE  IInv'
  <2>1. \A s \in Request : step'[s] = "decided" => s # r
    BY <1>3 DEF Fetch, TypeOK
  <2>2. answer'[r] \notin Decision
    BY <1>3 DEF Fetch, TypeOK, Decision
  <2>3. QED
    BY <1>3, <2>1, <2>2
    DEF Fetch, TypeOK, IInv, Carried, Answered, Acknowledged, Found
<1>4. ASSUME NEW r \in Request, NotFound(r) PROVE IInv'
  <2>1. answer'[r] \notin Decision /\ step'[r] # "decided"
    BY <1>4 DEF NotFound, TypeOK, Decision
  <2>2. QED
    BY <1>4, <2>1 DEF NotFound, TypeOK, IInv, Carried, Answered, Acknowledged, Found
<1>5. ASSUME NEW r \in Request, Decide(r) PROVE IInv'
  <2>1. /\ ask' = ask /\ outputs' = outputs /\ answer' = answer
        /\ ask[r].decision \in Decision /\ ask[r].id \in RecommendationId
        /\ Found(r)
    BY <1>5 DEF Decide, TypeOK
  <2>2. ASSUME NEW s \in Request
        PROVE  status'[ask[s].id] = IF ask[s].id = ask[r].id THEN ask[r].decision
                                                             ELSE status[ask[s].id]
    BY <1>5 DEF Decide, TypeOK
  <2>3. ASSUME NEW s \in Request, step'[s] = "decided" PROVE Carried(s)'
    <3>1. CASE s = r
      BY <2>1, <2>2, <3>1 DEF Carried, Found
    <3>2. CASE s # r
      <4>1. step[s] = "decided" /\ Carried(s)
        BY <1>5, <2>3, <3>2 DEF Decide, TypeOK, IInv
      <4>2. overtaken'[s] = (overtaken[s] \/ ask[s].id = ask[r].id)
        BY <1>5, <3>2, <4>1 DEF Decide, Awaits
      <4>3. QED
        BY <2>1, <2>2, <4>1, <4>2 DEF Carried, Found
    <3>3. QED
      BY <3>1, <3>2
  <2>4. ASSUME NEW s \in Request, Acknowledged(s)' PROVE Answered(s)'
    <3>1. s # r /\ Acknowledged(s)
      BY <1>5, <2>4 DEF Decide, TypeOK, Acknowledged
    <3>2. Answered(s) /\ (overtaken[s] => overtaken'[s])
      BY <1>5, <3>1 DEF IInv, Decide
    <3>3. QED
      BY <2>1, <2>2, <3>2 DEF Answered, Found
  <2>5. QED
    BY <2>3, <2>4 DEF IInv
<1>6. ASSUME NEW r \in Request, Respond(r) PROVE IInv'
  <2>1. Carried(r)
    BY <1>6 DEF Respond, IInv
  <2>2. QED
    BY <1>6, <2>1 DEF Respond, TypeOK, IInv, Carried, Answered, Acknowledged, Found
<1>7. CASE UNCHANGED vars
  BY <1>7 DEF vars, IInv, Carried, Answered, Acknowledged, Found
<1>8. QED
  BY <1>2, <1>3, <1>4, <1>5, <1>6, <1>7 DEF Next

LEMMA Invariant == Spec => []IInv
BY InvInit, InvStep, PTL DEF Spec

\* THEOREM: nobody gets another's decision as the answer to a request unless that
\* other decided on the same recommendation in between (AnswerIsOwn).
THEOREM OwnAnswer == Spec => []AnswerIsOwn
<1>1. IInv => AnswerIsOwn
  BY DEF IInv, AnswerIsOwn, Answered
<1>2. QED
  BY <1>1, Invariant, PTL

\* THEOREM: an acknowledged decision is on a recommendation that is served for as long
\* as no cycle has published since (DecisionIsServed).
THEOREM ServedDecision == Spec => []DecisionIsServed
<1>1. IInv => DecisionIsServed
  <2> SUFFICES ASSUME IInv, NEW r \in Request, Acknowledged(r), outputs[r] = latest,
                      ask[r].id[2] \in Listed
               PROVE  \E row \in Screen :
                         /\ row.recommendation_id = ask[r].id
                         /\ row.approval_status \in Decision
    BY DEF DecisionIsServed
  <2>1. ask[r].id \in RecommendationId
    BY DEF IInv, TypeOK
  <2>2. ask[r].id[1] = latest /\ status[ask[r].id] \in Decision
    BY DEF IInv, Answered, Found
  <2>3. Response(ask[r].id) \in Screen
    BY <2>1, <2>2 DEF Screen
  <2>4. QED
    BY <2>2, <2>3 DEF Response
<1>2. QED
  BY <1>1, Invariant, PTL

\* THEOREM: no step but a request's own decision changes a status (OnlyRequestsDecide).
THEOREM NoAutomaticTransition == Spec => OnlyRequestsDecide
<1> DEFINE Change ==
        \A id \in RecommendationId : status'[id] # status[id] =>
          /\ id[1] <= latest
          /\ \E r \in Request : ask[r].id = id /\ ask[r].decision = status'[id]
                                /\ step[r] = "fetched" /\ step'[r] = "decided"
<1>1. TypeOK /\ [Next]_vars => [Change]_vars
  <2> SUFFICES ASSUME TypeOK, Next, NEW id \in RecommendationId, status'[id] # status[id]
               PROVE  /\ id[1] <= latest
                      /\ \E r \in Request : ask[r].id = id /\ ask[r].decision = status'[id]
                                         /\ step[r] = "fetched" /\ step'[r] = "decided"
    OBVIOUS
  <2>1. PICK r \in Request : Decide(r)
    BY DEF Next, PublishCycle, Fetch, NotFound, Respond
  <2>2. ask[r].id = id /\ ask[r].decision = status'[id]
    BY <2>1 DEF Decide, TypeOK
  <2>3. step[r] = "fetched" /\ step'[r] = "decided"
    BY <2>1 DEF Decide, TypeOK
  <2>4. id[1] <= latest
    <3>1. id[1] = outputs[r]
      BY <2>1, <2>2 DEF Decide, Found
    <3>2. latest \in Nat /\ outputs[r] \in 0..latest
      BY ApprovalAssumption DEF TypeOK
    <3>3. QED
      BY <3>1, <3>2
  <2>5. QED
    BY <2>2, <2>3, <2>4
<1>2. QED
  BY <1>1, ApprovalTypeCorrect, PTL DEF Spec, OnlyRequestsDecide
=============================================================================
