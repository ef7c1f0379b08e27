---------------------- MODULE ExceptionLifecycle_proofs ----------------------
(***************************************************************************)
(* Proofs about the exception registry, for every set of exceptions and    *)
(* approvers and every calendar.                                           *)
(***************************************************************************)
EXTENDS ExceptionLifecycle, TLAPS

\* The conditions of an action that is not the empty step, kept out of the way.
Operation(e) ==
    \/ Raise(e)
    \/ \E by \in Approver, until \in Day \cup {None} : Approve(e, by, until)
    \/ Close(e)

LEMMA TypeInit == Init => TypeOK
BY LifecycleAssumption DEF Init, TypeOK, Day, Status

\* The steps that change a record.
LEMMA OperationTypeOK ==
    ASSUME TypeOK, NEW e \in Exception, Operation(e)
    PROVE  TypeOK'
<1> USE LifecycleAssumption DEF TypeOK, ForgetSummary, Day
<1>1. CASE Raise(e)
  BY <1>1 DEF Raise, Known, Status
<1>2. ASSUME NEW by \in Approver, NEW until \in Day \cup {None}, Approve(e, by, until)
      PROVE  TypeOK'
  <2>1. approvedBy' \in [Exception -> Approver \cup {None}] /\ approvedBy'[e] # None
    BY <1>2 DEF Approve
  <2>2. expiryDate' \in [Exception -> Day \cup {None}]
    BY <1>2 DEF Approve
  <2>3. approvedAt' \in [Exception -> Day \cup {None}] /\ approvedAt'[e] # None
    BY <1>2 DEF Approve
  <2>4. QED
    BY <1>2, <2>1, <2>2, <2>3 DEF Approve, Status
<1>3. CASE Close(e)
  BY <1>3 DEF Close, Known, Status
<1>4. QED
  BY <1>1, <1>2, <1>3 DEF Operation

LEMMA TypeStep == TypeOK /\ [Next]_vars => TypeOK'
<1> SUFFICES ASSUME TypeOK, [Next]_vars PROVE TypeOK'
  OBVIOUS
<1> USE LifecycleAssumption
<1>1. ASSUME NEW e \in Exception, Operation(e) PROVE TypeOK'
  BY <1>1, OperationTypeOK
<1>2. ASSUME NEW e \in Exception, CountActive(e) \/ CountExpired(e) PROVE TypeOK'
  BY <1>2 DEF CountActive, CountExpired, TypeOK, record
<1>3. CASE Midnight
  BY <1>3 DEF Midnight, TypeOK, record, summaryVars, Day
<1>4. CASE SummaryCall
  BY <1>4 DEF SummaryCall, TypeOK, record, Day
<1>5. CASE ActiveCounted \/ SummaryReturn
  BY <1>5 DEF ActiveCounted, SummaryReturn, TypeOK, record
<1>6. CASE UNCHANGED vars
  BY <1>6 DEF vars, record, summaryVars, TypeOK
<1>7. QED
  BY <1>1, <1>2, <1>3, <1>4, <1>5, <1>6 DEF Next, Operation

\* The fields of every record agree with each other and with its status.
THEOREM RecordsWellFormed == Spec => []TypeOK
BY TypeInit, TypeStep, PTL DEF Spec

-----------------------------------------------------------------------------
(* The queues *)

\* No operation puts a record under review, the one status without a queue.
NeverUnderReview == \A e \in Exception : status[e] # "UNDER_REVIEW"

\* What a summary in progress has established: a record it has passed is counted,
\* or has run out and is still to be met by the count of the expired ones.
SummaryProgress ==
    scan # "none" =>
        /\ \A e \in listed : status[e] = "PROPOSED" => e \in pendingSet
        /\ \A e \in listed : closedAt[e] = None =>
              CASE scan = "active"  ->
                      e \in pendingSet \cup activeSet \cup todo \/ IsExpired(e)
                [] scan = "expired" ->
                      \/ e \in pendingSet \cup activeSet \cup expiredSet
                      \/ e \in todo /\ IsExpired(e)
                [] scan = "done" ->
                      e \in pendingSet \cup activeSet \cup expiredSet
        /\ listed \subseteq {e \in Exception : Known(e)}
        /\ \A e \in activeSet : expiryDate[e] = None \/ startedOn <= expiryDate[e]
        /\ \A e \in expiredSet : IsExpired(e)

IInv == TypeOK /\ NeverUnderReview /\ SummaryProgress

LEMMA LifecycleInit == Init => IInv
BY TypeInit DEF Init, IInv, NeverUnderReview, SummaryProgress

\* A record that is running out stays so, a day later.
LEMMA ExpiredStays ==
    ASSUME TypeOK, Midnight, NEW e \in Exception
    PROVE  IsExpired(e) => IsExpired(e)'
BY LifecycleAssumption DEF TypeOK, Midnight, IsExpired, record, Day

\* A record that is neither pending nor closed was approved: active or expired.
LEMMA ApprovedActiveOrExpired ==
    ASSUME TypeOK, NeverUnderReview, NEW e \in Exception, Known(e),
           status[e] # "PROPOSED", closedAt[e] = None
    PROVE  IsActive(e) \/ IsExpired(e)
BY DEF TypeOK, NeverUnderReview, Known, Status, IsActive, IsExpired

LEMMA LifecycleStep == IInv /\ [Next]_vars => IInv'
<1> SUFFICES ASSUME IInv, [Next]_vars PROVE IInv'
  OBVIOUS
<1>1. TypeOK' /\ TypeOK /\ NeverUnderReview /\ SummaryProgress
  BY TypeStep DEF IInv
<1>2. ASSUME NEW e \in Exception, Operation(e) PROVE NeverUnderReview' /\ SummaryProgress'
  BY <1>1, <1>2 DEF Operation, Raise, Approve, Close, ForgetSummary,
                    NeverUnderReview, SummaryProgress, TypeOK
<1>3. ASSUME NEW e \in Exception, CountActive(e)
      PROVE  NeverUnderReview' /\ SummaryProgress'
  <2>1. e \in listed /\ Known(e)
    BY <1>1, <1>3 DEF CountActive, TypeOK, SummaryProgress
  <2>2. closedAt[e] = None /\ e \notin pendingSet => IsActive(e) \/ IsExpired(e)
    BY <1>1, <1>3, <2>1, ApprovedActiveOrExpired DEF SummaryProgress, CountActive
  <2>3. IsActive(e) => expiryDate[e] = None \/ startedOn <= expiryDate[e]
    BY <1>1, LifecycleAssumption DEF IsActive, TypeOK, Day
  <2>4. \A x \in Exception : (IsExpired(x)' <=> IsExpired(x)) /\ (Known(x)' <=> Known(x))
    BY <1>3 DEF CountActive, record, IsExpired, Known
  <2>5. NeverUnderReview'
    BY <1>1, <1>3 DEF CountActive, record, NeverUnderReview
  <2>6. \A x \in listed : closedAt[x] = None =>
           x \in pendingSet \cup activeSet' \cup todo' \/ IsExpired(x)
    BY <1>1, <1>3, <2>2 DEF CountActive, SummaryProgress
  <2>7. \A x \in activeSet' : expiryDate[x] = None \/ startedOn <= expiryDate[x]
    BY <1>1, <1>3, <2>3 DEF CountActive, SummaryProgress
  <2>8. /\ listed' = listed /\ pendingSet' = pendingSet /\ scan = "active" /\ scan' = "active"
        /\ expiredSet' = expiredSet /\ startedOn' = startedOn /\ status' = status
        /\ closedAt' = closedAt /\ expiryDate' = expiryDate
    BY <1>3 DEF CountActive, record
  <2>9. listed \subseteq Exception /\ expiredSet \subseteq listed
    BY <1>1 DEF TypeOK
  <2>10. QED
    BY <1>1, <2>4, <2>5, <2>6, <2>7, <2>8, <2>9 DEF SummaryProgress
<1>4. ASSUME NEW e \in Exception, CountExpired(e)
      PROVE  NeverUnderReview' /\ SummaryProgress'
  <2>1. \A x \in Exception : (IsExpired(x)' <=> IsExpired(x)) /\ (Known(x)' <=> Known(x))
    BY <1>4 DEF CountExpired, record, IsExpired, Known
  <2>2. NeverUnderReview'
    BY <1>1, <1>4 DEF CountExpired, record, NeverUnderReview
  <2>3. \A x \in listed : closedAt[x] = None =>
           \/ x \in pendingSet \cup activeSet \cup expiredSet'
           \/ x \in todo' /\ IsExpired(x)
    BY <1>1, <1>4 DEF CountExpired, SummaryProgress
  <2>4. \A x \in expiredSet' : IsExpired(x)
    BY <1>1, <1>4 DEF CountExpired, SummaryProgress
  <2>5. /\ listed' = listed /\ pendingSet' = pendingSet /\ scan = "expired" /\ scan' = "expired"
        /\ activeSet' = activeSet /\ startedOn' = startedOn /\ status' = status
        /\ closedAt' = closedAt /\ expiryDate' = expiryDate
    BY <1>4 DEF CountExpired, record
  <2>6. listed \subseteq Exception /\ expiredSet' \subseteq listed
    BY <1>1, <2>5 DEF TypeOK
  <2>7. QED
    BY <1>1, <2>1, <2>2, <2>3, <2>4, <2>5, <2>6 DEF SummaryProgress
<1>5. CASE Midnight
  <2>1. \A x \in Exception : IsExpired(x) => IsExpired(x)'
    BY <1>1, <1>5, ExpiredStays
  <2>2. UNCHANGED <<record, summaryVars>>
    BY <1>5 DEF Midnight
  <2>3. listed \subseteq Exception /\ expiredSet \subseteq listed
    BY <1>1 DEF TypeOK
  <2>4. scan \in {"none", "active", "expired", "done"}
    BY <1>1 DEF TypeOK
  <2>5. QED
    BY <1>1, <2>1, <2>2, <2>3, <2>4
       DEF IInv, record, summaryVars, NeverUnderReview, SummaryProgress, Known
<1>6. CASE SummaryCall
  BY <1>1, <1>6 DEF IInv, SummaryCall, record, NeverUnderReview, SummaryProgress, Known
<1>7. CASE ActiveCounted
  BY <1>1, <1>7 DEF IInv, ActiveCounted, record, NeverUnderReview, SummaryProgress, Known, IsExpired
<1>8. CASE SummaryReturn
  BY <1>1, <1>8 DEF IInv, SummaryReturn, record, NeverUnderReview, SummaryProgress, Known, IsExpired
<1>9. CASE UNCHANGED vars
  BY <1>1, <1>9 DEF IInv, vars, record, summaryVars, NeverUnderReview, SummaryProgress, Known, IsExpired
<1>10. QED
  BY <1>1, <1>2, <1>3, <1>4, <1>5, <1>6, <1>7, <1>8, <1>9 DEF IInv, Next, Operation

\* On every day every exception is on exactly one of the desk's queues.
THEOREM EveryExceptionQueued == Spec => []QueuesPartition
<1>1. IInv => QueuesPartition
  <2> SUFFICES ASSUME IInv, NEW e \in Exception, Known(e)
               PROVE  QueuesPartition!(e)
    BY DEF QueuesPartition
  <2>1. TypeOK /\ NeverUnderReview
    BY DEF IInv
  <2>2. status[e] # "PROPOSED" /\ closedAt[e] = None => IsActive(e) \/ IsExpired(e)
    BY <2>1, ApprovedActiveOrExpired
  <2>3. QED
    BY <2>1, <2>2 DEF TypeOK, IsActive, IsExpired
<1>2. QED
  BY <1>1, LifecycleInit, LifecycleStep, PTL DEF Spec

\* A summary misses no open exception whatever the calendar does meanwhile.
THEOREM SummaryComplete == Spec => []SummaryAccounts
<1>1. IInv => SummaryAccounts
  <2> SUFFICES ASSUME IInv, scan = "done" PROVE SummaryAccounts
    BY DEF SummaryAccounts
  <2>1. \A e \in activeSet \cap expiredSet :
           startedOn <= expiryDate[e] /\ expiryDate[e] < today
    BY DEF IInv, SummaryProgress, IsExpired
  <2>2. QED
    BY <2>1 DEF IInv, SummaryProgress, SummaryAccounts
<1>2. QED
  BY <1>1, LifecycleInit, LifecycleStep, PTL DEF Spec

-----------------------------------------------------------------------------
(* Approvals *)

LEMMA ApprovalKept ==
    ASSUME TypeOK, [Next]_vars, NEW e \in Exception, approvedBy[e] # None
    PROVE  /\ approvedBy'[e] = approvedBy[e]
           /\ approvedAt'[e] = approvedAt[e]
           /\ expiryDate'[e] = expiryDate[e]
<1>1. status[e] \notin {"UNKNOWN", "PROPOSED", "UNDER_REVIEW"}
  BY DEF TypeOK
<1>2. ASSUME NEW x \in Exception, NEW by \in Approver, NEW until \in Day \cup {None},
             Approve(x, by, until)
      PROVE  UNCHANGED <<approvedBy[e], approvedAt[e], expiryDate[e]>>
  <2>1. x # e
    BY <1>1, <1>2 DEF Approve
  <2>2. QED
    BY <1>2, <2>1 DEF Approve, TypeOK
<1>3. ASSUME NEW x \in Exception,
             Raise(x) \/ Close(x) \/ CountActive(x) \/ CountExpired(x)
      PROVE  UNCHANGED <<approvedBy, approvedAt, expiryDate>>
  BY <1>3 DEF Raise, Close, CountActive, CountExpired, record
<1>4. CASE Midnight \/ SummaryCall \/ ActiveCounted \/ SummaryReturn \/ UNCHANGED vars
  BY <1>4 DEF Midnight, SummaryCall, ActiveCounted, SummaryReturn, vars, record
<1>5. QED
  BY <1>2, <1>3, <1>4 DEF Next

\* Who approved an exception, when, and until when never changes again.
THEOREM ApprovalImmutable == Spec => ApprovalFrozen
<1>1. TypeOK /\ [Next]_vars =>
         [\A e \in Exception : approvedBy[e] # None =>
              /\ approvedBy'[e] = approvedBy[e]
              /\ approvedAt'[e] = approvedAt[e]
              /\ expiryDate'[e] = expiryDate[e]]_vars
  BY ApprovalKept
<1>2. QED
  BY <1>1, TypeInit, TypeStep, PTL DEF Spec, ApprovalFrozen

-----------------------------------------------------------------------------
(* The lifecycle *)

\* The phases in terms of the fields.
LEMMA PhaseCases ==
    ASSUME TypeOK, NeverUnderReview, NEW e \in Exception
    PROVE  /\ status[e] = "UNKNOWN"  => PhaseOf(e) = "none"
           /\ status[e] = "PROPOSED" => PhaseOf(e) = "open"
           /\ status[e] = "REJECTED" => PhaseOf(e) = "closed"
           /\ status[e] = "EXECUTED" =>
                 PhaseOf(e) = IF expiryDate[e] # None /\ expiryDate[e] < today
                              THEN "lapsed" ELSE "active"
           /\ status[e] \in {"UNKNOWN", "PROPOSED", "REJECTED", "EXECUTED"}
BY DEF TypeOK, NeverUnderReview, Status, PhaseOf, Known, IsActive, IsExpired

\* A step that leaves the calendar and the other records alone moves one phase.
LEMMA OnePhaseMoves ==
    ASSUME NEW e \in Exception, NEW to, today' = today,
           PhaseOf(e)' = to,
           \A x \in Exception \ {e} : PhaseOf(x)' = PhaseOf(x)
    PROVE  Phases!Move(e, PhaseOf(e), to)
<1>1. PhaseMap' = [PhaseMap EXCEPT ![e] = to]
  BY DEF PhaseMap
<1>2. QED
  BY <1>1 DEF Phases!Move, PhaseMap

LEMMA OperationMoves ==
    ASSUME IInv, IInv', NEW e \in Exception, Operation(e)
    PROVE  Phases!Next \/ UNCHANGED <<today, PhaseMap>>
<1>1. TypeOK /\ NeverUnderReview /\ TypeOK' /\ NeverUnderReview'
  BY DEF IInv
<1>2. today' = today
  BY DEF Operation, Raise, Approve, Close
<1>3. \A x \in Exception \ {e} :
         /\ status'[x] = status[x] /\ closedAt'[x] = closedAt[x]
         /\ expiryDate'[x] = expiryDate[x]
  BY <1>1 DEF Operation, Raise, Approve, Close, TypeOK
<1>4. \A x \in Exception \ {e} : PhaseOf(x)' = PhaseOf(x)
  BY <1>2, <1>3 DEF PhaseOf, Known, IsActive, IsExpired
<1>5. Phases!Move(e, PhaseOf(e), PhaseOf(e)')
  BY <1>2, <1>4, OnePhaseMoves
<1>6. CASE Raise(e)
  <2>1. status[e] = "UNKNOWN" /\ status'[e] = "PROPOSED"
    BY <1>1, <1>6 DEF Raise, Known, TypeOK
  <2>2. PhaseOf(e) = "none" /\ PhaseOf(e)' = "open"
    BY <1>1, <2>1, PhaseCases, <1>6 DEF PhaseOf, Known, Raise, TypeOK, IsActive, IsExpired
  <2>3. QED
    BY <1>5, <2>2 DEF Phases!Next, Phases!Raise
<1>7. ASSUME NEW by \in Approver, NEW until \in Day \cup {None}, Approve(e, by, until)
      PROVE  Phases!Authorize(e)
  <2>1. status[e] = "PROPOSED" /\ status'[e] = "EXECUTED" /\ closedAt'[e] = None
    BY <1>1, <1>7 DEF Approve, NeverUnderReview, TypeOK
  <2>2. PhaseOf(e) = "open"
    BY <1>1, <2>1, PhaseCases
  <2>3. PhaseOf(e)' \in {"active", "lapsed"}
    BY <2>1 DEF PhaseOf, Known, IsActive, IsExpired
  <2>4. QED
    BY <1>5, <2>2, <2>3 DEF Phases!Authorize
<1>8. CASE Close(e)
  <2>1. status[e] \in {"PROPOSED", "EXECUTED", "REJECTED"} /\ closedAt'[e] # None
    BY <1>1, <1>8, LifecycleAssumption DEF Close, Known, NeverUnderReview, TypeOK, Status, Day
  <2>2. PhaseOf(e)' = "closed"
    BY <1>1, <1>8, <2>1 DEF PhaseOf, Known, Close, TypeOK
  <2>3. CASE status[e] = "REJECTED"
    <3>1. PhaseOf(e) = "closed"
      BY <1>1, <2>3, PhaseCases
    <3>2. UNCHANGED <<today, PhaseMap>>
      BY <1>2, <1>4, <2>2, <3>1 DEF PhaseMap
    <3>3. QED
      BY <3>2
  <2>4. CASE status[e] # "REJECTED"
    <3>1. PhaseOf(e) \in {"open", "active", "lapsed"}
      BY <1>1, <2>1, <2>4, PhaseCases
    <3>2. QED
      BY <1>5, <2>2, <3>1 DEF Phases!Next, Phases!Close
  <2>5. QED
    BY <2>3, <2>4
<1>9. QED
  BY <1>6, <1>7, <1>8 DEF Operation, Phases!Next

\* Midnight is the one step at which authorizations run out, several at a time.
LEMMA MidnightMoves ==
    ASSUME IInv, IInv', Midnight
    PROVE  Phases!Next
<1> DEFINE S == {e \in Exception : PhaseOf(e) = "active" /\ PhaseOf(e)' = "lapsed"}
<1>1. TypeOK /\ NeverUnderReview
  BY DEF IInv
<1>2. /\ today \in Nat /\ today' = today + 1
      /\ status' = status /\ closedAt' = closedAt /\ expiryDate' = expiryDate
  BY <1>1, LifecycleAssumption DEF Midnight, record, TypeOK, Day
<1>3. \A e \in Exception : e \notin S => PhaseOf(e)' = PhaseOf(e)
  <2> SUFFICES ASSUME NEW e \in Exception, e \notin S PROVE PhaseOf(e)' = PhaseOf(e)
    OBVIOUS
  <2>1. expiryDate[e] \in Nat \cup {None}
    BY <1>1, LifecycleAssumption DEF TypeOK, Day
  <2>2. IsExpired(e) => IsExpired(e)'
    BY <1>1, ExpiredStays
  <2>3. ~(PhaseOf(e) = "active" /\ PhaseOf(e)' = "lapsed")
    OBVIOUS
  <2> HIDE DEF S
  <2>4. CASE IsExpired(e)
    BY <1>2, <2>2, <2>4 DEF PhaseOf, Known, IsActive, IsExpired
  <2>5. CASE ~IsExpired(e) /\ ~IsExpired(e)'
    BY <1>2, <2>5 DEF PhaseOf, Known, IsActive, IsExpired
  <2>6. CASE ~IsExpired(e) /\ IsExpired(e)'
    <3>1. ~IsActive(e)'
      BY <2>6 DEF IsActive, IsExpired
    <3>2. IsActive(e) \/ ~(status[e] = "EXECUTED" /\ closedAt[e] = None)
      BY <2>6 DEF IsActive, IsExpired
    <3>3. CASE status[e] = "EXECUTED" /\ closedAt[e] = None
      <4>1. PhaseOf(e) = "active"
        BY <3>2, <3>3 DEF PhaseOf, Known
      <4>2. PhaseOf(e)' = "lapsed"
        BY <1>2, <2>6, <3>1, <3>3 DEF PhaseOf, Known
      <4>3. QED
        BY <2>3, <4>1, <4>2
    <3>4. CASE ~(status[e] = "EXECUTED" /\ closedAt[e] = None)
      <4>1. status[e] \in {"UNKNOWN", "PROPOSED", "REJECTED"}
        BY <1>1, <3>4 DEF TypeOK, NeverUnderReview, Status
      <4>2. CASE status[e] = "PROPOSED"
        <5>1. expiryDate[e] = None
          BY <1>1, <4>2 DEF TypeOK
        <5>2. QED
          BY <1>2, <2>6, <5>1 DEF IsExpired
      <4>3. CASE status[e] = "UNKNOWN"
        BY <1>2, <4>3 DEF PhaseOf, Known
      <4>4. CASE status[e] = "REJECTED"
        BY <1>1, <1>2, <4>4 DEF PhaseOf, Known, TypeOK
      <4>5. QED
        BY <4>1, <4>2, <4>3, <4>4
    <3>5. QED
      BY <3>3, <3>4
  <2>7. QED
    BY <2>4, <2>5, <2>6
<1>4. PhaseMap' = [e \in Exception |-> IF e \in S THEN "lapsed" ELSE PhaseMap[e]]
  BY <1>3 DEF PhaseMap
<1>5. \A e \in S : PhaseMap[e] = "active"
  BY DEF PhaseMap
<1>6. Phases!NewDay(S)
  BY <1>2, <1>4, <1>5 DEF Phases!NewDay, PhaseMap
<1>7. QED
  BY <1>6 DEF Phases!Next

\* The registry follows the lifecycle of the module's docstring.
THEOREM ImplementsLifecycle == Spec => FollowsLifecycle
<1>1. Init => Phases!Init
  BY DEF Init, Phases!Init, PhaseMap, PhaseOf, Known
<1>2. IInv /\ IInv' /\ [Next]_vars => [Phases!Next]_Phases!phaseVars
  <2> SUFFICES ASSUME IInv, IInv', [Next]_vars
               PROVE  Phases!Next \/ UNCHANGED <<today, PhaseMap>>
    BY DEF Phases!phaseVars, PhaseMap
  <2>1. ASSUME NEW e \in Exception, Operation(e)
        PROVE  Phases!Next \/ UNCHANGED <<today, PhaseMap>>
    BY <2>1, OperationMoves
  <2>2. CASE Midnight
    BY <2>2, MidnightMoves
  <2>3. ASSUME NEW e \in Exception, CountActive(e) \/ CountExpired(e)
        PROVE  UNCHANGED <<today, PhaseMap>>
    BY <2>3 DEF CountActive, CountExpired, record, PhaseMap, PhaseOf, Known, IsActive, IsExpired
  <2>4. CASE SummaryCall \/ ActiveCounted \/ SummaryReturn \/ UNCHANGED vars
    BY <2>4 DEF SummaryCall, ActiveCounted, SummaryReturn, vars, record,
                PhaseMap, PhaseOf, Known, IsActive, IsExpired
  <2>5. QED
    BY <2>1, <2>2, <2>3, <2>4 DEF Next, Operation
<1>3. QED
  BY <1>1, <1>2, LifecycleInit, LifecycleStep, PTL DEF Spec, FollowsLifecycle, Phases!Spec
=============================================================================
