-------------------------- MODULE ExceptionLifecycle --------------------------
(***************************************************************************)
(* ExceptionRecord and ExceptionManager (risk/exception_manager.py): the   *)
(* registry of desk exceptions, their approval and closing, and the        *)
(* summary that counts them.                                               *)
(*                                                                         *)
(* One owner drives a manager, so calls do not overlap.  The calendar does *)
(* not wait for them: is_active and is_expired read it anew for every      *)
(* record, and summary() may straddle midnight.                            *)
(***************************************************************************)
EXTENDS Naturals

CONSTANTS
    Exception,  \* exception_id
    Approver,   \* decided_by
    None,       \* Python's None
    MaxDay      \* bound on the calendar

ASSUME LifecycleAssumption ==
    /\ None \notin Approver
    /\ None \notin Nat
    /\ MaxDay \in Nat

Day == 0..MaxDay

\* ApprovalStatus as this module uses it; "UNKNOWN" is an id not in _records.
\* EXECUTED means an approved exception, REJECTED a closed one.
Status == {"UNKNOWN", "PROPOSED", "UNDER_REVIEW", "EXECUTED", "REJECTED"}

VARIABLES
    today,       \* datetime.now(timezone.utc).date()
    status, approvedBy, approvedAt, expiryDate, closedAt,
    \* summary() while it runs:
    scan,        \* which of its counts it is at
    todo,        \* records that count has still to visit
    listed,      \* all_records
    pendingSet, activeSet, expiredSet,  \* what the counts have counted
    startedOn    \* the day on which it was called

record == <<status, approvedBy, approvedAt, expiryDate, closedAt>>
summaryVars == <<scan, todo, listed, pendingSet, activeSet, expiredSet, startedOn>>
vars == <<today, record, summaryVars>>

Init ==
    /\ today = 0
    /\ status = [e \in Exception |-> "UNKNOWN"]
    /\ approvedBy = [e \in Exception |-> None]
    /\ approvedAt = [e \in Exception |-> None]
    /\ expiryDate = [e \in Exception |-> None]
    /\ closedAt = [e \in Exception |-> None]
    /\ scan = "none"
    /\ todo = {}
    /\ listed = {}
    /\ pendingSet = {}
    /\ activeSet = {}
    /\ expiredSet = {}
    /\ startedOn = 0

Known(e) == status[e] # "UNKNOWN"

\* Mutant: the last day of the authorization counts as over.
ExpiredOnTheDay(e) == expiryDate[e] # None /\ expiryDate[e] <= today

\* Mutant: the day is read once, when the summary is called.
ExpiredAtCall(e) == expiryDate[e] # None /\ expiryDate[e] < startedOn

IsExpired(e) == expiryDate[e] # None /\ expiryDate[e] < today

IsActive(e) ==
    /\ status[e] = "EXECUTED"
    /\ ~(expiryDate[e] # None /\ expiryDate[e] < today)
    /\ closedAt[e] = None

-----------------------------------------------------------------------------
(* The manager's operations *)

\* No summary is being computed; the one last returned is forgotten.
Idle == scan \in {"none", "done"}

ForgetSummary ==
    /\ scan' = "none"
    /\ todo' = {}
    /\ listed' = {}
    /\ pendingSet' = {}
    /\ activeSet' = {}
    /\ expiredSet' = {}
    /\ startedOn' = today

\* raise_pricing_exception, raise_limit_exception or raise_data_quality_exception,
\* and add; the uuid4 id is a new one.
Raise(e) ==
    /\ Idle
    /\ ~Known(e)
    /\ status' = [status EXCEPT ![e] = "PROPOSED"]
    /\ ForgetSummary
    /\ UNCHANGED <<today, approvedBy, approvedAt, expiryDate, closedAt>>

\* Mutant: any status may be approved.
ApproveAny(e, by, until) ==
    /\ Idle
    /\ Known(e)
    /\ status' = [status EXCEPT ![e] = "EXECUTED"]
    /\ approvedBy' = [approvedBy EXCEPT ![e] = by]
    /\ approvedAt' = [approvedAt EXCEPT ![e] = today]
    /\ expiryDate' = [expiryDate EXCEPT ![e] = IF until = None THEN @ ELSE until]
    /\ ForgetSummary
    /\ UNCHANGED <<today, closedAt>>

\* Mutant: the approver is not written down.
ApproveAnonymous(e, by, until) ==
    /\ Idle
    /\ status[e] \in {"PROPOSED", "UNDER_REVIEW"}
    /\ status' = [status EXCEPT ![e] = "EXECUTED"]
    /\ approvedAt' = [approvedAt EXCEPT ![e] = today]
    /\ expiryDate' = [expiryDate EXCEPT ![e] = IF until = None THEN @ ELSE until]
    /\ ForgetSummary
    /\ UNCHANGED <<today, approvedBy, closedAt>>

\* approve: nothing keeps `until` from being a day that is already over.
Approve(e, by, until) ==
    /\ Idle
    /\ status[e] \in {"PROPOSED", "UNDER_REVIEW"}
    /\ status' = [status EXCEPT ![e] = "EXECUTED"]
    /\ approvedBy' = [approvedBy EXCEPT ![e] = by]
    /\ approvedAt' = [approvedAt EXCEPT ![e] = today]
    /\ expiryDate' = [expiryDate EXCEPT ![e] = IF until = None THEN @ ELSE until]
    /\ ForgetSummary
    /\ UNCHANGED <<today, closedAt>>

\* close: in every status, closed records included.
Close(e) ==
    /\ Idle
    /\ Known(e)
    /\ status' = [status EXCEPT ![e] = "REJECTED"]
    /\ closedAt' = [closedAt EXCEPT ![e] = today]
    /\ ForgetSummary
    /\ UNCHANGED <<today, approvedBy, approvedAt, expiryDate>>

\* Midnight UTC, at any time.
Midnight ==
    /\ today < MaxDay
    /\ today' = today + 1
    /\ UNCHANGED <<record, summaryVars>>

-----------------------------------------------------------------------------
(* summary() *)

\* all_records and the pending count, which does not look at the calendar.
SummaryCall ==
    LET all == {e \in Exception : Known(e)} IN
    /\ Idle
    /\ scan' = "active"
    /\ todo' = all
    /\ listed' = all
    /\ pendingSet' = {e \in all : status[e] = "PROPOSED"}
    /\ activeSet' = {}
    /\ expiredSet' = {}
    /\ startedOn' = today
    /\ UNCHANGED <<today, record>>

\* One record of the count of "active".
CountActive(e) ==
    /\ scan = "active"
    /\ e \in todo
    /\ todo' = todo \ {e}
    /\ activeSet' = IF IsActive(e) THEN activeSet \cup {e} ELSE activeSet
    /\ UNCHANGED <<today, record, scan, listed, pendingSet, expiredSet, startedOn>>

\* On to "expired_not_closed".
ActiveCounted ==
    /\ scan = "active"
    /\ todo = {}
    /\ scan' = "expired"
    /\ todo' = listed
    /\ UNCHANGED <<today, record, listed, pendingSet, activeSet, expiredSet, startedOn>>

\* One record of the count of "expired_not_closed".
CountExpired(e) ==
    /\ scan = "expired"
    /\ e \in todo
    /\ todo' = todo \ {e}
    /\ expiredSet' = IF IsExpired(e) /\ closedAt[e] = None
                     THEN expiredSet \cup {e} ELSE expiredSet
    /\ UNCHANGED <<today, record, scan, listed, pendingSet, activeSet, startedOn>>

SummaryReturn ==
    /\ scan = "expired"
    /\ todo = {}
    /\ scan' = "done"
    /\ UNCHANGED <<today, record, todo, listed, pendingSet, activeSet, expiredSet, startedOn>>

Next ==
    \/ \E e \in Exception :
          \/ Raise(e)
          \/ \E by \in Approver, until \in Day \cup {None} : Approve(e, by, until)
          \/ Close(e)
          \/ CountActive(e)
          \/ CountExpired(e)
    \/ Midnight
    \/ SummaryCall
    \/ ActiveCounted
    \/ SummaryReturn

Spec == Init /\ [][Next]_vars

-----------------------------------------------------------------------------
(* Properties *)

\* The fields have their types, and they agree: an approved record names its
\* approver and the day, a record that was never approved has neither nor an
\* expiry date, and exactly the closed ones have a closing day.
TypeOK ==
    /\ today \in Day
    /\ status \in [Exception -> Status]
    /\ approvedBy \in [Exception -> Approver \cup {None}]
    /\ approvedAt \in [Exception -> Day \cup {None}]
    /\ expiryDate \in [Exception -> Day \cup {None}]
    /\ closedAt \in [Exception -> Day \cup {None}]
    /\ scan \in {"none", "active", "expired", "done"}
    /\ todo \subseteq listed
    /\ listed \subseteq Exception
    /\ pendingSet \subseteq listed
    /\ activeSet \subseteq listed
    /\ expiredSet \subseteq listed
    /\ startedOn \in 0..today
    /\ \A e \in Exception :
          /\ status[e] = "EXECUTED" => approvedBy[e] # None /\ approvedAt[e] # None
          /\ approvedBy[e] = None => approvedAt[e] = None /\ expiryDate[e] = None
          /\ status[e] = "REJECTED" <=> closedAt[e] # None
          /\ status[e] \in {"UNKNOWN", "PROPOSED", "UNDER_REVIEW"} => approvedBy[e] = None

\* pending_approval(), active(), expired() and the closed records partition the
\* registry on every day: no exception is on two queues, none on no queue.
QueuesPartition ==
    \A e \in Exception : Known(e) =>
        LET pending == status[e] = "PROPOSED"
            expired == IsExpired(e) /\ closedAt[e] = None
            closed  == closedAt[e] # None
        IN  /\ pending \/ IsActive(e) \/ expired \/ closed
            /\ ~(pending /\ IsActive(e)) /\ ~(pending /\ expired) /\ ~(pending /\ closed)
            /\ ~(IsActive(e) /\ expired) /\ ~(IsActive(e) /\ closed)

\* summary() misses no open exception even when midnight falls into it, because it
\* counts "active" before "expired_not_closed"; what it counts twice ran out while
\* it was counting.
SummaryAccounts ==
    scan = "done" =>
        /\ \A e \in listed : closedAt[e] = None =>
              e \in pendingSet \cup activeSet \cup expiredSet
        /\ \A e \in activeSet \cap expiredSet :
              startedOn <= expiryDate[e] /\ expiryDate[e] < today

\* The approval is on the record for good: who gave it, when, and until when.
ApprovalFrozen ==
    [][\A e \in Exception : approvedBy[e] # None =>
          /\ approvedBy'[e] = approvedBy[e]
          /\ approvedAt'[e] = approvedAt[e]
          /\ expiryDate'[e] = expiryDate[e]]_vars

PhaseOf(e) ==
    IF ~Known(e) THEN "none"
    ELSE IF closedAt[e] # None THEN "closed"
    ELSE IF IsActive(e) THEN "active"
    ELSE IF IsExpired(e) THEN "lapsed"
    ELSE "open"

PhaseMap == [e \in Exception |-> PhaseOf(e)]

Phases == INSTANCE ExceptionPhases WITH phase <- PhaseMap

\* "OPEN -> APPROVED (by a named approver) -> ACTIVE -> EXPIRED | CLOSED": nothing
\* becomes active except by an approval of an open exception, and what has lapsed
\* or been closed never takes effect again.
FollowsLifecycle == Phases!Spec
=============================================================================
