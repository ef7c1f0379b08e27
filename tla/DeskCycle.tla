------------------------------- MODULE DeskCycle -------------------------------
(***************************************************************************)
(* The desk's day: cycles (orchestration/scheduler.py) look at the book    *)
(* and publish to the API (api/state.py); traders ask the API what a trade *)
(* would do to a limit (api/routers/risk_extended.py) and then trade.      *)
(*                                                                         *)
(* The end-of-day cycle gets the book and custodian extracts and           *)
(* reconciles; the fast cycle, every fifteen minutes, and a day without    *)
(* custodian feed pass None for both.  Every cycle computes the exposures, *)
(* the return on capital and the wrong-way flags anew from the positions   *)
(* it finds, and the positions and the watch list move between cycles.     *)
(***************************************************************************)
EXTENDS GrowthAssessment

CONSTANTS
    Cpty,      \* counterparties
    Limit,     \* counterparty_limits_usd, None where there is none
    Credit,    \* what a counterparty's [roc, watch, crowded] can be
    Trader,    \* users of the what-if endpoint
    Amount,    \* trade sizes
    MaxGross   \* bound on the exposure to a counterparty

Gross == 0..MaxGross
AlertLevel == {"NONE", "HIGH", "CRITICAL"}

\* What a cycle publishes: the figures it found and what its engines made of them.
Outputs == [reconciled : BOOLEAN, profile : [Cpty -> AnyProfile], breaks : SUBSET Cpty,
            action : [Cpty -> Action], alert : [Cpty -> AlertLevel]]

ASSUME DeskAssumption ==
    /\ Limit \in [Cpty -> Nat \cup {None}]
    /\ Credit \subseteq [roc : Int \cup {None}, watch : BOOLEAN, crowded : BOOLEAN]
    /\ Amount \subseteq Nat \ {0}
    /\ MaxGross \in Nat
    /\ None \notin Outputs

VARIABLES
    \* The desk's book, which belongs to other systems.
    gross,     \* current gross exposure to each counterparty
    credit,    \* its return on capital, its place on the watch list, and whether a
               \* sector holds too much of the exposure to a bank or dealer
    critical,  \* counterparties with an unresolved CRITICAL break
    \* What the API serves.
    latest,    \* _latest: the outputs of the last cycle, None before the first
    \* Traders.
    advice,    \* the answer a trader is acting on: counterparty and amount, or None
    \* History, which no step reads:
    found,     \* unresolved CRITICAL breaks that some cycle has found
    seen,      \* what `found` was when `latest` was computed
    fresh      \* exposure has not risen since the figures the advice used

world == <<gross, credit, critical>>
vars == <<world, latest, advice, found, seen, fresh>>

\* The figures of a counterparty as a cycle computes them now.  Both wrong-way flags
\* are about exposure there is.
Profile(c) ==
    [gross |-> gross[c], limit |-> Limit[c], roc |-> credit[c].roc,
     watch |-> credit[c].watch,
     wwr |-> gross[c] > 0 /\ (credit[c].crowded \/ credit[c].watch)]

Init ==
    /\ gross = [c \in Cpty |-> 0]
    /\ credit \in [Cpty -> Credit]
    /\ critical = {}
    /\ latest = None
    /\ advice = [t \in Trader |-> None]
    /\ found = {}
    /\ seen = {}
    /\ fresh = [t \in Trader |-> FALSE]

-----------------------------------------------------------------------------
(* The cycle *)

\* recon_breaks is [] without extracts.
CriticalBreaksByCpty(reconciled) == IF reconciled THEN critical ELSE {}

\* Mutant: the breaks do not reach the growth engine.
BlindOpportunities(reconciled) ==
    [c \in Cpty |-> Assess(Profile(c), FALSE)]

GrowthOpportunities(reconciled) ==
    [c \in Cpty |-> Assess(Profile(c), c \in CriticalBreaksByCpty(reconciled))]

\* run_full_cycle, published by set_latest_cycle_outputs.
RunCycle(reconciled) ==
    /\ latest' = [reconciled |-> reconciled,
                  profile    |-> [c \in Cpty |-> Profile(c)],
                  breaks     |-> CriticalBreaksByCpty(reconciled),
                  action     |-> GrowthOpportunities(reconciled),
                  alert      |-> [c \in Cpty |-> LimitAlert(Profile(c))]]
    /\ found' = IF reconciled THEN critical ELSE found
    /\ seen' = found'
    /\ UNCHANGED <<world, advice, fresh>>

\* run_daily_batch.py, at the end of the day.
EndOfDayCycle == RunCycle(TRUE)

\* run_intraday_cycle.py, every fifteen minutes: book_recon_df and custodian_recon_df
\* are None.
FastCycle == RunCycle(FALSE)

-----------------------------------------------------------------------------
(* Traders and their desk *)

\* Mutant: a trade may use the limit up.
WouldBreachOver(c, x) ==
    UtilAbove([latest.profile[c] EXCEPT !.gross = @ + x], 100)

\* GET /v1/limits/simulate-incremental, on the figures of the latest cycle.
WouldBreach(c, x) ==
    UtilAtLeast([latest.profile[c] EXCEPT !.gross = @ + x], 100)

\* PROCEED; the trader now holds an answer.
Simulate(t, c, x) ==
    /\ latest # None
    /\ advice[t] = None
    /\ ~WouldBreach(c, x)
    /\ advice' = [advice EXCEPT ![t] = [cpty |-> c, amount |-> x]]
    /\ fresh' = [fresh EXCEPT ![t] = gross[c] <= latest.profile[c].gross]
    /\ UNCHANGED <<world, latest, found, seen>>

\* The trader books what the answer allowed, in the firm's own systems.
Book(t) ==
    LET c == advice[t].cpty IN
    /\ advice[t] # None
    /\ gross[c] + advice[t].amount \in Gross
    /\ gross' = [gross EXCEPT ![c] = @ + advice[t].amount]
    /\ advice' = [advice EXCEPT ![t] = None]
    /\ fresh' = [s \in Trader |->
          fresh[s] /\ s # t /\ (advice[s] = None \/ advice[s].cpty # c)]
    /\ UNCHANGED <<credit, critical, latest, found, seen>>

\* Or does not.
Discard(t) ==
    /\ advice[t] # None
    /\ advice' = [advice EXCEPT ![t] = None]
    /\ fresh' = [fresh EXCEPT ![t] = FALSE]
    /\ UNCHANGED <<world, latest, found, seen>>

\* Exposure moves for other reasons: marks, returns, collateral, other desks.
Drift(c, x) ==
    /\ gross[c] + x \in Gross
    /\ gross' = [gross EXCEPT ![c] = @ + x]
    /\ fresh' = [s \in Trader |->
          fresh[s] /\ (x < 0 \/ advice[s] = None \/ advice[s].cpty # c)]
    /\ UNCHANGED <<credit, critical, latest, advice, found, seen>>

\* New positions or fees change the return and the concentration, a new counterparty
\* extract the watch list.
CreditMoves(c, figures) ==
    /\ credit' = [credit EXCEPT ![c] = figures]
    /\ UNCHANGED <<gross, critical, latest, advice, found, seen, fresh>>

\* Book and custodian drift apart by more than 10%, or agree again.
BreakOpens(c) ==
    /\ critical' = critical \cup {c}
    /\ UNCHANGED <<gross, credit, latest, advice, found, seen, fresh>>

BreakResolved(c) ==
    /\ critical' = critical \ {c}
    /\ found' = found \ {c}
    /\ UNCHANGED <<gross, credit, latest, advice, seen, fresh>>

Next ==
    \/ EndOfDayCycle
    \/ FastCycle
    \/ \E t \in Trader :
          \/ \E c \in Cpty, x \in Amount : Simulate(t, c, x)
          \/ Book(t)
          \/ Discard(t)
    \/ \E c \in Cpty :
          \/ \E x \in Amount : Drift(c, x) \/ Drift(c, -x)
          \/ \E figures \in Credit : CreditMoves(c, figures)
          \/ BreakOpens(c)
          \/ BreakResolved(c)

Spec == Init /\ [][Next]_vars

-----------------------------------------------------------------------------
(* Properties *)

\* Every variable has its type, and only a reconciled cycle publishes breaks.
TypeOK ==
    /\ gross \in [Cpty -> Gross]
    /\ credit \in [Cpty -> Credit]
    /\ critical \subseteq Cpty
    /\ latest \in Outputs \cup {None}
    /\ advice \in [Trader -> [cpty : Cpty, amount : Amount] \cup {None}]
    /\ found \subseteq critical
    /\ seen \subseteq Cpty
    /\ fresh \in [Trader -> BOOLEAN]
    /\ latest = None => \A t \in Trader : advice[t] = None
    /\ latest # None /\ ~latest.reconciled => latest.breaks = {}

Published(c) == latest.profile[c]

\* GET /v1/limits/dashboard?status=...: the rows of the page of one tier.  A falsy
\* utilization_pct is on none of them.
TierPage(tier) ==
    {c \in Cpty :
        LET p == Published(c) IN
        \/ tier = "BREACH" /\ LimitBreached(p)
        \/ tier = "AMBER" /\ p.gross # 0 /\ UtilAtLeast(p, 85) /\ UtilBelow(p, 100)
        \/ tier = "GREEN" /\ p.gross # 0 /\ UtilBelow(p, 85)}

\* The limit engines disagree about a counterparty at exactly one point.  The alert
\* says BREACHED from 100% on and limit_breached, on which the breach page and the
\* daily summary stand, only above it: a CRITICAL limit alert without a place on the
\* breach page is an exposure of exactly the limit, and no such place goes without
\* the alert.  Everything else agrees: the amber page shows those with a HIGH limit
\* alert, the green page none with any, a CRITICAL limit alert comes with REDUCE and
\* with no leave to trade more, and nobody is told to grow with a counterparty the
\* same cycle warns about.
EnginesAgree ==
    latest # None => \A c \in Cpty :
        /\ latest.alert[c] = "CRITICAL" <=>
              c \in TierPage("BREACH") \/ (HasLimit(Published(c))
                                            /\ Published(c).gross = Published(c).limit)
        /\ c \in TierPage("AMBER") <=> latest.alert[c] = "HIGH"
        /\ c \in TierPage("GREEN") => latest.alert[c] = "NONE"
        /\ latest.alert[c] = "CRITICAL" =>
              latest.action[c] = "REDUCE" /\ \A x \in Amount : WouldBreach(c, x)
        /\ latest.action[c] = "GROW" => latest.alert[c] = "NONE"

\* Every CRITICAL break that was open when an end-of-day cycle ran turns its
\* counterparty's recommendation into REDUCE.
BreaksReachGrowth ==
    latest # None => (latest.reconciled => \A c \in seen : latest.action[c] = "REDUCE")

\* From one cycle to the next no counterparty is treated more generously unless one
\* of the figures the cycles found got better, a return on capital came or went, or a
\* break the first cycle had seen went away.
NoPromotionOnWorseNews ==
    [][latest # None /\ latest' # None => \A c \in Cpty :
          /\ NoBetterThan(latest'.profile[c], latest.profile[c])
          /\ c \in latest.breaks => c \in latest'.breaks
          => Commitment(latest'.action[c]) <= Commitment(latest.action[c])]_vars

\* A trader who acts on a PROCEED while the exposure has not risen above the figures
\* it was computed from stays below the limit.  What breaks a limit is advice that
\* went stale in the trader's hands: two traders with the same headroom.
FreshAdviceIsSafe ==
    \A t \in Trader : advice[t] # None /\ fresh[t] =>
        LET c == advice[t].cpty
        IN  ~UtilAtLeast([Profile(c) EXCEPT !.gross = @ + advice[t].amount], 100)

\* "GROW: ... AND not on watch_list AND no unresolved CRITICAL recon breaks": no
\* cycle recommends to grow with a counterparty while a break that the platform has
\* found is unresolved.
GrowNeedsNoCriticalBreak ==
    latest # None => \A c \in seen : latest.action[c] # "GROW"
=============================================================================
