------------------------------- MODULE CycleAdvice -------------------------------
(***************************************************************************)
(* The decision engines over the days of a desk: each cycle of             *)
(* orchestration/scheduler.py prices the book, ranks the settlement fails, *)
(* screens the corporate actions and publishes what the three engines      *)
(* recommend and alert on.  Between cycles the world moves: days pass and  *)
(* open fails age, quotes move, inventory and locates come and go,         *)
(* positions are opened and closed.                                        *)
(*                                                                         *)
(* Days are counted from the first one observed.  The calendar stops at    *)
(* MaxDay, which may be before an event or after it, and fails keep ageing *)
(* on the last day, to MaxAge.                                             *)
(***************************************************************************)
EXTENDS RecallRisk, CorporateActions

CONSTANTS
    Quotes,    \* quotes the market may show
    Calendars, \* the sets of corporate actions a desk may have before it
    MayFail,   \* positions whose settlement may fail
    MaxDay,    \* bound on the calendar
    MaxAge     \* bound on the age of a fail

Day == 0..MaxDay

Event == [type : EventType, security : Security, record : Date, ex : Date,
          effective : Date, election : Date, payment : Date]

Fail == [age : 0..MaxAge, receiving : BOOLEAN]

\* What a cycle publishes of these engines.
Outputs ==
    [asOf      : Day,
     positions : SUBSET Position,
     pricing   : [Position -> Nat \cup {None}],
     recall    : SUBSET [position : Position, action : RecallActions, alert : AlertLevel]]

ASSUME AdviceAssumption ==
    /\ Quotes \subseteq Quote
    /\ Calendars \subseteq SUBSET Event
    /\ MayFail \subseteq Position
    /\ MaxDay \in Nat
    /\ MaxAge \in Nat
    /\ None \notin Fail
    /\ None \notin Outputs

VARIABLES
    \* What a cycle is given (CycleInputs).
    today,       \* as_of
    book,        \* open positions
    quotes,      \* market_quotes: a quote or None for each security
    fails,       \* settlement_fails: the open fail of a position, or None
    substitutes, \* securities with substitute inventory
    shortages,   \* securities whose entry in locate_shortages is short: of several the
                 \* last, which is the one that the engine's dict keeps
    events,      \* corporate_action_events, which stay as they are
    \* What the API serves.
    latest       \* CycleOutputs of the last cycle, None before the first

inputs == <<today, book, quotes, fails, substitutes, shortages, events>>
vars == <<inputs, latest>>

Init ==
    /\ today = 0
    /\ book \in SUBSET Position
    /\ quotes \in [Security -> Quotes \cup {None}]
    /\ fails = [p \in Position |-> None]
    /\ substitutes = {}
    /\ shortages = {}
    /\ events \in Calendars
    /\ latest = None

-----------------------------------------------------------------------------
(* The cycle *)

\* specialness_by_security; no entry without a quote.
TierOf(s) == IF quotes[s] = None THEN None ELSE ClassifySpecialness(quotes[s])

\* ca_driven_return_ids: record dates at most five days ahead, and all that have passed.
CaDrivenReturn(s) == \E e \in events : e.security = s /\ e.record # None /\ e.record - today <= 5

\* What the recall engine looks up for the open fail of a position.  Of the locates of
\* a security it knows one, so that a shortage an earlier entry speaks of may be unseen.
FactsOf(p) ==
    LET s == SecurityOf[p] IN
    [position |-> p, age |-> fails[p].age, receiving |-> fails[p].receiving,
     tier |-> TierOf(s), substitute |-> s \in substitutes,
     shortage |-> s \in shortages, caDriven |-> CaDrivenReturn(s)]

\* Mutant: a fail is ranked whether or not its position is in the book.
AllFails == {p \in Position : fails[p] # None}

\* A fail of a position that is not in the book is skipped.
BookFails == {p \in book : fails[p] # None}

\* recall_queue
UrgencyQueue == {QueueRow(f) : f \in {FactsOf(p) : p \in BookFails}}

\* affected_position_ids: the open positions in the security of an event.
Affected(e, positions) == {p \in positions : SecurityOf[p] = e.security}

\* The entry of an event in ca_watchlist.  Events do not change, so that the day and the
\* book of a cycle stand for its list.
Watched(e) == WatchlistRow(e, latest.asOf, Affected(e, latest.positions))

\* run_full_cycle, published by set_latest_cycle_outputs.
RunCycle ==
    /\ UNCHANGED inputs
    /\ latest' = [asOf      |-> today,
                  positions |-> book,
                  pricing   |-> PricingRecommendations(book, quotes),
                  recall    |-> UrgencyQueue]

-----------------------------------------------------------------------------
(* The world between cycles *)

NewDay ==
    /\ today' = Capped(today + 1, MaxDay)
    /\ fails' = [p \in Position |->
          IF fails[p] = None THEN None ELSE [fails[p] EXCEPT !.age = Capped(@ + 1, MaxAge)]]
    /\ UNCHANGED <<book, quotes, substitutes, shortages, events, latest>>

QuoteMoves(s, q) ==
    /\ quotes' = [quotes EXCEPT ![s] = q]
    /\ UNCHANGED <<today, book, fails, substitutes, shortages, events, latest>>

FailOpens(p, receiving) ==
    /\ p \in book /\ fails[p] = None
    /\ fails' = [fails EXCEPT ![p] = [age |-> 0, receiving |-> receiving]]
    /\ UNCHANGED <<today, book, quotes, substitutes, shortages, events, latest>>

FailSettles(p) ==
    /\ fails' = [fails EXCEPT ![p] = None]
    /\ UNCHANGED <<today, book, quotes, substitutes, shortages, events, latest>>

\* Substitute inventory is found or used up.
SubstitutesChange(s) ==
    /\ substitutes' = IF s \in substitutes THEN substitutes \ {s} ELSE substitutes \cup {s}
    /\ UNCHANGED <<today, book, quotes, fails, shortages, events, latest>>

\* Locates exceed what is available or are filled, or another entry comes last.
ShortagesChange(s) ==
    /\ shortages' = IF s \in shortages THEN shortages \ {s} ELSE shortages \cup {s}
    /\ UNCHANGED <<today, book, quotes, fails, substitutes, events, latest>>

\* A position is opened or closed; the file of fails follows in its own time.
BookChanges(p) ==
    /\ book' = IF p \in book THEN book \ {p} ELSE book \cup {p}
    /\ UNCHANGED <<today, quotes, fails, substitutes, shortages, events, latest>>

Next ==
    \/ RunCycle
    \/ NewDay
    \/ \E s \in Security :
          \/ \E q \in Quotes \cup {None} : QuoteMoves(s, q)
          \/ SubstitutesChange(s)
          \/ ShortagesChange(s)
    \/ \E p \in Position :
          \/ p \in MayFail /\ \E receiving \in BOOLEAN : FailOpens(p, receiving)
          \/ FailSettles(p)
          \/ BookChanges(p)

Spec == Init /\ [][Next]_vars

\* Days pass, and the schedule of the runbook keeps starting cycles.
FairSpec == Spec /\ WF_vars(NewDay) /\ WF_vars(RunCycle)

-----------------------------------------------------------------------------
(* Properties *)

\* Every variable has its type; outputs are about positions of their own book, and no
\* cycle was run in the future.
TypeOK ==
    /\ today \in Day
    /\ book \subseteq Position
    /\ quotes \in [Security -> Quotes \cup {None}]
    /\ fails \in [Position -> Fail \cup {None}]
    /\ substitutes \subseteq Security
    /\ shortages \subseteq Security
    /\ events \in Calendars
    /\ latest = None \/ latest \in Outputs
    /\ latest # None =>
          /\ latest.asOf <= today
          /\ \A p \in Position : latest.pricing[p] # None => p \in latest.positions
          /\ \A row \in latest.recall : row.position \in latest.positions

\* The alert and the recommendation of a fail come from different modules, with
\* thresholds of their own (70 and 85 against 70 and 60): whatever is alerted on is
\* also recommended on, and a CRITICAL alert comes with the order to get the securities
\* back or to give them back.
AlertedFailHasOrder ==
    latest # None => \A row \in latest.recall :
        /\ row.alert # "NONE" => row.action # "DO_NOTHING"
        /\ row.alert = "CRITICAL" => row.action \in {"RECALL", "RETURN"}

\* Kinds of events whose recall weight reaches 60 from a week before the date on.
RecallKinds == {type \in EventType : ImpactWeights[type][Recall] >= 48}

\* An alert on an event of a kind that makes lenders recall comes with the
\* recommendation to return its positions, where the cycle's book has any.  Two kinds of
\* alerts come without a recommendation: those on splits and the like, and those on
\* events in securities without a position, which the alerts do not ask for.
AlertedEventHasOrder ==
    latest # None => \A e \in events :
        e.type \in RecallKinds /\ Affected(e, latest.positions) # {} =>
            LET row == Watched(e)
            IN  row # None /\ row.alert # "NONE" => row.action = "RETURN"

\* "LEND / REVERSE_REPO positions priced BELOW market => REPRICE up, BORROW / REPO
\* positions priced ABOVE market => REPRICE down": a recommended rate is better for the
\* desk than the position's own.
RepriceInDesksFavour ==
    latest # None => \A p \in Position : latest.pricing[p] # None =>
        IF EarnsTheRate(p) THEN latest.pricing[p] > RateOf[p] ELSE latest.pricing[p] < RateOf[p]

\* p is the last position of its security in the book.
SpeaksForSecurity(p, positions) ==
    \A q \in positions : SecurityOf[q] = SecurityOf[p] => FileRow[q] <= FileRow[p]

\* What is left of it: the position whose row stays in the dict is repriced in the
\* desk's favour, in every cycle that finds it mispriced by more than the gap.
LastPositionPriced ==
    [][latest' # latest => \A p \in book :
          SpeaksForSecurity(p, book) /\ HasMarketRate(quotes, SecurityOf[p]) =>
          LET market == Fee(quotes[SecurityOf[p]])
              gain == IF EarnsTheRate(p) THEN market - RateOf[p] ELSE RateOf[p] - market
          IN  latest'.pricing[p] = IF gain > MinActionableGap THEN market ELSE None]_vars

UrgencyRank(u) ==
    CASE u = "INFORMATIONAL" -> 1
      [] u = "MONITOR" -> 2
      [] u = "ACT_THIS_WEEK" -> 3
      [] u = "ACT_TODAY" -> 4
      [] u = "IMMEDIATE" -> 5

WatchRank(row) == IF row = None THEN 0 ELSE UrgencyRank(row.urgency)

\* However old the published watchlist is, an event whose key date has not passed is by
\* now at least as urgent as it says, across the edge of the window and all steps of the
\* ladder: waiting never makes an approaching event calmer.
ApproachingNeverCalmer ==
    latest # None => \A e \in events :
        (KeyDate(e) # None => KeyDate(e) >= today) =>
            WatchRank(Watched(e)) <= WatchRank(WatchlistRow(e, today, Affected(e, book)))

TierRank(tier) ==
    CASE tier = "GC" -> 1
      [] tier \in {None, "WARM"} -> 2
      [] tier = "SPECIALS_IN_WAITING" -> 3
      [] tier = "SPECIAL" -> 4
      [] tier = "HTB" -> 5
      [] tier = "DEEP_SPECIAL" -> 6

\* Nothing about a fail has got better.  A security that goes from specials-in-waiting
\* to special is left out: it loses the urgency of the former and gets none for the latter.
NoBetterFacts(f, g) ==
    /\ f.age <= g.age
    /\ f.receiving = g.receiving
    /\ TierRank(f.tier) <= TierRank(g.tier)
    /\ ~(f.tier = "SPECIALS_IN_WAITING" /\ g.tier = "SPECIAL")
    /\ g.substitute => f.substitute
    /\ f.shortage => g.shortage
    /\ f.caDriven => g.caDriven

AlertRank(alert) == CASE alert = "NONE" -> 0 [] alert = "HIGH" -> 1 [] alert = "CRITICAL" -> 2

ActionRank(action) ==
    CASE action = "DO_NOTHING" -> 0
      [] action \in {"HEDGE", "SUBSTITUTE"} -> 1
      [] action \in {"RECALL", "RETURN"} -> 2

NoMilder(f, g) ==
    /\ AlertRank(RecallAlert(f)) <= AlertRank(RecallAlert(g))
    /\ f.substitute = g.substitute => ActionRank(RecallAction(f)) <= ActionRank(RecallAction(g))

\* However the days, quotes, locates and inventory move, a fail whose facts get no
\* better is never alerted on less, and never gets a milder recommendation while the
\* inventory to substitute stays as it is.
WorseFactsNeverCalmer ==
    [][\A p \in Position : fails[p] # None /\ fails'[p] # None =>
          \A f \in {FactsOf(p)}, g \in {FactsOf(p)'} : NoBetterFacts(f, g) => NoMilder(f, g)]_vars

ActedOn(p) ==
    /\ latest # None
    /\ \E row \in latest.recall : row.position = p /\ row.action # "DO_NOTHING"

\* A settlement fail that stays open is acted on in the end, whatever the other facts do
\* meanwhile: its age alone makes it urgent.
OpenFailIsActedOn ==
    \A p \in Position : fails[p] # None ~> ActedOn(p) \/ fails[p] = None \/ p \notin book
=============================================================================
