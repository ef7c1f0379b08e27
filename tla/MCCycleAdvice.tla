------------------------------ MODULE MCCycleAdvice ------------------------------
(* A lent and a borrowed position in one security, of which the lent one may fail to *)
(* settle.  One calendar has events that come to every step of the ladder from one    *)
(* day to the next (none, 0/-1, 1/0, 2/1, 3/2, 4/3, 8/7, 16/15, 31/30 and 61/60 days  *)
(* ahead), the other a dividend whose record date comes within five days.  Fails age  *)
(* to the cap of every score.                                                        *)
EXTENDS CycleAdvice, TLC

CONSTANTS s1, p1, p2

MCSecurityOf == p1 :> s1 @@ p2 :> s1
MCSideOf == p1 :> "LEND" @@ p2 :> "BORROW"
\* Exactly the actionable gap below the lower quote, and above it.
MCRateOf == p1 :> 45 @@ p2 :> 60

\* Lent above the market, borrowed below it.
MatchedRateOf == p1 :> 80 @@ p2 :> 40
MCFileRow == p1 :> 1 @@ p2 :> 2

\* Without weighted average and specials-in-waiting; hard to borrow.
MCQuotes == {[weighted |-> None, avg |-> 50, util |-> 90],
             [weighted |-> 400, avg |-> 50, util |-> 95]}

OnS1(type, record, ex, effective, election) ==
    [type |-> type, security |-> s1, record |-> record, ex |-> ex,
     effective |-> effective, election |-> election, payment |-> None]

\* Events that come to a step of the ladder on day 1.
Undated ==
    {OnS1("VOLUNTARY_ELECTION", None, None, None, None),
     OnS1("MERGER", None, None, 0, None),
     OnS1("REVERSE_SPLIT", None, None, 1, None),
     OnS1("SPLIT", None, 2, None, None),
     OnS1("CASH_DIVIDEND", None, 3, None, None),
     OnS1("STOCK_DIVIDEND", None, 4, None, None),
     OnS1("INDEX_REBALANCE", None, None, 8, None),
     OnS1("SPIN_OFF", None, 16, None, None),
     OnS1("REDEMPTION", None, None, 31, None),
     OnS1("TENDER_OFFER", None, None, None, 61)}

\* A record date that comes within five days on day 1.
Dividend == OnS1("CASH_DIVIDEND", 6, None, None, None)

MCCalendars == {Undated, {Dividend}}
=============================================================================
