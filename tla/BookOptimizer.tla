----------------------------- MODULE BookOptimizer -----------------------------
(***************************************************************************)
(* optimize_book (optimization/book_optimizer.py) and the desk that acts   *)
(* on its recommendations, one at a time, in any order, or never.          *)
(*                                                                         *)
(* A position is the balance of a security with a counterparty.  The       *)
(* solver is any point that meets the constraints: which one it returns    *)
(* depends on rates and capital costs, which no constraint mentions, and   *)
(* zero is always one of them.  The desk sets no RWA budget.               *)
(***************************************************************************)
EXTENDS Integers, FiniteSets, FiniteSetsExt, Functions

CONSTANTS
    Security, Cpty,
    IssuerOf,       \* issuer_id of a security
    Limit,          \* counterparty_limits_usd, None where there is none
    IssuerCapPct,   \* issuer_concentration_cap_pct, in percent
    DustPct,        \* share of its bound below which an allocation is dust
    OpeningBook,    \* the balances of the first cycle
    None

\* A position may move to three other counterparties at most: with four
\* counterparties or less these are all the others.
ASSUME OptimizerAssumption ==
    /\ IsFiniteSet(Security)
    /\ IsFiniteSet(Cpty) /\ Cardinality(Cpty) <= 4
    /\ DOMAIN IssuerOf = Security
    /\ Limit \in [Cpty -> Nat \cup {None}]
    /\ IssuerCapPct \in 0..100
    /\ DustPct \in 0..100
    /\ OpeningBook \in [Security -> [Cpty -> Nat]]

VARIABLES
    balance,   \* market value of each security with each counterparty
    snapshot,  \* the balances the latest cycle looked at
    recs,      \* its recommendations
    done       \* those the desk has executed

vars == <<balance, snapshot, recs, done>>

-----------------------------------------------------------------------------
(* The linear program *)

Position == Security \X Cpty

\* The positions of a book: balances of nothing are not candidates.
Held(book) == {p \in Position : book[p[1]][p[2]] > 0}

ValueOf(book, p) == book[p[1]][p[2]]

Total(book) == SumFunction([p \in Position |-> ValueOf(book, p)])

\* A solution x allocates x[p][c] of position p to counterparty c: kept at the market
\* rate where c holds it already, moved there otherwise.
AllocatedTo(x, c) == SumFunction([p \in DOMAIN x |-> x[p][c]])

AllocatedOf(x, p) == SumFunction(x[p])

\* Mutant: every allocation is bounded by its position, their sum is not.
EachWithinPosition(book, x) ==
    \A p \in DOMAIN x, c \in Cpty : x[p][c] <= ValueOf(book, p)

\* The allocations of a position do not exceed its market value.
WithinPositions(book, x) ==
    \A p \in DOMAIN x : AllocatedOf(x, p) <= ValueOf(book, p)

\* Mutant: only what moves in counts against the limit.
InflowWithinLimits(x) ==
    \A c \in Cpty : Limit[c] # None =>
        SumFunctionOnSet([p \in DOMAIN x |-> x[p][c]], {p \in DOMAIN x : p[2] # c})
            <= Limit[c]

\* The limit of a counterparty bounds what is allocated to it, kept or moved in.
WithinLimits(x) ==
    \A c \in Cpty : Limit[c] # None => AllocatedTo(x, c) <= Limit[c]

\* The cap is a share of the value of the whole book.
WithinIssuerCaps(book, x) ==
    \A s \in Security :
        LET ofIssuer == {p \in DOMAIN x : IssuerOf[p[1]] = IssuerOf[s]}
        IN  100 * SumFunction([p \in ofIssuer |-> AllocatedOf(x, p)])
                <= IssuerCapPct * Total(book)

\* The points the solver may return.
Solutions(book) ==
    LET bound == 0..Max({ValueOf(book, p) : p \in Position})
    IN  {x \in [Held(book) -> [Cpty -> bound]] :
            /\ WithinPositions(book, x)
            /\ WithinLimits(x)
            /\ WithinIssuerCaps(book, x)}

-----------------------------------------------------------------------------
(* From the solution to recommendations *)

IsDust(book, p, amount) == 100 * amount < DustPct * ValueOf(book, p)

\* Mutant: an allocation that is nearly all of its position is rounded up to it.
RefinedUp(book, x) ==
    [p \in DOMAIN x |-> [c \in Cpty |->
        IF IsDust(book, p, ValueOf(book, p) - x[p][c]) THEN ValueOf(book, p) ELSE x[p][c]]]

\* _round_and_refine
Refined(book, x) ==
    [p \in DOMAIN x |-> [c \in Cpty |-> IF IsDust(book, p, x[p][c]) THEN 0 ELSE x[p][c]]]

\* _build_recommendations: every allocation that is left, but for the repricing of a
\* position (one of `cold`) whose booked rate is hardly below the market's.
Recommendations(x, cold) ==
    {[security |-> m[1][1], from |-> m[1][2], to |-> m[2], amount |-> x[m[1]][m[2]]] :
        m \in {m \in (DOMAIN x) \X Cpty :
                 /\ x[m[1]][m[2]] > 0
                 /\ ~(m[1][2] = m[2] /\ m[1] \in cold)}}

\* The books the desk can get to: what moves stays in the book.
Books ==
    {book \in [Security -> [Cpty -> 0..Total(OpeningBook)]] :
        \A s \in Security : SumFunction(book[s]) = SumFunction(OpeningBook[s])}

\* What a cycle may recommend for a book, the rates being what they may.
Outcome ==
    UNION {{[book |-> book, recs |-> Recommendations(Refined(book, x), cold)] :
                x \in Solutions(book), cold \in SUBSET Held(book)} : book \in Books}

-----------------------------------------------------------------------------
(* Behaviour *)

Init ==
    /\ balance = OpeningBook
    /\ snapshot = OpeningBook
    /\ recs = {}
    /\ done = {}

\* Mutant: what was executed of the recommendations before is remembered.
OptimizeOnTop ==
    /\ \E o \in Outcome : o.book = balance /\ recs' = o.recs
    /\ snapshot' = balance
    /\ UNCHANGED <<balance, done>>

\* A cycle optimizes the book as it stands; the recommendations before are gone.
Optimize ==
    /\ \E o \in Outcome : o.book = balance /\ recs' = o.recs
    /\ snapshot' = balance
    /\ done' = {}
    /\ UNCHANGED balance

\* A trader executes an approved recommendation in the firm's own systems.
\* Repricing leaves the balance where it is.
Execute(r) ==
    /\ r \in recs \ done
    /\ balance[r.security][r.from] >= r.amount
    /\ balance' = IF r.from = r.to THEN balance
                  ELSE [balance EXCEPT ![r.security][r.from] = @ - r.amount,
                                       ![r.security][r.to] = @ + r.amount]
    /\ done' = done \cup {r}
    /\ UNCHANGED <<snapshot, recs>>

Next == Optimize \/ \E r \in recs : Execute(r)

Spec == Init /\ [][Next]_vars

-----------------------------------------------------------------------------
(* Properties *)

Recommendation == [security : Security, from : Cpty, to : Cpty, amount : Nat \ {0}]
Amount(S) == SumFunction([r \in S |-> r.amount])

\* Every variable has its type, the desk stays within the books enumerated, and
\* what it has executed are recommendations of the latest cycle.
TypeOK ==
    /\ balance \in Books
    /\ snapshot \in Books
    /\ recs \subseteq Recommendation
    /\ done \subseteq recs

\* The recommendations of a cycle do not compete: whichever of them have been
\* executed, the balance is still there for all the others.
JointlyExecutable ==
    \A s \in Security, c \in Cpty :
        Amount({r \in recs \ done : r.security = s /\ r.from = c}) <= balance[s][c]

Exposure(book, c) == SumFunction([s \in Security |-> book[s][c]])

\* What the cycle recommended nothing about.
Untouched(c) == Exposure(snapshot, c) - Amount({r \in recs : r.from = c})

\* What it wants elsewhere and the desk has not moved yet.
YetToLeave(c) == Amount({r \in recs \ done : r.from = c /\ r.to # c})

\* However far the desk has followed the recommendations, a counterparty is above its
\* limit by no more than what they leave untouched there or have still to move away:
\* they never cause an excess of their own.
ExcessIsWhatStays ==
    \A c \in Cpty : Limit[c] # None =>
        Exposure(balance, c) <= Limit[c] + Untouched(c) + YetToLeave(c)

\* The allocation to an issuer stays under its cap after dust has been swept.
IssuerCapped ==
    \A s \in Security :
        100 * Amount({r \in recs : IssuerOf[r.security] = IssuerOf[s]})
            <= IssuerCapPct * Total(snapshot)
=============================================================================
