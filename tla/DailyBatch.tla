------------------------------- MODULE DailyBatch -------------------------------
(***************************************************************************)
(* The end-of-day batch (scripts/run_daily_batch.py): it reads one source  *)
(* after the other through the connectors (ingestion/), normalizes the     *)
(* rows (normalization/schema_mapping.py), runs the cycle with its         *)
(* reconciliation and writes the executive summary.                        *)
(*                                                                         *)
(* Nothing but the summary outlives a run, and the sources change while it *)
(* reads them, so a fetch finds a source down or finds any content.        *)
(***************************************************************************)
EXTENDS Reconciliation

CONSTANTS
    Quantity, Value,  \* figures that occur in the extracts
    MaxPositions,     \* bound on the rows of trade capture
    MaxHoldings       \* bound on the rows of the custodian

ASSUME BatchAssumption ==
    /\ Quantity \subseteq Nat
    /\ Value \subseteq Nat
    /\ MaxPositions \in Nat
    /\ MaxHoldings \in Nat

\* What a parser makes of a row: an object; a DataQualityError, for a field that is
\* missing or unreadable or a security that is not known; or a plain ValueError, for
\* a value that is in none of the enumerations or an unreadable sample_count.
Quality == {"good", "rejected", "raises"}

FileRow == [key : Key, quantity : Quantity, value : Value]
PositionFiles == UNION {[1..n -> [quality : Quality, row : FileRow]] : n \in 0..MaxPositions}
HoldingFiles == UNION {[1..n -> FileRow] : n \in 0..MaxHoldings}

Source == {"INTERNAL_TRADE_CAPTURE", "DATALEND", "CORP_ACTIONS_FEED", "CUSTODIAN",
           "SETTLEMENT_SYSTEM"}

VARIABLES
    step,       \* what the batch does next; "ended" between two runs
    exit,       \* how the run ended
    cause,      \* what an unhandled exception was about
    used,       \* the sources whose rows the run has
    capture,    \* the rows of trade capture, as fetched
    book,       \* the positions normalization made of them: book_df
    rejections, \* numbers of the rows it logged as rejected
    holdings,   \* custodian_df
    breaks,     \* the cycle's recon_breaks
    written     \* the run has written the executive summary

vars == <<step, exit, cause, used, capture, book, rejections, holdings, breaks, written>>

Step == {"ended", "securities", "positions", "quotes", "events", "custodian", "fails",
         "cycle", "write"}

NoRows == [i \in {} |-> {}]

Init ==
    /\ step = "ended"
    /\ exit = "none"
    /\ cause = "none"
    /\ used = {}
    /\ capture = NoRows
    /\ book = NoRows
    /\ rejections = {}
    /\ holdings = NoRows
    /\ breaks = {}
    /\ written = FALSE

-----------------------------------------------------------------------------
(* How a run ends *)

Results == <<used, capture, book, rejections, holdings, breaks, written>>

\* What a run has read and computed is in its process only.
Forget ==
    /\ used' = {}
    /\ capture' = NoRows
    /\ book' = NoRows
    /\ rejections' = {}
    /\ holdings' = NoRows
    /\ breaks' = {}

\* An exception that main() does not catch.
Crash(reason) ==
    /\ step' = "ended"
    /\ exit' = "traceback"
    /\ cause' = reason
    /\ Forget
    /\ UNCHANGED written

\* Mutant: an unavailable source counts as an empty one.
Unavailable(at, next) ==
    /\ step = at
    /\ step' = next
    /\ UNCHANGED <<exit, cause, Results>>

\* DataSourceUnavailableError, from any connector: sys.exit(1).
SourceDown(at, next) ==
    /\ step = at
    /\ step' = "ended"
    /\ exit' = "1"
    /\ Forget
    /\ UNCHANGED <<cause, written>>

-----------------------------------------------------------------------------
(* The steps of a run *)

\* The scheduler starts the batch, or an operator does after a failure.
Start ==
    /\ step = "ended"
    /\ step' = "securities"
    /\ exit' = "none"
    /\ cause' = "none"
    /\ Forget
    /\ written' = FALSE

\* The securities come neither through a connector nor through parse_rows.
LoadSecurities ==
    /\ step = "securities"
    /\ \/ /\ step' = "positions"
          /\ UNCHANGED <<exit, cause, Results>>
       \/ Crash("reference data")

\* Mutant: a row without quality is taken over as it is.
ParsedUnchecked(file) ==
    [i \in {j \in DOMAIN file : file[j].quality # "raises"} |-> file[i].row]

Parsed(file) == [i \in {j \in DOMAIN file : file[j].quality = "good"} |-> file[i].row]

RejectedRows(file) == {i \in DOMAIN file : file[i].quality = "rejected"}

\* parse_rows lets every exception but DataQualityError through.
ParseRaises(file) == \E i \in DOMAIN file : file[i].quality = "raises"

FetchPositions(file) ==
    /\ step = "positions"
    /\ IF ParseRaises(file)
       THEN Crash("row")
       ELSE /\ step' = "quotes"
            /\ used' = used \cup {"INTERNAL_TRADE_CAPTURE"}
            /\ capture' = file
            /\ book' = Parsed(file)
            /\ rejections' = RejectedRows(file)
            /\ UNCHANGED <<exit, cause, holdings, breaks, written>>

\* Quotes and corporate actions: of their rows only the worst matters here.
FetchParsed(at, source, next, quality) ==
    /\ step = at
    /\ IF quality = "raises"
       THEN Crash("row")
       ELSE /\ step' = next
            /\ used' = used \cup {source}
            /\ UNCHANGED <<exit, cause, capture, book, rejections, holdings, breaks, written>>

FetchQuotes(quality) == FetchParsed("quotes", "DATALEND", "events", quality)
FetchEvents(quality) == FetchParsed("events", "CORP_ACTIONS_FEED", "custodian", quality)

\* The custodian's rows are converted in place; a field that does not convert raises.
FetchCustodian(file, converts) ==
    /\ step = "custodian"
    /\ IF ~converts
       THEN Crash("conversion")
       ELSE /\ step' = "fails"
            /\ used' = used \cup {"CUSTODIAN"}
            /\ holdings' = file
            /\ UNCHANGED <<exit, cause, capture, book, rejections, breaks, written>>

FetchFails(converts) ==
    /\ step = "fails"
    /\ IF ~converts
       THEN Crash("conversion")
       ELSE /\ step' = "cycle"
            /\ used' = used \cup {"SETTLEMENT_SYSTEM"}
            /\ UNCHANGED <<exit, cause, capture, book, rejections, holdings, breaks, written>>

\* run_full_cycle, which reconciles whenever both frames are there.  It completes, or
\* one of its engines raises over the figures it is given.
RunCycle(completes) ==
    /\ step = "cycle"
    /\ IF completes /\ HasColumns(book) /\ HasColumns(holdings)
       THEN /\ step' = "write"
            /\ breaks' = Reconcile(book, holdings)
            /\ UNCHANGED <<exit, cause, used, capture, book, rejections, holdings, written>>
       ELSE Crash("cycle")

WriteSummary ==
    /\ step = "write"
    /\ step' = "ended"
    /\ exit' = "0"
    /\ written' = TRUE
    /\ UNCHANGED <<cause, used, capture, book, rejections, holdings, breaks>>

Fetching == {<<"positions", "quotes">>, <<"quotes", "events">>, <<"events", "custodian">>,
             <<"custodian", "fails">>, <<"fails", "cycle">>}

Next ==
    \/ Start
    \/ LoadSecurities
    \/ \E f \in Fetching : SourceDown(f[1], f[2])
    \/ \E file \in PositionFiles : FetchPositions(file)
    \/ \E quality \in Quality : FetchQuotes(quality) \/ FetchEvents(quality)
    \/ \E file \in HoldingFiles, converts \in BOOLEAN : FetchCustodian(file, converts)
    \/ \E converts \in BOOLEAN : FetchFails(converts)
    \/ \E completes \in BOOLEAN : RunCycle(completes)
    \/ WriteSummary

Spec == Init /\ [][Next]_vars

-----------------------------------------------------------------------------
(* Properties *)

Frame(n) == UNION {[I -> FileRow] : I \in SUBSET (1..n)}

\* Every variable has its type; the book never holds a rejected row.
TypeOK ==
    /\ step \in Step
    /\ exit \in {"none", "0", "1", "traceback"}
    /\ cause \in {"none", "reference data", "row", "conversion", "cycle"}
    /\ used \subseteq Source
    /\ capture \in PositionFiles \cup {NoRows}
    /\ book \in Frame(MaxPositions)
    /\ rejections \subseteq DOMAIN capture \ DOMAIN book
    /\ holdings \in Frame(MaxHoldings)
    /\ breaks \subseteq Break
    /\ written \in BOOLEAN

Completed == exit = "0"

\* "Cycle does not silently produce wrong output": a run that ends well has read the
\* book and whatever else it is about, any other run leaves no summary, and breaks are
\* reported only between rows of trade capture and of the custodian that this very run
\* has read.  Whether a run may end well without the custodian is left open here: the
\* runbook says that it should, without reconciliation (runbook.md:76-78), the batch
\* exits 1 at the custodian as at every other source (run_daily_batch.py:168-170).
AllOrNothing ==
    /\ written <=> Completed
    /\ Completed => Source \ {"CUSTODIAN"} \subseteq used /\ HasColumns(book)
    /\ breaks # {} =>
          {"INTERNAL_TRADE_CAPTURE", "CUSTODIAN"} \subseteq used /\ HasColumns(holdings)

\* A position that normalization rejects does not just disappear: the run logs it,
\* and when the custodian holds it the reconciliation reports it missing on the book,
\* unless another position of its key was accepted.
NothingLost ==
    Completed => \A i \in DOMAIN capture :
        LET k == capture[i].row.key IN
        IF i \in rejections
        THEN k \in KeysOf(holdings) \ KeysOf(book) =>
                 BreakOf(k, "MISSING_ON_BOOK", "HIGH") \in breaks
        ELSE i \in DOMAIN book /\ book[i] = capture[i].row

\* What has no break may be relied on, and what may be relied on has no break: a key
\* with one row on each side is free of breaks exactly if the quantities agree to
\* 0.1% and the values to 0.5%, and a key on one side only never is.
CleanMeansAgreed ==
    Completed => \A k \in KeysOf(book) \cup KeysOf(holdings) :
        LET clean == \A b \in breaks : b.key # k IN
        /\ clean => k \in KeysOf(book) \cap KeysOf(holdings)
        /\ \A i \in DOMAIN book, j \in DOMAIN holdings :
              RowsOf(book, k) = {i} /\ RowsOf(holdings, k) = {j} =>
                 (clean <=>
                    /\ 1000 * Difference(book[i].quantity, holdings[j].quantity)
                          <= book[i].quantity
                    /\ book[i].value = 0 \/ 200 * Difference(book[i].value, holdings[j].value)
                          <= book[i].value)

\* parse_rows "never raises - a single bad row must not take down an entire batch
\* run": no run dies of a row.
BatchSurvivesBadRow == cause # "row"
=============================================================================
