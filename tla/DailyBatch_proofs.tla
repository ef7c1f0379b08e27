--------------------------- MODULE DailyBatch_proofs ---------------------------
(* Proofs about the end-of-day batch and its reconciliation. *)
EXTENDS DailyBatch, FiniteSetTheorems, TLAPS

-----------------------------------------------------------------------------
(* Reconciliation *)

\* A key with a single row has that row for its first.
LEMMA OnlyRowIsFirst ==
    ASSUME NEW frame, NEW k, NEW i, i \in Int, RowsOf(frame, k) = {i}
    PROVE  FirstRow(frame, k) = frame[i]
<1>0. i <= i
  OBVIOUS
<1>1. i = CHOOSE j \in RowsOf(frame, k) : \A m \in RowsOf(frame, k) : j <= m
  BY <1>0
<1>2. QED
  BY <1>1 DEF FirstRow

LEMMA MismatchIsBreak ==
    ASSUME NEW k \in Key, NEW b, NEW e
    PROVE  Mismatch(k, b, e) \subseteq Break
BY DEF Mismatch, BreakOf, Break, BreakType, BreakSeverity

LEMMA KeysAreKeys ==
    ASSUME NEW n, NEW frame \in Frame(n)
    PROVE  KeysOf(frame) \subseteq Key
BY DEF KeysOf, Frame, FileRow

\* reconcile returns breaks.
LEMMA ReconcileType ==
    ASSUME NEW n, NEW m, NEW b \in Frame(n), NEW e \in Frame(m)
    PROVE  Reconcile(b, e) \subseteq Break
<1>1. KeysOf(b) \subseteq Key /\ KeysOf(e) \subseteq Key
  BY KeysAreKeys
<1>2. Duplicates(b) \subseteq Break
  BY <1>1 DEF Duplicates, BreakOf, Break, BreakType, BreakSeverity
<1>3. Missing(b, e) \subseteq Break
  BY <1>1 DEF Missing, BreakOf, Break, BreakType, BreakSeverity
<1>4. Mismatches(b, e) \subseteq Break
  BY <1>1, MismatchIsBreak DEF Mismatches
<1>5. QED
  BY <1>2, <1>3, <1>4 DEF Reconcile

LEMMA KeyOfMismatch ==
    ASSUME NEW k, NEW b, NEW e, NEW x \in Mismatch(k, b, e)
    PROVE  x.key = k
BY DEF Mismatch, BreakOf

\* A key on one side only has a break.
LEMMA CleanIsOnBothSides ==
    ASSUME NEW b, NEW e, NEW k \in KeysOf(b) \cup KeysOf(e),
           \A x \in Reconcile(b, e) : x.key # k
    PROVE  k \in KeysOf(b) \cap KeysOf(e)
<1>1. CASE k \notin KeysOf(b)
  <2>1. BreakOf(k, "MISSING_ON_BOOK", "HIGH") \in Reconcile(b, e)
    BY <1>1 DEF Reconcile, Missing
  <2>2. QED
    BY <2>1 DEF BreakOf
<1>2. CASE k \notin KeysOf(e)
  <2>1. BreakOf(k, "MISSING_AT_CUSTODIAN", "HIGH") \in Reconcile(b, e)
    BY <1>2 DEF Reconcile, Missing
  <2>2. QED
    BY <2>1 DEF BreakOf
<1>3. QED
  BY <1>1, <1>2

\* A key with one row on each side has a break exactly if these rows mismatch.
LEMMA SingleRowsDecide ==
    ASSUME NEW b, NEW e, NEW k, NEW i \in Int, NEW j \in Int,
           RowsOf(b, k) = {i}, RowsOf(e, k) = {j}
    PROVE  (\A x \in Reconcile(b, e) : x.key # k) <=> Mismatch(k, b[i], e[j]) = {}
<1>1. k \in KeysOf(b) \cap KeysOf(e)
  BY DEF RowsOf, KeysOf
<1>2. FirstRow(b, k) = b[i] /\ FirstRow(e, k) = e[j]
  BY OnlyRowIsFirst
<1>3. \A x \in Duplicates(b) : x.key # k
  <2>1. Cardinality(RowsOf(b, k)) = 1
    BY FS_Singleton
  <2>2. ~(Cardinality(RowsOf(b, k)) > 1)
    BY <2>1
  <2>3. QED
    BY <2>2 DEF Duplicates, BreakOf
<1>4. \A x \in Missing(b, e) : x.key # k
  BY <1>1 DEF Missing, BreakOf
<1>5. \A x \in Mismatches(b, e) : x.key = k <=> x \in Mismatch(k, b[i], e[j])
  BY <1>1, <1>2, KeyOfMismatch DEF Mismatches
<1>6. \A x \in Mismatch(k, b[i], e[j]) : x \in Mismatches(b, e)
  BY <1>1, <1>2 DEF Mismatches
<1>7. QED
  BY <1>3, <1>4, <1>5, <1>6, KeyOfMismatch DEF Reconcile

\* Two rows match when they are within both tolerances.
LEMMA MatchIsAgreement ==
    ASSUME NEW k, NEW b \in Row, NEW e \in Row
    PROVE  Mismatch(k, b, e) = {} <=>
              /\ 1000 * Difference(b.quantity, e.quantity) <= b.quantity
              /\ b.value = 0 \/ 200 * Difference(b.value, e.value) <= b.value
<1>1. b.quantity \in Nat /\ e.quantity \in Nat /\ b.value \in Nat /\ e.value \in Nat
  BY DEF Row
<1>2. Mismatch(k, b, e) = {} <=> ~QuantityDiffers(b, e) /\ ~ValueDiffers(b, e)
  BY DEF Mismatch
<1>3. ~QuantityDiffers(b, e) <=> 1000 * Difference(b.quantity, e.quantity) <= b.quantity
  BY <1>1 DEF QuantityDiffers, Difference
<1>4. ~ValueDiffers(b, e) <=> b.value = 0 \/ 200 * Difference(b.value, e.value) <= b.value
  BY <1>1 DEF ValueDiffers, Difference
<1>5. QED
  BY <1>2, <1>3, <1>4

-----------------------------------------------------------------------------
(* The run *)

LEMMA ParsedIsFrame ==
    ASSUME NEW file \in PositionFiles
    PROVE  /\ Parsed(file) \in Frame(MaxPositions)
           /\ RejectedRows(file) \subseteq DOMAIN file \ DOMAIN Parsed(file)
<1> USE BatchAssumption
<1>1. PICK n \in 0..MaxPositions : file \in [1..n -> [quality : Quality, row : FileRow]]
  BY DEF PositionFiles
<1> DEFINE I == {j \in DOMAIN file : file[j].quality = "good"}
<1>2. I \in SUBSET (1..MaxPositions)
  BY <1>1
<1>3. Parsed(file) \in [I -> FileRow]
  BY <1>1 DEF Parsed
<1>4. Parsed(file) \in Frame(MaxPositions)
  BY <1>2, <1>3 DEF Frame
<1>5. DOMAIN Parsed(file) = I
  BY DEF Parsed
<1>6. QED
  BY <1>4, <1>5 DEF RejectedRows

LEMMA HoldingsAreFrame ==
    ASSUME NEW file \in HoldingFiles
    PROVE  file \in Frame(MaxHoldings)
<1> USE BatchAssumption
<1>1. PICK n \in 0..MaxHoldings : file \in [1..n -> FileRow]
  BY DEF HoldingFiles
<1>2. 1..n \in SUBSET (1..MaxHoldings)
  OBVIOUS
<1>3. QED
  BY <1>1, <1>2 DEF Frame

LEMMA NoRowsIsFrame == \A n : NoRows \in Frame(n)
<1>1. NoRows \in [{} -> FileRow]
  BY DEF NoRows
<1>2. QED
  BY <1>1 DEF Frame

LEMMA ForgetType ==
    ASSUME Forget
    PROVE  /\ used' \subseteq Source /\ capture' \in PositionFiles \cup {NoRows}
           /\ book' \in Frame(MaxPositions) /\ holdings' \in Frame(MaxHoldings)
           /\ rejections' \subseteq DOMAIN capture' \ DOMAIN book'
           /\ breaks' \subseteq Break
BY NoRowsIsFrame DEF Forget

LEMMA CrashType ==
    ASSUME TypeOK, NEW reason \in {"reference data", "row", "conversion", "cycle"},
           Crash(reason)
    PROVE  TypeOK'
BY ForgetType DEF Crash, TypeOK, Step

LEMMA TypeInit == Init => TypeOK
BY NoRowsIsFrame DEF Init, TypeOK, Step

LEMMA TypeStep == TypeOK /\ [Next]_vars => TypeOK'
<1> SUFFICES ASSUME TypeOK, [Next]_vars PROVE TypeOK'
  OBVIOUS
<1>1. CASE Start
  BY <1>1, ForgetType DEF Start, TypeOK, Step
<1>2. CASE LoadSecurities
  <2>1. CASE Crash("reference data")
    BY <2>1, CrashType
  <2>2. CASE step' = "positions" /\ UNCHANGED <<exit, cause, Results>>
    BY <2>2 DEF TypeOK, Step, Results
  <2>3. QED
    BY <1>2, <2>1, <2>2 DEF LoadSecurities
<1>3. ASSUME NEW at, NEW next, SourceDown(at, next) PROVE TypeOK'
  BY <1>3, ForgetType DEF SourceDown, TypeOK, Step
<1>4. ASSUME NEW file \in PositionFiles, FetchPositions(file) PROVE TypeOK'
  <2>1. CASE ParseRaises(file)
    BY <1>4, <2>1, CrashType DEF FetchPositions
  <2>2. CASE ~ParseRaises(file)
    <3>1. /\ step' = "quotes" /\ used' = used \cup {"INTERNAL_TRADE_CAPTURE"}
          /\ capture' = file /\ book' = Parsed(file) /\ rejections' = RejectedRows(file)
          /\ exit' = exit /\ cause' = cause /\ holdings' = holdings
          /\ breaks' = breaks /\ written' = written
      BY <1>4, <2>2 DEF FetchPositions
    <3>2. rejections' \subseteq DOMAIN capture' \ DOMAIN book'
      BY <3>1, ParsedIsFrame
    <3>3. QED
      BY <3>1, <3>2, ParsedIsFrame DEF TypeOK, Step, Source
  <2>3. QED
    BY <2>1, <2>2
<1>5. ASSUME NEW at, NEW source \in Source, NEW next \in Step, NEW quality,
             FetchParsed(at, source, next, quality)
      PROVE  TypeOK'
  <2>1. CASE quality = "raises"
    BY <1>5, <2>1, CrashType DEF FetchParsed
  <2>2. CASE quality # "raises"
    <3>1. /\ step' \in Step /\ used' \subseteq Source
          /\ UNCHANGED <<exit, cause, capture, book, rejections, holdings, breaks, written>>
      BY <1>5, <2>2 DEF FetchParsed, TypeOK
    <3>2. QED
      BY <3>1 DEF TypeOK
  <2>3. QED
    BY <2>1, <2>2
<1>6. ASSUME NEW file \in HoldingFiles, NEW converts \in BOOLEAN,
             FetchCustodian(file, converts)
      PROVE  TypeOK'
  <2>1. CASE ~converts
    BY <1>6, <2>1, CrashType DEF FetchCustodian
  <2>2. CASE converts
    BY <1>6, <2>2, HoldingsAreFrame DEF FetchCustodian, TypeOK, Step, Source
  <2>3. QED
    BY <2>1, <2>2
<1>7. ASSUME NEW converts \in BOOLEAN, FetchFails(converts) PROVE TypeOK'
  <2>1. CASE ~converts
    BY <1>7, <2>1, CrashType DEF FetchFails
  <2>2. CASE converts
    BY <1>7, <2>2 DEF FetchFails, TypeOK, Step, Source
  <2>3. QED
    BY <2>1, <2>2
<1>8. ASSUME NEW completes \in BOOLEAN, RunCycle(completes) PROVE TypeOK'
  <2>1. CASE completes /\ HasColumns(book) /\ HasColumns(holdings)
    <3>1. Reconcile(book, holdings) \subseteq Break
      BY ReconcileType DEF TypeOK
    <3>2. QED
      BY <1>8, <2>1, <3>1 DEF RunCycle, TypeOK, Step
  <2>2. CASE ~(completes /\ HasColumns(book) /\ HasColumns(holdings))
    BY <1>8, <2>2, CrashType DEF RunCycle
  <2>3. QED
    BY <2>1, <2>2
<1>9. CASE WriteSummary
  BY <1>9 DEF WriteSummary, TypeOK, Step
<1>10. CASE UNCHANGED vars
  BY <1>10 DEF vars, TypeOK
<1>11. QED
  BY <1>1, <1>2, <1>3, <1>4, <1>5, <1>6, <1>7, <1>8, <1>9, <1>10
  DEF Next, FetchQuotes, FetchEvents, Source, Step

\* THEOREM: the variables have their types in every state of every run, and the book
\* holds no row that was rejected.
THEOREM BatchTypeCorrect == Spec => []TypeOK
BY TypeInit, TypeStep, PTL DEF Spec

-----------------------------------------------------------------------------
(* The inductive invariant *)

\* The sources a run has when it is at a step.
UsedAt(s) ==
    CASE s = "quotes"    -> {"INTERNAL_TRADE_CAPTURE"}
      [] s = "events"    -> {"INTERNAL_TRADE_CAPTURE", "DATALEND"}
      [] s = "custodian" -> {"INTERNAL_TRADE_CAPTURE", "DATALEND", "CORP_ACTIONS_FEED"}
      [] s = "fails"     -> {"INTERNAL_TRADE_CAPTURE", "DATALEND", "CORP_ACTIONS_FEED",
                             "CUSTODIAN"}
      [] s \in {"cycle", "write"} -> Source
      [] OTHER -> {}

\* A run that is going on has written nothing and has what its steps have read.
Running ==
    step # "ended" => exit = "none" /\ ~written /\ used = UsedAt(step)

\* A run that has ended wrote the summary exactly if it ended well.
Ended ==
    step = "ended" => (written <=> Completed) /\ (Completed => used = Source)

\* What the book and the log hold of the file.
Normalized ==
    /\ book = Parsed(capture)
    /\ rejections = RejectedRows(capture)
    /\ ~ParseRaises(capture)

Reconciled ==
    step = "write" \/ Completed =>
        /\ HasColumns(book) /\ HasColumns(holdings)
        /\ breaks = Reconcile(book, holdings)

\* There are breaks only once the cycle has reconciled what the run has read.
NoBreaksYet == step # "write" /\ ~Completed => breaks = {}

IInv == TypeOK /\ Running /\ Ended /\ Normalized /\ Reconciled /\ NoBreaksYet

LEMMA NoRowsNormalized ==
    Parsed(NoRows) = NoRows /\ RejectedRows(NoRows) = {} /\ ~ParseRaises(NoRows)
BY DEF Parsed, RejectedRows, ParseRaises, NoRows

\* A run that fails satisfies the invariant: it has forgotten all and written nothing.
LEMMA FailedInv ==
    ASSUME TypeOK', Forget, step' = "ended", exit' \in {"1", "traceback"}, ~written'
    PROVE  IInv'
BY NoRowsNormalized
DEF IInv, Running, Ended, Normalized, Reconciled, NoBreaksYet, Completed, Forget, Parsed,
    RejectedRows, ParseRaises

LEMMA CrashInv ==
    ASSUME TypeOK', Running, step # "ended", NEW reason, Crash(reason)
    PROVE  IInv'
BY FailedInv DEF Crash, Running

LEMMA InvInit == Init => IInv
<1> SUFFICES ASSUME Init PROVE IInv
  OBVIOUS
<1>1. TypeOK
  BY TypeInit
<1>2. Normalized
  BY NoRowsNormalized DEF Init, Normalized
<1>3. QED
  BY <1>1, <1>2 DEF Init, IInv, Running, Ended, Reconciled, NoBreaksYet, Completed

\* A step of the loading phase that only adds a source.
LEMMA LoadInv ==
    ASSUME IInv, TypeOK', step' # "ended", step' # "write", used' = UsedAt(step'),
           exit' = "none", ~written', Normalized',
           breaks' = {} \/ (breaks' = breaks /\ step \notin {"ended", "write"})
    PROVE  IInv'
BY DEF IInv, Running, Ended, Reconciled, NoBreaksYet, Completed

LEMMA InvStep == IInv /\ [Next]_vars => IInv'
<1> SUFFICES ASSUME IInv, [Next]_vars PROVE IInv'
  OBVIOUS
<1>1. TypeOK /\ TypeOK' /\ Running /\ Ended /\ Normalized /\ Reconciled /\ NoBreaksYet
  BY TypeStep DEF IInv
<1>2. CASE Start
  <2>1. Normalized'
    BY <1>2, NoRowsNormalized DEF Start, Forget, Normalized, Parsed, RejectedRows, ParseRaises
  <2>2. used' = UsedAt(step')
    BY <1>2 DEF Start, Forget, UsedAt
  <2>3. QED
    BY <1>1, <1>2, <2>1, <2>2, LoadInv DEF Start, Forget
<1>3. CASE LoadSecurities
  <2>1. CASE Crash("reference data")
    BY <1>1, <1>3, <2>1, CrashInv DEF LoadSecurities
  <2>2. CASE step' = "positions" /\ UNCHANGED <<exit, cause, Results>>
    <3>1. used' = UsedAt(step') /\ exit' = "none" /\ ~written'
      BY <1>1, <1>3, <2>2 DEF LoadSecurities, Running, UsedAt, Results
    <3>2. Normalized'
      BY <1>1, <2>2 DEF Normalized, Results, Parsed, RejectedRows, ParseRaises
    <3>3. QED
      BY <1>1, <1>3, <2>2, <3>1, <3>2, LoadInv DEF LoadSecurities, Results
  <2>3. QED
    BY <1>3, <2>1, <2>2 DEF LoadSecurities
<1>4. ASSUME NEW f \in Fetching, SourceDown(f[1], f[2]) PROVE IInv'
  <2>1. step # "ended"
    BY <1>4 DEF SourceDown, Fetching
  <2>2. QED
    BY <1>1, <1>4, <2>1, FailedInv DEF SourceDown, Running
<1>5. ASSUME NEW file \in PositionFiles, FetchPositions(file) PROVE IInv'
  <2>1. CASE ParseRaises(file)
    BY <1>1, <1>5, <2>1, CrashInv DEF FetchPositions
  <2>2. CASE ~ParseRaises(file)
    <3>1. used' = UsedAt(step') /\ exit' = "none" /\ ~written' /\ step' = "quotes"
      BY <1>1, <1>5, <2>2 DEF FetchPositions, Running, UsedAt
    <3>2. Normalized'
      BY <1>5, <2>2 DEF FetchPositions, Normalized, Parsed, RejectedRows, ParseRaises
    <3>3. QED
      BY <1>1, <1>5, <2>2, <3>1, <3>2, LoadInv DEF FetchPositions
  <2>3. QED
    BY <2>1, <2>2
<1>6. ASSUME NEW quality \in Quality, FetchQuotes(quality) \/ FetchEvents(quality)
      PROVE  IInv'
  <2>1. CASE quality = "raises"
    BY <1>1, <1>6, <2>1, CrashInv DEF FetchQuotes, FetchEvents, FetchParsed
  <2>2. CASE quality # "raises"
    <3>1. used' = UsedAt(step') /\ exit' = "none" /\ ~written' /\ step' \in {"events", "custodian"}
      BY <1>1, <1>6, <2>2 DEF FetchQuotes, FetchEvents, FetchParsed, Running, UsedAt
    <3>2. Normalized'
      BY <1>1, <1>6, <2>2
      DEF FetchQuotes, FetchEvents, FetchParsed, Normalized, Parsed, RejectedRows, ParseRaises
    <3>3. QED
      BY <1>1, <1>6, <2>2, <3>1, <3>2, LoadInv DEF FetchQuotes, FetchEvents, FetchParsed
  <2>3. QED
    BY <2>1, <2>2
<1>7. ASSUME NEW file \in HoldingFiles, NEW converts \in BOOLEAN,
             FetchCustodian(file, converts)
      PROVE  IInv'
  <2>1. CASE ~converts
    BY <1>1, <1>7, <2>1, CrashInv DEF FetchCustodian
  <2>2. CASE converts
    <3>1. used' = UsedAt(step') /\ exit' = "none" /\ ~written' /\ step' = "fails"
      BY <1>1, <1>7, <2>2 DEF FetchCustodian, Running, UsedAt
    <3>2. Normalized'
      BY <1>1, <1>7, <2>2 DEF FetchCustodian, Normalized, Parsed, RejectedRows, ParseRaises
    <3>3. QED
      BY <1>1, <1>7, <2>2, <3>1, <3>2, LoadInv DEF FetchCustodian
  <2>3. QED
    BY <2>1, <2>2
<1>8. ASSUME NEW converts \in BOOLEAN, FetchFails(converts) PROVE IInv'
  <2>1. CASE ~converts
    BY <1>1, <1>8, <2>1, CrashInv DEF FetchFails
  <2>2. CASE converts
    <3>1. used' = UsedAt(step') /\ exit' = "none" /\ ~written' /\ step' = "cycle"
      BY <1>1, <1>8, <2>2 DEF FetchFails, Running, UsedAt, Source
    <3>2. Normalized'
      BY <1>1, <1>8, <2>2 DEF FetchFails, Normalized, Parsed, RejectedRows, ParseRaises
    <3>3. QED
      BY <1>1, <1>8, <2>2, <3>1, <3>2, LoadInv DEF FetchFails
  <2>3. QED
    BY <2>1, <2>2
<1>9. ASSUME NEW completes \in BOOLEAN, RunCycle(completes) PROVE IInv'
  <2>1. CASE completes /\ HasColumns(book) /\ HasColumns(holdings)
    <3>1. /\ step' = "write" /\ breaks' = Reconcile(book, holdings)
          /\ book' = book /\ holdings' = holdings /\ capture' = capture
          /\ rejections' = rejections /\ used' = used /\ exit' = exit /\ written' = written
      BY <1>9, <2>1 DEF RunCycle
    <3>2. Running' /\ Ended'
      BY <1>1, <1>9, <3>1 DEF RunCycle, Running, Ended, UsedAt
    <3>3. Normalized'
      BY <1>1, <3>1 DEF Normalized, Parsed, RejectedRows, ParseRaises
    <3>4. breaks' = Reconcile(book', holdings')
      BY <3>1
    <3>5. HasColumns(book') /\ HasColumns(holdings')
      BY <2>1, <3>1
    <3>6. Reconciled'
      BY <3>4, <3>5
      DEF Reconciled, Reconcile, HasColumns, Duplicates, Missing, Mismatches, KeysOf, RowsOf,
          FirstRow
    <3>7. NoBreaksYet'
      BY <3>1 DEF NoBreaksYet
    <3>8. QED
      BY <1>1, <3>2, <3>3, <3>6, <3>7 DEF IInv
  <2>2. CASE ~(completes /\ HasColumns(book) /\ HasColumns(holdings))
    BY <1>1, <1>9, <2>2, CrashInv DEF RunCycle
  <2>3. QED
    BY <2>1, <2>2
<1>10. CASE WriteSummary
  <2>1. /\ step' = "ended" /\ exit' = "0" /\ written' /\ step = "write"
        /\ UNCHANGED <<used, capture, book, rejections, holdings, breaks>>
    BY <1>10 DEF WriteSummary
  <2>2. Running' /\ Ended'
    BY <1>1, <2>1 DEF Running, Ended, UsedAt, Completed
  <2>3. Normalized'
    BY <1>1, <2>1 DEF Normalized, Parsed, RejectedRows, ParseRaises
  <2>4. /\ HasColumns(book') /\ HasColumns(holdings')
        /\ breaks' = Reconcile(book', holdings')
    BY <1>1, <2>1 DEF Reconciled
  <2>5. Reconciled'
    BY <2>4
    DEF Reconciled, Reconcile, HasColumns, Duplicates, Missing, Mismatches, KeysOf, RowsOf,
        FirstRow
  <2>6. QED
    BY <1>1, <2>1, <2>2, <2>3, <2>5 DEF IInv, NoBreaksYet, Completed
<1>11. CASE UNCHANGED vars
  <2>1. Running' /\ Ended'
    BY <1>1, <1>11 DEF vars, Running, Ended, UsedAt, Completed
  <2>2. Normalized'
    BY <1>1, <1>11 DEF vars, Normalized, Parsed, RejectedRows, ParseRaises
  <2>3. step' = "write" \/ exit' = "0" =>
           /\ HasColumns(book') /\ HasColumns(holdings')
           /\ breaks' = Reconcile(book', holdings')
    BY <1>1, <1>11 DEF vars, Completed, Reconciled
  <2>4. Reconciled'
    BY <2>3
    DEF Completed, Reconciled, Reconcile, HasColumns, Duplicates, Missing, Mismatches,
        KeysOf, RowsOf, FirstRow
  <2>5. QED
    BY <1>1, <1>11, <2>1, <2>2, <2>4 DEF IInv, NoBreaksYet, Completed, vars
<1>12. QED
  BY <1>2, <1>3, <1>4, <1>5, <1>6, <1>7, <1>8, <1>9, <1>10, <1>11 DEF Next

LEMMA Invariant == Spec => []IInv
BY InvInit, InvStep, PTL DEF Spec

-----------------------------------------------------------------------------
(* What the invariant gives *)

\* THEOREM: only a run that ends well leaves a summary, it has read what the summary is
\* about, and breaks are between rows that the run has read (AllOrNothing).
THEOREM NoPartialRun == Spec => []AllOrNothing
<1>1. IInv => AllOrNothing
  <2> SUFFICES ASSUME IInv PROVE AllOrNothing
    OBVIOUS
  <2>1. Completed => used = Source /\ HasColumns(book)
    BY DEF IInv, Running, Ended, Reconciled, Completed
  <2>2. step = "write" => used = Source
    BY DEF IInv, Running, UsedAt
  <2>3. breaks # {} => used = Source /\ HasColumns(holdings)
    BY <2>1, <2>2 DEF IInv, NoBreaksYet, Reconciled
  <2>4. QED
    BY <2>1, <2>3 DEF IInv, Running, Ended, Completed, AllOrNothing, Source
<1>2. QED
  BY <1>1, Invariant, PTL

\* THEOREM: a rejected position that the custodian holds is reported missing on the
\* book, and an accepted one is in the book unchanged (NothingLost).
THEOREM RejectedIsReported == Spec => []NothingLost
<1>1. IInv => NothingLost
  <2> SUFFICES ASSUME IInv, Completed, NEW i \in DOMAIN capture
               PROVE  IF i \in rejections
                      THEN capture[i].row.key \in KeysOf(holdings) \ KeysOf(book) =>
                             BreakOf(capture[i].row.key, "MISSING_ON_BOOK", "HIGH") \in breaks
                      ELSE i \in DOMAIN book /\ book[i] = capture[i].row
    BY DEF NothingLost
  <2>1. CASE i \in rejections
    BY <2>1 DEF IInv, Reconciled, Reconcile, Missing
  <2>2. CASE i \notin rejections
    <3>1. capture[i].quality \in Quality
      <4>1. CASE capture = NoRows
        BY <4>1 DEF NoRows
      <4>2. CASE capture \in PositionFiles
        <5>1. PICK n \in 0..MaxPositions :
                 capture \in [1..n -> [quality : Quality, row : FileRow]]
          BY <4>2 DEF PositionFiles
        <5>2. QED
          BY <5>1
      <4>3. QED
        BY <4>1, <4>2 DEF IInv, TypeOK
    <3>2. capture[i].quality = "good"
      BY <2>2, <3>1 DEF IInv, Normalized, RejectedRows, ParseRaises, Quality
    <3>3. QED
      BY <2>2, <3>2 DEF IInv, Normalized, Parsed
  <2>3. QED
    BY <2>1, <2>2
<1>2. QED
  BY <1>1, Invariant, PTL

\* THEOREM: breaks are exactly the disagreements (CleanMeansAgreed).
THEOREM BreaksAreExact == Spec => []CleanMeansAgreed
<1>1. IInv => CleanMeansAgreed
  <2> SUFFICES ASSUME IInv, Completed, NEW k \in KeysOf(book) \cup KeysOf(holdings)
               PROVE  LET clean == \A b \in breaks : b.key # k IN
                      /\ clean => k \in KeysOf(book) \cap KeysOf(holdings)
                      /\ \A i \in DOMAIN book, j \in DOMAIN holdings :
                            RowsOf(book, k) = {i} /\ RowsOf(holdings, k) = {j} =>
                              (clean <=>
                                 /\ 1000 * Difference(book[i].quantity, holdings[j].quantity)
                                       <= book[i].quantity
                                 /\ book[i].value = 0 \/ 200 * Difference(book[i].value, holdings[j].value)
                                       <= book[i].value)
    BY DEF CleanMeansAgreed
  <2>1. breaks = Reconcile(book, holdings)
    BY DEF IInv, Reconciled
  <2>2. (\A b \in breaks : b.key # k) => k \in KeysOf(book) \cap KeysOf(holdings)
    BY <2>1, CleanIsOnBothSides
  <2>3. ASSUME NEW i \in DOMAIN book, NEW j \in DOMAIN holdings,
               RowsOf(book, k) = {i}, RowsOf(holdings, k) = {j}
        PROVE  (\A b \in breaks : b.key # k) <=>
                 /\ 1000 * Difference(book[i].quantity, holdings[j].quantity) <= book[i].quantity
                 /\ book[i].value = 0 \/ 200 * Difference(book[i].value, holdings[j].value)
                                           <= book[i].value
    <3>1. i \in Int /\ book[i] \in FileRow /\ j \in Int /\ holdings[j] \in FileRow
      <4>1. PICK I \in SUBSET (1..MaxPositions) : book \in [I -> FileRow]
        BY DEF IInv, TypeOK, Frame
      <4>2. PICK J \in SUBSET (1..MaxHoldings) : holdings \in [J -> FileRow]
        BY DEF IInv, TypeOK, Frame
      <4>3. QED
        BY <4>1, <4>2, BatchAssumption
    <3>2. book[i] \in Row /\ holdings[j] \in Row
      BY <3>1, BatchAssumption DEF FileRow, Row
    <3>3. (\A b \in breaks : b.key # k) <=> Mismatch(k, book[i], holdings[j]) = {}
      BY <2>1, <2>3, <3>1, SingleRowsDecide
    <3>4. QED
      BY <3>2, <3>3, MatchIsAgreement
  <2>4. QED
    BY <2>2, <2>3
<1>2. QED
  BY <1>1, Invariant, PTL
=============================================================================
