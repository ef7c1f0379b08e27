----------------------------- MODULE Reconciliation -----------------------------
(***************************************************************************)
(* reconcile (reconciliation/recon_engine.py): the breaks between the book *)
(* and the custodian's extract.                                            *)
(*                                                                         *)
(* A frame is a function from row numbers to rows, so that its order is    *)
(* the file's and rows may be missing from it.  A break is its key, type   *)
(* and severity.  Quantities and values are the integers that the          *)
(* tolerances, all of them fractions of the book's figure, tell apart.     *)
(***************************************************************************)
EXTENDS Integers, FiniteSets

\* Reconciliation keys: security, counterparty, trade date and direction.
CONSTANT Key

Row == [key : Key, quantity : Nat, value : Nat]

RowsOf(frame, k) == {i \in DOMAIN frame : frame[i].key = k}
KeysOf(frame) == {frame[i].key : i \in DOMAIN frame}

\* .iloc[0] of the rows of a key.
FirstRow(frame, k) ==
    frame[CHOOSE i \in RowsOf(frame, k) : \A j \in RowsOf(frame, k) : i <= j]

-----------------------------------------------------------------------------
(* ReconConfig and _classify_break.  The difference is taken relative to the *)
(* book; without a book quantity any quantity is a full difference, without  *)
(* a book value none is.                                                     *)

Difference(a, b) == IF a >= b THEN a - b ELSE b - a

\* Mutant: a difference of exactly 0.1% is reported.
QuantityDiffersAtTolerance(b, e) ==
    IF b.quantity # 0 THEN 1000 * Difference(b.quantity, e.quantity) >= b.quantity
                      ELSE e.quantity # 0

\* More than 0.1% of the book quantity.
QuantityDiffers(b, e) ==
    IF b.quantity # 0 THEN 1000 * Difference(b.quantity, e.quantity) > b.quantity
                      ELSE e.quantity # 0

\* More than 10% of it.
QuantityFarOff(b, e) ==
    IF b.quantity # 0 THEN 10 * Difference(b.quantity, e.quantity) > b.quantity
                      ELSE e.quantity # 0

\* More than 0.5% of the book value.
ValueDiffers(b, e) == b.value # 0 /\ 200 * Difference(b.value, e.value) > b.value

BreakType == {"MISSING_ON_BOOK", "MISSING_AT_CUSTODIAN", "QUANTITY_MISMATCH",
              "PRICE_RATE_MISMATCH", "DUPLICATE_ENTRY"}
BreakSeverity == {"MEDIUM", "HIGH", "CRITICAL"}
Break == [key : Key, type : BreakType, severity : BreakSeverity]

BreakOf(k, type, severity) == [key |-> k, type |-> type, severity |-> severity]

\* Several book rows under one key; those of the external side go unnoticed.
Duplicates(book) ==
    {BreakOf(k, "DUPLICATE_ENTRY", "MEDIUM") :
        k \in {j \in KeysOf(book) : Cardinality(RowsOf(book, j)) > 1}}

Missing(book, ext) ==
    {BreakOf(k, "MISSING_ON_BOOK", "HIGH") : k \in KeysOf(ext) \ KeysOf(book)} \cup
    {BreakOf(k, "MISSING_AT_CUSTODIAN", "HIGH") : k \in KeysOf(book) \ KeysOf(ext)}

\* The first rows of a key that both sides have, quantity first.
Mismatch(k, b, e) ==
    IF QuantityDiffers(b, e)
    THEN {BreakOf(k, "QUANTITY_MISMATCH", IF QuantityFarOff(b, e) THEN "CRITICAL" ELSE "HIGH")}
    ELSE IF ValueDiffers(b, e) THEN {BreakOf(k, "PRICE_RATE_MISMATCH", "MEDIUM")}
    ELSE {}

Mismatches(book, ext) ==
    UNION {Mismatch(k, FirstRow(book, k), FirstRow(ext, k)) : k \in KeysOf(book) \cap KeysOf(ext)}

\* A frame without a row has no columns: validate_columns raises ValueError.
HasColumns(frame) == DOMAIN frame # {}

\* Mutant: only the keys of the book are walked.
ReconcileBook(book, ext) ==
    Duplicates(book) \cup {b \in Missing(book, ext) : b.type = "MISSING_AT_CUSTODIAN"}
                     \cup Mismatches(book, ext)

Reconcile(book, ext) == Duplicates(book) \cup Missing(book, ext) \cup Mismatches(book, ext)
=============================================================================
