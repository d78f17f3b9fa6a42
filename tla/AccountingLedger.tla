-------------------------- MODULE AccountingLedger -------------------------
(***************************************************************************)
(* The exact cash and quantity ledger of one account and window            *)
(* (operations/accounting_ledger.py).  A source file is a set of rows, an  *)
(* import one immediate transaction over the rows it holds, and importers  *)
(* of several processes take turns; the reconciliation that follows reads  *)
(* the context, the events and the imports one statement after the other,  *)
(* outside any transaction.  One symbol; amounts are small integers; the   *)
(* validity of a row or a context only decides whether it is imported.     *)
(***************************************************************************)
EXTENDS Integers, FiniteSets, FiniteSetsExt

CONSTANTS SourceRows,    \* source file -> its rows: id, kind, qty, price, fee, cash, at
          Contexts,      \* possible declared contexts
          Readers

ASSUME AccountingAssumption ==
    /\ \A s \in DOMAIN SourceRows : IsFiniteSet(SourceRows[s])
    /\ \A s \in DOMAIN SourceRows : \A r \in SourceRows[s] : {r.qty, r.price, r.fee, r.cash} \subseteq Int
    /\ \A c \in Contexts : {c.opening.cash, c.opening.qty, c.ending.cash, c.ending.qty} \subseteq Int

\* A context declares the window, its boundary snapshots (cash and quantity, or
\* not supplied) and which evidence is complete.
NoSnapshot == [cash |-> -1, qty |-> 0]
FillKinds == {"buy", "sell"}

\* normalize_event
Quantity(r) == CASE r.kind = "buy" -> r.qty [] r.kind = "sell" -> -r.qty [] r.kind = "position" -> r.qty [] OTHER -> 0
CashOf(r) ==
    CASE r.kind \in FillKinds -> -Quantity(r) * r.price - r.fee
      [] r.kind = "position" -> 0
      [] OTHER -> r.cash
ValidRow(r) ==
    CASE r.kind \in FillKinds -> r.qty > 0 /\ r.price >= 0 /\ r.fee >= 0
      [] r.kind = "CSD" -> r.cash > 0
      [] r.kind = "CSW" -> r.cash < 0
      [] r.kind = "FEE" -> r.cash <= 0
      [] OTHER -> r.kind \in {"DIV", "INT", "CASH_ADJUSTMENT", "position"}
ExternalOf(r) == IF r.kind \in {"CSD", "CSW"} THEN r.cash ELSE 0

VARIABLES context,      \* metadata: the context of the first import, or {}
          booked,       \* events: rows by id
          imports,      \* source files imported
          reader,       \* reader -> where its reconciliation is
          report,       \* reader -> its last report
          importedAll   \* history: per reader, no import came between its reads

accountingVars == <<context, booked, imports, reader, report, importedAll>>

NoReport == [status |-> "none", sources |-> {}, events |-> {}]

AccountingInit ==
    /\ context = {} /\ booked = {} /\ imports = {}
    /\ reader = [p \in Readers |-> "idle"] /\ report = [p \in Readers |-> NoReport]
    /\ importedAll = [p \in Readers |-> TRUE]

InWindow(r, c) == c.start < r.at /\ r.at <= c.end
Conflicts(rows) == \E r \in rows, b \in booked \cup rows : r.id = b.id /\ r # b

\* import_bundle: every row or none; a second import must declare the same
\* context, and an id that is known must bring the same evidence.
Import(p, source, c) ==
    /\ reader[p] = "idle"
    /\ \A r \in SourceRows[source] : ValidRow(r) /\ InWindow(r, c)
    /\ context \subseteq {c} /\ ~Conflicts(SourceRows[source])
    /\ context' = {c} /\ booked' = booked \cup SourceRows[source] /\ imports' = imports \cup {source}
    /\ reader' = [reader EXCEPT ![p] = "context"]
    /\ importedAll' = [q \in Readers |-> q = p \/ (importedAll[q] /\ reader[q] # "events")]
    /\ UNCHANGED report

\* reconcile can also be called on its own.
BeginReconcile(p) ==
    /\ reader[p] = "idle" /\ context # {} /\ reader' = [reader EXCEPT ![p] = "context"]
    /\ importedAll' = [importedAll EXCEPT ![p] = TRUE]
    /\ UNCHANGED <<context, booked, imports, report>>
ReadEvents(p) ==
    /\ reader[p] = "context" /\ reader' = [reader EXCEPT ![p] = "events"]
    /\ report' = [report EXCEPT ![p] = [NoReport EXCEPT !.events = booked]]
    /\ importedAll' = [importedAll EXCEPT ![p] = TRUE]
    /\ UNCHANGED <<context, booked, imports>>

TheContext == CHOOSE c \in context : TRUE
ExpectedCash(events) == TheContext.opening.cash + MapThenSumSet(CashOf, events)
ExpectedQuantity(events) == TheContext.opening.qty + MapThenSumSet(Quantity, events)
Missing(sources) ==
    ~TheContext.complete \/ TheContext.opening = NoSnapshot \/ TheContext.ending = NoSnapshot \/ sources = {}
Status(events, sources) ==
    IF TheContext.opening = NoSnapshot \/ TheContext.ending = NoSnapshot THEN "inconclusive"
    ELSE IF ExpectedCash(events) # TheContext.ending.cash \/ ExpectedQuantity(events) # TheContext.ending.qty
         THEN "mismatch"
         ELSE IF Missing(sources) THEN "inconclusive" ELSE "reconciled"
ReadImports(p) ==
    /\ reader[p] = "events" /\ reader' = [reader EXCEPT ![p] = "idle"]
    /\ report' = [report EXCEPT ![p].status = Status(report[p].events, imports), ![p].sources = imports]
    /\ UNCHANGED <<context, booked, imports, importedAll>>

AccountingNext ==
    \E p \in Readers :
        \/ \E source \in DOMAIN SourceRows, c \in Contexts : Import(p, source, c)
        \/ BeginReconcile(p) \/ ReadEvents(p) \/ ReadImports(p)

AccountingSpec == AccountingInit /\ [][AccountingNext]_accountingVars

-----------------------------------------------------------------------------
AccountingTypeOK ==
    /\ Cardinality(context) <= 1 /\ imports \subseteq DOMAIN SourceRows
    /\ \A p \in Readers : reader[p] \in {"idle", "context", "events"}

\* An event counts once, however often and in whatever files it is imported,
\* and no import leaves half of a file behind.
BookedOnce ==
    /\ \A a, b \in booked : a.id = b.id => a = b
    /\ booked = UNION {SourceRows[s] : s \in imports}

\* A reconciled report balances for exactly the rows of the sources it lists,
\* unless an import was committed between its two reads.
ReconciledBalances ==
    \A p \in Readers :
        reader[p] = "idle" /\ report[p].status = "reconciled" /\ importedAll[p] =>
            LET rows == UNION {SourceRows[s] : s \in report[p].sources}
            IN  /\ TheContext.ending.cash - TheContext.opening.cash
                       = MapThenSumSet(ExternalOf, rows) + MapThenSumSet(LAMBDA r : CashOf(r) - ExternalOf(r), rows)
                /\ TheContext.ending.qty = ExpectedQuantity(rows) /\ TheContext.complete
                /\ ~\E a, b \in rows : a # b /\ a.id = b.id

AccountingIsSound == BookedOnce /\ ReconciledBalances
=============================================================================
