----------------------------- MODULE MCServices ------------------------------
(***************************************************************************)
(* The services around the executors, side by side on small instances.     *)
(* They meet only through what they are given (a quote, a verdict, a file),*)
(* which each module chooses freely, so one component is picked and the    *)
(* others stand still: the run is the sum of their state spaces.           *)
(***************************************************************************)
EXTENDS BrokerClient, QuoteRecovery, AccountRisk, EntrySizing, SymbolRun, QuoteStream, QuoteValidation,
        OperationalTrial, TrialBackup, RecoveryBundle, DecisionLedger, AccountingLedger, FifoAttribution,
        MarketScanner

VARIABLE focus      \* the component that is examined

servicesVars ==
    <<focus, clientVars, recoveryVars, riskVars, sizingVars, runVars, streamVars, quoteVars,
      trialVars, backupVars, bundleVars, ledgerVars, accountingVars, fifoVars, scannerVars>>

-----------------------------------------------------------------------------
(* Instances. *)

Exposure(gross, name, risk, overnight, indexes) ==
    [gross |-> gross, name |-> name, risk |-> risk, overnight |-> overnight, indexes |-> indexes]
HeldExposures ==
    {Exposure(0, 0, 0, 0, 0) @@ [cash |-> Unstated], Exposure(0, 0, 0, 0, 0) @@ [cash |-> 100],
     Exposure(400, 0, 4, 200, 150) @@ [cash |-> Unstated]}
ProposedExposures ==
    {Exposure(100, 100, 1, 0, 0) @@ [cost |-> 101], Exposure(90, 90, 1, 90, 90) @@ [cost |-> 91], Exposure(90, 90, 2, 0, 0) @@ [cost |-> 91]}

EntryPrices == {<<10, 8>>, <<7, 6>>}

OptionSelections == {{"A"}, {"A", "B"}}
OnlyA == {"A"}
ProviderRow(channel, symbol, stamp) == [channel |-> channel, symbol |-> symbol, stamp |-> stamp, sound |-> TRUE]
ProviderRows == {ProviderRow("bars", "A", 0), ProviderRow("bars", "B", 0), ProviderRow("quotes", "A", 0), ProviderRow("quotes", "A", 1)}

Payload(kind, t, bp, ap, bs, as) == [kind |-> kind, t |-> t, bp |-> bp, ap |-> ap, bs |-> bs, as |-> as]
QuotePayloads ==
    {Payload(k, <<>>, <<>>, <<>>, <<>>, <<>>) : k \in {"missing", "malformed"}} \cup
    {Payload("quote", <<12>>, <<1000>>, <<1000>>, <<1>>, <<1>>), Payload("quote", <<9>>, <<1000>>, <<1001>>, <<1>>, <<1>>),
     Payload("quote", <<12>>, <<1000>>, <<1003>>, <<>>, <<0>>), Payload("quote", <<>>, <<1002>>, <<1001>>, <<-1>>, <<1>>),
     Payload("quote", <<1>>, <<0>>, <<1>>, <<1>>, <<1>>)}
Receipts == {<<>>, <<9>>, <<11>>}
Decisions == {<<>>, <<9>>, <<11>>, <<13>>, <<21>>}

TrialLimits == [stream |-> 1]
BundlePaths == <<"state", "journal">>
LedgerEvidence == {[event |-> 1, received |-> 1], [event |-> 1, received |-> 2], [event |-> 3, received |-> 2]}

Row(id, kind, qty, price, fee, cash, time) ==
    [id |-> id, kind |-> kind, qty |-> qty, price |-> price, fee |-> fee, cash |-> cash, at |-> time]
BrokerRows ==
    LET bought == Row("a", "buy", 2, 10, 1, 0, 1)
    IN  [f1 |-> {bought, Row("c", "CSD", 0, 0, 0, 5, 2)}, f2 |-> {bought, Row("b", "sell", 1, 12, 1, 0, 2)},
         f3 |-> {Row("b", "sell", 2, 12, 1, 0, 2)}, f4 |-> {Row("d", "FEE", 0, 0, 0, -2, 3)},
         f5 |-> {Row("e", "INT", 0, 0, 0, 1, 1), Row("e", "INT", 0, 0, 0, 2, 1)}]
Context(opening, ending, end) == [start |-> 0, end |-> end, opening |-> opening, ending |-> ending, complete |-> TRUE]
TrialContexts ==
    {Context([cash |-> 100, qty |-> 0], [cash |-> 95, qty |-> 1], 3),
     Context([cash |-> 100, qty |-> 0], [cash |-> 93, qty |-> 1], 3),
     Context(NoSnapshot, [cash |-> 95, qty |-> 1], 2)}

FifoLot(qty, price, fee) == [qty |-> qty, price |-> price, fee |-> fee]
OpeningChoices == {<<>>, <<FifoLot(3, 10, 2), FifoLot(2, 12, 1)>>, <<FifoLot(-3, 10, 1)>>}
FillChoices == {FifoLot(4, 11, 3), FifoLot(-2, 9, 1), FifoLot(-7, 13, 5)}
ActivityChoices == {[kind |-> "CSD", cash |-> 5], [kind |-> "FEE", cash |-> -1], [kind |-> "DIV", cash |-> 2]}

ScannedStocks == <<"A", "B", "D">>
ScannedCoins == <<"C">>
ScannedProxies == <<"F">>
ListingChoices == {{}, {"A", "B"}, {"A", "B", "D"}, {"C"}}
SnapshotChoices ==
    LET data(t) == [kind |-> "data", asof |-> t]
        other(kind) == [kind |-> kind, asof |-> NoData]
    IN  {[clock |-> other("open"), A |-> data(0), B |-> data(0), C |-> data(0), D |-> data(0), F |-> data(0)],
         [clock |-> other("closed"), A |-> other("barred"), B |-> other("none"), D |-> data(0), C |-> other("malformed"), F |-> data(2)]}

-----------------------------------------------------------------------------
Components ==
    {"client", "recovery", "risk", "sizing", "run", "stream", "quotes",
     "trial", "backup", "bundle", "ledger", "accounting", "fifo", "scanner"}

ServicesInit ==
    /\ focus = "none"
    /\ ClientInit /\ RecoveryInit /\ RiskInit /\ SizingInit /\ RunInit /\ StreamInit /\ QuotesInit
    /\ TrialInit /\ BackupInit /\ BundleInit /\ LedgerInit /\ AccountingInit /\ FifoInit /\ ScannerInit

Steps(c) ==
    /\ IF c = "client" THEN ClientNext ELSE UNCHANGED clientVars
    /\ IF c = "recovery" THEN RecoveryNext ELSE UNCHANGED recoveryVars
    /\ IF c = "risk" THEN RiskNext ELSE UNCHANGED riskVars
    /\ IF c = "sizing" THEN SizingNext ELSE UNCHANGED sizingVars
    /\ IF c = "run" THEN RunNext ELSE UNCHANGED runVars
    /\ IF c = "stream" THEN StreamNext ELSE UNCHANGED streamVars
    /\ IF c = "quotes" THEN QuotesNext ELSE UNCHANGED quoteVars
    /\ IF c = "trial" THEN TrialNext ELSE UNCHANGED trialVars
    /\ IF c = "backup" THEN BackupNext ELSE UNCHANGED backupVars
    /\ IF c = "bundle" THEN BundleNext ELSE UNCHANGED bundleVars
    /\ IF c = "ledger" THEN LedgerNext ELSE UNCHANGED ledgerVars
    /\ IF c = "accounting" THEN AccountingNext ELSE UNCHANGED accountingVars
    /\ IF c = "fifo" THEN FifoNext ELSE UNCHANGED fifoVars
    /\ IF c = "scanner" THEN ScannerNext ELSE UNCHANGED scannerVars

ServicesNext == focus' \in (IF focus = "none" THEN Components ELSE {focus}) /\ Steps(focus')

ServicesSpec == ServicesInit /\ [][ServicesNext]_servicesVars

-----------------------------------------------------------------------------
Examined(c) == focus \in {"none", c}

\* Every component's state is of its type.
ServicesTypeOK ==
    /\ Examined("client") => ClientTypeOK
    /\ Examined("recovery") => RecoveryTypeOK
    /\ Examined("risk") => RiskTypeOK
    /\ Examined("sizing") => SizingTypeOK
    /\ Examined("run") => RunTypeOK
    /\ Examined("stream") => StreamTypeOK
    /\ Examined("trial") => TrialTypeOK
    /\ Examined("backup") => BackupTypeOK
    /\ Examined("bundle") => BundleTypeOK
    /\ Examined("ledger") => LedgerTypeOK
    /\ Examined("accounting") => AccountingTypeOK
    /\ Examined("fifo") => FifoTypeOK
    /\ Examined("scanner") => ScannerTypeOK

\* Requests (alpaca_paper.py): at any time entries, and all requests, stay within
\* their ceilings for the window, whoever waits in whatever order.
RequestsAreBounded == Examined("client") => CeilingsHold

\* Money at risk (account_risk.py, sizing.py): a drawdown or daily halt is lifted
\* by nothing but the review or session that may, cash flows move the highwater
\* mark and nothing else, and the entries of a session cannot lose more than its
\* limit although each is sized to the largest allowed.
RiskIsContained ==
    /\ Examined("risk") => HaltsStand /\ HighwaterIsNetOfFlows
    /\ Examined("sizing") => SessionLossBounded /\ SizeIsLargest

\* Runners (paper_breakout_until_close.py, paper_until_close.py): exposure a
\* run may have is in its status file, entries are due, complete means clean.
RunsAreHonest == Examined("run") => RunIsSound

\* Quotes (recovery.py, plus_stream.py, quote_validation.py): entries thaw after
\* an incident only once the broker was reconciled, a published value is fresh
\* only if this connection delivered it, what passes validation is usable, and
\* the market scanner's files say no more than its scan found.
QuotesAreSound ==
    /\ Examined("recovery") => ThawNeedsReconciliation
    /\ Examined("stream") => StreamIsSound
    /\ Examined("quotes") => VerdictsAreSound
    /\ Examined("scanner") => ScannerIsSound

\* Evidence and ledgers (operations/): the streak that qualifies the trial is
\* covered by polls, a backup or bundle reported as made and verified survives
\* and was a state the files really had; a verification never refuses an
\* undisturbed ledger, events are booked once and reconcile, and every share of
\* profit, fee and cash is attributed exactly.
RecordsAreSound ==
    /\ Examined("trial") => TrialIsHonest
    /\ Examined("backup") => BackupsAreSound
    /\ Examined("bundle") => BundlesAreSound
    /\ Examined("ledger") => RefusedOnlyWhenDisturbed
    /\ Examined("accounting") => AccountingIsSound
    /\ Examined("fifo") => FifoIsSound

\* What a step of a service may never do: send an entry before a waiting
\* emergency, retry past an incident's deadline, rewrite the ledger, replace a
\* quote by an older one, forget a backoff that was not earned back, or drop from
\* the published scan what earlier scans had seen.
ServicesStepSoundly ==
    EmergencyFirst /\ RetryIsBounded /\ NothingIsRewritten /\ QuotesNeverGoBack /\ BackoffIsEarned
    /\ NothingIsForgotten
=============================================================================
