--------------------------- MODULE QuoteRecovery ---------------------------
(***************************************************************************)
(* The process-local coordinator of quote, order and account incidents     *)
(* (execution/recovery.py).  It places no orders; it says when entries are *)
(* frozen, when a quote may be retried and when positions must be drained. *)
(* Every call holds the lock, so a call is one step.                       *)
(***************************************************************************)
EXTENDS Integers

CONSTANTS Watched,       \* symbols
          Budget,        \* max_recovery_seconds
          MaxClock       \* bound on the monotonic clock

ASSUME RecoveryAssumption == Budget \in Nat \ {0} /\ MaxClock \in Nat /\ "__account__" \notin Watched

VARIABLES incidents,     \* key -> incident; NoIncident when there is none
          recoveryNow,   \* last_now
          decision,      \* the RecoveryDecision last returned
          brokerVerified \* history: keys whose last broker evidence was complete

recoveryVars == <<incidents, recoveryNow, decision, brokerVerified>>

Keys == Watched \cup {"__account__"}
NoIncident == [category |-> "none", deadline |-> -1]
Incident(category, deadline) == [category |-> category, deadline |-> deadline]
Categories == {"none", "data", "order", "account", "expired"}
Decide(freeze, retry, reconcile, escalate, drain) ==
    [freeze |-> freeze, retry |-> retry, reconcile |-> reconcile, escalate |-> escalate, drain |-> drain]
AnyOpen(known) == \E k \in Keys : known[k] # NoIncident

RecoveryInit ==
    /\ incidents = [k \in Keys |-> NoIncident] /\ recoveryNow = 0
    /\ decision = Decide(FALSE, FALSE, FALSE, FALSE, "none")
    /\ brokerVerified = Keys

Put(k, incident) == incidents' = [incidents EXCEPT ![k] = incident]
NeedsBroker == decision' = Decide(TRUE, FALSE, TRUE, TRUE, "none")
Doubt(k) == brokerVerified' = brokerVerified \ {k}

AccountIncident ==
    /\ Put("__account__", Incident("account", -1)) /\ NeedsBroker /\ Doubt("__account__")

OrderIncident(s) ==
    /\ Put(s, Incident("order", -1)) /\ NeedsBroker /\ Doubt(s)

\* A quote report, good or bad, about a symbol only a reconciliation can free.
StillUnreconciled(s) ==
    /\ incidents[s].category \in {"order", "expired"}
    /\ NeedsBroker
    /\ UNCHANGED <<incidents, brokerVerified>>

\* A retried quote came too late, or none came: positions of the symbol drain.
Expired(s) ==
    /\ Put(s, [incidents[s] EXCEPT !.category = "expired"])
    /\ decision' = Decide(TRUE, FALSE, FALSE, TRUE, "symbol")
    /\ Doubt(s)

HealthyQuote(s) ==
    /\ incidents[s].category \in {"none", "data"}
    /\ IF incidents[s] # NoIncident /\ recoveryNow' >= incidents[s].deadline
       THEN Expired(s)
       ELSE /\ Put(s, NoIncident)
            /\ decision' = Decide(AnyOpen(incidents'), FALSE, FALSE, FALSE, "none")
            /\ UNCHANGED brokerVerified

Since(s) == IF incidents[s] = NoIncident THEN Incident("data", recoveryNow' + Budget) ELSE incidents[s]

BadQuote(s) ==
    /\ incidents[s].category \in {"none", "data"}
    /\ IF recoveryNow' >= Since(s).deadline
       THEN Expired(s)
       ELSE /\ Put(s, Since(s))
            /\ decision' = Decide(TRUE, TRUE, FALSE, FALSE, "none")
            /\ UNCHANGED brokerVerified

Update(s, category, protectionVerified) ==
    \/ category = "account" /\ AccountIncident
    \/ category = "order" /\ OrderIncident(s)
    \/ category \in {"data", "healthy"} /\ ~protectionVerified /\ OrderIncident(s)
    \/ category \in {"data", "healthy"} /\ protectionVerified /\ StillUnreconciled(s)
    \/ category = "healthy" /\ protectionVerified /\ HealthyQuote(s)
    \/ category = "data" /\ protectionVerified /\ BadQuote(s)

\* Explicit evidence about orders and positions, of a symbol or the account.
Reconcile(k, ownershipVerified, protectionVerified, flat) ==
    IF ~ownershipVerified \/ ~(flat \/ protectionVerified)
    THEN Put(k, Incident("order", -1)) /\ NeedsBroker /\ Doubt(k)
    ELSE /\ Put(k, NoIncident)
         /\ decision' = Decide(AnyOpen(incidents'), FALSE, FALSE, FALSE, "none")
         /\ brokerVerified' = brokerVerified \cup {k}

RecoveryNext ==
    /\ recoveryNow' \in recoveryNow..MaxClock
    /\ \/ \E s \in Watched, c \in {"data", "order", "account", "healthy"}, p \in BOOLEAN : Update(s, c, p)
       \/ \E k \in Keys, o, p, f \in BOOLEAN : Reconcile(k, o, p, f)

RecoverySpec == RecoveryInit /\ [][RecoveryNext]_recoveryVars

-----------------------------------------------------------------------------
RecoveryTypeOK ==
    /\ incidents \in [Keys -> [category : Categories, deadline : Int]]
    /\ recoveryNow \in Nat /\ brokerVerified \subseteq Keys
    /\ decision \in [freeze : BOOLEAN, retry : BOOLEAN, reconcile : BOOLEAN, escalate : BOOLEAN,
                     drain : {"none", "symbol"}]

\* Whatever quotes arrive afterwards, entries stay frozen from an order,
\* account or expired incident until evidence from the broker on that very
\* symbol or account, and the last decision never says otherwise.  (update,
\* reconcile)
ThawNeedsReconciliation ==
    /\ \A k \in Keys \ brokerVerified : incidents[k].category \in {"order", "account", "expired"}
    /\ decision.freeze = AnyOpen(incidents)

\* Repeated bad quotes never buy time: a retry is only granted before the
\* deadline set by the first of them, and that deadline does not move.
RetryIsBounded ==
    [][/\ \A s \in Watched : incidents[s].category = "data" /\ incidents'[s].category = "data"
             => incidents'[s].deadline = incidents[s].deadline
       /\ decision'.retry => \E s \in Watched : /\ incidents'[s].category = "data"
                                                /\ recoveryNow' < incidents'[s].deadline
                                                /\ incidents'[s].deadline <= recoveryNow' + Budget]_recoveryVars
=============================================================================
