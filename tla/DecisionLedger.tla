--------------------------- MODULE DecisionLedger --------------------------
(***************************************************************************)
(* The append-only ledger of research decisions                            *)
(* (operations/decision_ledger.py).  A decision, an execution link and a   *)
(* piece of evidence are what their bodies distinguish; hashes stand for   *)
(* bodies.  Every recording is one immediate transaction, so recorders of  *)
(* several processes take turns and a crash leaves nothing of one; the     *)
(* verification reads the tables one statement after the other, outside    *)
(* any transaction, while recorders go on.                                 *)
(***************************************************************************)
EXTENDS Integers, FiniteSets

CONSTANTS DecisionIds, LinkIds,
          Evidence,      \* inputs: [event, received]
          Results,       \* what may differ between two bodies of one id
          Moments

NoParent == "none"
ASSUME LedgerAssumption ==
    /\ Moments \subseteq Nat /\ NoParent \notin DecisionIds
    /\ \A e \in Evidence : {e.event, e.received} \subseteq Nat

VARIABLES decisions,        \* id -> [at, result, amends, inputs]
          inputEvidence,    \* set of evidence
          decisionInputs,   \* id -> evidence
          links,            \* link id -> [decision, at, result]
          verifier,         \* what the verification has read last
          seenInputs,       \* input evidence as it was read
          verdict,
          disturbed         \* history: a recording came in between its reads

ledgerVars == <<decisions, inputEvidence, decisionInputs, links, verifier, seenInputs, verdict, disturbed>>

Added(f, k, v) == [x \in DOMAIN f \cup {k} |-> IF x = k THEN v ELSE f[x]]

LedgerInit ==
    /\ decisions = <<>> /\ inputEvidence = {} /\ decisionInputs = <<>> /\ links = <<>>
    /\ verifier = "idle" /\ seenInputs = {} /\ verdict = "none" /\ disturbed = FALSE

\* An input must have been received when the decision was taken, an amended
\* decision be recorded and not be later; a repeated id must repeat its body.
Causal(inputs, at) == \A e \in inputs : e.event <= e.received /\ e.received <= at
ParentRecordedAnyTime(id, amends, at) == amends # NoParent => amends # id /\ amends \in DOMAIN decisions
ParentRecorded(id, amends, at) ==
    amends # NoParent => /\ amends # id /\ amends \in DOMAIN decisions
                         /\ decisions[amends].at <= at
SameBody(id, body) == id \in DOMAIN decisions => decisions[id] = body
RecordDecision(id, at, result, amends, inputs) ==
    LET body == [at |-> at, result |-> result, amends |-> amends, inputs |-> inputs] IN
    /\ inputs # {} /\ Causal(inputs, at) /\ ParentRecorded(id, amends, at) /\ SameBody(id, body)
    /\ decisions' = Added(decisions, id, body)
    /\ inputEvidence' = inputEvidence \cup inputs
    /\ decisionInputs' = IF id \in DOMAIN decisionInputs THEN decisionInputs ELSE Added(decisionInputs, id, inputs)
    /\ disturbed' = (disturbed \/ verifier # "idle")
    /\ UNCHANGED <<links, verifier, seenInputs, verdict>>

LinkAllowed(id, link) ==
    /\ link.decision \in DOMAIN decisions /\ decisions[link.decision].at <= link.at
    /\ id \in DOMAIN links => links[id] = link
RecordLink(id, link) ==
    /\ LinkAllowed(id, link)
    /\ links' = Added(links, id, link) /\ disturbed' = (disturbed \/ verifier # "idle")
    /\ UNCHANGED <<decisions, inputEvidence, decisionInputs, verifier, seenInputs, verdict>>

\* verify_decisions, statement by statement.
Reads(done, ok) ==
    /\ verdict' = IF ok THEN (IF done = "links" THEN "verified" ELSE verdict) ELSE "refused"
    /\ verifier' = IF ok /\ done # "links" THEN done ELSE "idle"
    /\ UNCHANGED <<decisions, inputEvidence, decisionInputs, links>>
VerifyInputs ==
    /\ verifier = "idle" /\ verdict' = "none" /\ verifier' = "inputs"
    /\ seenInputs' = inputEvidence /\ disturbed' = FALSE
    /\ UNCHANGED <<decisions, inputEvidence, decisionInputs, links>>

LinksInputs(id) ==
    /\ id \in DOMAIN decisionInputs /\ decisionInputs[id] = decisions[id].inputs
    /\ decisions[id].inputs \subseteq seenInputs /\ Causal(decisions[id].inputs, decisions[id].at)
ParentsEarlier ==
    \A id \in DOMAIN decisions :
        decisions[id].amends # NoParent =>
            /\ decisions[id].amends \in DOMAIN decisions
            /\ decisions[decisions[id].amends].at <= decisions[id].at
\* A chain of amendments that is longer than the ledger returns to itself.
ChainEnds(id) ==
    LET parent[n \in 0..Cardinality(DOMAIN decisions)] ==
            IF n = 0 THEN id
            ELSE IF parent[n - 1] \in DOMAIN decisions THEN decisions[parent[n - 1]].amends ELSE NoParent
    IN  parent[Cardinality(DOMAIN decisions)] = NoParent
DecisionsSound ==
    (\A id \in DOMAIN decisions : LinksInputs(id)) /\ ParentsEarlier /\ \A id \in DOMAIN decisions : ChainEnds(id)
VerifyDecisions ==
    /\ verifier = "inputs" /\ Reads("decisions", DecisionsSound) /\ UNCHANGED <<seenInputs, disturbed>>

LinksSound ==
    /\ \A id \in DOMAIN links : links[id].decision \in DOMAIN decisions /\ decisions[links[id].decision].at <= links[id].at
    /\ DOMAIN decisionInputs \subseteq DOMAIN decisions
VerifyLinks ==
    /\ verifier = "decisions" /\ Reads("links", LinksSound) /\ UNCHANGED <<seenInputs, disturbed>>

LedgerNext ==
    \/ \E id \in DecisionIds, at \in Moments, result \in Results, inputs \in SUBSET Evidence :
           \E amends \in DecisionIds \cup {NoParent} : RecordDecision(id, at, result, amends, inputs)
    \/ \E id \in LinkIds, d \in DecisionIds, at \in Moments, result \in Results :
           RecordLink(id, [decision |-> d, at |-> at, result |-> result])
    \/ VerifyInputs \/ VerifyDecisions \/ VerifyLinks

LedgerSpec == LedgerInit /\ [][LedgerNext]_ledgerVars

-----------------------------------------------------------------------------
LedgerTypeOK ==
    /\ DOMAIN decisions \subseteq DecisionIds /\ DOMAIN links \subseteq LinkIds /\ inputEvidence \subseteq Evidence
    /\ verifier \in {"idle", "inputs", "decisions"} /\ verdict \in {"none", "verified", "refused"}

\* No sequence of recordings, repeated, conflicting, amending one another or
\* linked, makes a ledger its own verification refuses; a refusal can only come
\* from a recording between two of the verification's reads.
RefusedOnlyWhenDisturbed == verdict = "refused" => disturbed

\* And what is recorded stays: no later call changes or removes a decision, its
\* evidence or a link.
NothingIsRewritten ==
    [][/\ \A id \in DOMAIN decisions : id \in DOMAIN decisions' /\ decisions'[id] = decisions[id]
       /\ \A id \in DOMAIN links : id \in DOMAIN links' /\ links'[id] = links[id]]_ledgerVars
=============================================================================
