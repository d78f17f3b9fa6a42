--------------------------- MODULE ResearchStore ---------------------------
(***************************************************************************)
(* The store every frozen research book is kept in (research/              *)
(* phase3_store.py) behind the source gate of phase3_identity.py.  Several *)
(* processes run the same or different operations on one database while    *)
(* the source on disk may be edited; each process keeps the code it        *)
(* imported.  A version stands for the hashes of all gated modules, a      *)
(* state for the chain of inputs it was computed from, and with each of    *)
(* them the version of the code that computed it.                          *)
(***************************************************************************)
EXTENDS Integers, Sequences, SequencesExt

CONSTANTS Runners, OperationIds, OperationInputs, SourceVersions, MaxBatches

ASSUME StoreAssumption ==
    /\ SourceVersions \subseteq Nat \ {0} /\ 1 \in SourceVersions /\ MaxBatches \in Nat \ {0}
    /\ "nobody" \notin Runners

VARIABLES sourceOnDisk,  \* version of the files now
          runners,       \* each process: its place, loaded code, operation and what it read
          databaseLock,  \* the runner inside BEGIN IMMEDIATE, or NoRunner
          runRow,        \* implementation the database's run is bound to; 0 before the first commit
          batchRows,     \* research_batches in sequence
          answered       \* what callers have been told: [id, inputs, result]

storeVars == <<sourceOnDisk, runners, databaseLock, runRow, batchRows, answered>>

NoRunner == "nobody"
Gone == [at |-> "gone"]

StoreInit ==
    /\ sourceOnDisk = 1 /\ runners = [r \in Runners |-> Gone] /\ databaseLock = NoRunner
    /\ runRow = 0 /\ batchRows = <<>> /\ answered = {}

\* ImplementationGuard: captured at import, compared again by every check.
Unchanged(r) == sourceOnDisk = runners[r].loaded
EditSource(v) ==
    /\ v # sourceOnDisk /\ sourceOnDisk' = v
    /\ UNCHANGED <<runners, databaseLock, runRow, batchRows, answered>>
ImportCode(r) ==
    /\ runners[r] = Gone /\ runners' = [runners EXCEPT ![r] = [at |-> "idle", loaded |-> sourceOnDisk]]
    /\ UNCHANGED <<sourceOnDisk, databaseLock, runRow, batchRows, answered>>

\* record_operation: the first check names the implementation of the call.
RecordOperation(r, id, inputs) ==
    /\ runners[r].at = "idle" /\ Unchanged(r)
    /\ runners' = [runners EXCEPT ![r] = [at |-> "called", loaded |-> runners[r].loaded, id |-> id, inputs |-> inputs,
                                          implementation |-> sourceOnDisk]]
    /\ UNCHANGED <<sourceOnDisk, databaseLock, runRow, batchRows, answered>>

\* apply_batch holds the write lock from BEGIN IMMEDIATE to commit or rollback.
StateOf(rows) == IF rows = <<>> THEN <<>> ELSE Last(rows).state
Verified(rows) == \A n \in DOMAIN rows : rows[n].input = StateOf(SubSeq(rows, 1, n - 1))
Stored(id) == {row \in Range(batchRows) : row.id = id}
Idle(r) == [at |-> "idle", loaded |-> runners[r].loaded]
BeginImmediate(r) ==
    /\ runners[r].at = "called" /\ databaseLock = NoRunner /\ databaseLock' = r
    /\ runners' = [runners EXCEPT ![r].at = "begun"]
    /\ UNCHANGED <<sourceOnDisk, runRow, batchRows, answered>>
AcceptedAnySource(r) == Verified(batchRows)
Accepted(r) == runRow \in {0, runners[r].implementation} /\ Verified(batchRows)
Rollback(r) ==
    /\ databaseLock' = NoRunner /\ runners' = [runners EXCEPT ![r] = Idle(r)]
    /\ UNCHANGED <<sourceOnDisk, runRow, batchRows, answered>>
Conflict(r) ==
    /\ runners[r].at = "begun"
    /\ \/ ~Accepted(r)
       \/ \E row \in Stored(runners[r].id) : row.inputs # runners[r].inputs
    /\ Rollback(r)
Answer(r, row) == answered' = answered \cup {[id |-> row.id, inputs |-> row.inputs, result |-> row.state]}
Replay(r) ==
    /\ runners[r].at = "begun" /\ Accepted(r)
    /\ \E row \in Stored(runners[r].id) : row.inputs = runners[r].inputs /\ Answer(r, row)
    /\ databaseLock' = NoRunner /\ runners' = [runners EXCEPT ![r] = Idle(r)]
    /\ UNCHANGED <<sourceOnDisk, runRow, batchRows>>

\* checked_transition: check, compute with the loaded code, check.
Compute(r) ==
    /\ runners[r].at = "begun" /\ Accepted(r) /\ Stored(runners[r].id) = {} /\ Len(batchRows) < MaxBatches
    /\ IF ~Unchanged(r) THEN Rollback(r)
       ELSE /\ runners' = [runners EXCEPT ![r] =
                 [at |-> "computed", loaded |-> runners[r].loaded, implementation |-> runners[r].implementation,
                  row |-> [id |-> runners[r].id, inputs |-> runners[r].inputs, input |-> StateOf(batchRows),
                           state |-> Append(StateOf(batchRows),
                                            [inputs |-> runners[r].inputs, by |-> runners[r].loaded])]]]
            /\ UNCHANGED <<sourceOnDisk, databaseLock, runRow, batchRows, answered>>
CheckAgain(r) ==
    /\ runners[r].at = "computed"
    /\ IF ~Unchanged(r) THEN Rollback(r)
       ELSE /\ runners' = [runners EXCEPT ![r].at = "writing"]
            /\ UNCHANGED <<sourceOnDisk, databaseLock, runRow, batchRows, answered>>

\* The run row, when there was none, and the batch row commit together.
Commit(r) ==
    /\ runners[r].at = "writing"
    /\ runRow' = runners[r].implementation /\ batchRows' = Append(batchRows, runners[r].row)
    /\ databaseLock' = NoRunner /\ runners' = [runners EXCEPT ![r].at = "committed"]
    /\ UNCHANGED <<sourceOnDisk, answered>>
Return(r) ==
    /\ runners[r].at = "committed" /\ Answer(r, runners[r].row)
    /\ runners' = [runners EXCEPT ![r] = Idle(r)]
    /\ UNCHANGED <<sourceOnDisk, databaseLock, runRow, batchRows>>

\* A wait of 30 seconds for the lock ends in an error; a killed process leaves
\* nothing behind but what it committed.
LockTimeout(r) ==
    /\ runners[r].at = "called" /\ databaseLock # NoRunner
    /\ runners' = [runners EXCEPT ![r] = Idle(r)]
    /\ UNCHANGED <<sourceOnDisk, databaseLock, runRow, batchRows, answered>>
Kill(r) ==
    /\ runners[r] # Gone /\ runners' = [runners EXCEPT ![r] = Gone]
    /\ databaseLock' = IF databaseLock = r THEN NoRunner ELSE databaseLock
    /\ UNCHANGED <<sourceOnDisk, runRow, batchRows, answered>>

StoreNext ==
    \/ \E v \in SourceVersions : EditSource(v)
    \/ \E r \in Runners :
          \/ ImportCode(r) \/ BeginImmediate(r) \/ Conflict(r) \/ Replay(r) \/ Compute(r) \/ CheckAgain(r)
          \/ Commit(r) \/ Return(r) \/ LockTimeout(r) \/ Kill(r)
          \/ \E id \in OperationIds, inputs \in OperationInputs : RecordOperation(r, id, inputs)
StoreSpec == StoreInit /\ [][StoreNext]_storeVars

-----------------------------------------------------------------------------
StoreTypeOK ==
    /\ sourceOnDisk \in SourceVersions /\ runRow \in SourceVersions \cup {0}
    /\ databaseLock \in Runners \cup {NoRunner} /\ Len(batchRows) <= MaxBatches

\* The rows are one chain: each was computed from the state the row before it
\* left, whichever processes wrote them (_verify 36-63).
OneChain == Verified(batchRows)

\* Every stored step was computed by the code whose hash the run names, however
\* the source was edited meanwhile (phase3_identity.py:46-51).
OneImplementation == \A n \in DOMAIN batchRows : Last(batchRows[n].state).by = runRow

\* An identity stands for one operation: all callers who were told a result of
\* it gave the same inputs, were told the same, and it is stored.
OneResultPerId ==
    /\ \A a, b \in answered : a.id = b.id => a = b
    /\ \A a \in answered : \E n \in DOMAIN batchRows :
          batchRows[n].id = a.id /\ batchRows[n].inputs = a.inputs /\ batchRows[n].state = a.result
    /\ \A m, n \in DOMAIN batchRows : batchRows[m].id = batchRows[n].id => m = n

StoreIsSound == OneChain /\ OneImplementation /\ OneResultPerId
=============================================================================
