-------------------------- MODULE ReservedJournal --------------------------
(***************************************************************************)
(* The preallocated journal of execution/journal.py: processes that open,  *)
(* lock, create, load and append to one file, each system call a step.     *)
(*                                                                         *)
(* "file" is what a read returns, "durable" what a power loss is sure to   *)
(* spare: fsync copies the one to the other, and a power loss leaves in    *)
(* each slot the one, the other or neither.  A process may be killed and   *)
(* a write, a sync or a load may fail at any step.                         *)
(***************************************************************************)
EXTENDS Integers, Sequences, FiniteSets

CONSTANTS
  Processes,
  Capacity,       \* slots of the journal
  MaxRecords,     \* records offered in all; the record is its number
  NamesSurvive,   \* the file system keeps a file's name once the file is synced
  Damage          \* something outside may damage slots

ASSUME CapacityAssumption == Capacity \in Nat \ {0} /\ MaxRecords \in Nat
ASSUME WorldAssumption == NamesSurvive \in BOOLEAN /\ Damage \in BOOLEAN

VARIABLES
  file,      \* [exists, sized, header, slots]: as read
  durable,   \* the same: as synced
  holder,    \* processes with the exclusive flock, one at most
  pc,        \* what process p does next
  usable,    \* usable[p]: its journal's self.usable
  items,     \* items[p]: its journal's self._items
  record,    \* record[p]: the record its append writes, 0 if none
  offered,   \* records offered so far
  acked,     \* <<slot, record>> of every append that returned
  unsure     \* unsure[p]: records whose append by its journal has not returned

fileVars    == <<file, durable, holder>>
processVars == <<pc, usable, items, record>>
historyVars == <<offered, acked, unsure>>
journalVars == <<fileVars, processVars, historyVars>>

Records == 1..MaxRecords
Slots   == 1..Capacity

\* Contents of a slot that are no record: zero bytes, or anything that the
\* length, the checksum and the padding do not vouch for.
Empty == 0
Torn  == -1

Blank == [i \in Slots |-> Empty]

\* The steps of __init__, between calls, and the steps of append.
Steps == {"closed", "lockNew", "lockOld", "reserve", "header", "syncFile",
          "syncName", "load", "ready", "write", "finish", "sync"}

File == [exists : BOOLEAN, sized : BOOLEAN, header : {"none", "torn", "good"},
         slots : [Slots -> {Empty, Torn} \cup Records]]

JournalTypeOK ==
  /\ file \in File /\ durable \in File
  /\ holder \subseteq Processes
  /\ pc \in [Processes -> Steps]
  /\ usable \in [Processes -> BOOLEAN]
  /\ items \in [Processes -> Seq(Records)]
  /\ record \in [Processes -> {0} \cup Records]
  /\ offered \in 0..MaxRecords
  /\ acked \subseteq Slots \X Records
  /\ unsure \in [Processes -> SUBSET Records]

-----------------------------------------------------------------------------
(* _load and _decode.                                                      *)

\* The first n slots hold records and the rest are empty.
Holds(slots, n) ==
  /\ \A i \in 1..n : slots[i] \in Records
  /\ \A i \in (n + 1)..Capacity : slots[i] = Empty

\* Mutant: a slot that cannot be decoded ends the journal like an empty one.
LoadsPrefix(f, n) ==
  /\ f.sized /\ f.header = "good"
  /\ \A i \in 1..n : f.slots[i] \in Records
  /\ n = Capacity \/ f.slots[n + 1] \notin Records

Loads(f, n) == f.sized /\ f.header = "good" /\ Holds(f.slots, n)

Corrupt(f) == \A n \in 0..Capacity : ~Loads(f, n)

Loaded(f, n) == [i \in 1..n |-> f.slots[i]]

-----------------------------------------------------------------------------
(* __init__                                                                *)

Goto(p, step) == pc' = [pc EXCEPT ![p] = step]

\* The constructor raises, or the journal is closed or its process killed:
\* the descriptor goes, and the lock with it.
LetGo(p) ==
  /\ Goto(p, "closed")
  /\ holder' = holder \ {p}
  /\ usable' = [usable EXCEPT ![p] = FALSE]
  /\ items' = [items EXCEPT ![p] = <<>>]
  /\ record' = [record EXCEPT ![p] = 0]
  /\ unsure' = [unsure EXCEPT ![p] = {}]

Create(p) ==
  /\ pc[p] = "closed" /\ ~file.exists
  /\ file' = [exists |-> TRUE, sized |-> FALSE, header |-> "none", slots |-> Blank]
  /\ durable' = [durable EXCEPT !.sized = FALSE, !.header = "none", !.slots = Blank]
  /\ Goto(p, "lockNew")
  /\ usable' = [usable EXCEPT ![p] = TRUE]
  /\ UNCHANGED <<holder, items, record, historyVars>>

OpenExisting(p) ==
  /\ pc[p] = "closed" /\ file.exists
  /\ Goto(p, "lockOld")
  /\ usable' = [usable EXCEPT ![p] = TRUE]
  /\ UNCHANGED <<file, durable, holder, items, record, historyVars>>

\* Mutant: a lock that is taken is no obstacle.
LockShared(p) ==
  /\ pc[p] \in {"lockNew", "lockOld"}
  /\ holder' = holder \cup {p}
  /\ Goto(p, IF pc[p] = "lockNew" THEN "reserve" ELSE "load")
  /\ UNCHANGED <<file, durable, usable, items, record, historyVars>>

Lock(p) ==
  /\ pc[p] \in {"lockNew", "lockOld"} /\ holder = {}
  /\ holder' = {p}
  /\ Goto(p, IF pc[p] = "lockNew" THEN "reserve" ELSE "load")
  /\ UNCHANGED <<file, durable, usable, items, record, historyVars>>

\* JournalLocked.
LockRefused(p) ==
  /\ pc[p] \in {"lockNew", "lockOld"} /\ holder # {}
  /\ LetGo(p)
  /\ UNCHANGED <<file, durable, offered, acked>>

\* Zero bytes for the header and every slot.
ReserveSlots(p) ==
  /\ pc[p] = "reserve"
  /\ file' = [file EXCEPT !.sized = TRUE]
  /\ Goto(p, "header")
  /\ UNCHANGED <<durable, holder, usable, items, record, historyVars>>

WriteHeader(p) ==
  /\ pc[p] = "header"
  /\ file' = [file EXCEPT !.header = "good"]
  /\ Goto(p, "syncFile")
  /\ UNCHANGED <<durable, holder, usable, items, record, historyVars>>

\* What fsync of the file makes of the durable copy.
Synced == [file EXCEPT !.exists = durable.exists \/ NamesSurvive]

SyncFile(p) ==
  /\ pc[p] = "syncFile"
  /\ durable' = Synced
  /\ Goto(p, "syncName")
  /\ UNCHANGED <<file, holder, usable, items, record, historyVars>>

\* fsync of the directory.
SyncName(p) ==
  /\ pc[p] = "syncName"
  /\ durable' = [durable EXCEPT !.exists = TRUE]
  /\ Goto(p, "load")
  /\ UNCHANGED <<file, holder, usable, items, record, historyVars>>

Load(p) ==
  /\ pc[p] = "load"
  /\ \E n \in 0..Capacity :
       Loads(file, n) /\ items' = [items EXCEPT ![p] = Loaded(file, n)]
  /\ Goto(p, "ready")
  /\ UNCHANGED <<file, durable, holder, usable, record, historyVars>>

\* JournalCorrupt: the evidence stays as it is.
LoadRefused(p) ==
  /\ pc[p] = "load" /\ Corrupt(file)
  /\ LetGo(p)
  /\ UNCHANGED <<file, durable, offered, acked>>

\* A write or a sync of the constructor raises; a header may be half written.
OpenFails(p) ==
  /\ pc[p] \in {"reserve", "header", "syncFile", "syncName"}
  /\ file' \in {file} \cup (IF pc[p] = "header" THEN {[file EXCEPT !.header = "torn"]}
                                                ELSE {})
  /\ LetGo(p)
  /\ UNCHANGED <<durable, offered, acked>>

-----------------------------------------------------------------------------
(* append and records                                                      *)

\* Mutant: a failed append leaves the journal usable.
DisableNot(p) == UNCHANGED usable

\* Anything raised inside append: no further append of this journal.
Disable(p) == usable' = [usable EXCEPT ![p] = FALSE]

BeginAppend(p) ==
  /\ pc[p] = "ready" /\ usable[p]
  /\ offered < MaxRecords /\ offered' = offered + 1
  /\ \E n \in 0..Capacity :
       /\ Loads(file, n) /\ n < Capacity
       /\ items' = [items EXCEPT ![p] = Loaded(file, n)]
  /\ record' = [record EXCEPT ![p] = offered + 1]
  /\ unsure' = [unsure EXCEPT ![p] = @ \cup {offered + 1}]
  /\ Goto(p, "write")
  /\ UNCHANGED <<file, durable, holder, usable, acked>>

\* Damaged evidence, no slot left, or a record too long for its slot.
AppendRefused(p) ==
  /\ pc[p] = "ready" /\ usable[p]
  /\ \/ Corrupt(file) /\ UNCHANGED items
     \/ \E n \in 0..Capacity : /\ Loads(file, n)
                               /\ items' = [items EXCEPT ![p] = Loaded(file, n)]
  /\ Disable(p)
  /\ UNCHANGED <<file, durable, holder, pc, record, historyVars>>

\* The slot after the last record.
NextSlot(p) == Len(items[p]) + 1

PutSlot(i, value) == file' = [file EXCEPT !.slots[i] = value]

\* pwrite may write a part of the slot, and the loop go round again.
Write(p) ==
  /\ pc[p] = "write"
  /\ PutSlot(NextSlot(p), Torn)
  /\ Goto(p, "finish")
  /\ UNCHANGED <<durable, holder, usable, items, record, historyVars>>

FinishWrite(p) ==
  /\ pc[p] = "finish"
  /\ PutSlot(NextSlot(p), record[p])
  /\ Goto(p, "sync")
  /\ UNCHANGED <<durable, holder, usable, items, record, historyVars>>

\* The append returns; its record is promised, unless it was damaged meanwhile.
Acknowledge(p) ==
  acked' = acked \cup
    {a \in {<<NextSlot(p), record[p]>>} : file.slots[a[1]] = a[2]}

\* Mutant: the append returns before its record is synced.
SyncSkipped(p) ==
  /\ pc[p] = "sync"
  /\ Acknowledge(p)
  /\ items' = [items EXCEPT ![p] = Append(@, record[p])]
  /\ unsure' = [unsure EXCEPT ![p] = @ \ {record[p]}]
  /\ record' = [record EXCEPT ![p] = 0]
  /\ Goto(p, "ready")
  /\ UNCHANGED <<file, durable, holder, usable, offered>>

Sync(p) ==
  /\ pc[p] = "sync"
  /\ durable' = Synced
  /\ Acknowledge(p)
  /\ items' = [items EXCEPT ![p] = Append(@, record[p])]
  /\ unsure' = [unsure EXCEPT ![p] = @ \ {record[p]}]
  /\ record' = [record EXCEPT ![p] = 0]
  /\ Goto(p, "ready")
  /\ UNCHANGED <<file, holder, usable, offered>>

AppendFails(p) ==
  /\ pc[p] \in {"write", "finish", "sync"}
  /\ Disable(p)
  /\ record' = [record EXCEPT ![p] = 0]
  /\ Goto(p, "ready")
  /\ UNCHANGED <<file, durable, holder, items, historyVars>>

\* records(): also of a journal that may not append any more.
ReadRecords(p) ==
  /\ pc[p] = "ready"
  /\ \/ /\ \E n \in 0..Capacity :
             Loads(file, n) /\ items' = [items EXCEPT ![p] = Loaded(file, n)]
        /\ UNCHANGED usable
     \/ Corrupt(file) /\ Disable(p) /\ UNCHANGED items
  /\ UNCHANGED <<file, durable, holder, pc, record, historyVars>>

CloseJournal(p) ==
  /\ pc[p] = "ready"
  /\ LetGo(p)
  /\ UNCHANGED <<file, durable, offered, acked>>

-----------------------------------------------------------------------------
(* The world outside.                                                      *)

Kill(p) ==
  /\ pc[p] # "closed"
  /\ LetGo(p)
  /\ UNCHANGED <<file, durable, offered, acked>>

\* Each part of the file may be as it was read, as it was synced, or, where
\* they differ, neither.
PowerLoss ==
  /\ \E exists \in {file.exists, durable.exists},
       sized \in {file.sized, durable.sized},
       header \in {file.header, durable.header},
       left \in [Slots -> {"read", "synced", "neither"}] :
       file' = [exists |-> exists, sized |-> sized, header |-> header,
                slots |-> [i \in Slots |->
                  CASE left[i] = "read" \/ file.slots[i] = durable.slots[i]
                         -> file.slots[i]
                    [] left[i] = "synced" -> durable.slots[i]
                    [] OTHER -> Torn]]
  /\ durable' = file'
  /\ holder' = {}
  /\ pc' = [p \in Processes |-> "closed"]
  /\ usable' = [p \in Processes |-> FALSE]
  /\ items' = [p \in Processes |-> <<>>]
  /\ record' = [p \in Processes |-> 0]
  /\ unsure' = [p \in Processes |-> {}]
  /\ UNCHANGED <<offered, acked>>

\* A slot is overwritten by something else; nobody is promised its record.
DamageSlot(i) ==
  /\ Damage /\ file.exists /\ file.slots[i] # Empty
  /\ \E value \in {Empty, Torn} :
       /\ file' = [file EXCEPT !.slots[i] = value]
       /\ durable' = [durable EXCEPT !.slots[i] = value]
  /\ acked' = {a \in acked : a[1] # i}
  /\ UNCHANGED <<holder, processVars, offered, unsure>>

-----------------------------------------------------------------------------

JournalInit ==
  /\ file = [exists |-> FALSE, sized |-> FALSE, header |-> "none", slots |-> Blank]
  /\ durable = file
  /\ holder = {}
  /\ pc = [p \in Processes |-> "closed"]
  /\ usable = [p \in Processes |-> FALSE]
  /\ items = [p \in Processes |-> <<>>]
  /\ record = [p \in Processes |-> 0]
  /\ offered = 0 /\ acked = {}
  /\ unsure = [p \in Processes |-> {}]

OpenStep(p) ==
  \/ Create(p) \/ OpenExisting(p) \/ Lock(p) \/ LockRefused(p)
  \/ ReserveSlots(p) \/ WriteHeader(p) \/ SyncFile(p) \/ SyncName(p)
  \/ Load(p) \/ LoadRefused(p) \/ OpenFails(p)

UseStep(p) ==
  \/ BeginAppend(p) \/ AppendRefused(p) \/ Write(p) \/ FinishWrite(p) \/ Sync(p)
  \/ AppendFails(p) \/ ReadRecords(p) \/ CloseJournal(p)

JournalNext ==
  \/ \E p \in Processes : OpenStep(p) \/ UseStep(p) \/ Kill(p)
  \/ PowerLoss
  \/ \E i \in Slots : DamageSlot(i)

JournalSpec == JournalInit /\ [][JournalNext]_journalVars

-----------------------------------------------------------------------------
(* What the journal promises.                                              *)

\* An append that has returned is never lost: whatever is killed, fails or
\* loses power afterwards, its record is in its slot, on the disk too.
AcknowledgedKept ==
  \A a \in acked :
    /\ file.exists /\ durable.exists
    /\ file.slots[a[1]] = a[2] /\ durable.slots[a[1]] = a[2]

Ready(p) == pc[p] \in {"ready", "write", "finish", "sync"}

\* A journal that has opened knows every acknowledged record, and all it knows
\* in the order of the appends: a torn or missing record refuses the whole
\* journal, it never shortens it.
LoadedComplete ==
  \A p \in Processes : Ready(p) =>
    /\ \A a \in acked : \E i \in 1..Len(items[p]) : items[p][i] = a[2]
    /\ \A i, j \in 1..Len(items[p]) : i < j => items[p][i] < items[p][j]

\* While its process keeps the journal open, a failed append is the last one:
\* nothing is acknowledged after a record nobody can vouch for.
NothingAfterFailure ==
  \A p \in Processes : \A r \in unsure[p], a \in acked : a[2] < r

\* Evidence is never overwritten: no process changes a slot that holds a
\* record or damage it did not write itself just now, and none empties one.
NothingOverwritten ==
  [][\A p \in Processes : file.exists /\ (OpenStep(p) \/ UseStep(p)) =>
       \A i \in Slots : file.slots[i] # Empty =>
         \/ file'.slots[i] = file.slots[i]
         \/ pc[p] = "finish" /\ i = NextSlot(p) /\ file.slots[i] = Torn]_journalVars

=============================================================================
