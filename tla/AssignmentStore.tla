--------------------------- MODULE AssignmentStore ---------------------------
(***************************************************************************)
(* The worker assignment store, scripts/lib/worker-assignment-store.ts:    *)
(* one JSON file that says which worker has which task and issue, and      *)
(* which of the assignments is the operator primary.  Every program of the *)
(* pack reads the file without a lock, works for seconds or minutes on     *)
(* what it read, and then changes the file by compare-and-set under the    *)
(* journal lock of the file.  An assignment fence keeps that lock while    *)
(* the assignment it names authorises an effect.                           *)
(*                                                                         *)
(* A mutation is one step: the lock excludes the others (module            *)
(* JournalLock), the rename is atomic.  The call may still report failure  *)
(* after the rename (readback_failed, or the caller dies): what the caller *)
(* learns is not part of this module, so that case is the same step.       *)
(* A row is at the key of its (taskId, bindingKey); legacy keys and their  *)
(* migration, sizes in bytes and the descriptive fields are left out.      *)
(***************************************************************************)
EXTENDS Naturals, FiniteSets

CONSTANTS
    Actors,  \* the processes that use the store
    Issues,  \* issue numbers
    Keys,    \* deliverables: a task with a binding key
    MaxIds,  \* bound: assignments published in a behaviour
    MaxRows, \* MAX_WORKER_ASSIGNMENTS
    Bound,   \* MAX_UNSETTLED_DEAD_OBSERVATION_TICKS
    None     \* no issue, row, pointer or actor

ASSUME AssignmentStoreAssumption ==
    /\ None \notin Actors \cup Issues
    /\ MaxIds \in Nat
    /\ MaxRows \in Nat
    /\ Bound \in Nat

VARIABLES
    rows,    \* the assignments of the file
    primary, \* operatorPrimary of the file: a pointer to an assignment
    minted,  \* how many assignment ids were made: an id is its number
    stage,   \* what an actor does with what it read
    seen,    \* the row it read, as it was then
    goal,    \* the issue it publishes for
    ptr,     \* the pointer it read
    fence    \* the actor that holds the lock for a fenced action

vars == <<rows, primary, minted, stage, seen, goal, ptr, fence>>

Row == [key : Keys, id : Nat \ {0}, gen : Nat \ {0}, issue : Issues \cup {None},
        kind : {"local", "remote"}, ticks : 0 .. Bound]
Pointer == [key : Keys, id : Nat \ {0}, gen : Nat \ {0}]
Stages == {"idle", "publish", "edit", "bind", "admit", "fenced", "primary"}
InFence == {"admit", "fenced", "primary"}

NoRow == [key |-> None]
NoPointer == [key |-> None]
Has(k) == rows[k] # NoRow
Taken == {k \in Keys : Has(k)}

(* inspectWorkerAssignmentStore refuses a file with too many rows, for     *)
(* every reader and every writer.                                          *)
Readable == Cardinality(Taken) <= MaxRows

Free == fence = None

(* Wrong: a writer that does not wait for a fence.                         *)
UsableFenced == Readable
Usable == Free /\ Readable

SameIdentity(r, s) == [r EXCEPT !.issue = s.issue, !.ticks = s.ticks] = s
Current(r) == r # NoRow /\ rows[r.key] = r
bindingFor(r) == [key |-> r.key, id |-> r.id, gen |-> r.gen]

(* Wrong: by key, whatever assignment is there.                            *)
TargetByKey(p) == IF p # NoPointer /\ Has(p.key) THEN rows[p.key] ELSE NoRow

(* The assignment the operator primary names, if it is still current.      *)
Target(p) == IF p # NoPointer /\ Has(p.key) /\ bindingFor(rows[p.key]) = p
             THEN rows[p.key] ELSE NoRow

Init ==
    /\ rows = [k \in Keys |-> NoRow]
    /\ primary = NoPointer
    /\ minted = 0
    /\ stage = [a \in Actors |-> "idle"]
    /\ seen = [a \in Actors |-> NoRow]
    /\ goal = [a \in Actors |-> None]
    /\ ptr = [a \in Actors |-> NoPointer]
    /\ fence = None

View(a, s, r, i, p) ==
    /\ stage' = [stage EXCEPT ![a] = s]
    /\ seen' = [seen EXCEPT ![a] = r]
    /\ goal' = [goal EXCEPT ![a] = i]
    /\ ptr' = [ptr EXCEPT ![a] = p]

Done(a) == View(a, "idle", NoRow, None, NoPointer)
----------------------------------------------------------------------------
(* Reads, without the lock.                                                *)

Holders(i) == {k \in Taken : i # None /\ rows[k].issue = i}

(* A publisher reads the current assignment of its issue; a start for a    *)
(* brief (no issue yet) names no predecessor.  More than one holder counts *)
(* as none.                                                                *)
ReadIssue(a, i) ==
    /\ stage[a] = "idle" /\ Readable
    /\ View(a, "publish", IF \E k \in Keys : Holders(i) = {k}
                          THEN rows[CHOOSE k \in Keys : Holders(i) = {k}] ELSE NoRow,
            i, NoPointer)
    /\ UNCHANGED <<rows, primary, minted, fence>>

ReadRow(a, k) ==
    /\ stage[a] = "idle" /\ Readable /\ Has(k)
    /\ View(a, "edit", rows[k], None, NoPointer)
    /\ UNCHANGED <<rows, primary, minted, fence>>

ReadPrimary(a) ==
    /\ stage[a] = "idle" /\ Readable
    /\ View(a, "bind", NoRow, None, primary)
    /\ UNCHANGED <<rows, primary, minted, fence>>
----------------------------------------------------------------------------
(* Mutations, under the lock.                                              *)

expectedEntry(r) == {k \in Taken : rows[k].id = r.id /\ rows[k].gen = r.gen}

(* The compare part of publishCurrentWorkerAssignment.                     *)
Publishable(a, k) ==
    IF seen[a] # NoRow
    THEN \E j \in Keys : expectedEntry(seen[a]) = {j}
    ELSE ~Has(k) /\ Holders(goal[a]) = {}

(* The row that was named goes, a row that happens to be at the new key is *)
(* overwritten.                                                            *)
Publish(a, k, kind) ==
    /\ stage[a] = "publish" /\ Usable /\ minted < MaxIds
    /\ Publishable(a, k)
    /\ kind = "remote" => goal[a] # None
    /\ rows' = [j \in Keys |->
         IF j = k
         THEN [key |-> k, id |-> minted + 1,
               gen |-> IF seen[a] = NoRow THEN 1 ELSE seen[a].gen + 1,
               issue |-> goal[a], kind |-> kind, ticks |-> 0]
         ELSE IF seen[a] # NoRow /\ j \in expectedEntry(seen[a]) THEN NoRow ELSE rows[j]]
    /\ minted' = minted + 1
    /\ Done(a)
    /\ UNCHANGED <<primary, fence>>

(* Wrong: another assignment may have the issue.                           *)
AttachUnchecked(a, i) ==
    /\ stage[a] = "edit" /\ Usable
    /\ Current(seen[a])
    /\ seen[a].issue \in {None, i}
    /\ rows' = [rows EXCEPT ![seen[a].key].issue = i]
    /\ Done(a)
    /\ UNCHANGED <<primary, minted, fence>>

Attach(a, i) ==
    /\ stage[a] = "edit" /\ Usable
    /\ Current(seen[a])
    /\ Holders(i) \subseteq {seen[a].key}
    /\ seen[a].issue \in {None, i}
    /\ rows' = [rows EXCEPT ![seen[a].key].issue = i]
    /\ Done(a)
    /\ UNCHANGED <<primary, minted, fence>>

(* Wrong: the row that was read is written back.                           *)
SetTicksOfRead(a, t) ==
    /\ stage[a] = "edit" /\ Usable
    /\ seen[a] # NoRow /\ Has(seen[a].key)
    /\ \/ Current(seen[a])
       \/ t = 0 /\ SameIdentity(rows[seen[a].key], seen[a])
    /\ rows' = [rows EXCEPT ![seen[a].key] = [seen[a] EXCEPT !.ticks = t]]
    /\ View(a, "edit", rows'[seen[a].key], None, NoPointer)
    /\ UNCHANGED <<primary, minted, fence>>

(* Progress is written to the exact row that was read; a reset also to a   *)
(* row with the same identity, whose other fields it keeps.                *)
SetTicks(a, t) ==
    /\ stage[a] = "edit" /\ Usable
    /\ seen[a] # NoRow /\ Has(seen[a].key)
    /\ \/ Current(seen[a])
       \/ t = 0 /\ SameIdentity(rows[seen[a].key], seen[a])
    /\ rows' = [rows EXCEPT ![seen[a].key].ticks = t]
    /\ View(a, "edit", rows'[seen[a].key], None, NoPointer)
    /\ UNCHANGED <<primary, minted, fence>>

(* Wrong: without regard to the operator primary.                          *)
RetirableAlways(r) == Current(r)

Retirable(r) == Current(r) /\ primary # bindingFor(r)

Retire(a) ==
    /\ stage[a] = "edit" /\ Usable
    /\ Retirable(seen[a])
    /\ rows' = [rows EXCEPT ![seen[a].key] = NoRow]
    /\ Done(a)
    /\ UNCHANGED <<primary, minted, fence>>

Bind(a, k) ==
    /\ stage[a] = "bind" /\ Usable
    /\ primary = ptr[a]
    /\ Has(k) /\ rows[k].kind = "local"
    /\ primary' = bindingFor(rows[k])
    /\ Done(a)
    /\ UNCHANGED <<rows, minted, fence>>

Unbind(a) ==
    /\ stage[a] = "bind" /\ Usable
    /\ ptr[a] # NoPointer /\ primary = ptr[a]
    /\ primary' = NoPointer
    /\ Done(a)
    /\ UNCHANGED <<rows, minted, fence>>
----------------------------------------------------------------------------
(* Fences: the lock is kept while the action runs.                         *)

Enter(a) ==
    /\ stage[a] = "edit" /\ Usable
    /\ Current(seen[a])
    /\ fence' = a
    /\ View(a, "fenced", seen[a], None, NoPointer)
    /\ UNCHANGED <<rows, primary, minted>>

(* A publisher asks under the fence whether it may replace its predecessor *)
(* (admitCurrentWorkerAssignmentReplacement), and publishes after that.    *)
EnterAdmission(a) ==
    /\ stage[a] = "publish" /\ Usable
    /\ Current(seen[a])
    /\ fence' = a
    /\ View(a, "admit", seen[a], goal[a], NoPointer)
    /\ UNCHANGED <<rows, primary, minted>>

EnterPrimary(a) ==
    /\ stage[a] = "bind" /\ Usable
    /\ Target(primary) # NoRow /\ Target(primary).kind = "local"
    /\ fence' = a
    /\ View(a, "primary", Target(primary), None, primary)
    /\ UNCHANGED <<rows, primary, minted>>

(* A client of the assignment fence may go on with its row afterwards.     *)
After(a) ==
    CASE stage[a] = "admit" -> View(a, "publish", seen[a], goal[a], NoPointer)
      [] stage[a] = "fenced" -> View(a, "edit", seen[a], None, NoPointer)
      [] stage[a] = "primary" -> Done(a)

(* Wrong: the lock stays after the action.                                 *)
LeaveLocked(a) ==
    /\ stage[a] \in InFence
    /\ After(a)
    /\ UNCHANGED <<rows, primary, minted, fence>>

Leave(a) ==
    /\ stage[a] \in InFence
    /\ fence' = None
    /\ After(a)
    /\ UNCHANGED <<rows, primary, minted>>

(* A call fails before it wrote anything (the lock is busy, the file is    *)
(* not readable, the comparison fails), its caller gives up, or its        *)
(* process dies; the lock of a dead process is reclaimed.                  *)
Fail(a) ==
    /\ stage[a] # "idle"
    /\ fence' = IF fence = a THEN None ELSE fence
    /\ Done(a)
    /\ UNCHANGED <<rows, primary, minted>>

Next == \E a \in Actors :
    \/ \E i \in Issues \cup {None} : ReadIssue(a, i)
    \/ \E k \in Keys : ReadRow(a, k)
    \/ ReadPrimary(a)
    \/ \E k \in Keys, kind \in {"local", "remote"} : Publish(a, k, kind)
    \/ \E i \in Issues : Attach(a, i)
    \/ \E t \in 0 .. Bound : SetTicks(a, t)
    \/ Retire(a)
    \/ \E k \in Keys : Bind(a, k)
    \/ Unbind(a)
    \/ Enter(a)
    \/ EnterAdmission(a)
    \/ EnterPrimary(a)
    \/ Leave(a)
    \/ Fail(a)

Spec == Init /\ [][Next]_vars
----------------------------------------------------------------------------
(* The state is well formed: a row is at its own key, and the lock of the  *)
(* file belongs to the actor whose fenced action runs.                     *)
TypeOK ==
    /\ rows \in [Keys -> Row \cup {NoRow}]
    /\ \A k \in Taken : rows[k].key = k
    /\ primary \in Pointer \cup {NoPointer}
    /\ minted \in 0 .. MaxIds
    /\ stage \in [Actors -> Stages]
    /\ seen \in [Actors -> Row \cup {NoRow}]
    /\ goal \in [Actors -> Issues \cup {None}]
    /\ ptr \in [Actors -> Pointer \cup {NoPointer}]
    /\ fence \in Actors \cup {None}
    /\ \A a \in Actors : stage[a] \in InFence <=> fence = a

(* An issue has at most one assignment: currentWorkerAssignment takes two  *)
(* for none, so that a second holder would hide both from every consumer.  *)
(* Publishers with and without a predecessor, and the attachment of an     *)
(* issue to an older row, compete for it.                                  *)
IssueUnique == \A j, k \in Taken :
    rows[j].issue # None /\ rows[j].issue = rows[k].issue => j = k

(* While a fenced action runs, the assignment that authorises it is the    *)
(* current one, exactly as it was read; a fenced use of the operator       *)
(* primary also keeps the pointer (withCurrentWorkerAssignmentFence and    *)
(* withCurrentOperatorPrimaryAssignment).                                  *)
FenceHolds == \A a \in Actors :
    /\ stage[a] \in InFence => Current(seen[a])
    /\ stage[a] = "primary" => primary = ptr[a] /\ Target(primary) = seen[a]

(* An issue, once attached, stays with its assignment: no writer that read *)
(* the row before the attachment writes the old row back                   *)
(* (setWorkerAssignmentDeadObservationTicks against attach).               *)
IssueSticks == [][\A k \in Keys :
    Has(k) /\ Has(k)' /\ rows[k].id = rows'[k].id
        => rows[k].issue \in {None, rows'[k].issue}]_vars

(* The assignment of the operator primary leaves the file only because     *)
(* another one was published: it is never retired under the pointer        *)
(* (assignment_protected).                                                 *)
TargetKept == [][
    Target(primary) # NoRow /\ primary' = primary /\ minted' = minted
        => (Target(primary) # NoRow)']_vars

(* A pointer that became stale stays stale until the operator moves it: it *)
(* never comes to name another assignment, even one at the same key.       *)
StaleStays == [][
    primary # NoPointer /\ Target(primary) = NoRow /\ primary' = primary
        => (Target(primary) = NoRow)']_vars

(* The file is never replaced by one its readers refuse.                   *)
CapHolds == Readable
=============================================================================
