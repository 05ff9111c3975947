------------------------------ MODULE Cutover -------------------------------
(***************************************************************************)
(* The cutover of scripts/orchestrator-cutover-activate.ts from a legacy   *)
(* installation to the TypeScript supervisor: activateCutover,             *)
(* recoverCommittedCutover and the rollback of a cordon whose import has   *)
(* not begun.  The commands share nothing but files, each replaced         *)
(* atomically (writeDurableFile), so a command is a sequence of steps, one *)
(* for each durable write, and may die between any two of them.            *)
(*                                                                         *)
(* The request is one and the same for every command: epoch, predecessor,  *)
(* host and store roster are not variables.  A content stands for its      *)
(* digest, that of a legacy-json store for the digest of its covered       *)
(* fields (its _recovery field is dropped); content 0 is an absent file.   *)
(* The registry projection, which every run repeats, and the preflight     *)
(* observations are left out.                                              *)
(***************************************************************************)
EXTENDS Integers, Sequences

CONSTANTS
    Procs,      \* command slots; at most so many commands run at a time
    Kind,       \* the store roster: the kind of each store
    Malformed,  \* contents with an unknown or a missing field
    MaxWrites,  \* bound: contents the old installation writes to a store
    MaxNonces,  \* bound: transactions, each with a nonce of its own
    MaxCrashes  \* bound: deaths of commands and of the new supervisor

Kinds == {"legacy-json", "opaque-file", "opaque-directory"}

ASSUME CutoverAssumption ==
    /\ Kind \in Seq(Kinds)
    /\ MaxWrites \in Nat \ {0} /\ MaxNonces \in Nat /\ MaxCrashes \in Nat
    /\ Malformed \subseteq 1 .. MaxWrites

VARIABLES
    cordon,    \* the cordon file
    stopping, maintenance, \* the two files of the legacy start barrier
    log,       \* the phase-one envelope
    snapshots, \* the snapshot files
    epoch,     \* what the epoch authority has committed: a record or NoEpoch
    lock,      \* whether its lock directory exists
    bound,     \* whether the project bindings are published
    followups, \* how many of REQUIRED_FOLLOWUP_STEPS are recorded
    source, target, marker, \* per store: both contents and the import marker
    legacy, supervisor, \* whether the old and the new installation are up
    pc, mem,   \* per command: where it is and what it holds
    nonces, crashes

control == <<cordon, stopping, maintenance>>
evidence == <<log, snapshots, bound, followups>>
authority == <<epoch, lock>>
data == <<source, target, marker>>
world == <<legacy, supervisor>>
counts == <<nonces, crashes>>
vars == <<control, evidence, authority, data, world, pc, mem, counts>>

Stores == 1 .. Len(Kind)
Opaque == {s \in Stores : Kind[s] # "legacy-json"}
New == MaxWrites + 1   \* whatever the new installation writes to a store
Torn == MaxWrites + 2  \* a directory that is partly removed
Versions == 0 .. MaxWrites
Contents == 0 .. Torn
Digests == [Stores -> Contents]
Blank == [s \in Stores |-> 0]

PreImportSteps == <<"admission", "cordon", "writer-drain",
                    "legacy-supervisor-and-writers-terminated", "snapshots", "import-begun">>
PhaseOneSteps == {"admission", "cordon", "writer-drain", "snapshots", "import-begun", "imports",
                  "legacy-supervisor-and-writers-terminated", "registry-projected"}
AllFollowups == 7

Nonces == 0 .. MaxNonces
Cordons == [state : {"absent", "preparing", "active"}, nonce : Nonces, begun : BOOLEAN,
            src : Digests, dst : Digests]
NoCordon == [state |-> "absent", nonce |-> 0, begun |-> FALSE, src |-> Blank, dst |-> Blank]
Logs == [nonce : Nonces, steps : Seq(PhaseOneSteps), snap : Digests]
NoLog == [nonce |-> 0, steps |-> <<>>, snap |-> Blank]
NoMarker == [nonce |-> 0, content |-> 0]
Epochs == [nonce : Nonces, imports : Digests, log : Logs]
NoEpoch == [nonce |-> 0, imports |-> Blank, log |-> NoLog]
Committed == epoch # NoEpoch

Commands == {"activate", "recover", "rollback"}
Memories == [cmd : Commands \cup {"none"}, rec : Cordons, read : Cordons, snap : Digests,
             log : Logs, at : Nat]
NoMemory == [cmd |-> "none", rec |-> NoCordon, read |-> NoCordon, snap |-> Blank,
             log |-> NoLog, at |-> 0]

PCs == {"idle", "activate", "prepare", "stopping", "maintenance", "close", "admission", "cordon",
        "drain", "terminate", "terminated", "snapshot", "snapshots", "boundary", "begin", "begun",
        "recover", "import", "mark", "imports", "project", "lock", "commit", "conflict", "unlock",
        "verify", "bind", "retire", "remove", "follow", "start", "observe",
        "rollback", "releaseMaintenance", "releaseStopping", "abandon"}

TypeOK ==
    /\ cordon \in Cordons
    /\ stopping \in BOOLEAN /\ maintenance \in BOOLEAN
    /\ log \in Logs
    /\ snapshots \in Digests
    /\ epoch \in Epochs /\ lock \in BOOLEAN
    /\ bound \in BOOLEAN /\ followups \in 0 .. AllFollowups
    /\ source \in Digests /\ target \in Digests
    /\ marker \in [Stores -> [nonce : Nonces, content : Contents]]
    /\ legacy \in BOOLEAN /\ supervisor \in BOOLEAN
    /\ pc \in [Procs -> PCs]
    /\ mem \in [Procs -> Memories]
    /\ nonces \in Nonces /\ crashes \in 0 .. MaxCrashes

(* The old installation is up and nothing of the cutover has happened; the *)
(* legacy-json stores exist.                                               *)
Init ==
    /\ cordon = NoCordon
    /\ stopping = FALSE /\ maintenance = FALSE
    /\ log = NoLog /\ snapshots = Blank
    /\ epoch = NoEpoch /\ lock = FALSE
    /\ bound = FALSE /\ followups = 0
    /\ source \in [Stores -> 0 .. 1] /\ \A s \in Stores \ Opaque : source[s] = 1
    /\ target = Blank
    /\ marker = [s \in Stores |-> NoMarker]
    /\ legacy = TRUE /\ supervisor = FALSE
    /\ pc = [p \in Procs |-> "idle"]
    /\ mem = [p \in Procs |-> NoMemory]
    /\ nonces = 0 /\ crashes = 0

-----------------------------------------------------------------------------
(* How a command moves on, fails and ends. *)

Goto(p, l) == pc' = [pc EXCEPT ![p] = l] /\ UNCHANGED mem
GotoAt(p, l, i) == pc' = [pc EXCEPT ![p] = l] /\ mem' = [mem EXCEPT ![p].at = i]
Holding(p, l, m) == pc' = [pc EXCEPT ![p] = l] /\ mem' = [mem EXCEPT ![p] = m]
Stop(p) == pc' = [pc EXCEPT ![p] = "idle"] /\ mem' = [mem EXCEPT ![p] = NoMemory]

Quiet == UNCHANGED <<control, evidence, authority, data, world, counts>>
Fail(p) == Stop(p) /\ Quiet

Activating(p) == mem[p].cmd = "activate"
Nonce(p) == mem[p].rec.nonce

(* createCordon finds no trace of a cutover. *)
Fresh == cordon.state = "absent" /\ ~stopping /\ ~maintenance /\ ~supervisor

(* main dispatches on the command line. *)
Start(p, c) ==
    /\ pc[p] = "idle"
    /\ c = "activate" /\ Fresh => nonces < MaxNonces
    /\ Holding(p, c, [NoMemory EXCEPT !.cmd = c])
    /\ Quiet

(* The checks of activateCutover and createCordon up to the first write:   *)
(* a cordon in preparation is resumed, an active one is a competitor.      *)
Resume(p) ==
    /\ cordon.state = "preparing"
    /\ Holding(p, "stopping", [mem[p] EXCEPT !.rec = cordon])
    /\ UNCHANGED nonces

Refused == ~(cordon.state = "preparing" \/ Fresh) \/ \E s \in Opaque : target[s] # 0

Capture(p) ==
    /\ Fresh
    /\ nonces < MaxNonces
    /\ nonces' = nonces + 1
    /\ Holding(p, "prepare",
           [mem[p] EXCEPT !.rec = [state |-> "preparing", nonce |-> nonces + 1, begun |-> FALSE,
                                   src |-> source, dst |-> target]])

Activate(p) ==
    /\ pc[p] = "activate"
    /\ \/ /\ \A s \in Opaque : target[s] = 0
          /\ Resume(p) \/ Capture(p)
          /\ UNCHANGED <<control, evidence, authority, data, world, crashes>>
       \/ Refused /\ Fail(p)

(* createCordon: the intent, the two barrier files, the active cordon. *)
Prepare(p) ==
    /\ pc[p] = "prepare"
    /\ cordon' = mem[p].rec
    /\ Goto(p, "stopping")
    /\ UNCHANGED <<stopping, maintenance, evidence, authority, data, world, counts>>

WriteStopping(p) ==
    /\ pc[p] = "stopping"
    /\ stopping' = TRUE
    /\ Goto(p, "maintenance")
    /\ UNCHANGED <<cordon, maintenance, evidence, authority, data, world, counts>>

WriteMaintenance(p) ==
    /\ pc[p] = "maintenance"
    /\ maintenance' = TRUE
    /\ Goto(p, "close")
    /\ UNCHANGED <<cordon, stopping, evidence, authority, data, world, counts>>

Close(p) ==
    /\ pc[p] = "close"
    /\ cordon' = [mem[p].rec EXCEPT !.state = "active"]
    /\ Holding(p, "admission", [mem[p] EXCEPT !.rec.state = "active"])
    /\ UNCHANGED <<stopping, maintenance, evidence, authority, data, world, counts>>

-----------------------------------------------------------------------------
(* The phase-one log: appendPhaseOne refuses an envelope of another nonce. *)

LogOpen(p) == log = NoLog \/ log.nonce = Nonce(p)

Appended(p, step, snap) ==
    /\ log' = [nonce |-> Nonce(p), steps |-> Append(log.steps, step), snap |-> snap]
    /\ UNCHANGED <<snapshots, bound, followups>>

Record(p, l, step, next) ==
    /\ pc[p] = l
    /\ IF LogOpen(p)
       THEN /\ Appended(p, step, log.snap)
            /\ Goto(p, next)
            /\ UNCHANGED <<control, authority, data, world, counts>>
       ELSE Fail(p)

DrainOnly(p) ==
    \/ Record(p, "drain", "writer-drain", "terminated")
    \/ pc[p] = "drain" /\ legacy /\ Fail(p)

Drain(p) ==
    \/ Record(p, "drain", "writer-drain", "terminate")
    \/ pc[p] = "drain" /\ legacy /\ Fail(p)  \* writer_drain_timeout

(* The old processes are killed and must be gone. *)
Terminate(p) ==
    /\ pc[p] = "terminate"
    /\ \/ legacy' = FALSE /\ Goto(p, "terminated")
       \/ legacy' = legacy /\ legacy /\ Stop(p)  \* legacy_process_survivor
    /\ UNCHANGED <<supervisor, control, evidence, authority, data, counts>>

SourceStable(snap) == \A s \in Opaque : source[s] = snap[s]

Snapshot(p) ==
    /\ pc[p] = "snapshot"
    /\ IF SourceStable(mem[p].rec.src)
       THEN /\ snapshots' = source
            /\ Holding(p, "snapshots", [mem[p] EXCEPT !.snap = source])
            /\ UNCHANGED <<control, log, bound, followups, authority, data, world, counts>>
       ELSE Fail(p)

RecordSnapshots(p) ==
    /\ pc[p] = "snapshots"
    /\ IF LogOpen(p)
       THEN /\ Appended(p, "snapshots", mem[p].snap)
            /\ Goto(p, "boundary")
            /\ UNCHANGED <<control, authority, data, world, counts>>
       ELSE Fail(p)

(* markImportBegun reads the cordon and writes it back. *)
Boundary(p) ==
    /\ pc[p] = "boundary"
    /\ IF cordon.state = "active"
       THEN /\ Holding(p, "begin", [mem[p] EXCEPT !.read = cordon]) /\ Quiet
       ELSE Fail(p)

BeginUnmarked(p) ==
    /\ pc[p] = "begin"
    /\ Holding(p, "begun", [mem[p] EXCEPT !.at = 1])
    /\ Quiet

Begin(p) ==
    /\ pc[p] = "begin"
    /\ cordon' = IF mem[p].read.begun THEN cordon ELSE [mem[p].read EXCEPT !.begun = TRUE]
    /\ Holding(p, "begun", [mem[p] EXCEPT !.at = 1])
    /\ UNCHANGED <<stopping, maintenance, evidence, authority, data, world, counts>>

-----------------------------------------------------------------------------
(* recoverCommittedCutover: a committed cutover goes on after the commit,  *)
(* another one after the boundary, provided its log is complete.           *)

Count(step) == {i \in DOMAIN log.steps : log.steps[i] = step}

ForwardPrefix ==
    /\ Len(log.steps) >= 6 /\ SubSeq(log.steps, 1, 6) = PreImportSteps
    /\ \A i \in 7 .. Len(log.steps) :
         \/ log.steps[i] = "imports" /\ \A j \in 7 .. i - 1 : log.steps[j] # "imports"
         \/ log.steps[i] = "registry-projected"
            /\ \A j \in 7 .. i - 1 : log.steps[j] = "imports"
            /\ i > 7

CanRepeat == Committed /\ epoch.nonce = cordon.nonce
CanResume ==
    /\ ~Committed
    /\ log.nonce = cordon.nonce /\ ForwardPrefix
    /\ snapshots = log.snap /\ SourceStable(log.snap)

Recover(p) ==
    /\ pc[p] = "recover"
    /\ IF cordon.state = "active" /\ cordon.begun /\ (CanRepeat \/ CanResume)
       THEN /\ Holding(p, IF Committed THEN "verify" ELSE "import",
                       [mem[p] EXCEPT !.rec = cordon, !.snap = log.snap, !.at = 1]) /\ Quiet
       ELSE Fail(p)

-----------------------------------------------------------------------------
(* importSnapshot, store by store: the target, then the marker.  Only here *)
(* are the fields of a legacy-json store checked: the snapshot wants JSON  *)
(* with a version, whatever its fields.                                    *)

Normalizable(s, c) == Kind[s] = "legacy-json" => c \notin Malformed

Identity(p, s) == [nonce |-> Nonce(p), content |-> mem[p].snap[s]]

Imported(p, s) == marker[s] = Identity(p, s) /\ target[s] = mem[p].snap[s]

MayWrite(p, s) ==
    /\ marker[s] = NoMarker
    /\ \/ Kind[s] = "legacy-json" /\ mem[p].snap[s] # 0
       \/ target[s] \in {0, mem[p].snap[s]}

Import(p) ==
    /\ pc[p] = "import"
    /\ LET s == mem[p].at
       IN IF s \notin Stores
          THEN Goto(p, "imports") /\ Quiet
          ELSE IF snapshots[s] # mem[p].snap[s] \/ ~Normalizable(s, snapshots[s]) THEN Fail(p)
          ELSE IF Imported(p, s)
          THEN GotoAt(p, "import", s + 1) /\ Quiet
          ELSE IF MayWrite(p, s)
          THEN /\ target' = [target EXCEPT ![s] = mem[p].snap[s]]
               /\ Goto(p, "mark")
               /\ UNCHANGED <<source, marker, control, evidence, authority, world, counts>>
          ELSE Fail(p)

Mark(p) ==
    /\ pc[p] = "mark"
    /\ LET s == mem[p].at
       IN IF target[s] = mem[p].snap[s]
          THEN /\ marker' = [marker EXCEPT ![s] = Identity(p, s)]
               /\ GotoAt(p, "import", s + 1)
               /\ UNCHANGED <<source, target, control, evidence, authority, world, counts>>
          ELSE Fail(p)

EnsureAgain(p, l, step, next) == Record(p, l, step, next)

(* The imports and the projection are logged, by a recovery only if they   *)
(* are missing (ensurePhaseOneStep).                                       *)
Ensure(p, l, step, next) ==
    \/ Record(p, l, step, next)
         /\ (Activating(p) \/ Count(step) = {} \/ ~LogOpen(p))
    \/ /\ pc[p] = l /\ ~Activating(p) /\ Count(step) # {} /\ LogOpen(p)
       /\ Goto(p, next)
       /\ Quiet

RecordImports(p) ==
    IF Activating(p) /\ ~SourceStable(mem[p].snap)
    THEN pc[p] = "imports" /\ Fail(p)
    ELSE Ensure(p, "imports", "imports", "project")

-----------------------------------------------------------------------------
(* The compare-and-set of the epoch authority, under its lock directory.   *)

Lock(p) ==
    /\ pc[p] = "lock"
    /\ IF log.nonce = Nonce(p) /\ ~lock
       THEN /\ lock' = TRUE
            /\ Holding(p, "commit", [mem[p] EXCEPT !.log = log])
            /\ UNCHANGED <<epoch, control, evidence, data, world, counts>>
       ELSE Fail(p)

Commit(p) ==
    /\ pc[p] = "commit"
    /\ IF Committed
       THEN Goto(p, "conflict") /\ UNCHANGED epoch
       ELSE /\ epoch' = [nonce |-> Nonce(p), imports |-> mem[p].snap, log |-> mem[p].log]
            /\ Goto(p, "unlock")
    /\ UNCHANGED <<lock, control, evidence, data, world, counts>>

Unlock(p) ==
    /\ \/ pc[p] = "unlock" /\ Goto(p, "verify")
       \/ pc[p] = "conflict" /\ Stop(p)
    /\ lock' = FALSE
    /\ UNCHANGED <<epoch, control, evidence, data, world, counts>>

(* verify, verifyPhaseOneDigest and assertCommittedImportedDestination. *)
DestinationsIntact(snap) ==
    \A s \in Stores : /\ marker[s] # NoMarker /\ marker[s].content = snap[s]
                      /\ snap[s] = epoch.imports[s] /\ target[s] = snap[s]

Verify(p) ==
    /\ pc[p] = "verify"
    /\ IF /\ epoch.nonce = Nonce(p) /\ log = epoch.log
          /\ Activating(p) \/ snapshots = log.snap
          /\ DestinationsIntact(mem[p].snap)
       THEN /\ Goto(p, "bind") /\ Quiet
       ELSE Fail(p)

Bind(p) ==
    /\ pc[p] = "bind"
    /\ bound' = TRUE
    /\ GotoAt(p, "retire", 1)
    /\ UNCHANGED <<control, log, snapshots, followups, authority, data, world, counts>>

RetireUnlessChanged(p) ==
    /\ pc[p] = "retire"
    /\ LET s == mem[p].at
       IN IF s \notin Stores
          THEN GotoAt(p, "follow", 1) /\ Quiet
          ELSE IF s \notin Opaque \/ source[s] # mem[p].snap[s]
          THEN GotoAt(p, "retire", s + 1) /\ Quiet
          ELSE /\ source' = [source EXCEPT ![s] = Torn] /\ Goto(p, "remove")
               /\ UNCHANGED <<target, marker, control, evidence, authority, world, counts>>

(* retireImportedSource, store by store; a directory goes entry by entry.  *)
Retire(p) ==
    /\ pc[p] = "retire"
    /\ LET s == mem[p].at
       IN IF s \notin Stores
          THEN GotoAt(p, "follow", 1) /\ Quiet
          ELSE IF s \notin Opaque \/ mem[p].snap[s] = 0 \/ source[s] = 0
          THEN GotoAt(p, "retire", s + 1) /\ Quiet
          ELSE IF source[s] # mem[p].snap[s] THEN Fail(p)
          ELSE /\ IF Kind[s] = "opaque-directory"
                  THEN source' = [source EXCEPT ![s] = Torn] /\ Goto(p, "remove")
                  ELSE source' = [source EXCEPT ![s] = 0] /\ GotoAt(p, "retire", s + 1)
               /\ UNCHANGED <<target, marker, control, evidence, authority, world, counts>>

Remove(p) ==
    /\ pc[p] = "remove"
    /\ source' = [source EXCEPT ![mem[p].at] = 0]
    /\ GotoAt(p, "retire", mem[p].at + 1)
    /\ UNCHANGED <<target, marker, control, evidence, authority, world, counts>>

-----------------------------------------------------------------------------
(* The follow-up steps: appendFollowup wants each exactly once and in      *)
(* order, a recovery asks for it only if it is missing (appendIfMissing).  *)

AfterFollowupNeverLast(p) ==
    CASE mem[p].at = 1 -> GotoAt(p, "start", 2)
      [] mem[p].at = 5 -> GotoAt(p, "observe", 6)
      [] OTHER -> GotoAt(p, "follow", mem[p].at + 1)

AfterFollowup(p) ==
    CASE mem[p].at = 1 -> GotoAt(p, "start", 2)
      [] mem[p].at = 5 -> GotoAt(p, "observe", 6)
      [] mem[p].at = AllFollowups -> Stop(p)
      [] OTHER -> GotoAt(p, "follow", mem[p].at + 1)

Follow(p) ==
    /\ pc[p] = "follow"
    /\ IF followups = mem[p].at - 1 \/ (followups >= mem[p].at /\ ~Activating(p))
       THEN /\ followups' = IF followups < mem[p].at THEN mem[p].at ELSE followups
            /\ AfterFollowup(p)
            /\ UNCHANGED <<control, log, snapshots, bound, authority, data, world, counts>>
       ELSE Fail(p)

(* startSupervisor and ensureTypeScriptSupervisor: the supervisor is up,   *)
(* or the command gives up, with the supervisor up or not.                 *)
StartSupervisor(p) ==
    /\ pc[p] = "start"
    /\ \/ supervisor' = TRUE /\ (~supervisor \/ ~Activating(p)) /\ Goto(p, "follow")
       \/ supervisor' \in {supervisor, TRUE} /\ Stop(p)
    /\ UNCHANGED <<legacy, control, evidence, authority, data, counts>>

Observe(p) ==
    /\ pc[p] = "observe"
    /\ \/ supervisor /\ Goto(p, "follow") /\ Quiet
       \/ Fail(p)

-----------------------------------------------------------------------------
(* provePreImportRollbackSafe, then abandonPreImportCordon. *)

RollbackOfUntouched(p) ==
    /\ pc[p] = "rollback"
    /\ IF cordon.state # "absent" /\ target = cordon.dst
       THEN Goto(p, "releaseMaintenance") /\ Quiet
       ELSE Fail(p)

Rollback(p) ==
    /\ pc[p] = "rollback"
    /\ IF cordon.state # "absent" /\ ~cordon.begun /\ target = cordon.dst
       THEN Goto(p, "releaseMaintenance") /\ Quiet
       ELSE Fail(p)

ReleaseMaintenance(p) ==
    /\ pc[p] = "releaseMaintenance"
    /\ maintenance' = FALSE
    /\ Goto(p, "releaseStopping")
    /\ UNCHANGED <<cordon, stopping, evidence, authority, data, world, counts>>

ReleaseStopping(p) ==
    /\ pc[p] = "releaseStopping"
    /\ stopping' = FALSE
    /\ Goto(p, "abandon")
    /\ UNCHANGED <<cordon, maintenance, evidence, authority, data, world, counts>>

Abandon(p) ==
    /\ pc[p] = "abandon"
    /\ cordon' = NoCordon
    /\ Stop(p)
    /\ UNCHANGED <<stopping, maintenance, evidence, authority, data, world, counts>>

-----------------------------------------------------------------------------
(* The world around the commands. *)

LegacyWrite(s) ==
    /\ legacy /\ source[s] < MaxWrites
    /\ source' = [source EXCEPT ![s] = @ + 1]
    /\ UNCHANGED <<target, marker, control, evidence, authority, legacy, supervisor, pc, mem, counts>>

(* The old supervisor starts nothing behind the barrier. *)
LegacyStart ==
    /\ ~legacy /\ ~stopping /\ ~maintenance
    /\ legacy' = TRUE
    /\ UNCHANGED <<supervisor, control, evidence, authority, data, pc, mem, counts>>

SupervisorWrite(s) ==
    /\ supervisor
    /\ target' = [target EXCEPT ![s] = New]
    /\ UNCHANGED <<source, marker, control, evidence, authority, world, pc, mem, counts>>

SupervisorDies ==
    /\ supervisor /\ crashes < MaxCrashes
    /\ supervisor' = FALSE /\ crashes' = crashes + 1
    /\ UNCHANGED <<legacy, control, evidence, authority, data, pc, mem, nonces>>

Crash(p) ==
    /\ pc[p] # "idle"
    /\ crashes < MaxCrashes
    /\ crashes' = crashes + 1
    /\ Stop(p)
    /\ UNCHANGED <<control, evidence, authority, data, world, nonces>>

-----------------------------------------------------------------------------

Opening(p) ==
    \/ Activate(p) \/ Prepare(p) \/ WriteStopping(p) \/ WriteMaintenance(p) \/ Close(p)
    \/ Record(p, "admission", "admission", "cordon") \/ Record(p, "cordon", "cordon", "drain")
    \/ Drain(p) \/ Terminate(p)
    \/ Record(p, "terminated", "legacy-supervisor-and-writers-terminated", "snapshot")
    \/ Snapshot(p) \/ RecordSnapshots(p)
    \/ Boundary(p) \/ Begin(p) \/ Record(p, "begun", "import-begun", "import")

Importing(p) ==
    \/ Recover(p) \/ Import(p) \/ Mark(p)
    \/ RecordImports(p) \/ Ensure(p, "project", "registry-projected", "lock")
    \/ Lock(p) \/ Commit(p) \/ Unlock(p)

Finishing(p) ==
    \/ Verify(p) \/ Bind(p) \/ Retire(p) \/ Remove(p)
    \/ Follow(p) \/ StartSupervisor(p) \/ Observe(p)

RollingBack(p) == Rollback(p) \/ ReleaseMaintenance(p) \/ ReleaseStopping(p) \/ Abandon(p)

Step(p) == Opening(p) \/ Importing(p) \/ Finishing(p) \/ RollingBack(p)

World == LegacyStart \/ SupervisorDies \/ \E s \in Stores : LegacyWrite(s) \/ SupervisorWrite(s)

Next ==
    \/ \E p \in Procs : Step(p) \/ Crash(p) \/ \E c \in Commands : Start(p, c)
    \/ World

Spec == Init /\ [][Next]_vars

(* The scheduling of the operating system: a command that runs goes on.    *)
(* The operator runs recover again and again, and the new supervisor does  *)
(* not always miss the deadlines of a command that waits for it.           *)
Succeeds(p, A) == A /\ pc'[p] # "idle"
Fairness ==
    \A p \in Procs :
        /\ WF_vars(Step(p))
        /\ SF_vars(Start(p, "recover"))
        /\ SF_vars(Succeeds(p, StartSupervisor(p)))
        /\ SF_vars(Succeeds(p, Observe(p)))

FairSpec == Spec /\ Fairness

-----------------------------------------------------------------------------
(* Properties. *)

(* The cutover is one change of hands: until the epoch is committed the    *)
(* sources are authoritative and only the old installation writes them,    *)
(* from then on the targets are and only the new one does, and the commit  *)
(* changes no content (activateCutover 825-846).                           *)
H == INSTANCE Handover WITH
        serving <- IF Committed THEN "new" ELSE IF legacy THEN "old" ELSE "frozen",
        content <- IF Committed THEN target ELSE source
OneHandover == H!HandoverSpec

(* Once an import has begun the cordon keeps its nonce and the barrier its *)
(* files: no rollback and no second activation takes them away             *)
(* (importBegunAt, activation-transaction.ts 886).                         *)
ForwardOnly ==
    [][cordon.begun => /\ cordon'.begun /\ cordon'.nonce = cordon.nonce
                       /\ stopping' /\ maintenance']_vars

(* Before the import boundary is on disk nothing of the new installation   *)
(* has been touched, so the old one can be restored                        *)
(* (provePreImportRollbackSafe).                                           *)
NothingBeforeBoundary ==
    ~cordon.begun => /\ target = Blank /\ \A s \in Stores : marker[s] = NoMarker
                     /\ ~Committed /\ ~supervisor

(* What the follow-up file says is true: the first step is on record only  *)
(* after the commit, the bindings and the retirement of every opaque       *)
(* source, and the log that was committed is the log on disk.              *)
EvidenceTrue ==
    /\ Committed => log = epoch.log /\ epoch.nonce = cordon.nonce
    /\ followups > 0 => Committed /\ bound /\ \A s \in Opaque : source[s] = 0

(* The reasons for which a begun cutover cannot be finished by any number  *)
(* of recoveries: a death between the boundary and its log record, inside  *)
(* the lock of the epoch authority, or in the middle of the removal of a   *)
(* directory, a store the new installation has written to, and a snapshot  *)
(* that no import accepts.                                                 *)
Idle == \A p \in Procs : pc[p] = "idle"
Stuck ==
    /\ Idle /\ cordon.begun
    /\ \/ Len(log.steps) = 5
       \/ lock /\ ~Committed
       \/ \E s \in Stores : \/ source[s] = Torn \/ target[s] = New
                            \/ ~Normalizable(s, snapshots[s])

(* A cutover whose import has begun is finished, or is stuck for one of    *)
(* these reasons (recoverCommittedCutover).                                *)
ForwardRepair == cordon.begun ~> (followups = AllFollowups \/ Stuck)

(* No crash leaves an orphan barrier: while no command runs, a barrier     *)
(* belongs to a cutover that can be resumed, rolled back or recovered, or  *)
(* that is complete.                                                       *)
CanActivate == cordon.state = "preparing"
CanRollBack == cordon.state # "absent" /\ ~cordon.begun /\ target = cordon.dst
CanRecover == cordon.state = "active" /\ cordon.begun /\ (CanRepeat \/ CanResume)
NoOrphanBarrier ==
    Idle /\ (stopping \/ maintenance)
        => CanActivate \/ CanRollBack \/ CanRecover \/ followups = AllFollowups

=============================================================================
