---------------------------- MODULE CutoverProofs ----------------------------
(***************************************************************************)
(* What is proved of the cutover, for every roster of stores and every     *)
(* number of writes, transactions and deaths.  Types hold for any number   *)
(* of commands; the rest is about commands that run one at a time.         *)
(***************************************************************************)
EXTENDS Cutover, TLAPS

(* A follow-up step is one of REQUIRED_FOLLOWUP_STEPS. *)
Ranges == \A p \in Procs :
    /\ pc[p] = "follow" => mem[p].at \in 1 .. AllFollowups
    /\ pc[p] = "start" => mem[p].at = 2
    /\ pc[p] = "observe" => mem[p].at = 6

Typed == TypeOK /\ Ranges

-----------------------------------------------------------------------------
(* How a command's place and memory change. *)

LEMMA Consts ==
    /\ 0 \in Contents /\ New \in Contents /\ Torn \in Contents
    /\ \A n \in Versions : n \in Contents
    /\ 0 \in Nonces /\ Blank \in Digests /\ NoCordon \in Cordons /\ NoLog \in Logs
    /\ NoEpoch \in Epochs /\ NoMemory \in Memories /\ "idle" \in PCs
    /\ Stores \subseteq Nat
<1>1. MaxWrites \in Nat /\ MaxNonces \in Nat /\ Len(Kind) \in Nat
  BY CutoverAssumption
<1>2. 0 \in Contents /\ New \in Contents /\ Torn \in Contents /\ 0 \in Nonces
      /\ (\A n \in Versions : n \in Contents) /\ Stores \subseteq Nat
  BY <1>1 DEF Contents, New, Torn, Nonces, Versions, Stores
<1>3. Blank \in Digests
  BY <1>2 DEF Blank, Digests
<1>4. NoCordon \in Cordons /\ NoLog \in Logs
  BY <1>2, <1>3 DEF NoCordon, Cordons, NoLog, Logs
<1>5. NoEpoch \in Epochs /\ NoMemory \in Memories /\ "idle" \in PCs
  BY <1>2, <1>3, <1>4 DEF NoEpoch, Epochs, NoMemory, Memories, PCs
<1> QED BY <1>2, <1>3, <1>4, <1>5

LEMMA GotoTypes ==
    ASSUME Typed, NEW p \in Procs, NEW l \in PCs, Goto(p, l),
           l \notin {"follow", "start", "observe"}
    PROVE  pc' \in [Procs -> PCs] /\ mem' \in [Procs -> Memories] /\ Ranges'
BY DEF Typed, TypeOK, Ranges, Goto

LEMMA HoldingTypes ==
    ASSUME Typed, NEW p \in Procs, NEW l \in PCs, NEW m \in Memories, Holding(p, l, m),
           l \notin {"follow", "start", "observe"}
    PROVE  pc' \in [Procs -> PCs] /\ mem' \in [Procs -> Memories] /\ Ranges'
BY DEF Typed, TypeOK, Ranges, Holding

LEMMA GotoAtTypes ==
    ASSUME Typed, NEW p \in Procs, NEW l \in PCs, NEW i \in Nat, GotoAt(p, l, i),
           l = "follow" => i \in 1 .. AllFollowups,
           l = "start" => i = 2,
           l = "observe" => i = 6
    PROVE  pc' \in [Procs -> PCs] /\ mem' \in [Procs -> Memories] /\ Ranges'
<1>1. [mem[p] EXCEPT !.at = i] \in Memories /\ [mem[p] EXCEPT !.at = i].at = i
  BY DEF Typed, TypeOK, Memories
<1>2. mem' = [mem EXCEPT ![p] = [mem[p] EXCEPT !.at = i]]
  BY DEF GotoAt
<1> QED BY <1>1, <1>2 DEF Typed, TypeOK, Ranges, GotoAt

LEMMA StopTypes ==
    ASSUME Typed, NEW p \in Procs, Stop(p)
    PROVE  pc' \in [Procs -> PCs] /\ mem' \in [Procs -> Memories] /\ Ranges'
BY Consts DEF Typed, TypeOK, Ranges, Stop

LEMMA FailTypes ==
    ASSUME Typed, NEW p \in Procs, Fail(p)
    PROVE  Typed'
BY StopTypes DEF Typed, TypeOK, Fail, Quiet, control, evidence, authority, data, world, counts,
                 Committed

(* A record of the phase-one log. *)
LEMMA RecordTypes ==
    ASSUME Typed, NEW p \in Procs, NEW step \in PhaseOneSteps, NEW snap \in Digests,
           Appended(p, step, snap)
    PROVE  log' \in Logs
<1>1. mem[p].rec.nonce \in Nonces
  BY DEF Typed, TypeOK, Memories, Cordons
<1>2. Append(log.steps, step) \in Seq(PhaseOneSteps)
  BY DEF Typed, TypeOK, Logs
<1> QED BY <1>1, <1>2 DEF Appended, Logs, Nonce

LEMMA RecordStepTypes ==
    ASSUME Typed, NEW p \in Procs, NEW l \in PCs, NEW next \in PCs, NEW step \in PhaseOneSteps,
           next \notin {"follow", "start", "observe"}, Record(p, l, step, next)
    PROVE  Typed'
<1>1. log.snap \in Digests
  BY DEF Typed, TypeOK, Logs
<1>2. CASE LogOpen(p)
  <2>1. Appended(p, step, log.snap) /\ Goto(p, next)
        /\ UNCHANGED <<control, authority, data, world, counts>>
    BY <1>2 DEF Record
  <2>2. log' \in Logs /\ pc' \in [Procs -> PCs] /\ mem' \in [Procs -> Memories] /\ Ranges'
    BY <1>1, <2>1, RecordTypes, GotoTypes
  <2> QED
    BY <2>1, <2>2 DEF Typed, TypeOK, Appended, control, authority, data, world, counts
<1>3. CASE ~LogOpen(p)
  BY <1>3, FailTypes DEF Record
<1> QED BY <1>2, <1>3

-----------------------------------------------------------------------------
(* Types, for any number of commands. *)

LEMMA OpeningTypes ==
    ASSUME Typed, NEW p \in Procs, Opening(p)
    PROVE  Typed'
<1> USE DEF control, evidence, authority, data, world, counts
<1>0. /\ TypeOK /\ mem[p] \in Memories /\ mem[p].rec \in Cordons /\ mem[p].read \in Cordons
      /\ mem[p].snap \in Digests /\ cordon \in Cordons /\ log.snap \in Digests
  BY DEF Typed, TypeOK, Memories, Logs
<1>1. CASE Activate(p)
  <2>1. CASE Resume(p) /\ UNCHANGED <<control, evidence, authority, data, world, crashes>>
    <3>1. [mem[p] EXCEPT !.rec = cordon] \in Memories
      BY <1>0 DEF Memories
    <3>2. "stopping" \in PCs
      BY DEF PCs
    <3>3. pc' \in [Procs -> PCs] /\ mem' \in [Procs -> Memories] /\ Ranges'
      BY <2>1, <3>1, <3>2, HoldingTypes DEF Resume
    <3> QED BY <1>0, <2>1, <3>3 DEF Typed, TypeOK, Resume
  <2>2. CASE Capture(p) /\ UNCHANGED <<control, evidence, authority, data, world, crashes>>
    <3> DEFINE rec == [state |-> "preparing", nonce |-> nonces + 1, begun |-> FALSE,
                       src |-> source, dst |-> target]
    <3>1. nonces + 1 \in Nonces
      BY <1>0, <2>2, CutoverAssumption DEF TypeOK, Capture, Nonces
    <3>2. rec \in Cordons
      BY <1>0, <3>1 DEF Cordons, TypeOK
    <3> HIDE DEF rec
    <3>3. [mem[p] EXCEPT !.rec = rec] \in Memories
      BY <1>0, <3>2 DEF Memories
    <3>4. "prepare" \in PCs
      BY DEF PCs
    <3>5. Holding(p, "prepare", [mem[p] EXCEPT !.rec = rec])
      BY <2>2 DEF Capture, rec
    <3>6. pc' \in [Procs -> PCs] /\ mem' \in [Procs -> Memories] /\ Ranges'
      BY <3>3, <3>4, <3>5, HoldingTypes
    <3> QED BY <1>0, <2>2, <3>1, <3>6 DEF Typed, TypeOK, Capture
  <2>3. CASE Fail(p)
    BY <2>3, FailTypes
  <2> QED BY <1>1, <2>1, <2>2, <2>3 DEF Activate
<1>2. CASE Prepare(p)
  <2>1. "stopping" \in PCs
    BY DEF PCs
  <2>2. pc' \in [Procs -> PCs] /\ mem' \in [Procs -> Memories] /\ Ranges'
    BY <1>2, <2>1, GotoTypes DEF Prepare
  <2> QED BY <1>0, <1>2, <2>2 DEF Typed, TypeOK, Prepare
<1>3. CASE WriteStopping(p)
  <2>1. "maintenance" \in PCs
    BY DEF PCs
  <2>2. pc' \in [Procs -> PCs] /\ mem' \in [Procs -> Memories] /\ Ranges'
    BY <1>3, <2>1, GotoTypes DEF WriteStopping
  <2> QED BY <1>0, <1>3, <2>2 DEF Typed, TypeOK, WriteStopping
<1>4. CASE WriteMaintenance(p)
  <2>1. "close" \in PCs
    BY DEF PCs
  <2>2. pc' \in [Procs -> PCs] /\ mem' \in [Procs -> Memories] /\ Ranges'
    BY <1>4, <2>1, GotoTypes DEF WriteMaintenance
  <2> QED BY <1>0, <1>4, <2>2 DEF Typed, TypeOK, WriteMaintenance
<1>5. CASE Close(p)
  <2>1. [mem[p].rec EXCEPT !.state = "active"] \in Cordons
    BY <1>0 DEF Cordons
  <2>2. [mem[p] EXCEPT !.rec.state = "active"] \in Memories
    BY <1>0, <2>1 DEF Memories
  <2>3. "admission" \in PCs
    BY DEF PCs
  <2>4. pc' \in [Procs -> PCs] /\ mem' \in [Procs -> Memories] /\ Ranges'
    BY <1>5, <2>2, <2>3, HoldingTypes DEF Close
  <2> QED BY <1>0, <1>5, <2>1, <2>4 DEF Typed, TypeOK, Close
<1>6. ASSUME Record(p, "admission", "admission", "cordon") \/ Record(p, "cordon", "cordon", "drain")
             \/ Record(p, "drain", "writer-drain", "terminate")
             \/ Record(p, "terminated", "legacy-supervisor-and-writers-terminated", "snapshot")
             \/ Record(p, "begun", "import-begun", "import")
      PROVE  Typed'
  <2>1. {"admission", "cordon", "drain", "terminate", "terminated", "snapshot", "begun", "import"}
          \subseteq PCs
    BY DEF PCs
  <2>2. {"admission", "cordon", "writer-drain", "legacy-supervisor-and-writers-terminated",
         "import-begun"} \subseteq PhaseOneSteps
    BY DEF PhaseOneSteps
  <2> QED BY <1>6, <2>1, <2>2, RecordStepTypes
<1>7. CASE Drain(p)
  BY <1>6, <1>7, FailTypes DEF Drain
<1>8. CASE Terminate(p)
  <2>1. "terminated" \in PCs
    BY DEF PCs
  <2>2. pc' \in [Procs -> PCs] /\ mem' \in [Procs -> Memories] /\ Ranges' /\ legacy' \in BOOLEAN
    BY <1>0, <1>8, <2>1, GotoTypes, StopTypes DEF Terminate, TypeOK
  <2> QED BY <1>0, <1>8, <2>2 DEF Typed, TypeOK, Terminate
<1>9. CASE Snapshot(p)
  <2>1. CASE SourceStable(mem[p].rec.src)
    <3>1. source \in Digests
      BY <1>0 DEF TypeOK
    <3>2. [mem[p] EXCEPT !.snap = source] \in Memories
      BY <1>0, <3>1 DEF Memories
    <3>3. "snapshots" \in PCs
      BY DEF PCs
    <3>4. Holding(p, "snapshots", [mem[p] EXCEPT !.snap = source]) /\ snapshots' = source
          /\ UNCHANGED <<control, log, bound, followups, authority, data, world, counts>>
      BY <1>9, <2>1 DEF Snapshot
    <3>5. pc' \in [Procs -> PCs] /\ mem' \in [Procs -> Memories] /\ Ranges'
      BY <3>2, <3>3, <3>4, HoldingTypes
    <3> QED BY <1>0, <3>1, <3>4, <3>5 DEF Typed, TypeOK
  <2>2. CASE ~SourceStable(mem[p].rec.src)
    BY <1>9, <2>2, FailTypes DEF Snapshot
  <2> QED BY <2>1, <2>2
<1>10. CASE RecordSnapshots(p)
  <2>1. CASE LogOpen(p)
    <3>1. "boundary" \in PCs /\ "snapshots" \in PhaseOneSteps
      BY DEF PCs, PhaseOneSteps
    <3>2. Appended(p, "snapshots", mem[p].snap) /\ Goto(p, "boundary")
          /\ UNCHANGED <<control, authority, data, world, counts>>
      BY <1>10, <2>1 DEF RecordSnapshots
    <3>3. log' \in Logs /\ pc' \in [Procs -> PCs] /\ mem' \in [Procs -> Memories] /\ Ranges'
      BY <1>0, <3>1, <3>2, RecordTypes, GotoTypes
    <3> QED BY <1>0, <3>2, <3>3 DEF Typed, TypeOK, Appended
  <2>2. CASE ~LogOpen(p)
    BY <1>10, <2>2, FailTypes DEF RecordSnapshots
  <2> QED BY <2>1, <2>2
<1>11. CASE Boundary(p)
  <2>1. CASE cordon.state = "active"
    <3>1. [mem[p] EXCEPT !.read = cordon] \in Memories
      BY <1>0 DEF Memories
    <3>2. "begin" \in PCs
      BY DEF PCs
    <3>3. Holding(p, "begin", [mem[p] EXCEPT !.read = cordon]) /\ Quiet
      BY <1>11, <2>1 DEF Boundary
    <3>4. pc' \in [Procs -> PCs] /\ mem' \in [Procs -> Memories] /\ Ranges'
      BY <3>1, <3>2, <3>3, HoldingTypes
    <3> QED BY <1>0, <3>3, <3>4 DEF Typed, TypeOK, Quiet
  <2>2. CASE cordon.state # "active"
    BY <1>11, <2>2, FailTypes DEF Boundary
  <2> QED BY <2>1, <2>2
<1>12. CASE Begin(p)
  <2>1. [mem[p] EXCEPT !.at = 1] \in Memories
    BY <1>0 DEF Memories
  <2>2. "begun" \in PCs
    BY DEF PCs
  <2>3. pc' \in [Procs -> PCs] /\ mem' \in [Procs -> Memories] /\ Ranges'
    BY <1>12, <2>1, <2>2, HoldingTypes DEF Begin
  <2>4. [mem[p].read EXCEPT !.begun = TRUE] \in Cordons
    BY <1>0 DEF Cordons
  <2>5. cordon' \in Cordons
    BY <1>0, <1>12, <2>4 DEF Begin
  <2> QED BY <1>0, <1>12, <2>3, <2>5 DEF Typed, TypeOK, Begin
<1> QED BY <1>1, <1>2, <1>3, <1>4, <1>5, <1>6, <1>7, <1>8, <1>9, <1>10, <1>11, <1>12 DEF Opening

(* A step that moves a command on, goes to no follow-up step, and keeps    *)
(* all files.                                                              *)
LEMMA QuietTypes ==
    ASSUME Typed, NEW p \in Procs, Quiet,
           pc' \in [Procs -> PCs] /\ mem' \in [Procs -> Memories] /\ Ranges'
    PROVE  Typed'
BY DEF Typed, TypeOK, Quiet, control, evidence, authority, data, world, counts

LEMMA EnsureTypes ==
    ASSUME Typed, NEW p \in Procs, NEW l \in PCs, NEW next \in PCs, NEW step \in PhaseOneSteps,
           next \notin {"follow", "start", "observe"}, Ensure(p, l, step, next)
    PROVE  Typed'
<1>1. CASE Record(p, l, step, next)
  BY <1>1, RecordStepTypes
<1>2. CASE Goto(p, next) /\ Quiet
  BY <1>2, GotoTypes, QuietTypes
<1> QED BY <1>1, <1>2 DEF Ensure

LEMMA ImportingTypes ==
    ASSUME Typed, NEW p \in Procs, Importing(p)
    PROVE  Typed'
<1> USE DEF control, evidence, authority, data, world, counts
<1>0. /\ TypeOK /\ mem[p] \in Memories /\ mem[p].rec \in Cordons /\ mem[p].snap \in Digests
      /\ mem[p].log \in Logs /\ mem[p].at \in Nat /\ mem[p].at + 1 \in Nat
      /\ cordon \in Cordons /\ log \in Logs /\ log.snap \in Digests
  BY DEF Typed, TypeOK, Memories, Logs
<1>1. {"import", "mark", "imports", "project", "lock", "commit", "conflict", "unlock", "verify"}
        \subseteq PCs
  BY DEF PCs
<1>2. CASE Recover(p)
  <2> DEFINE m == [mem[p] EXCEPT !.rec = cordon, !.snap = log.snap, !.at = 1]
  <2>1. m \in Memories
    BY <1>0 DEF Memories
  <2> HIDE DEF m
  <2>2. CASE \E l \in {"verify", "import"} : Holding(p, l, m) /\ Quiet
    BY <1>1, <2>1, <2>2, HoldingTypes, QuietTypes
  <2>3. CASE Fail(p)
    BY <2>3, FailTypes
  <2> QED BY <1>2, <2>2, <2>3 DEF Recover, m
<1>3. CASE Import(p)
  <2> DEFINE s == mem[p].at
  <2>1. CASE Quiet /\ (Goto(p, "imports") \/ GotoAt(p, "import", s + 1))
    BY <1>0, <1>1, <2>1, GotoTypes, GotoAtTypes, QuietTypes
  <2>2. CASE Fail(p)
    BY <2>2, FailTypes
  <2>3. CASE /\ target' = [target EXCEPT ![s] = mem[p].snap[s]] /\ s \in Stores
             /\ Goto(p, "mark")
             /\ UNCHANGED <<source, marker, control, evidence, authority, world, counts>>
    <3>1. target' \in Digests
      BY <1>0, <2>3 DEF Digests, TypeOK
    <3>2. pc' \in [Procs -> PCs] /\ mem' \in [Procs -> Memories] /\ Ranges'
      BY <1>1, <2>3, GotoTypes
    <3> QED BY <1>0, <2>3, <3>1, <3>2 DEF Typed, TypeOK
  <2> QED BY <1>3, <2>1, <2>2, <2>3 DEF Import
<1>4. CASE Mark(p)
  <2> DEFINE s == mem[p].at
  <2>1. CASE /\ marker' = [marker EXCEPT ![s] = Identity(p, s)] /\ s \in Stores
             /\ GotoAt(p, "import", s + 1)
             /\ UNCHANGED <<source, target, control, evidence, authority, world, counts>>
    <3>1. Identity(p, s) \in [nonce : Nonces, content : Contents]
      BY <1>0, <2>1 DEF Identity, Nonce, Cordons, Digests
    <3>2. marker' \in [Stores -> [nonce : Nonces, content : Contents]]
      BY <1>0, <2>1, <3>1 DEF TypeOK
    <3>3. pc' \in [Procs -> PCs] /\ mem' \in [Procs -> Memories] /\ Ranges'
      BY <1>0, <1>1, <2>1, GotoAtTypes
    <3> QED BY <1>0, <2>1, <3>2, <3>3 DEF Typed, TypeOK
  <2>2. CASE /\ marker' = [marker EXCEPT ![s] = Identity(p, s)] /\ s \notin Stores
             /\ GotoAt(p, "import", s + 1)
             /\ UNCHANGED <<source, target, control, evidence, authority, world, counts>>
    <3>1. marker' = marker
      BY <1>0, <2>2 DEF TypeOK
    <3>3. pc' \in [Procs -> PCs] /\ mem' \in [Procs -> Memories] /\ Ranges'
      BY <1>0, <1>1, <2>2, GotoAtTypes
    <3> QED BY <1>0, <2>2, <3>1, <3>3 DEF Typed, TypeOK
  <2>3. CASE Fail(p)
    BY <2>3, FailTypes
  <2> QED BY <1>4, <2>1, <2>2, <2>3 DEF Mark
<1>5. CASE RecordImports(p)
  <2>1. "imports" \in PhaseOneSteps
    BY DEF PhaseOneSteps
  <2> QED BY <1>1, <1>5, <2>1, EnsureTypes, FailTypes DEF RecordImports
<1>6. CASE Ensure(p, "project", "registry-projected", "lock")
  <2>1. "registry-projected" \in PhaseOneSteps
    BY DEF PhaseOneSteps
  <2> QED BY <1>1, <1>6, <2>1, EnsureTypes
<1>7. CASE Lock(p)
  <2>1. CASE Fail(p)
    BY <2>1, FailTypes
  <2>2. CASE /\ lock' = TRUE
             /\ Holding(p, "commit", [mem[p] EXCEPT !.log = log])
             /\ UNCHANGED <<epoch, control, evidence, data, world, counts>>
    <3>1. [mem[p] EXCEPT !.log = log] \in Memories
      BY <1>0 DEF Memories
    <3>2. pc' \in [Procs -> PCs] /\ mem' \in [Procs -> Memories] /\ Ranges'
      BY <1>1, <2>2, <3>1, HoldingTypes
    <3> QED BY <1>0, <2>2, <3>2 DEF Typed, TypeOK
  <2> QED BY <1>7, <2>1, <2>2 DEF Lock
<1>8. CASE Commit(p)
  <2>1. pc' \in [Procs -> PCs] /\ mem' \in [Procs -> Memories] /\ Ranges'
    BY <1>1, <1>8, GotoTypes DEF Commit
  <2>2. epoch' \in Epochs
    BY <1>0, <1>8 DEF Commit, TypeOK, Epochs, Nonce, Cordons
  <2> QED BY <1>0, <1>8, <2>1, <2>2 DEF Typed, TypeOK, Commit
<1>9. CASE Unlock(p)
  <2>1. pc' \in [Procs -> PCs] /\ mem' \in [Procs -> Memories] /\ Ranges'
    BY <1>1, <1>9, GotoTypes, StopTypes DEF Unlock
  <2> QED BY <1>0, <1>9, <2>1 DEF Typed, TypeOK, Unlock
<1> QED BY <1>2, <1>3, <1>4, <1>5, <1>6, <1>7, <1>8, <1>9 DEF Importing

LEMMA AfterFollowupTypes ==
    ASSUME Typed, NEW p \in Procs, AfterFollowup(p), pc[p] = "follow"
    PROVE  pc' \in [Procs -> PCs] /\ mem' \in [Procs -> Memories] /\ Ranges'
<1>1. mem[p].at \in 1 .. 7 /\ {"start", "observe", "follow"} \subseteq PCs
  BY DEF Typed, Ranges, AllFollowups, PCs
<1>2. mem[p].at # 7 => mem[p].at + 1 \in 1 .. AllFollowups
  BY <1>1 DEF AllFollowups
<1>3. CASE mem[p].at = 1
  BY <1>1, <1>3, GotoAtTypes DEF AfterFollowup, AllFollowups
<1>4. CASE mem[p].at = 5
  BY <1>1, <1>4, GotoAtTypes DEF AfterFollowup, AllFollowups
<1>5. CASE mem[p].at = 7
  BY <1>5, StopTypes DEF AfterFollowup, AllFollowups
<1>6. CASE mem[p].at \notin {1, 5, 7}
  <2>1. GotoAt(p, "follow", mem[p].at + 1)
    BY <1>6 DEF AfterFollowup, AllFollowups
  <2> QED BY <1>1, <1>2, <1>6, <2>1, GotoAtTypes
<1> QED BY <1>3, <1>4, <1>5, <1>6

LEMMA FinishingTypes ==
    ASSUME Typed, NEW p \in Procs, Finishing(p)
    PROVE  Typed'
<1> USE DEF control, evidence, authority, data, world, counts
<1>0. /\ TypeOK /\ mem[p] \in Memories /\ mem[p].at \in Nat /\ mem[p].at + 1 \in Nat
      /\ source \in Digests
  BY DEF Typed, TypeOK, Memories
<1>1. {"bind", "retire", "remove", "follow", "start", "observe"} \subseteq PCs
      /\ 1 \in 1 .. AllFollowups
  BY DEF PCs, AllFollowups
<1>2. CASE Verify(p)
  <2>1. CASE Goto(p, "bind") /\ Quiet
    BY <1>1, <2>1, GotoTypes, QuietTypes
  <2> QED BY <1>2, <2>1, FailTypes DEF Verify
<1>3. CASE Bind(p)
  <2>1. pc' \in [Procs -> PCs] /\ mem' \in [Procs -> Memories] /\ Ranges'
    BY <1>1, <1>3, GotoAtTypes DEF Bind
  <2> QED BY <1>0, <1>3, <2>1 DEF Typed, TypeOK, Bind
<1>4. \A s \in Stores, v \in {0, Torn} : [source EXCEPT ![s] = v] \in Digests
  BY <1>0, Consts DEF Digests
<1>5. CASE Retire(p)
  <2> DEFINE s == mem[p].at
  <2>1. CASE Quiet /\ (GotoAt(p, "follow", 1) \/ GotoAt(p, "retire", s + 1))
    BY <1>0, <1>1, <2>1, GotoAtTypes, QuietTypes
  <2>2. CASE Fail(p)
    BY <2>2, FailTypes
  <2>3. CASE /\ \/ source' = [source EXCEPT ![s] = Torn] /\ Goto(p, "remove")
                \/ source' = [source EXCEPT ![s] = 0] /\ GotoAt(p, "retire", s + 1)
             /\ s \in Stores
             /\ UNCHANGED <<target, marker, control, evidence, authority, world, counts>>
    <3>1. source' \in Digests
      BY <1>4, <2>3
    <3>2. pc' \in [Procs -> PCs] /\ mem' \in [Procs -> Memories] /\ Ranges'
      BY <1>0, <1>1, <2>3, GotoTypes, GotoAtTypes
    <3> QED BY <1>0, <2>3, <3>1, <3>2 DEF Typed, TypeOK
  <2> QED BY <1>5, <2>1, <2>2, <2>3 DEF Retire
<1>6. CASE Remove(p)
  <2>1. source' \in Digests
    BY <1>0, <1>6, Consts DEF Remove, Digests
  <2>2. pc' \in [Procs -> PCs] /\ mem' \in [Procs -> Memories] /\ Ranges'
    BY <1>0, <1>1, <1>6, GotoAtTypes DEF Remove
  <2> QED BY <1>0, <1>6, <2>1, <2>2 DEF Typed, TypeOK, Remove
<1>7. CASE Follow(p)
  <2>1. CASE Fail(p)
    BY <2>1, FailTypes
  <2>2. CASE /\ followups' = IF followups < mem[p].at THEN mem[p].at ELSE followups
             /\ AfterFollowup(p) /\ pc[p] = "follow"
             /\ UNCHANGED <<control, log, snapshots, bound, authority, data, world, counts>>
    <3>1. mem[p].at \in 0 .. AllFollowups
      BY <2>2 DEF Typed, Ranges, AllFollowups
    <3>2. followups' \in 0 .. AllFollowups
      BY <1>0, <2>2, <3>1 DEF TypeOK
    <3>3. pc' \in [Procs -> PCs] /\ mem' \in [Procs -> Memories] /\ Ranges'
      BY <2>2, AfterFollowupTypes
    <3> QED BY <1>0, <2>2, <3>2, <3>3 DEF Typed, TypeOK
  <2> QED BY <1>7, <2>1, <2>2 DEF Follow
<1>8. CASE StartSupervisor(p)
  <2>1. supervisor' \in BOOLEAN
    BY <1>0, <1>8 DEF StartSupervisor, TypeOK
  <2>2. pc[p] = "start" /\ mem[p].at = 2
    BY <1>8 DEF StartSupervisor, Typed, Ranges
  <2>3. Goto(p, "follow") \/ Stop(p)
    BY <1>8 DEF StartSupervisor
  <2>4. pc' \in [Procs -> PCs] /\ mem' \in [Procs -> Memories] /\ Ranges'
    <3>1. CASE Stop(p)
      BY <3>1, StopTypes
    <3>2. CASE Goto(p, "follow")
      BY <1>1, <2>2, <3>2 DEF Goto, Typed, TypeOK, Ranges, AllFollowups
    <3> QED BY <2>3, <3>1, <3>2
  <2> QED BY <1>0, <1>8, <2>1, <2>4 DEF Typed, TypeOK, StartSupervisor
<1>9. CASE Observe(p)
  <2>1. CASE Goto(p, "follow") /\ Quiet
    <3>1. mem[p].at = 6
      BY <1>9 DEF Observe, Typed, Ranges
    <3>2. pc' \in [Procs -> PCs] /\ mem' \in [Procs -> Memories] /\ Ranges'
      BY <1>1, <2>1, <3>1 DEF Goto, Typed, TypeOK, Ranges, AllFollowups
    <3> QED BY <2>1, <3>2, QuietTypes
  <2> QED BY <1>9, <2>1, FailTypes DEF Observe
<1> QED BY <1>2, <1>3, <1>5, <1>6, <1>7, <1>8, <1>9 DEF Finishing

LEMMA RollingBackTypes ==
    ASSUME Typed, NEW p \in Procs, RollingBack(p)
    PROVE  Typed'
<1> USE DEF control, evidence, authority, data, world, counts
<1>0. TypeOK /\ {"releaseMaintenance", "releaseStopping", "abandon"} \subseteq PCs
  BY DEF Typed, PCs
<1>1. CASE Rollback(p)
  <2>1. CASE Goto(p, "releaseMaintenance") /\ Quiet
    BY <1>0, <2>1, GotoTypes, QuietTypes
  <2> QED BY <1>1, <2>1, FailTypes DEF Rollback
<1>2. CASE ReleaseMaintenance(p)
  <2>1. pc' \in [Procs -> PCs] /\ mem' \in [Procs -> Memories] /\ Ranges'
    BY <1>0, <1>2, GotoTypes DEF ReleaseMaintenance
  <2> QED BY <1>0, <1>2, <2>1 DEF Typed, TypeOK, ReleaseMaintenance
<1>3. CASE ReleaseStopping(p)
  <2>1. pc' \in [Procs -> PCs] /\ mem' \in [Procs -> Memories] /\ Ranges'
    BY <1>0, <1>3, GotoTypes DEF ReleaseStopping
  <2> QED BY <1>0, <1>3, <2>1 DEF Typed, TypeOK, ReleaseStopping
<1>4. CASE Abandon(p)
  <2>1. pc' \in [Procs -> PCs] /\ mem' \in [Procs -> Memories] /\ Ranges'
    BY <1>4, StopTypes DEF Abandon
  <2> QED BY <1>0, <1>4, <2>1, Consts DEF Typed, TypeOK, Abandon
<1> QED BY <1>1, <1>2, <1>3, <1>4 DEF RollingBack

LEMMA StartTypes ==
    ASSUME Typed, NEW p \in Procs, NEW c \in Commands, Start(p, c)
    PROVE  Typed'
<1>1. [NoMemory EXCEPT !.cmd = c] \in Memories
  BY Consts DEF Memories
<1>2. c \in PCs /\ c \notin {"follow", "start", "observe"}
  BY DEF Commands, PCs
<1>3. pc' \in [Procs -> PCs] /\ mem' \in [Procs -> Memories] /\ Ranges'
  BY <1>1, <1>2, HoldingTypes DEF Start
<1> QED BY <1>3, QuietTypes DEF Start

LEMMA CrashTypes ==
    ASSUME Typed, NEW p \in Procs, Crash(p)
    PROVE  Typed'
<1> USE DEF control, evidence, authority, data, world, counts
<1>1. pc' \in [Procs -> PCs] /\ mem' \in [Procs -> Memories] /\ Ranges'
  BY StopTypes DEF Crash
<1>2. crashes' \in 0 .. MaxCrashes
  BY CutoverAssumption DEF Crash, Typed, TypeOK
<1> QED BY <1>1, <1>2 DEF Typed, TypeOK, Crash

LEMMA WorldTypes ==
    ASSUME Typed, World
    PROVE  Typed'
<1> USE DEF control, evidence, authority, data, world, counts
<1>0. TypeOK /\ source \in Digests /\ target \in Digests
  BY DEF Typed, TypeOK
<1>1. CASE LegacyStart
  BY <1>1 DEF LegacyStart, Typed, TypeOK, Ranges
<1>2. CASE SupervisorDies
  <2>1. crashes' \in 0 .. MaxCrashes
    BY <1>0, <1>2, CutoverAssumption DEF SupervisorDies, TypeOK
  <2> QED BY <1>2, <2>1 DEF SupervisorDies, Typed, TypeOK, Ranges
<1>3. ASSUME NEW s \in Stores, LegacyWrite(s) PROVE Typed'
  <2>1. source[s] + 1 \in Contents
    BY <1>0, <1>3, CutoverAssumption DEF LegacyWrite, Digests, Contents, Torn
  <2>2. source' \in Digests
    BY <1>0, <1>3, <2>1 DEF LegacyWrite, Digests
  <2> QED BY <1>3, <2>2 DEF LegacyWrite, Typed, TypeOK, Ranges
<1>4. ASSUME NEW s \in Stores, SupervisorWrite(s) PROVE Typed'
  <2>1. target' \in Digests
    BY <1>0, <1>4, Consts DEF SupervisorWrite, Digests
  <2> QED BY <1>4, <2>1 DEF SupervisorWrite, Typed, TypeOK, Ranges
<1> QED BY <1>1, <1>2, <1>3, <1>4 DEF World

LEMMA InitTypes == Init => Typed
<1> SUFFICES ASSUME Init PROVE Typed
  OBVIOUS
<1>1. source \in Digests
  <2>1. 0 .. 1 \subseteq Contents
    BY CutoverAssumption DEF Contents, Torn
  <2> QED BY <2>1 DEF Init, Digests
<1>2. marker \in [Stores -> [nonce : Nonces, content : Contents]]
  BY Consts DEF Init, NoMarker
<1>3. 0 \in 0 .. MaxCrashes /\ 0 \in 0 .. AllFollowups
  BY CutoverAssumption DEF AllFollowups
<1> QED BY <1>1, <1>2, <1>3, Consts DEF Init, Typed, TypeOK, Ranges

LEMMA NextTypes == Typed /\ [Next]_vars => Typed'
<1> SUFFICES ASSUME Typed, [Next]_vars PROVE Typed'
  OBVIOUS
<1>1. ASSUME NEW p \in Procs, Step(p) PROVE Typed'
  BY <1>1, OpeningTypes, ImportingTypes, FinishingTypes, RollingBackTypes DEF Step
<1>2. CASE UNCHANGED vars
  BY <1>2 DEF vars, Typed, TypeOK, Ranges, control, evidence, authority, data, world, counts
<1> QED BY <1>1, <1>2, StartTypes, CrashTypes, WorldTypes DEF Next

(* Files and memories have their types, a follow-up step is one of those   *)
(* that are required, and a store is a content or absent, for any number   *)
(* of commands at a time (activateCutover, recoverCommittedCutover).       *)
THEOREM TypeCorrect == Spec => []TypeOK
<1>1. Typed => TypeOK
  BY DEF Typed
<1> QED BY <1>1, InitTypes, NextTypes, PTL DEF Spec

-----------------------------------------------------------------------------
(* Safety, for commands that run one at a time. *)

OneAtATime == \A p, q \in Procs : p = q

(* Behind the boundary the barrier is up, the old installation down, and   *)
(* the log that of the cordon's transaction.                               *)
Barred == cordon.begun =>
    /\ cordon.state = "active" /\ cordon.nonce > 0
    /\ stopping /\ maintenance /\ ~legacy
    /\ log.nonce = cordon.nonce

(* Between the boundary and the commit the logged snapshots are the        *)
(* sources, and after it no source reappears.                              *)
Kept ==
    /\ cordon.begun /\ ~Committed => log.snap = source
    /\ Committed => \A s \in Opaque : log.snap[s] = 0 => source[s] = 0

Served == supervisor => Committed
Numbered == cordon.state # "absent" => cordon.nonce > 0

Files == NothingBeforeBoundary /\ EvidenceTrue /\ Barred /\ Kept /\ Served /\ Numbered

(* Where a command is, and what it knows there: up to the boundary, ...    *)
Closing == {"admission", "cordon", "drain", "terminate", "terminated", "snapshot", "snapshots",
            "boundary", "begin"}
Drained == {"terminated", "snapshot", "snapshots", "boundary", "begin"}

Opened(p) ==
    /\ pc[p] = "prepare" => /\ cordon.state = "absent" /\ ~mem[p].rec.begun
                            /\ mem[p].rec.state = "preparing" /\ mem[p].rec.nonce > 0
    /\ pc[p] \in {"prepare", "stopping", "maintenance", "close"} \cup Closing => ~cordon.begun
    /\ pc[p] \in {"stopping", "maintenance", "close"} =>
         cordon = mem[p].rec /\ cordon.state = "preparing"
    /\ pc[p] \in {"maintenance", "close"} \cup Closing => stopping
    /\ pc[p] \in {"close"} \cup Closing => maintenance
    /\ pc[p] \in Closing => cordon = mem[p].rec /\ cordon.state = "active"
    /\ pc[p] \in Drained => ~legacy
    /\ pc[p] \in {"snapshots", "boundary", "begin"} => mem[p].snap = source
    /\ pc[p] \in {"boundary", "begin"} => log.nonce = cordon.nonce /\ log.snap = source
    /\ pc[p] = "begin" => mem[p].read = cordon

(* ... up to the commit, ...                                               *)
Importers == {"begun", "import", "mark", "imports", "project", "lock", "commit"}

Resumed(p) ==
    /\ pc[p] \in Importers => /\ cordon.begun /\ ~Committed
                              /\ mem[p].rec.nonce = cordon.nonce /\ mem[p].snap = source
    /\ pc[p] \in {"begun", "import", "mark"} =>
         mem[p].at > 0 /\ \A s \in Stores : s < mem[p].at => target[s] = mem[p].snap[s]
    /\ pc[p] = "mark" => mem[p].at \in Stores
    /\ pc[p] \in {"imports", "project", "lock", "commit"} => target = source
    /\ pc[p] = "commit" => mem[p].log = log

(* ... after it, and on the way back.                                      *)
Finishers == {"unlock", "verify", "bind", "retire", "remove", "follow", "start", "observe"}
Releasing == {"releaseMaintenance", "releaseStopping", "abandon"}

Finished(p) ==
    /\ pc[p] \in Finishers => Committed /\ mem[p].snap = log.snap
    /\ pc[p] \in {"retire", "remove", "follow", "start", "observe"} => bound
    /\ pc[p] \in {"retire", "remove"} =>
         mem[p].at > 0 /\ \A s \in Opaque : s < mem[p].at => source[s] = 0
    /\ pc[p] = "remove" => mem[p].snap[mem[p].at] # 0
    /\ pc[p] \in {"follow", "start", "observe"} => \A s \in Opaque : source[s] = 0

Undone(p) == pc[p] \in Releasing => ~cordon.begun

Place(p) == Opened(p) /\ Resumed(p) /\ Finished(p) /\ Undone(p)

IInv == Typed /\ Files /\ \A p \in Procs : Place(p)

-----------------------------------------------------------------------------
(* What the steps of a command do to its place and memory. *)

LEMMA Moves ==
    ASSUME Typed, NEW p \in Procs
    PROVE  /\ \A l : Goto(p, l) => pc'[p] = l /\ mem'[p] = mem[p]
           /\ \A l, i : GotoAt(p, l, i) =>
                /\ pc'[p] = l /\ mem'[p].at = i
                /\ mem'[p].snap = mem[p].snap /\ mem'[p].rec = mem[p].rec
                /\ mem'[p].log = mem[p].log /\ mem'[p].cmd = mem[p].cmd
           /\ \A l, m : Holding(p, l, m) => pc'[p] = l /\ mem'[p] = m
           /\ Stop(p) => pc'[p] = "idle"
BY DEF Typed, TypeOK, Memories, Goto, GotoAt, Holding, Stop

(* A command that has ended knows nothing.                                 *)
LEMMA StopPlace ==
    ASSUME Typed, NEW p \in Procs, Stop(p)
    PROVE  Place(p)'
<1>1. pc'[p] = "idle"
  BY Moves
<1> QED
  BY <1>1 DEF Place, Opened, Resumed, Finished, Undone, Closing, Drained, Importers, Finishers,
              Releasing

LEMMA FilesUnchanged ==
    ASSUME Files, UNCHANGED <<control, evidence, authority, data, world>>
    PROVE  Files'
BY DEF Files, NothingBeforeBoundary, EvidenceTrue, Barred, Kept, Served, Numbered, Committed,
       control, evidence, authority, data, world

LEMMA FailSafe ==
    ASSUME IInv, NEW p \in Procs, Fail(p)
    PROVE  Files' /\ Place(p)'
BY StopPlace, FilesUnchanged DEF Fail, Quiet, IInv

(* A record of the phase-one log, made before the commit by a command of   *)
(* the cordon's transaction: what it can disturb is the nonce and the      *)
(* snapshots in the log.                                                   *)
LEMMA AppendedFiles ==
    ASSUME Files, NEW p \in Procs, NEW step, NEW snap, Appended(p, step, snap),
           UNCHANGED <<control, authority, data, world>>,
           ~Committed, cordon.begun => Nonce(p) = cordon.nonce /\ snap = log.snap
    PROVE  Files' /\ log'.nonce = Nonce(p) /\ log'.snap = snap
BY DEF Files, NothingBeforeBoundary, EvidenceTrue, Barred, Kept, Served, Numbered, Committed,
       Appended, control, evidence, authority, data, world

(* The places between which a command records a step. *)
Recording == {<<"admission", "cordon">>, <<"cordon", "drain">>, <<"drain", "terminate">>,
              <<"terminated", "snapshot">>, <<"begun", "import">>, <<"imports", "project">>,
              <<"project", "lock">>}

LEMMA RecordSafe ==
    ASSUME IInv, NEW p \in Procs, NEW l, NEW step, NEW next, Record(p, l, step, next),
           <<l, next>> \in Recording
    PROVE  Files' /\ Place(p)'
<1> USE DEF control, evidence, authority, data, world, counts, Committed
<1>0. Typed /\ Files /\ Place(p) /\ NothingBeforeBoundary
  BY DEF IInv, Files
<1>1. CASE ~LogOpen(p)
  BY <1>1, FailSafe DEF Record
<1>2. CASE LogOpen(p)
  <2>1. /\ Appended(p, step, log.snap) /\ Goto(p, next) /\ pc[p] = l
        /\ UNCHANGED <<control, authority, data, world, counts>>
    BY <1>2 DEF Record
  <2>2. pc'[p] = next /\ mem'[p] = mem[p]
    BY <1>0, <2>1, Moves
  <2>3. ~Committed /\ (cordon.begun => Nonce(p) = cordon.nonce)
    BY <1>0, <2>1 DEF Recording, Place, Opened, Resumed, Closing, Importers,
                      NothingBeforeBoundary, Nonce
  <2>4. Files' /\ log'.nonce = Nonce(p) /\ log'.snap = log.snap
    BY <1>0, <2>1, <2>3, AppendedFiles
  <2>5. Place(p)'
    BY <1>0, <2>1, <2>2, <2>4
       DEF Recording, Place, Opened, Resumed, Finished, Undone, Closing, Drained, Importers,
           Finishers, Releasing
  <2> QED BY <2>4, <2>5
<1> QED BY <1>1, <1>2

LEMMA OpeningSafe ==
    ASSUME IInv, NEW p \in Procs, Opening(p)
    PROVE  Files' /\ Place(p)'
<1> USE DEF control, evidence, authority, data, world, counts, Committed
<1>0. /\ Typed /\ Files /\ Place(p) /\ NothingBeforeBoundary
      /\ mem[p] \in Memories /\ mem[p].rec \in Cordons
  BY DEF IInv, Typed, TypeOK, Memories, Files
<1>1. CASE Activate(p)
  <2>1. CASE Resume(p) /\ UNCHANGED <<control, evidence, authority, data, world, crashes>>
    <3>1. pc'[p] = "stopping" /\ mem'[p] = [mem[p] EXCEPT !.rec = cordon]
      BY <1>0, <2>1, Moves DEF Resume
    <3>2. mem'[p].rec = cordon
      BY <1>0, <3>1 DEF Memories
    <3>3. Place(p)'
      <4>1. ~cordon.begun
        BY <1>0, <2>1 DEF Files, Barred, Resume
      <4> QED BY <2>1, <3>1, <3>2, <4>1
              DEF Resume, Place, Opened, Resumed, Finished, Undone, Closing, Drained, Importers,
                  Finishers, Releasing
    <3> QED BY <1>0, <2>1, <3>3, FilesUnchanged
  <2>2. CASE Capture(p) /\ UNCHANGED <<control, evidence, authority, data, world, crashes>>
    <3>1. /\ pc'[p] = "prepare" /\ mem'[p].rec.state = "preparing" /\ ~mem'[p].rec.begun
          /\ mem'[p].rec.nonce = nonces + 1
      BY <1>0, <2>2, Moves DEF Capture, Memories
    <3>2. nonces + 1 > 0
      BY <1>0, CutoverAssumption DEF Typed, TypeOK, Nonces
    <3>3. cordon.state = "absent" /\ ~cordon.begun
      BY <1>0, <2>2 DEF Capture, Fresh, Files, Barred
    <3>4. Place(p)'
      BY <2>2, <3>1, <3>2, <3>3
         DEF Place, Opened, Resumed, Finished, Undone, Closing, Drained, Importers,
             Finishers, Releasing
    <3> QED BY <1>0, <2>2, <3>4, FilesUnchanged
  <2>3. CASE Fail(p)
    BY <2>3, FailSafe
  <2> QED BY <1>1, <2>1, <2>2, <2>3 DEF Activate
<1>2. CASE Prepare(p)
  <2>1. pc'[p] = "stopping" /\ mem'[p] = mem[p] /\ cordon' = mem[p].rec
    BY <1>0, <1>2, Moves DEF Prepare
  <2>2. ~cordon.begun /\ ~mem[p].rec.begun /\ mem[p].rec.state = "preparing"
        /\ mem[p].rec.nonce > 0
    BY <1>0, <1>2 DEF Prepare, Place, Opened
  <2>3. Files'
    BY <1>0, <1>2, <2>1, <2>2 DEF Prepare, Files, NothingBeforeBoundary, EvidenceTrue, Barred,
       Kept, Served, Numbered
  <2>4. Place(p)'
    BY <2>1, <2>2
       DEF Place, Opened, Resumed, Finished, Undone, Closing, Drained, Importers,
           Finishers, Releasing
  <2> QED BY <2>3, <2>4
<1>3. CASE WriteStopping(p)
  <2>1. pc'[p] = "maintenance" /\ mem'[p] = mem[p] /\ cordon' = cordon /\ stopping'
    BY <1>0, <1>3, Moves DEF WriteStopping
  <2>2. ~cordon.begun /\ cordon = mem[p].rec /\ cordon.state = "preparing"
    BY <1>0, <1>3 DEF WriteStopping, Place, Opened
  <2>3. Files'
    BY <1>0, <1>3, <2>1, <2>2 DEF WriteStopping, Files, NothingBeforeBoundary, EvidenceTrue,
       Barred, Kept, Served, Numbered
  <2>4. Place(p)'
    BY <2>1, <2>2
       DEF Place, Opened, Resumed, Finished, Undone, Closing, Drained, Importers,
           Finishers, Releasing
  <2> QED BY <2>3, <2>4
<1>4. CASE WriteMaintenance(p)
  <2>1. pc'[p] = "close" /\ mem'[p] = mem[p] /\ cordon' = cordon /\ stopping' = stopping
        /\ maintenance'
    BY <1>0, <1>4, Moves DEF WriteMaintenance
  <2>2. ~cordon.begun /\ cordon = mem[p].rec /\ cordon.state = "preparing" /\ stopping
    BY <1>0, <1>4 DEF WriteMaintenance, Place, Opened
  <2>3. Files'
    BY <1>0, <1>4, <2>1, <2>2 DEF WriteMaintenance, Files, NothingBeforeBoundary, EvidenceTrue,
       Barred, Kept, Served, Numbered
  <2>4. Place(p)'
    BY <2>1, <2>2
       DEF Place, Opened, Resumed, Finished, Undone, Closing, Drained, Importers,
           Finishers, Releasing
  <2> QED BY <2>3, <2>4
<1>5. CASE Close(p)
  <2>1. /\ pc'[p] = "admission" /\ cordon' = [mem[p].rec EXCEPT !.state = "active"]
        /\ mem'[p] = [mem[p] EXCEPT !.rec.state = "active"]
        /\ stopping' = stopping /\ maintenance' = maintenance
    BY <1>0, <1>5, Moves DEF Close
  <2>2. ~cordon.begun /\ cordon = mem[p].rec /\ cordon.state = "preparing" /\ stopping
        /\ maintenance /\ cordon.nonce > 0
    BY <1>0, <1>5 DEF Close, Place, Opened, Files, Numbered
  <2>3. /\ cordon'.state = "active" /\ ~cordon'.begun /\ cordon'.nonce = cordon.nonce
        /\ mem'[p].rec = cordon'
    BY <1>0, <2>1, <2>2 DEF Cordons, Memories
  <2>4. Files'
    BY <1>0, <1>5, <2>2, <2>3 DEF Close, Files, NothingBeforeBoundary, EvidenceTrue,
       Barred, Kept, Served, Numbered
  <2>5. Place(p)'
    BY <2>1, <2>2, <2>3
       DEF Place, Opened, Resumed, Finished, Undone, Closing, Drained, Importers,
           Finishers, Releasing
  <2> QED BY <2>4, <2>5
<1>6. CASE Drain(p)
  BY <1>6, RecordSafe, FailSafe DEF Drain, Recording
<1>7. CASE Terminate(p)
  <2>1. /\ ~cordon.begun /\ cordon = mem[p].rec /\ cordon.state = "active"
        /\ stopping /\ maintenance
    BY <1>0, <1>7 DEF Terminate, Place, Opened, Closing
  <2>2. Files'
    BY <1>0, <1>7, <2>1 DEF Terminate, Files, NothingBeforeBoundary, EvidenceTrue,
       Barred, Kept, Served, Numbered
  <2>3. CASE Stop(p)
    BY <1>0, <2>2, <2>3, StopPlace
  <2>4. CASE legacy' = FALSE /\ Goto(p, "terminated")
    <3>1. pc'[p] = "terminated" /\ mem'[p] = mem[p]
      BY <1>0, <2>4, Moves
    <3>2. Place(p)'
      BY <1>7, <2>1, <2>4, <3>1
         DEF Terminate, Place, Opened, Resumed, Finished, Undone, Closing, Drained, Importers,
             Finishers, Releasing
    <3> QED BY <2>2, <3>2
  <2> QED BY <1>7, <2>3, <2>4 DEF Terminate
<1>8. CASE Snapshot(p)
  <2>1. CASE SourceStable(mem[p].rec.src)
    <3>1. /\ snapshots' = source /\ pc[p] = "snapshot"
          /\ Holding(p, "snapshots", [mem[p] EXCEPT !.snap = source])
          /\ UNCHANGED <<control, log, bound, followups, authority, data, world, counts>>
      BY <1>8, <2>1 DEF Snapshot
    <3>2. pc'[p] = "snapshots" /\ mem'[p].snap = source /\ mem'[p].rec = mem[p].rec
      BY <1>0, <3>1, Moves DEF Memories
    <3>3. Files'
      BY <1>0, <3>1 DEF Files, NothingBeforeBoundary, EvidenceTrue, Barred, Kept, Served, Numbered
    <3>4. Place(p)'
      BY <1>0, <3>1, <3>2
         DEF Place, Opened, Resumed, Finished, Undone, Closing, Drained, Importers,
             Finishers, Releasing
    <3> QED BY <3>3, <3>4
  <2>2. CASE ~SourceStable(mem[p].rec.src)
    BY <1>8, <2>2, FailSafe DEF Snapshot
  <2> QED BY <2>1, <2>2
<1>9. CASE RecordSnapshots(p)
  <2>1. CASE ~LogOpen(p)
    BY <1>9, <2>1, FailSafe DEF RecordSnapshots
  <2>2. CASE LogOpen(p)
    <3>1. /\ Appended(p, "snapshots", mem[p].snap) /\ Goto(p, "boundary") /\ pc[p] = "snapshots"
          /\ UNCHANGED <<control, authority, data, world, counts>>
      BY <1>9, <2>2 DEF RecordSnapshots
    <3>2. pc'[p] = "boundary" /\ mem'[p] = mem[p]
      BY <1>0, <3>1, Moves
    <3>3. ~Committed /\ ~cordon.begun
      BY <1>0, <3>1 DEF Place, Opened, Closing, NothingBeforeBoundary
    <3>4. Files' /\ log'.nonce = Nonce(p) /\ log'.snap = mem[p].snap
      BY <1>0, <3>1, <3>3, AppendedFiles
    <3>5. Place(p)'
      BY <1>0, <3>1, <3>2, <3>4
         DEF Place, Opened, Resumed, Finished, Undone, Closing, Drained, Importers,
             Finishers, Releasing, Nonce
    <3> QED BY <3>4, <3>5
  <2> QED BY <2>1, <2>2
<1>10. CASE Boundary(p)
  <2>1. CASE Holding(p, "begin", [mem[p] EXCEPT !.read = cordon]) /\ Quiet
    <3>1. /\ pc'[p] = "begin" /\ mem'[p].read = cordon /\ mem'[p].rec = mem[p].rec
          /\ mem'[p].snap = mem[p].snap
      BY <1>0, <2>1, Moves DEF Memories
    <3>2. Place(p)'
      BY <1>0, <1>10, <2>1, <3>1
         DEF Boundary, Quiet, Place, Opened, Resumed, Finished, Undone, Closing, Drained,
             Importers, Finishers, Releasing
    <3> QED BY <1>0, <2>1, <3>2, FilesUnchanged DEF Quiet
  <2>2. CASE Fail(p)
    BY <2>2, FailSafe
  <2> QED BY <1>10, <2>1, <2>2 DEF Boundary
<1>11. CASE Begin(p)
  <2>1. /\ pc'[p] = "begun" /\ mem'[p].at = 1 /\ mem'[p].rec = mem[p].rec
        /\ mem'[p].snap = mem[p].snap
    BY <1>0, <1>11, Moves DEF Begin, Memories
  <2>2. /\ ~cordon.begun /\ cordon.state = "active" /\ stopping /\ maintenance /\ ~legacy
        /\ cordon = mem[p].rec /\ mem[p].read = cordon /\ mem[p].snap = source
        /\ log.nonce = cordon.nonce /\ log.snap = source
        /\ ~Committed /\ cordon.nonce > 0
    BY <1>0, <1>11 DEF Begin, Place, Opened, Closing, Drained, NothingBeforeBoundary, Files,
                       Numbered
  <2>3. /\ cordon'.begun /\ cordon'.state = "active" /\ cordon'.nonce = cordon.nonce
    BY <1>0, <1>11, <2>2 DEF Begin, Cordons
  <2>4. Files'
    BY <1>0, <1>11, <2>2, <2>3 DEF Begin, Files, NothingBeforeBoundary, EvidenceTrue,
       Barred, Kept, Served, Numbered
  <2>5. \A s \in Stores : ~(s < 1)
    BY Consts DEF Stores
  <2>6. Place(p)'
    BY <1>11, <2>1, <2>2, <2>3, <2>5
       DEF Begin, Place, Opened, Resumed, Finished, Undone, Closing, Drained, Importers,
           Finishers, Releasing
  <2> QED BY <2>4, <2>6
<1>12. CASE Record(p, "admission", "admission", "cordon") \/ Record(p, "cordon", "cordon", "drain")
            \/ Record(p, "terminated", "legacy-supervisor-and-writers-terminated", "snapshot")
            \/ Record(p, "begun", "import-begun", "import")
  BY <1>12, RecordSafe DEF Recording
<1> QED BY <1>1, <1>2, <1>3, <1>4, <1>5, <1>6, <1>7, <1>8, <1>9, <1>10, <1>11, <1>12 DEF Opening

(* The stores up to n and the one after it. *)
LEMMA UpTo == \A i, n \in Nat : i < n + 1 => i < n \/ i = n
OBVIOUS

LEMMA EnsureSafe ==
    ASSUME IInv, NEW p \in Procs, NEW l, NEW step, NEW next, Ensure(p, l, step, next),
           <<l, next>> \in {<<"imports", "project">>, <<"project", "lock">>}
    PROVE  Files' /\ Place(p)'
<1>1. CASE Record(p, l, step, next)
  BY <1>1, RecordSafe DEF Recording
<1>2. CASE pc[p] = l /\ Goto(p, next) /\ Quiet
  <2>1. pc'[p] = next /\ mem'[p] = mem[p]
    BY <1>2, Moves DEF IInv
  <2>2. Place(p)'
    BY <1>2, <2>1
       DEF IInv, Quiet, Place, Opened, Resumed, Finished, Undone, Closing, Drained, Importers,
           Finishers, Releasing, control, evidence, authority, data, world, Committed
  <2> QED BY <1>2, <2>2, FilesUnchanged DEF Quiet, IInv
<1> QED BY <1>1, <1>2 DEF Ensure

(* Between the boundary and the commit a step of the import changes        *)
(* targets and markers only.                                               *)
LEMMA ImportFiles ==
    ASSUME Files, cordon.begun, ~Committed,
           UNCHANGED <<control, evidence, authority, source, world>>
    PROVE  Files'
BY DEF Files, NothingBeforeBoundary, EvidenceTrue, Barred, Kept, Served, Numbered, Committed,
       control, evidence, authority, world

LEMMA ImportingSafe ==
    ASSUME IInv, NEW p \in Procs, Importing(p)
    PROVE  Files' /\ Place(p)'
<1> USE DEF control, evidence, authority, data, world, counts, Committed
<1>0. /\ Typed /\ TypeOK /\ Files /\ Place(p) /\ NothingBeforeBoundary
      /\ mem[p] \in Memories /\ mem[p].rec \in Cordons /\ mem[p].at \in Nat
      /\ mem[p].snap \in Digests /\ target \in Digests /\ source \in Digests
      /\ Stores \subseteq Nat
  BY Consts DEF IInv, Typed, TypeOK, Memories, Files
<1>1. CASE Recover(p)
  <2>1. CASE /\ cordon.begun /\ (CanRepeat \/ CanResume)
             /\ Holding(p, IF Committed THEN "verify" ELSE "import",
                        [mem[p] EXCEPT !.rec = cordon, !.snap = log.snap, !.at = 1]) /\ Quiet
    <3>1. /\ pc'[p] = IF Committed THEN "verify" ELSE "import"
          /\ mem'[p].rec = cordon /\ mem'[p].snap = log.snap /\ mem'[p].at = 1
      <4> DEFINE m == [mem[p] EXCEPT !.rec = cordon, !.snap = log.snap, !.at = 1]
      <4>1. m.rec = cordon /\ m.snap = log.snap /\ m.at = 1
        BY <1>0 DEF Memories
      <4> HIDE DEF m
      <4>2. Holding(p, IF Committed THEN "verify" ELSE "import", m)
        BY <2>1 DEF m
      <4> QED BY <1>0, <4>1, <4>2, Moves
    <3>2. ~Committed => log.snap = source
      BY <1>0, <2>1 DEF Files, Kept
    <3>3. \A s \in Stores : ~(s < 1)
      BY Consts DEF Stores
    <3>4. CASE Committed
      BY <1>0, <2>1, <3>1, <3>4, FilesUnchanged
         DEF Quiet, Place, Opened, Resumed, Finished, Undone, Closing, Drained, Importers,
             Finishers, Releasing
    <3>5. CASE ~Committed
      BY <1>0, <2>1, <3>1, <3>2, <3>3, <3>5, FilesUnchanged
         DEF Quiet, Place, Opened, Resumed, Finished, Undone, Closing, Drained, Importers,
             Finishers, Releasing
    <3> QED BY <3>4, <3>5
  <2> QED BY <1>1, <2>1, FailSafe DEF Recover
<1>2. ASSUME pc[p] \in Importers
      PROVE  cordon.begun /\ ~Committed /\ mem[p].rec.nonce = cordon.nonce /\ mem[p].snap = source
  BY <1>0, <1>2 DEF Place, Resumed
<1>3. CASE Import(p)
  <2> DEFINE s == mem[p].at
  <2>0. /\ pc[p] = "import" /\ s > 0
        /\ cordon.begun /\ ~Committed /\ mem[p].rec.nonce = cordon.nonce /\ mem[p].snap = source
        /\ \A i \in Stores : i < s => target[i] = mem[p].snap[i]
    BY <1>0, <1>2, <1>3 DEF Import, Importers, Place, Resumed
  <2>1. CASE s \notin Stores /\ Goto(p, "imports") /\ Quiet
    <3>1. pc'[p] = "imports" /\ mem'[p] = mem[p]
      BY <1>0, <2>1, Moves
    <3>2. \A i \in Stores : i < s
      BY <1>0, <2>0, <2>1, CutoverAssumption DEF Stores
    <3>3. target = source
      <4>1. \A i \in Stores : target[i] = source[i]
        BY <2>0, <3>2
      <4>2. target \in [Stores -> Contents] /\ source \in [Stores -> Contents]
        BY <1>0 DEF Digests
      <4> QED BY <4>1, <4>2
    <3>4. Place(p)'
      BY <2>0, <2>1, <3>1, <3>3
         DEF Quiet, Place, Opened, Resumed, Finished, Undone, Closing, Drained, Importers,
             Finishers, Releasing
    <3> QED BY <1>0, <2>1, <3>4, FilesUnchanged DEF Quiet
  <2>2. CASE Imported(p, s) /\ GotoAt(p, "import", s + 1) /\ Quiet
    <3>1. pc'[p] = "import" /\ mem'[p].at = s + 1 /\ mem'[p].snap = mem[p].snap
          /\ mem'[p].rec = mem[p].rec
      BY <1>0, <2>2, Moves
    <3>2. \A i \in Stores : i < s + 1 => target[i] = mem[p].snap[i]
      <4>2. \A i \in Stores : i < s + 1 => i < s \/ i = s
        BY <1>0, UpTo
      <4>3. target[s] = mem[p].snap[s]
        BY <2>2 DEF Imported
      <4> QED BY <2>0, <4>2, <4>3
    <3>3. Place(p)'
      BY <1>0, <2>0, <2>2, <3>1, <3>2
         DEF Quiet, Place, Opened, Resumed, Finished, Undone, Closing, Drained, Importers,
             Finishers, Releasing
    <3> QED BY <1>0, <2>2, <3>3, FilesUnchanged DEF Quiet
  <2>3. CASE /\ target' = [target EXCEPT ![s] = mem[p].snap[s]] /\ s \in Stores
             /\ Goto(p, "mark")
             /\ UNCHANGED <<source, marker, control, evidence, authority, world, counts>>
    <3>1. pc'[p] = "mark" /\ mem'[p] = mem[p]
      BY <1>0, <2>3, Moves
    <3>2. \A i \in Stores : i < s => target'[i] = mem[p].snap[i]
      BY <1>0, <2>0, <2>3 DEF Digests
    <3>3. Place(p)'
      BY <2>0, <2>3, <3>1, <3>2
         DEF Place, Opened, Resumed, Finished, Undone, Closing, Drained, Importers,
             Finishers, Releasing
    <3> QED BY <1>0, <2>0, <2>3, <3>3, ImportFiles
  <2> QED BY <1>3, <2>1, <2>2, <2>3, FailSafe DEF Import
<1>4. CASE Mark(p)
  <2> DEFINE s == mem[p].at
  <2>0. /\ pc[p] = "mark" /\ s > 0
        /\ cordon.begun /\ ~Committed /\ mem[p].rec.nonce = cordon.nonce /\ mem[p].snap = source
        /\ \A i \in Stores : i < s => target[i] = mem[p].snap[i]
    BY <1>0, <1>2, <1>4 DEF Mark, Importers, Place, Resumed
  <2>1. CASE /\ marker' = [marker EXCEPT ![s] = Identity(p, s)] /\ target[s] = mem[p].snap[s]
             /\ GotoAt(p, "import", s + 1)
             /\ UNCHANGED <<source, target, control, evidence, authority, world, counts>>
    <3>1. pc'[p] = "import" /\ mem'[p].at = s + 1 /\ mem'[p].snap = mem[p].snap
          /\ mem'[p].rec = mem[p].rec
      BY <1>0, <2>1, Moves
    <3>2. \A i \in Stores : i < s + 1 => target[i] = mem[p].snap[i]
      <4>2. \A i \in Stores : i < s + 1 => i < s \/ i = s
        BY <1>0, UpTo
      <4> QED BY <2>0, <2>1, <4>2
    <3>3. Place(p)'
      BY <1>0, <2>0, <2>1, <3>1, <3>2
         DEF Place, Opened, Resumed, Finished, Undone, Closing, Drained, Importers,
             Finishers, Releasing
    <3> QED BY <1>0, <2>0, <2>1, <3>3, ImportFiles
  <2> QED BY <1>4, <2>1, FailSafe DEF Mark
<1>5. CASE RecordImports(p)
  BY <1>5, EnsureSafe, FailSafe DEF RecordImports
<1>6. CASE Ensure(p, "project", "registry-projected", "lock")
  BY <1>6, EnsureSafe
<1>7. CASE Lock(p)
  <2>1. CASE /\ lock' = TRUE /\ pc[p] = "lock"
             /\ Holding(p, "commit", [mem[p] EXCEPT !.log = log])
             /\ UNCHANGED <<epoch, control, evidence, data, world, counts>>
    <3>1. pc'[p] = "commit" /\ mem'[p].log = log /\ mem'[p].snap = mem[p].snap
          /\ mem'[p].rec = mem[p].rec
      BY <1>0, <2>1, Moves DEF Memories
    <3>2. Files'
      BY <1>0, <2>1 DEF Files, NothingBeforeBoundary, EvidenceTrue, Barred, Kept, Served, Numbered
    <3>3. Place(p)'
      BY <1>0, <2>1, <3>1
         DEF Place, Opened, Resumed, Finished, Undone, Closing, Drained, Importers,
             Finishers, Releasing
    <3> QED BY <3>2, <3>3
  <2> QED BY <1>7, <2>1, FailSafe DEF Lock
<1>8. CASE Commit(p)
  <2>0. /\ pc[p] = "commit" /\ mem[p].log = log
        /\ cordon.begun /\ ~Committed /\ mem[p].rec.nonce = cordon.nonce /\ mem[p].snap = source
        /\ cordon.nonce > 0 /\ log.snap = source
    BY <1>0, <1>2, <1>8 DEF Commit, Importers, Place, Resumed, Files, Barred, Kept
  <2>1. epoch' = [nonce |-> cordon.nonce, imports |-> mem[p].snap, log |-> log]
        /\ Goto(p, "unlock") /\ UNCHANGED <<lock, control, evidence, data, world, counts>>
    BY <1>8, <2>0 DEF Commit, Nonce
  <2>2. epoch'.nonce = cordon.nonce /\ epoch'.log = log /\ epoch' # NoEpoch
    BY <2>0, <2>1 DEF NoEpoch
  <2>3. pc'[p] = "unlock" /\ mem'[p] = mem[p]
    BY <1>0, <2>1, Moves
  <2>4. Files'
    BY <1>0, <2>0, <2>1, <2>2
       DEF Files, NothingBeforeBoundary, EvidenceTrue, Barred, Kept, Served, Numbered
  <2>5. Place(p)'
    BY <2>0, <2>1, <2>2, <2>3
       DEF Place, Opened, Resumed, Finished, Undone, Closing, Drained, Importers,
           Finishers, Releasing
  <2> QED BY <2>4, <2>5
<1>9. CASE Unlock(p)
  <2>1. Files'
    BY <1>0, <1>9
       DEF Unlock, Files, NothingBeforeBoundary, EvidenceTrue, Barred, Kept, Served, Numbered
  <2>2. CASE pc[p] = "unlock" /\ Goto(p, "verify")
    <3>1. pc'[p] = "verify" /\ mem'[p] = mem[p]
      BY <1>0, <2>2, Moves
    <3>2. Place(p)'
      BY <1>0, <1>9, <2>2, <3>1
         DEF Unlock, Place, Opened, Resumed, Finished, Undone, Closing, Drained, Importers,
             Finishers, Releasing
    <3> QED BY <2>1, <3>2
  <2>3. CASE Stop(p)
    BY <1>0, <2>1, <2>3, StopPlace
  <2> QED BY <1>9, <2>2, <2>3 DEF Unlock
<1> QED BY <1>1, <1>3, <1>4, <1>5, <1>6, <1>7, <1>8, <1>9 DEF Importing

(* After the commit a step changes no file but the bindings, the           *)
(* follow-ups and the supervisor, or empties a source.                     *)
LEMMA FinishingSafe ==
    ASSUME IInv, NEW p \in Procs, Finishing(p)
    PROVE  Files' /\ Place(p)'
<1> USE DEF control, evidence, authority, data, world, counts, Committed
<1>0. /\ Typed /\ TypeOK /\ Files /\ Place(p)
      /\ mem[p] \in Memories /\ mem[p].at \in Nat /\ Opaque \subseteq Nat
      /\ Opaque \subseteq Stores /\ source \in Digests
  BY Consts DEF IInv, Typed, TypeOK, Memories, Opaque
<1>1. pc[p] \in Finishers /\ Committed /\ mem[p].snap = log.snap
  BY <1>0 DEF Finishing, Verify, Bind, Retire, Remove, Follow, StartSupervisor, Observe,
              Finishers, Place, Finished
<1>2. cordon.begun
  BY <1>0, <1>1 DEF Files, NothingBeforeBoundary
<1>3. CASE Verify(p)
  <2>1. CASE Goto(p, "bind") /\ Quiet
    <3>1. pc'[p] = "bind" /\ mem'[p] = mem[p]
      BY <1>0, <2>1, Moves
    <3>2. Place(p)'
      BY <1>1, <2>1, <3>1
         DEF Quiet, Place, Opened, Resumed, Finished, Undone, Closing, Drained, Importers,
             Finishers, Releasing
    <3> QED BY <1>0, <2>1, <3>2, FilesUnchanged DEF Quiet
  <2> QED BY <1>3, <2>1, FailSafe DEF Verify
<1>4. CASE Bind(p)
  <2>1. pc'[p] = "retire" /\ mem'[p].at = 1 /\ mem'[p].snap = mem[p].snap
    BY <1>0, <1>4, Moves DEF Bind
  <2>2. Files'
    BY <1>0, <1>1, <1>2, <1>4
       DEF Bind, Files, NothingBeforeBoundary, EvidenceTrue, Barred, Kept, Served, Numbered
  <2>3. \A s \in Opaque : ~(s < 1)
    BY DEF Opaque, Stores
  <2>4. Place(p)'
    BY <1>1, <1>4, <2>1, <2>3
       DEF Bind, Place, Opened, Resumed, Finished, Undone, Closing, Drained, Importers,
           Finishers, Releasing
  <2> QED BY <2>2, <2>4
<1>6. CASE Retire(p)
  <2> DEFINE s == mem[p].at
  <2>0. /\ pc[p] = "retire" /\ bound /\ s > 0 /\ \A i \in Opaque : i < s => source[i] = 0
        /\ \A i \in Opaque : mem[p].snap[i] = 0 => source[i] = 0
    BY <1>0, <1>1, <1>6 DEF Retire, Place, Finished, Files, Kept
  <2>1. CASE s \notin Stores /\ GotoAt(p, "follow", 1) /\ Quiet
    <3>1. pc'[p] = "follow" /\ mem'[p].snap = mem[p].snap
      BY <1>0, <2>1, Moves
    <3>2. \A i \in Opaque : source[i] = 0
      <4>1. \A i \in Stores : i < s
        BY <1>0, <2>0, <2>1, CutoverAssumption DEF Stores
      <4> QED BY <1>0, <2>0, <4>1
    <3>3. Place(p)'
      BY <1>1, <2>0, <2>1, <3>1, <3>2
         DEF Quiet, Place, Opened, Resumed, Finished, Undone, Closing, Drained, Importers,
             Finishers, Releasing
    <3> QED BY <1>0, <2>1, <3>3, FilesUnchanged DEF Quiet
  <2>2. CASE (s \notin Opaque \/ mem[p].snap[s] = 0 \/ source[s] = 0)
             /\ GotoAt(p, "retire", s + 1) /\ Quiet
    <3>1. pc'[p] = "retire" /\ mem'[p].snap = mem[p].snap /\ mem'[p].at = s + 1
      BY <1>0, <2>2, Moves
    <3>2. s \in Opaque => source[s] = 0
      BY <2>0, <2>2
    <3>3. \A i \in Opaque : i < s + 1 => source[i] = 0
      BY <1>0, UpTo, <2>0, <3>2
    <3>4. Place(p)'
      BY <1>0, <1>1, <2>0, <2>2, <3>1, <3>3
         DEF Quiet, Place, Opened, Resumed, Finished, Undone, Closing, Drained, Importers,
             Finishers, Releasing
    <3> QED BY <1>0, <2>2, <3>4, FilesUnchanged DEF Quiet
  <2>3. CASE /\ \/ source' = [source EXCEPT ![s] = Torn] /\ Goto(p, "remove")
                \/ source' = [source EXCEPT ![s] = 0] /\ GotoAt(p, "retire", s + 1)
             /\ s \in Opaque /\ mem[p].snap[s] # 0 /\ source[s] # 0
             /\ UNCHANGED <<target, marker, control, evidence, authority, world, counts>>
    <3>1. \A i \in Opaque : i # s => source'[i] = source[i]
      BY <1>0, <2>3 DEF Digests
    <3>2. \A i \in Opaque : i < s => source'[i] = 0
      BY <1>0, <2>0, <3>1
    <3>3. Files'
      BY <1>0, <1>1, <1>2, <2>3, <3>1
         DEF Files, NothingBeforeBoundary, EvidenceTrue, Barred, Kept, Served, Numbered
    <3>4. CASE source' = [source EXCEPT ![s] = Torn] /\ Goto(p, "remove")
      <4>1. pc'[p] = "remove" /\ mem'[p] = mem[p]
        BY <1>0, <3>4, Moves
      <4>2. Place(p)'
        BY <1>1, <2>0, <2>3, <3>2, <4>1
           DEF Place, Opened, Resumed, Finished, Undone, Closing, Drained, Importers,
               Finishers, Releasing
      <4> QED BY <3>3, <4>2
    <3>5. CASE source' = [source EXCEPT ![s] = 0] /\ GotoAt(p, "retire", s + 1)
      <4>1. pc'[p] = "retire" /\ mem'[p].at = s + 1 /\ mem'[p].snap = mem[p].snap
        BY <1>0, <3>5, Moves
      <4>2. source'[s] = 0
        BY <1>0, <2>3, <3>5 DEF Digests
      <4>3. \A i \in Opaque : i < s + 1 => source'[i] = 0
        BY <1>0, UpTo, <3>2, <4>2
      <4>4. Place(p)'
        BY <1>0, <1>1, <2>0, <2>3, <4>1, <4>3
           DEF Place, Opened, Resumed, Finished, Undone, Closing, Drained, Importers,
               Finishers, Releasing
      <4> QED BY <3>3, <4>4
    <3> QED BY <2>3, <3>4, <3>5
  <2> QED BY <1>6, <2>1, <2>2, <2>3, FailSafe DEF Retire
<1>7. CASE Remove(p)
  <2> DEFINE s == mem[p].at
  <2>0. /\ pc[p] = "remove" /\ bound /\ s > 0 /\ \A i \in Opaque : i < s => source[i] = 0
    BY <1>0, <1>7 DEF Remove, Place, Finished
  <2>1. /\ pc'[p] = "retire" /\ mem'[p].at = s + 1 /\ mem'[p].snap = mem[p].snap
        /\ source' = [source EXCEPT ![s] = 0]
        /\ UNCHANGED <<target, marker, control, evidence, authority, world, counts>>
    BY <1>0, <1>7, Moves DEF Remove
  <2>2. \A i \in Opaque : source'[i] = IF i = s THEN 0 ELSE source[i]
    BY <1>0, <2>1 DEF Digests
  <2>3. \A i \in Opaque : i < s + 1 => source'[i] = 0
    BY <1>0, UpTo, <2>0, <2>2
  <2>4. Files'
    BY <1>0, <1>1, <1>2, <2>1, <2>2
       DEF Files, NothingBeforeBoundary, EvidenceTrue, Barred, Kept, Served, Numbered
  <2>5. Place(p)'
    BY <1>0, <1>1, <2>0, <2>1, <2>3
       DEF Place, Opened, Resumed, Finished, Undone, Closing, Drained, Importers,
           Finishers, Releasing
  <2> QED BY <2>4, <2>5
<1>8. ASSUME pc[p] \in {"follow", "start", "observe"}
      PROVE  bound /\ \A s \in Opaque : source[s] = 0
  BY <1>0, <1>8 DEF Place, Finished
<1>9. ASSUME bound /\ (\A s \in Opaque : source[s] = 0), mem'[p].snap = mem[p].snap,
             pc'[p] \in {"idle", "follow", "start", "observe"},
             UNCHANGED <<control, log, snapshots, bound, authority, data>>
      PROVE  Place(p)'
  BY <1>1, <1>9
     DEF Place, Opened, Resumed, Finished, Undone, Closing, Drained, Importers,
         Finishers, Releasing
<1>10. CASE Follow(p)
  <2>1. CASE /\ AfterFollowup(p) /\ pc[p] = "follow"
             /\ UNCHANGED <<control, log, snapshots, bound, authority, data, world, counts>>
    <3>1. Files'
      BY <1>0, <1>1, <1>2, <1>8, <2>1
         DEF Files, NothingBeforeBoundary, EvidenceTrue, Barred, Kept, Served, Numbered
    <3>2. \/ Stop(p)
          \/ pc'[p] \in {"follow", "start", "observe"} /\ mem'[p].snap = mem[p].snap
      BY <1>0, <2>1, Moves DEF AfterFollowup
    <3> QED BY <1>0, <1>8, <1>9, <2>1, <3>1, <3>2, StopPlace
  <2> QED BY <1>10, <2>1, FailSafe DEF Follow
<1>11. CASE StartSupervisor(p)
  <2>1. Files'
    BY <1>0, <1>1, <1>2, <1>11
       DEF StartSupervisor, Files, NothingBeforeBoundary, EvidenceTrue, Barred, Kept, Served,
           Numbered
  <2>2. CASE Stop(p)
    BY <1>0, <2>1, <2>2, StopPlace
  <2>3. CASE Goto(p, "follow")
    <3>1. pc'[p] = "follow" /\ mem'[p] = mem[p]
      BY <1>0, <2>3, Moves
    <3> QED BY <1>8, <1>9, <1>11, <2>1, <3>1 DEF StartSupervisor
  <2> QED BY <1>11, <2>2, <2>3 DEF StartSupervisor
<1>12. CASE Observe(p)
  <2>1. CASE Goto(p, "follow") /\ Quiet
    <3>1. pc'[p] = "follow" /\ mem'[p] = mem[p]
      BY <1>0, <2>1, Moves
    <3> QED BY <1>0, <1>8, <1>9, <1>12, <2>1, <3>1, FilesUnchanged DEF Observe, Quiet
  <2> QED BY <1>12, <2>1, FailSafe DEF Observe
<1> QED BY <1>3, <1>4, <1>6, <1>7, <1>10, <1>11, <1>12 DEF Finishing

(* A rollback that has found the import not begun releases the barrier.    *)
LEMMA RollingBackSafe ==
    ASSUME IInv, NEW p \in Procs, RollingBack(p)
    PROVE  Files' /\ Place(p)'
<1> USE DEF control, evidence, authority, data, world, counts, Committed
<1>0. Typed /\ Files /\ Place(p) /\ NothingBeforeBoundary
  BY DEF IInv, Files
<1>1. ASSUME ~cordon'.begun, pc'[p] \in Releasing
      PROVE  Place(p)'
  BY <1>1 DEF Place, Opened, Resumed, Finished, Undone, Closing, Drained, Importers,
              Finishers, Releasing
<1>2. CASE Rollback(p)
  <2>1. CASE ~cordon.begun /\ Goto(p, "releaseMaintenance") /\ Quiet
    <3>1. pc'[p] = "releaseMaintenance"
      BY <1>0, <2>1, Moves
    <3> QED BY <1>0, <1>1, <2>1, <3>1, FilesUnchanged DEF Quiet, Releasing
  <2> QED BY <1>2, <2>1, FailSafe DEF Rollback
<1>3. CASE ReleaseMaintenance(p)
  <2>1. ~cordon.begun /\ cordon' = cordon /\ pc'[p] = "releaseStopping"
    BY <1>0, <1>3, Moves DEF ReleaseMaintenance, Place, Undone, Releasing
  <2>2. Files'
    BY <1>0, <1>3, <2>1
       DEF ReleaseMaintenance, Files, NothingBeforeBoundary, EvidenceTrue, Barred, Kept, Served,
           Numbered
  <2> QED BY <1>1, <2>1, <2>2 DEF Releasing
<1>4. CASE ReleaseStopping(p)
  <2>1. ~cordon.begun /\ cordon' = cordon /\ pc'[p] = "abandon"
    BY <1>0, <1>4, Moves DEF ReleaseStopping, Place, Undone, Releasing
  <2>2. Files'
    BY <1>0, <1>4, <2>1
       DEF ReleaseStopping, Files, NothingBeforeBoundary, EvidenceTrue, Barred, Kept, Served,
           Numbered
  <2> QED BY <1>1, <2>1, <2>2 DEF Releasing
<1>5. CASE Abandon(p)
  <2>1. ~cordon.begun /\ cordon' = NoCordon
    BY <1>0, <1>5 DEF Abandon, Place, Undone, Releasing
  <2>2. Files'
    BY <1>0, <1>5, <2>1
       DEF Abandon, Files, NothingBeforeBoundary, EvidenceTrue, Barred, Kept, Served,
           Numbered, NoCordon
  <2> QED BY <1>0, <1>5, <2>2, StopPlace DEF Abandon
<1> QED BY <1>2, <1>3, <1>4, <1>5 DEF RollingBack

(* What happens around the commands leaves every command where it is.      *)
LEMMA WorldSafe ==
    ASSUME IInv, World
    PROVE  Files' /\ \A p \in Procs : Place(p)'
<1> USE DEF control, evidence, authority, data, world, counts, Committed
<1>0. /\ Files /\ (\A p \in Procs : Place(p)) /\ NothingBeforeBoundary /\ Barred /\ Served
      /\ (Committed => cordon.begun)
  BY DEF IInv, Files, NothingBeforeBoundary
<1>1. CASE LegacyStart
  <2>1. ~cordon.begun
    BY <1>0, <1>1 DEF LegacyStart, Barred
  <2>2. Files'
    BY <1>0, <1>1, <2>1 DEF LegacyStart, Files, NothingBeforeBoundary, EvidenceTrue, Barred,
       Kept, Served, Numbered
  <2>3. ASSUME NEW p \in Procs PROVE Place(p)'
    <3>1. pc[p] \notin Drained
      BY <1>0, <1>1 DEF LegacyStart, Place, Opened, Drained, Closing
    <3> QED BY <1>0, <1>1, <3>1 DEF LegacyStart, Place, Opened, Resumed, Finished, Undone
  <2> QED BY <2>2, <2>3
<1>2. CASE SupervisorDies
  <2>1. Files'
    BY <1>0, <1>2 DEF SupervisorDies, Files, NothingBeforeBoundary, EvidenceTrue, Barred,
       Kept, Served, Numbered
  <2>2. ASSUME NEW p \in Procs PROVE Place(p)'
    BY <1>0, <1>2 DEF SupervisorDies, Place, Opened, Resumed, Finished, Undone
  <2> QED BY <2>1, <2>2
<1>3. ASSUME NEW s \in Stores, LegacyWrite(s) PROVE Files' /\ \A p \in Procs : Place(p)'
  <2>1. ~cordon.begun /\ ~Committed
    BY <1>0, <1>3 DEF LegacyWrite, Barred
  <2>2. Files'
    BY <1>0, <1>3, <2>1 DEF LegacyWrite, Files, NothingBeforeBoundary, EvidenceTrue, Barred,
       Kept, Served, Numbered
  <2>3. ASSUME NEW p \in Procs PROVE Place(p)'
    <3>1. pc[p] \notin Drained \cup Importers \cup Finishers
      BY <1>0, <1>3, <2>1 DEF LegacyWrite, Place, Opened, Resumed, Finished
    <3> QED BY <1>0, <1>3, <2>1, <3>1
            DEF LegacyWrite, Place, Opened, Resumed, Finished, Undone, Drained, Importers,
                Finishers
  <2> QED BY <2>2, <2>3
<1>4. ASSUME NEW s \in Stores, SupervisorWrite(s) PROVE Files' /\ \A p \in Procs : Place(p)'
  <2>1. cordon.begun /\ Committed
    BY <1>0, <1>4 DEF SupervisorWrite, Served
  <2>2. Files'
    BY <1>0, <1>4, <2>1 DEF SupervisorWrite, Files, NothingBeforeBoundary, EvidenceTrue, Barred,
       Kept, Served, Numbered
  <2>3. ASSUME NEW p \in Procs PROVE Place(p)'
    <3>1. pc[p] \notin Importers
      BY <1>0, <2>1 DEF Place, Resumed
    <3> QED BY <1>0, <1>4, <2>1, <3>1
            DEF SupervisorWrite, Place, Opened, Resumed, Finished, Undone, Importers
  <2> QED BY <2>2, <2>3
<1> QED BY <1>1, <1>2, <1>3, <1>4 DEF World

LEMMA StartSafe ==
    ASSUME IInv, NEW p \in Procs, NEW c \in Commands, Start(p, c)
    PROVE  Files' /\ Place(p)'
<1>1. pc'[p] \in Commands
  BY Moves DEF Start, IInv
<1>2. Place(p)'
  BY <1>1 DEF Commands, Place, Opened, Resumed, Finished, Undone, Closing, Drained, Importers,
              Finishers, Releasing
<1> QED BY <1>2, FilesUnchanged DEF Start, Quiet, IInv

LEMMA CrashSafe ==
    ASSUME IInv, NEW p \in Procs, Crash(p)
    PROVE  Files' /\ Place(p)'
BY StopPlace, FilesUnchanged DEF Crash, IInv

LEMMA InitSafe == Init => IInv
<1> SUFFICES ASSUME Init PROVE IInv
  OBVIOUS
<1>1. Files
  BY DEF Init, Files, NothingBeforeBoundary, EvidenceTrue, Barred, Kept, Served, Numbered,
         Committed, NoCordon
<1>2. ASSUME NEW p \in Procs PROVE Place(p)
  BY DEF Init, Place, Opened, Resumed, Finished, Undone, Closing, Drained, Importers, Finishers,
         Releasing
<1> QED BY <1>1, <1>2, InitTypes DEF IInv

LEMMA NextSafe == OneAtATime /\ IInv /\ [Next]_vars => IInv'
<1> SUFFICES ASSUME OneAtATime, IInv, [Next]_vars PROVE IInv'
  OBVIOUS
<1>1. Typed'
  BY NextTypes DEF IInv
<1>2. ASSUME NEW p \in Procs, Files' /\ Place(p)' PROVE IInv'
  <2>1. \A q \in Procs : q = p
    BY DEF OneAtATime
  <2>2. \A q \in Procs : Place(q)'
    BY <1>2, <2>1
  <2> QED BY <1>1, <1>2, <2>2 DEF IInv
<1>3. ASSUME NEW p \in Procs, Step(p) PROVE IInv'
  BY <1>2, <1>3, OpeningSafe, ImportingSafe, FinishingSafe, RollingBackSafe DEF Step
<1>4. ASSUME NEW p \in Procs, Crash(p) \/ \E c \in Commands : Start(p, c) PROVE IInv'
  BY <1>2, <1>4, CrashSafe, StartSafe
<1>5. CASE World
  BY <1>1, <1>5, WorldSafe DEF IInv
<1>6. CASE UNCHANGED vars
  <2>1. Files'
    BY <1>6, FilesUnchanged DEF IInv, vars
  <2>2. \A p \in Procs : Place(p)'
    BY <1>6 DEF IInv, vars, Place, Opened, Resumed, Finished, Undone, Committed, control, evidence,
                authority, data, world
  <2> QED BY <1>1, <2>1, <2>2 DEF IInv
<1> QED BY <1>3, <1>4, <1>5, <1>6 DEF Next

LEMMA Inductive == ASSUME OneAtATime PROVE Spec => []IInv
<1>1. IInv /\ [Next]_vars => IInv'
  BY NextSafe
<1> QED BY <1>1, InitSafe, PTL DEF Spec

-----------------------------------------------------------------------------
(* Before the import boundary is on disk no target, no marker, no epoch    *)
(* and no supervisor of the new installation exists, so that a rollback    *)
(* has nothing to take back (provePreImportRollbackSafe).                  *)
THEOREM RestorableBefore == ASSUME OneAtATime PROVE Spec => []NothingBeforeBoundary
<1>1. IInv => NothingBeforeBoundary
  BY DEF IInv, Files
<1> QED BY <1>1, Inductive, PTL

(* The log on disk is the one that was committed, and a follow-up step is  *)
(* on record only after commit, bindings and retirement (appendFollowup,   *)
(* verifyPhaseOneDigest).                                                  *)
THEOREM EvidenceIsTrue == ASSUME OneAtATime PROVE Spec => []EvidenceTrue
<1>1. IInv => EvidenceTrue
  BY DEF IInv, Files
<1> QED BY <1>1, Inductive, PTL

(* Who writes the cordon behind the boundary: nobody.                      *)
LEMMA CordonKept ==
    ASSUME IInv, cordon.begun, [Next]_vars
    PROVE  cordon' = cordon
<1> USE DEF control
<1>0. \A p \in Procs : Place(p)
  BY DEF IInv
<1>1. ASSUME NEW p \in Procs, Opening(p) PROVE cordon' = cordon
  <2>1. ~Prepare(p) /\ ~Close(p) /\ ~Begin(p)
    BY <1>0 DEF Prepare, Close, Begin, Place, Opened, Closing
  <2> QED
    BY <1>1, <2>1 DEF Opening, Activate, Resume, Capture, WriteStopping, WriteMaintenance, Record,
                      Drain, Terminate, Snapshot, RecordSnapshots, Boundary, Fail, Quiet
<1>2. ASSUME NEW p \in Procs, Importing(p) PROVE cordon' = cordon
  BY <1>2 DEF Importing, Recover, Import, Mark, RecordImports, Ensure, Record, Lock, Commit, Unlock,
              Fail, Quiet
<1>3. ASSUME NEW p \in Procs, Finishing(p) PROVE cordon' = cordon
  BY <1>3 DEF Finishing, Verify, Bind, Retire, Remove, Follow, StartSupervisor, Observe, Fail, Quiet
<1>4. ASSUME NEW p \in Procs, RollingBack(p) PROVE cordon' = cordon
  <2>1. ~Abandon(p)
    BY <1>0 DEF Abandon, Place, Undone, Releasing
  <2> QED
    BY <1>4, <2>1 DEF RollingBack, Rollback, ReleaseMaintenance, ReleaseStopping, Fail, Quiet
<1>5. CASE World
  BY <1>5 DEF World, LegacyWrite, LegacyStart, SupervisorWrite, SupervisorDies
<1>6. ASSUME NEW p \in Procs, Crash(p) \/ \E c \in Commands : Start(p, c) PROVE cordon' = cordon
  BY <1>6 DEF Crash, Start, Quiet
<1>7. CASE UNCHANGED vars
  BY <1>7 DEF vars
<1> QED BY <1>1, <1>2, <1>3, <1>4, <1>5, <1>6, <1>7 DEF Next, Step

(* There is no way back: behind the boundary the cordon keeps its          *)
(* transaction and the barrier stays up (abandonPreImportCordon refuses).  *)
THEOREM NoWayBack == ASSUME OneAtATime PROVE Spec => ForwardOnly
<1>1. IInv /\ IInv' /\ [Next]_vars =>
        [cordon.begun => /\ cordon'.begun /\ cordon'.nonce = cordon.nonce
                         /\ stopping' /\ maintenance']_vars
  BY CordonKept DEF IInv, Files, Barred
<1> QED BY <1>1, Inductive, PTL DEF Spec, ForwardOnly

-----------------------------------------------------------------------------
(* The cutover implements the handover. *)

Serving == IF Committed THEN "new" ELSE IF legacy THEN "old" ELSE "frozen"
Content == IF Committed THEN target ELSE source

Handed == H!HandoverNext \/ UNCHANGED <<Serving, Content>>

(* Only the end of the old installation, the commit and the removal of     *)
(* sources can be seen from outside, and the last cannot.                  *)
LEMMA Unseen ==
    ASSUME IInv, UNCHANGED <<epoch, legacy>>,
           UNCHANGED source \/ Committed, UNCHANGED target \/ ~Committed
    PROVE  UNCHANGED <<Serving, Content>>
BY DEF Serving, Content, Committed

LEMMA StepHandsOver ==
    ASSUME IInv, NEW p \in Procs, Step(p)
    PROVE  Handed
<1> USE DEF control, evidence, authority, data, world, counts
<1>0. /\ Place(p) /\ Files /\ NothingBeforeBoundary
  BY DEF IInv, Files
<1>1. CASE Terminate(p)
  <2>1. ~Committed
    BY <1>0, <1>1 DEF Terminate, Place, Opened, Closing, NothingBeforeBoundary
  <2>2. epoch' = epoch /\ source' = source /\ (legacy' = legacy \/ legacy' = FALSE)
    BY <1>1 DEF Terminate
  <2> QED BY <2>1, <2>2 DEF Handed, Serving, Content, Committed, H!HandoverNext, H!Freeze
<1>2. CASE Commit(p)
  <2>1. /\ pc[p] = "commit" /\ ~Committed /\ ~legacy /\ target = source
        /\ cordon.nonce > 0 /\ mem[p].rec.nonce = cordon.nonce
    BY <1>0, <1>2 DEF Commit, Place, Resumed, Importers, Files, Barred
  <2>2. epoch'.nonce > 0 /\ legacy' = legacy /\ source' = source /\ target' = target
    BY <1>2, <2>1 DEF Commit, Nonce
  <2>3. Committed'
    BY <2>2 DEF Committed, NoEpoch
  <2> QED BY <2>1, <2>2, <2>3 DEF Handed, Serving, Content, H!HandoverNext, H!HandOver
<1>3. CASE Finishing(p)
  <2>1. Committed
    BY <1>0, <1>3 DEF Finishing, Verify, Bind, Retire, Remove, Follow, StartSupervisor, Observe,
                      Finishers, Place, Finished
  <2>2. UNCHANGED <<epoch, legacy, target>>
    BY <1>3 DEF Finishing, Verify, Bind, Retire, Remove, Follow, StartSupervisor, Observe,
                Fail, Quiet
  <2> QED BY <2>1, <2>2, Unseen DEF Handed
<1>4. CASE Import(p)
  <2>1. ~Committed
    BY <1>0, <1>4 DEF Import, Place, Resumed, Importers
  <2>2. UNCHANGED <<epoch, legacy, source>>
    BY <1>4 DEF Import, Fail, Quiet
  <2> QED BY <2>1, <2>2, Unseen DEF Handed
<1>5. CASE Opening(p) /\ ~Terminate(p)
  <2>1. UNCHANGED <<epoch, legacy, source, target>>
    BY <1>5 DEF Opening, Activate, Resume, Capture, Prepare, WriteStopping, WriteMaintenance, Close,
                Record, Appended, Drain, Snapshot, RecordSnapshots, Boundary, Begin, Fail, Quiet
  <2> QED BY <2>1, Unseen DEF Handed
<1>6. CASE Importing(p) /\ ~Import(p) /\ ~Commit(p)
  <2>1. UNCHANGED <<epoch, legacy, source, target>>
    BY <1>6 DEF Importing, Recover, Mark, RecordImports, Ensure, Record, Appended, Lock, Unlock,
                Fail, Quiet
  <2> QED BY <2>1, Unseen DEF Handed
<1>7. CASE RollingBack(p)
  <2>1. UNCHANGED <<epoch, legacy, source, target>>
    BY <1>7 DEF RollingBack, Rollback, ReleaseMaintenance, ReleaseStopping, Abandon, Fail, Quiet
  <2> QED BY <2>1, Unseen DEF Handed
<1> QED BY <1>1, <1>2, <1>3, <1>4, <1>5, <1>6, <1>7 DEF Step

LEMMA WorldHandsOver ==
    ASSUME IInv, World
    PROVE  Handed
<1> USE DEF control, evidence, authority, data, world, counts
<1>0. Files /\ NothingBeforeBoundary /\ Barred /\ Served /\ (Committed => ~legacy)
  BY DEF IInv, Files, NothingBeforeBoundary, Barred
<1>1. CASE LegacyStart
  <2>1. ~Committed /\ epoch' = epoch /\ source' = source /\ legacy' = TRUE /\ ~legacy
    BY <1>0, <1>1 DEF LegacyStart, NothingBeforeBoundary, Barred
  <2> QED BY <2>1 DEF Handed, Serving, Content, Committed, H!HandoverNext, H!Restore
<1>2. CASE SupervisorDies
  BY <1>2, Unseen DEF SupervisorDies, Handed
<1>3. ASSUME NEW s \in Stores, LegacyWrite(s) PROVE Handed
  <2>1. /\ ~Committed /\ legacy /\ epoch' = epoch /\ legacy' = legacy /\ source[s] < MaxWrites
        /\ source' = [source EXCEPT ![s] = @ + 1]
    BY <1>0, <1>3 DEF LegacyWrite
  <2>2. H!Write(s)
    BY <2>1 DEF H!Write, Committed
  <2> QED BY <2>2 DEF Handed, H!HandoverNext
<1>4. ASSUME NEW s \in Stores, SupervisorWrite(s) PROVE Handed
  <2>1. Committed /\ epoch' = epoch /\ target' = [target EXCEPT ![s] = New]
    BY <1>0, <1>4 DEF SupervisorWrite, Served
  <2>2. H!Adopt(s)
    BY <2>1 DEF H!Adopt, Committed
  <2> QED BY <2>2 DEF Handed, H!HandoverNext
<1> QED BY <1>1, <1>2, <1>3, <1>4 DEF World

(* The cutover is one change of hands: the authoritative content is the    *)
(* old installation's until the commit and the new one's after it, nothing *)
(* is lost in between, and there is no way back (activateCutover,          *)
(* recoverCommittedCutover).                                               *)
THEOREM HandsOver == ASSUME OneAtATime PROVE Spec => OneHandover
<1>1. Init => H!HandoverInit
  BY DEF Init, H!HandoverInit, Committed
<1>2. IInv /\ [Next]_vars => [H!HandoverNext]_<<Serving, Content>>
  <2> SUFFICES ASSUME IInv, [Next]_vars PROVE Handed
    BY DEF Handed
  <2>1. ASSUME NEW p \in Procs, Crash(p) \/ \E c \in Commands : Start(p, c) PROVE Handed
    BY <2>1, Unseen DEF Crash, Start, Quiet, Handed, control, evidence, authority, data, world
  <2>2. CASE UNCHANGED vars
    BY <2>2, Unseen DEF vars, Handed, control, evidence, authority, data, world
  <2> QED BY <2>1, <2>2, StepHandsOver, WorldHandsOver DEF Next
<1> QED BY <1>1, <1>2, Inductive, PTL DEF Spec, OneHandover, H!HandoverSpec, Serving, Content

=============================================================================
