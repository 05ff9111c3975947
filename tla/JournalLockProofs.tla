-------------------------- MODULE JournalLockProofs --------------------------
(***************************************************************************)
(* Theorems about the journal lock, for any number of processes, attempts  *)
(* and files: its types, mutual exclusion up to the first fault, and what  *)
(* it keeps through deaths while no two callers reclaim at the same time.  *)
(***************************************************************************)
EXTENDS JournalLock, TLAPS

(* What keeps fault-free callers apart: at most one process has a          *)
(* descriptor, the path then names its file, that file carries its pid     *)
(* from the write on and never gets old, and no reclaim gets past its      *)
(* first staleness test.                                                   *)
FaultFree ==
    /\ \A p \in Procs : pc[p] \notin {"dead", "restat", "reread", "reclaim"}
    /\ \A p \in Procs : ~st[p].aged
    /\ \A p \in Procs : pc[p] \in {"write", "action", "check", "unlink"} => my[p] # None
    /\ \A p, q \in Procs : my[p] # None /\ my[q] # None => p = q
    /\ \A p \in Procs : my[p] # None => file # None
    /\ \A p \in Procs : my[p] # None => file.gen = my[p]
    /\ \A p \in Procs : my[p] # None => file.owner = (IF pc[p] = "write" THEN None ELSE p)
    /\ file # None => ~file.aged
    /\ file # None => \E p \in Procs : my[p] # None

IInv == TypeOK /\ (faults = 0 => FaultFree)

(* The records the model builds have the types it gives them. *)
LEMMA NoRecords == NoStat \in Stats /\ NoStat.aged = FALSE /\ NoRaw \in Raws
  BY JournalLockAssumption DEF NoStat, NoRaw, Stats, Raws

(* A lock file of a given generation, owner and age. *)
LEMMA NewLockFile ==
  ASSUME NEW g \in Gens, NEW o \in Procs \cup {None}, NEW a \in BOOLEAN
  PROVE  [gen |-> g, owner |-> o, aged |-> a] \in LockFiles
  BY DEF LockFiles

(* The fields of a lock file that has just been written. *)
LEMMA NewLockFileFields ==
  ASSUME NEW g \in Gens, NEW o \in Procs \cup {None}, NEW a \in BOOLEAN,
         file' = [gen |-> g, owner |-> o, aged |-> a]
  PROVE  file' # None /\ file'.gen = g /\ file'.owner = o /\ file'.aged = a
  BY JournalLockAssumption DEF LockFiles

(* The fields of a lock file, and what stat and read return of it. *)
LEMMA FileFields ==
  ASSUME NEW f \in LockFiles
  PROVE  /\ f.gen \in Gens /\ f.owner \in Procs \cup {None} /\ f.aged \in BOOLEAN
         /\ [gen |-> f.gen, aged |-> f.aged] \in Stats
         /\ parseOwner(f) \in Raws
  BY DEF LockFiles, Stats, Raws, parseOwner, NoRaw

(* The initial state has the types of the model. *)
LEMMA TypeInit == Init => TypeOK
  BY NoRecords, JournalLockAssumption DEF Init, TypeOK, PCs, Results

(* The end of a reclaim keeps the types of everything a process owns. *)
LEMMA AfterReclaimType ==
  ASSUME TypeOK, NEW p \in Procs, NEW r \in BOOLEAN, AfterReclaim(p, r)
  PROVE  /\ pc' \in [Procs -> PCs]
         /\ att' \in [Procs -> 1 .. MaxAttempts]
         /\ my' \in [Procs -> Gens \cup {None}]
         /\ st' \in [Procs -> Stats]
         /\ raw' \in [Procs -> Raws]
         /\ res' \in [Procs -> Results]
<1>1. att' \in [Procs -> 1 .. MaxAttempts]
  <2>1. att \in [Procs -> 1 .. MaxAttempts]
    BY DEF TypeOK
  <2>2. att' = IF r \/ att[p] = MaxAttempts THEN att ELSE [att EXCEPT ![p] = att[p] + 1]
    BY DEF AfterReclaim
  <2>3. att[p] # MaxAttempts => att[p] + 1 \in 1 .. MaxAttempts
    BY <2>1, JournalLockAssumption
  <2> QED
    BY <2>1, <2>2, <2>3
<1>2. st' \in [Procs -> Stats] /\ raw' \in [Procs -> Raws]
  BY NoRecords DEF AfterReclaim, TypeOK
<1>3. /\ pc' \in [Procs -> PCs]
      /\ my' \in [Procs -> Gens \cup {None}]
      /\ res' \in [Procs -> Results]
  BY DEF AfterReclaim, TypeOK, Finish, PCs, Results
<1> QED
  BY <1>1, <1>2, <1>3

(* Every step of every process keeps the types: attempts stay within       *)
(* maxAttempts, and the path names a whole lock file or nothing.           *)
LEMMA TypeStep == TypeOK /\ [Next]_vars => TypeOK'
<1> SUFFICES ASSUME TypeOK, [Next]_vars PROVE TypeOK'
  OBVIOUS
<1> USE DEF TypeOK
<1>1. CASE Age
  <2>1. file' \in LockFiles
    BY <1>1, NewLockFile, FileFields DEF Age
  <2>2. faults' \in 0 .. MaxFaults
    BY <1>1, JournalLockAssumption DEF Age, Fault
  <2> QED
    BY <1>1, <2>1, <2>2 DEF Age
<1>2. ASSUME NEW p \in Procs, Step(p) PROVE TypeOK'
  <2>1. CASE Call(p)
    BY <2>1, JournalLockAssumption DEF Call, PCs
  <2>2. CASE Open(p)
    <3>1. file' \in {None} \cup LockFiles /\ my' \in [Procs -> Gens \cup {None}]
      <4>1. CASE file = None
        <5>1. PICK g \in Gens : /\ file' = [gen |-> g, owner |-> None, aged |-> FALSE]
                                /\ my' = [my EXCEPT ![p] = g]
          BY <2>2, <4>1 DEF Open, FreshGens
        <5>2. file' \in LockFiles
          BY <5>1, NewLockFile
        <5> QED
          BY <5>1, <5>2
      <4>2. CASE file # None
        BY <2>2, <4>2 DEF Open
      <4> QED
        BY <4>1, <4>2
    <3>2. pc' \in [Procs -> PCs]
      BY <2>2 DEF Open, PCs
    <3> QED
      BY <2>2, <3>1, <3>2 DEF Open
  <2>3. CASE WriteOwner(p)
    <3>1. file' \in {None} \cup LockFiles
      <4>1. CASE file # None /\ file.gen = my[p]
        <5>1. file' = [gen |-> file.gen, owner |-> p, aged |-> FALSE]
          BY <2>3, <4>1 DEF WriteOwner
        <5>2. file.gen \in Gens
          BY <4>1, FileFields
        <5> QED
          BY <5>1, <5>2, NewLockFile
      <4>2. CASE ~(file # None /\ file.gen = my[p])
        BY <2>3, <4>2 DEF WriteOwner
      <4> QED
        BY <4>1, <4>2
    <3> QED
      BY <2>3, <3>1 DEF WriteOwner, PCs
  <2>4. CASE WriteFails(p)
    <3>1. faults' \in 0 .. MaxFaults
      BY <2>4, JournalLockAssumption DEF WriteFails, Fault
    <3> QED
      BY <2>4, <3>1 DEF WriteFails, PCs, Results
  <2>5. CASE ActionEnds(p)
    BY <2>5 DEF ActionEnds, PCs, Results
  <2>6. CASE ActionThrowsEEXIST(p)
    BY <2>6 DEF ActionThrowsEEXIST, PCs
  <2>7. CASE ReleaseCheck(p)
    BY <2>7 DEF ReleaseCheck, Finish, PCs, Results
  <2>8. CASE ReleaseUnlink(p)
    BY <2>8 DEF ReleaseUnlink, Finish, PCs, Results
  <2>9. CASE ReclaimStat(p)
    <3>1. CASE file = None
      BY <2>9, <3>1, AfterReclaimType DEF ReclaimStat, shared
    <3>2. CASE file # None
      <4>1. [gen |-> file.gen, aged |-> file.aged] \in Stats
        BY <3>2, FileFields
      <4>2. st' \in [Procs -> Stats]
        BY <2>9, <3>2, <4>1 DEF ReclaimStat
      <4> QED
        BY <2>9, <3>2, <4>2 DEF ReclaimStat, shared, PCs
    <3> QED
      BY <3>1, <3>2
  <2>10. CASE ReclaimRead(p)
    <3>1. CASE file # None /\ ownerIsStale(file.owner, st[p].aged)
      <4>1. parseOwner(file) \in Raws
        BY <3>1, FileFields
      <4>2. raw' \in [Procs -> Raws]
        BY <2>10, <3>1, <4>1 DEF ReclaimRead
      <4> QED
        BY <2>10, <3>1, <4>2 DEF ReclaimRead, shared, PCs
    <3>2. CASE ~(file # None /\ ownerIsStale(file.owner, st[p].aged))
      BY <2>10, <3>2, AfterReclaimType DEF ReclaimRead, shared
    <3> QED
      BY <3>1, <3>2
  <2>11. CASE ReclaimRestat(p)
    <3>1. CASE file # None /\ file.gen = st[p].gen
      BY <2>11, <3>1 DEF ReclaimRestat, shared, PCs
    <3>2. CASE ~(file # None /\ file.gen = st[p].gen)
      BY <2>11, <3>2, AfterReclaimType DEF ReclaimRestat, shared
    <3> QED
      BY <3>1, <3>2
  <2>12. CASE ReclaimReread(p)
    <3>1. CASE file # None /\ parseOwner(file) = raw[p]
      BY <2>12, <3>1 DEF ReclaimReread, shared, PCs
    <3>2. CASE ~(file # None /\ parseOwner(file) = raw[p])
      BY <2>12, <3>2, AfterReclaimType DEF ReclaimReread, shared
    <3> QED
      BY <3>1, <3>2
  <2>13. CASE ReclaimUnlink(p)
    <3>1. AfterReclaim(p, file # None) /\ (file # None) \in BOOLEAN
      BY <2>13 DEF ReclaimUnlink
    <3> QED
      BY <2>13, <3>1, AfterReclaimType DEF ReclaimUnlink
  <2> QED
    BY <1>2, <2>1, <2>2, <2>3, <2>4, <2>5, <2>6, <2>7, <2>8, <2>9, <2>10,
       <2>11, <2>12, <2>13 DEF Step
<1>3. ASSUME NEW p \in Procs, Crash(p) PROVE TypeOK'
  <2>1. faults' \in 0 .. MaxFaults
    BY <1>3, JournalLockAssumption DEF Crash, Fault
  <2> QED
    BY <1>3, <2>1, NoRecords DEF Crash, PCs, Results
<1>4. CASE UNCHANGED vars
  BY <1>4 DEF vars
<1> QED
  BY <1>1, <1>2, <1>3, <1>4 DEF Next

(* Type correctness of withCrashRecoverableFileLock and                    *)
(* reclaimStaleJournalLock, for every number of callers and attempts.      *)
THEOREM TypeCorrect == Spec => []TypeOK
<1>1. Init => TypeOK
  BY TypeInit
<1>2. TypeOK /\ [Next]_vars => TypeOK'
  BY TypeStep
<1> QED
  BY <1>1, <1>2, PTL DEF Spec

(* Before the first fault, every step keeps the callers apart. *)
LEMMA FaultFreeStep ==
  ASSUME TypeOK, FaultFree, [Next]_vars, faults = 0, faults' = 0
  PROVE  FaultFree'
<1> USE JournalLockAssumption, NoRecords DEF FaultFree, TypeOK
<1>1. CASE Age
  <2>1. BeingWritten
    BY <1>1 DEF Age, BeingWritten
  <2> QED
    BY <1>1, <2>1 DEF Age, Fault
<1>2. ASSUME NEW p \in Procs, Step(p) PROVE FaultFree'
  <2>1. CASE Call(p)
    BY <2>1 DEF Call
  <2>2. CASE Open(p)
    <3>1. CASE file = None
      <4>1. PICK g \in Gens : /\ file' = [gen |-> g, owner |-> None, aged |-> FALSE]
                              /\ my' = [my EXCEPT ![p] = g]
        BY <2>2, <3>1 DEF Open, FreshGens
      <4>2. pc' = [pc EXCEPT ![p] = "write"] /\ st' = st
        BY <2>2, <3>1 DEF Open
      <4>3. \A q \in Procs : my[q] = None
        BY <3>1
      <4>4. file' # None /\ file'.gen = g /\ file'.owner = None /\ file'.aged = FALSE
        BY <4>1, NewLockFileFields
      <4>5. g # None
        OBVIOUS
      <4> QED
        BY <4>1, <4>2, <4>3, <4>4, <4>5
    <3>2. CASE file # None
      BY <2>2, <3>2 DEF Open
    <3> QED
      BY <3>1, <3>2
  <2>3. CASE WriteOwner(p)
    <3>1. file # None /\ file.gen = my[p] /\ my[p] # None
      BY <2>3 DEF WriteOwner
    <3>2. file' = [gen |-> file.gen, owner |-> p, aged |-> FALSE]
      BY <2>3, <3>1 DEF WriteOwner
    <3>4. file.gen \in Gens
      BY <3>1
    <3>3. file' # None /\ file'.gen = file.gen /\ file'.owner = p /\ file'.aged = FALSE
      BY <3>1, <3>2, <3>4, NewLockFileFields
    <3> QED
      BY <2>3, <3>1, <3>3 DEF WriteOwner
  <2>4. CASE WriteFails(p)
    BY <2>4 DEF WriteFails, Fault
  <2>5. CASE ActionEnds(p)
    BY <2>5 DEF ActionEnds
  <2>6. CASE ActionThrowsEEXIST(p)
    BY <2>6 DEF ActionThrowsEEXIST
  <2>7. CASE ReleaseCheck(p)
    BY <2>7 DEF ReleaseCheck, Finish
  <2>8. CASE ReleaseUnlink(p)
    BY <2>8 DEF ReleaseUnlink, Finish
  <2>9. CASE ReclaimStat(p)
    BY <2>9 DEF ReclaimStat, shared, AfterReclaim, Finish
  <2>10. CASE ReclaimRead(p)
    <3>1. ~(file # None /\ ownerIsStale(file.owner, st[p].aged))
      BY DEF ownerIsStale, processAlive
    <3> QED
      BY <2>10, <3>1 DEF ReclaimRead, shared, AfterReclaim, Finish
  <2>11. CASE ReclaimRestat(p)
    BY <2>11 DEF ReclaimRestat
  <2>12. CASE ReclaimReread(p)
    BY <2>12 DEF ReclaimReread
  <2>13. CASE ReclaimUnlink(p)
    BY <2>13 DEF ReclaimUnlink
  <2> QED
    BY <1>2, <2>1, <2>2, <2>3, <2>4, <2>5, <2>6, <2>7, <2>8, <2>9, <2>10,
       <2>11, <2>12, <2>13 DEF Step
<1>3. ASSUME NEW p \in Procs, Crash(p) PROVE FaultFree'
  BY <1>3 DEF Crash, Fault
<1>4. CASE UNCHANGED vars
  BY <1>4 DEF vars
<1> QED
  BY <1>1, <1>2, <1>3, <1>4 DEF Next

(* No step takes a fault back. *)
LEMMA FaultsGrow == TypeOK /\ [Next]_vars /\ faults' = 0 => faults = 0
<1> SUFFICES ASSUME faults \in Nat, [Next]_vars, faults' = 0 PROVE faults = 0
  BY JournalLockAssumption DEF TypeOK
<1>1. ASSUME NEW p \in Procs, Step(p) PROVE faults = 0
  <2>1. faults' = faults \/ faults' = faults + 1
    BY <1>1, Zenon
       DEF Step, Fault, Call, Open, WriteOwner, WriteFails, ActionEnds,
           ActionThrowsEEXIST, ReleaseCheck, ReleaseUnlink, ReclaimStat,
           ReclaimRead, ReclaimRestat, ReclaimReread, ReclaimUnlink, shared
  <2> QED
    BY <2>1
<1> QED
  BY <1>1 DEF Next, vars, Age, Crash, Fault

(* Mutual exclusion of withCrashRecoverableFileLock up to the first fault. *)
THEOREM MutexHolds == Spec => []MutexUntilFault
<1>1. Init => IInv
  BY TypeInit DEF Init, IInv, FaultFree, NoStat
<1>2. IInv /\ [Next]_vars => IInv'
  BY TypeStep, FaultFreeStep, FaultsGrow DEF IInv
<1>3. IInv => MutexUntilFault
  BY DEF IInv, FaultFree, MutexUntilFault, Mutex
<1> QED
  BY <1>1, <1>2, <1>3, PTL DEF Spec

-----------------------------------------------------------------------------
(* What one reclaimer at a time would keep, through crashes and failed     *)
(* writes.                                                                 *)

(* p compares and unlinks what it takes for a stale file.                  *)
Reclaiming(p) == pc[p] \in {"reread", "reclaim"}
OneReclaimer == \A p, q \in Procs : Reclaiming(p) /\ Reclaiming(q) => p = q

(* p has written its owner and has not found it replaced.                  *)
Holding(p) ==
    \/ pc[p] \in {"action", "unlink"}
    \/ my[p] # None /\ pc[p] \in {"stat", "read", "restat", "reread", "reclaim"}

Names(g) == file # None /\ file.gen = g
Stale == ownerIsStale(file.owner, file.aged)

Descriptors(p) ==
    /\ pc[p] \in {"idle", "open", "dead"} => my[p] = None
    /\ pc[p] \in {"write", "action", "check", "unlink"} => my[p] # None
    /\ Names(my[p]) => file.owner \in {None, p}
    /\ pc[p] = "write" => Names(my[p]) /\ file.owner = None /\ ~file.aged
    /\ Holding(p) => Names(my[p]) /\ file.owner = p

(* What p saw of the file that is there is still so, and what it is about  *)
(* to unlink is there.                                                     *)
Sightings(p) ==
    /\ Names(st[p].gen) /\ st[p].aged => file.aged
    /\ pc[p] \in {"restat", "reread", "reclaim"} /\ Names(st[p].gen) => Stale
    /\ Reclaiming(p) => Names(st[p].gen)

Apart == \A p, q \in Procs : my[p] # None /\ my[p] = my[q] => p = q

OneInv ==
    /\ TypeOK /\ Apart
    /\ file # None /\ file.aged => file.owner = None
    /\ \A p \in Procs : Descriptors(p) /\ Sightings(p)

(* Only the steps of a process change what it has and what it saw.         *)
LEMMA OthersStay ==
  ASSUME TypeOK, NEW p \in Procs, Step(p) \/ Crash(p), NEW q \in Procs \ {p}
  PROVE  pc'[q] = pc[q] /\ my'[q] = my[q] /\ st'[q] = st[q]
<1> USE DEF TypeOK, AfterReclaim, Finish
<1>1. CASE Call(p) \/ Open(p) \/ WriteOwner(p) \/ WriteFails(p) \/ ActionEnds(p) \/ ActionThrowsEEXIST(p)
  BY <1>1 DEF Call, Open, WriteOwner, WriteFails, ActionEnds, ActionThrowsEEXIST
<1>2. CASE ReleaseCheck(p) \/ ReleaseUnlink(p) \/ Crash(p)
  BY <1>2 DEF ReleaseCheck, ReleaseUnlink, Crash
<1>3. CASE ReclaimStat(p) \/ ReclaimRead(p) \/ ReclaimRestat(p) \/ ReclaimReread(p) \/ ReclaimUnlink(p)
  BY <1>3 DEF ReclaimStat, ReclaimRead, ReclaimRestat, ReclaimReread, ReclaimUnlink
<1> QED
  BY <1>1, <1>2, <1>3 DEF Step

(* A step that leaves the file alone keeps the invariant if the process    *)
(* that takes it does.                                                     *)
LEMMA FileStays ==
  ASSUME OneInv, TypeOK', NEW p \in Procs, Step(p) \/ Crash(p), pc[p] # "dead",
         file' = file, my'[p] \in {my[p], None}, Descriptors(p)', Sightings(p)'
  PROVE  OneInv'
<1>1. ASSUME NEW q \in Procs \ {p} PROVE pc'[q] = pc[q] /\ my'[q] = my[q] /\ st'[q] = st[q]
  BY OthersStay DEF OneInv
<1>2. Apart'
  BY <1>1 DEF OneInv, Apart
<1>3. file # None /\ Stale => Stale'
  <2>1. file # None => file.owner \in Procs \cup {None}
    BY FileFields DEF OneInv, TypeOK
  <2> QED
    BY <1>1, <2>1 DEF Stale, ownerIsStale, processAlive
<1>4. ASSUME NEW q \in Procs \ {p} PROVE Descriptors(q)' /\ Sightings(q)'
  BY <1>1, <1>3 DEF OneInv, Descriptors, Sightings, Holding, Reclaiming, Names
<1> QED
  BY <1>2, <1>4 DEF OneInv

(* A process creates the file, or finds one. *)
LEMMA OpenKeeps == ASSUME OneInv, TypeOK', NEW p \in Procs, Open(p) PROVE OneInv'
<1> USE JournalLockAssumption
<1>1. CASE file = None
  <2>1. PICK g \in FreshGens : /\ file' = [gen |-> g, owner |-> None, aged |-> FALSE]
                              /\ my' = [my EXCEPT ![p] = g]
    BY <1>1 DEF Open
  <2>2. /\ g \in Gens /\ g # None
        /\ \A q \in Procs : my[q] # g /\ st[q].gen # g
    BY DEF FreshGens
  <2>3. file' # None /\ file'.gen = g /\ file'.owner = None /\ file'.aged = FALSE
    BY <2>1, <2>2, NewLockFileFields
  <2>4. pc' = [pc EXCEPT ![p] = "write"] /\ st' = st
    BY <1>1 DEF Open
  <2>5. \A q \in Procs : pc[q] # "write" /\ ~Holding(q) /\ ~Reclaiming(q)
    BY <1>1 DEF OneInv, Descriptors, Sightings, Names
  <2>6. Apart'
    BY <2>1, <2>2 DEF OneInv, TypeOK, Apart
  <2>7. ASSUME NEW q \in Procs PROVE Descriptors(q)' /\ Sightings(q)'
    <3>1. CASE q = p
      BY <2>1, <2>2, <2>3, <2>4, <3>1 DEF OneInv, TypeOK, Descriptors, Sightings, Holding, Reclaiming, Names
    <3>2. CASE q # p
      <4>1. pc'[q] = pc[q] /\ my'[q] = my[q] /\ st'[q] = st[q]
        BY <2>1, <2>4, <3>2 DEF OneInv, TypeOK
      <4>2. ~Names(my[q])' /\ ~Names(st[q].gen)'
        BY <2>2, <2>3, <4>1 DEF Names
      <4> QED
        BY <2>5, <4>1, <4>2 DEF OneInv, Descriptors, Sightings, Holding, Reclaiming, Names
    <3> QED
      BY <3>1, <3>2
  <2> QED
    BY <2>3, <2>6, <2>7 DEF OneInv
<1>2. CASE file # None
  <2>1. /\ pc[p] = "open" /\ pc'[p] = "stat" /\ file' = file /\ my' = my /\ st' = st
    BY <1>2 DEF Open, OneInv, TypeOK
  <2>2. Descriptors(p)' /\ Sightings(p)'
    BY <2>1 DEF OneInv, Descriptors, Sightings, Holding, Reclaiming, Names
  <2> QED
    BY <2>1, <2>2, FileStays DEF Step
<1> QED
  BY <1>1, <1>2

(* The creator of a file writes its pid into it; nobody has seen it old.   *)
LEMMA WriteKeeps == ASSUME OneInv, TypeOK', NEW p \in Procs, WriteOwner(p) PROVE OneInv'
<1>1. Names(my[p]) /\ file.owner = None /\ ~file.aged /\ pc[p] = "write" /\ my[p] # None
  BY DEF OneInv, Descriptors, WriteOwner
<1>2. file.gen \in Gens
  BY <1>1, FileFields DEF Names, OneInv, TypeOK
<1>3. file' # None /\ file'.gen = file.gen /\ file'.owner = p /\ file'.aged = FALSE
  <2>1. file' = [gen |-> file.gen, owner |-> p, aged |-> FALSE]
    BY <1>1 DEF WriteOwner, Names
  <2> QED
    BY <1>2, <2>1, NewLockFileFields
<1>4. pc' = [pc EXCEPT ![p] = "action"] /\ my' = my /\ st' = st
  BY DEF WriteOwner
<1>5. \A q \in Procs : Names(my[q]) => q = p
  BY <1>1 DEF OneInv, Apart, Names
<1>6. ~Stale
  BY <1>1 DEF Stale, ownerIsStale
<1>7. ASSUME NEW q \in Procs PROVE Descriptors(q)' /\ Sightings(q)'
  <2>1. CASE q = p
    BY <1>1, <1>3, <1>4, <1>6, <2>1, JournalLockAssumption
    DEF OneInv, TypeOK, Descriptors, Sightings, Holding, Reclaiming, Names
  <2>2. CASE q # p
    BY <1>1, <1>3, <1>4, <1>5, <1>6, <2>2
    DEF OneInv, TypeOK, Descriptors, Sightings, Holding, Reclaiming, Names
  <2> QED
    BY <2>1, <2>2
<1> QED
  BY <1>3, <1>4, <1>7 DEF OneInv, Apart

(* The file is removed by who may: its owner, or the one that reclaims it. *)
LEMMA RemovalKeeps ==
  ASSUME OneInv, TypeOK', OneReclaimer, NEW p \in Procs, ReleaseUnlink(p) \/ ReclaimUnlink(p)
  PROVE  OneInv'
<1> USE JournalLockAssumption
<1>1. file' = None /\ pc[p] \in {"unlink", "reclaim"}
  BY DEF ReleaseUnlink, ReclaimUnlink
<1>2. \/ ReleaseUnlink(p) /\ Names(my[p]) /\ file.owner = p
      \/ ReclaimUnlink(p) /\ Names(st[p].gen) /\ Stale /\ my[p] = None
  <2>1. CASE ReleaseUnlink(p)
    BY <2>1 DEF OneInv, Descriptors, Holding, ReleaseUnlink
  <2>2. CASE ReclaimUnlink(p)
    <3>1. pc[p] = "reclaim" /\ Names(st[p].gen) /\ Stale
      BY <2>2 DEF ReclaimUnlink, OneInv, Sightings, Reclaiming
    <3>2. my[p] # None => file.owner = p
      BY <3>1 DEF OneInv, Descriptors, Holding
    <3>3. file.owner # p
      BY <3>1 DEF Stale, ownerIsStale, processAlive
    <3> QED
      BY <2>2, <3>1, <3>2, <3>3
  <2> QED
    BY <2>1, <2>2
<1>3. ASSUME NEW q \in Procs \ {p} PROVE pc[q] # "write" /\ ~Holding(q) /\ ~Reclaiming(q)
  <2>1. CASE Names(my[p]) /\ file.owner = p
    <3>1. ~Names(my[q])
      <4>1. my[p] # None
        BY <2>1, FileFields DEF OneInv, Names, TypeOK
      <4> QED
        BY <2>1, <4>1 DEF OneInv, Apart, Names
    <3>2. ~Stale
      BY <1>1, <2>1 DEF Stale, ownerIsStale, processAlive
    <3> QED
      BY <3>1, <3>2 DEF OneInv, Descriptors, Sightings, Reclaiming
  <2>2. CASE Names(st[p].gen) /\ Stale /\ my[p] = None
    <3>1. pc[p] = "reclaim"
      BY <1>1, <2>2 DEF OneInv, Descriptors
    <3>2. ~Reclaiming(q)
      BY <3>1 DEF OneReclaimer, Reclaiming
    <3>3. pc[q] = "write" => file.owner = None /\ ~file.aged
      BY DEF OneInv, Descriptors
    <3>4. Holding(q) => file.owner = q /\ pc[q] # "dead"
      BY DEF OneInv, Descriptors, Holding
    <3> QED
      BY <2>2, <3>2, <3>3, <3>4 DEF Stale, ownerIsStale, processAlive
  <2> QED
    BY <1>2, <2>1, <2>2
<1>4. my'[p] = None /\ pc'[p] \in {"idle", "open"}
  <2>1. CASE ReleaseUnlink(p)
    BY <2>1 DEF ReleaseUnlink, Finish, OneInv, TypeOK
  <2>2. CASE ReclaimUnlink(p)
    <3>1. my[p] = None
      BY <1>2, <2>2 DEF ReleaseUnlink, ReclaimUnlink
    <3> QED
      BY <2>2, <3>1 DEF ReclaimUnlink, AfterReclaim, Finish, OneInv, TypeOK
  <2> QED
    BY <2>1, <2>2
<1>5. \A q \in Procs \ {p} : pc'[q] = pc[q] /\ my'[q] = my[q] /\ st'[q] = st[q]
  BY OthersStay DEF Step, OneInv
<1>6. ASSUME NEW q \in Procs PROVE Descriptors(q)' /\ Sightings(q)'
  BY <1>1, <1>3, <1>4, <1>5 DEF OneInv, Descriptors, Sightings, Holding, Reclaiming, Names
<1>7. Apart'
  BY <1>4, <1>5 DEF OneInv, Apart
<1> QED
  BY <1>1, <1>6, <1>7 DEF OneInv

(* A reclaimer looks at the file, twice. *)
LEMMA LookKeeps ==
  ASSUME OneInv, TypeOK', NEW p \in Procs,
         ReclaimStat(p) \/ ReclaimRead(p) \/ ReclaimRestat(p) \/ ReclaimReread(p)
  PROVE  OneInv'
<1> USE JournalLockAssumption
<1>0. /\ file' = file /\ pc[p] \in {"stat", "read", "restat", "reread"}
      /\ file # None => file.gen \in Gens
  BY FileFields DEF OneInv, TypeOK, ReclaimStat, ReclaimRead, ReclaimRestat, ReclaimReread, shared
(* It finds the file gone, changed or in use. *)
<1>1. CASE AfterReclaim(p, FALSE)
  <2>1. /\ st'[p] = NoStat
        /\ \/ my'[p] = None /\ my[p] = None /\ pc'[p] \in {"open", "idle"}
           \/ my'[p] = my[p] /\ my[p] # None /\ pc'[p] = "check"
    BY <1>1 DEF AfterReclaim, Finish, OneInv, TypeOK
  <2>2. Descriptors(p)' /\ Sightings(p)'
    BY <1>0, <2>1 DEF OneInv, Descriptors, Sightings, Holding, Reclaiming, Names, NoStat
  <2> QED
    BY <1>0, <2>1, <2>2, FileStays DEF Step
(* It goes on. *)
<1>2. CASE ~AfterReclaim(p, FALSE)
  <2>1. /\ file # None /\ my' = my
        /\ \/ /\ ReclaimStat(p) /\ pc'[p] = "read"
              /\ st'[p] = [gen |-> file.gen, aged |-> file.aged]
           \/ /\ ReclaimRead(p) /\ pc'[p] = "restat" /\ st'[p] = st[p]
              /\ ownerIsStale(file.owner, st[p].aged)
           \/ /\ ReclaimRestat(p) /\ pc'[p] = "reread" /\ st'[p] = st[p]
              /\ file.gen = st[p].gen
           \/ ReclaimReread(p) /\ pc'[p] = "reclaim" /\ st'[p] = st[p]
    BY <1>2 DEF ReclaimStat, ReclaimRead, ReclaimRestat, ReclaimReread, OneInv, TypeOK
  <2>2. Descriptors(p)'
    BY <1>0, <2>1 DEF OneInv, Descriptors, Holding, Names
  <2>3. Sightings(p)'
    <3>1. CASE ReclaimStat(p) /\ pc'[p] = "read"
      BY <1>0, <2>1, <3>1 DEF Sightings, Reclaiming, Names, ReclaimStat, ReclaimRead, ReclaimRestat, ReclaimReread
    <3>2. CASE /\ ReclaimRead(p) /\ pc'[p] = "restat" /\ st'[p] = st[p]
               /\ ownerIsStale(file.owner, st[p].aged)
      <4>1. pc[p] = "read" /\ pc' = [pc EXCEPT ![p] = "restat"]
        BY <1>0, <1>2, <2>1, <3>2 DEF ReclaimRead
      <4>2. Names(st[p].gen) => Stale'
        <5>1. Names(st[p].gen) => ownerIsStale(file.owner, file.aged)
          BY <3>2 DEF OneInv, Sightings, ownerIsStale
        <5> QED
          BY <1>0, <4>1, <5>1 DEF Stale, ownerIsStale, processAlive, OneInv, TypeOK
      <4> QED
        BY <1>0, <3>2, <4>2 DEF OneInv, Sightings, Reclaiming, Names
    <3>3. CASE /\ ReclaimRestat(p) /\ pc'[p] = "reread" /\ st'[p] = st[p]
               /\ file.gen = st[p].gen
      <4>1. pc[p] = "restat" /\ pc' = [pc EXCEPT ![p] = "reread"]
        BY <1>0, <1>2, <2>1, <3>3 DEF ReclaimRestat
      <4>2. Names(st[p].gen) /\ Stale
        BY <2>1, <3>3, <4>1 DEF OneInv, Sightings, Names
      <4>3. Stale'
        BY <1>0, <4>1, <4>2 DEF Stale, ownerIsStale, processAlive, OneInv, TypeOK
      <4> QED
        BY <1>0, <3>3, <4>2, <4>3 DEF OneInv, Sightings, Reclaiming, Names
    <3>4. CASE ReclaimReread(p) /\ pc'[p] = "reclaim" /\ st'[p] = st[p]
      <4>1. pc[p] = "reread" /\ pc' = [pc EXCEPT ![p] = "reclaim"]
        BY <1>0, <1>2, <2>1, <3>4 DEF ReclaimReread
      <4>2. Names(st[p].gen) /\ Stale
        BY <4>1 DEF OneInv, Sightings, Reclaiming
      <4>3. Stale'
        BY <1>0, <4>1, <4>2 DEF Stale, ownerIsStale, processAlive, OneInv, TypeOK
      <4> QED
        BY <1>0, <3>4, <4>2, <4>3 DEF OneInv, Sightings, Reclaiming, Names
    <3> QED
      BY <2>1, <3>1, <3>2, <3>3, <3>4
  <2> QED
    BY <1>0, <2>1, <2>2, <2>3, FileStays DEF Step
<1> QED
  BY <1>1, <1>2

(* The other steps of a call, and its death, leave the file alone. *)
LEMMA CallKeeps ==
  ASSUME OneInv, TypeOK', NEW p \in Procs,
         \/ Call(p) \/ WriteFails(p) \/ ActionEnds(p) \/ ActionThrowsEEXIST(p)
         \/ ReleaseCheck(p) \/ Crash(p)
  PROVE  OneInv'
<1> USE JournalLockAssumption
<1>1. file' = file /\ my'[p] \in {my[p], None} /\ pc[p] # "dead"
  BY DEF Call, WriteFails, ActionEnds, ActionThrowsEEXIST, ReleaseCheck, Crash, Finish, OneInv, TypeOK
<1>2. Descriptors(p)' /\ Sightings(p)'
  <2>0. file # None => file.gen \in Gens /\ file.owner \in Procs \cup {None}
    BY FileFields DEF OneInv, TypeOK
  <2>1. CASE Call(p) \/ WriteFails(p) \/ ActionEnds(p) \/ ActionThrowsEEXIST(p)
    <3>1. /\ my'[p] = my[p] /\ st'[p] = st[p]
          /\ \/ pc[p] = "idle" /\ pc'[p] = "open"
             \/ pc[p] \in {"write", "action"} /\ pc'[p] = "check"
             \/ pc[p] = "action" /\ pc'[p] = "stat"
      BY <2>1 DEF Call, WriteFails, ActionEnds, ActionThrowsEEXIST, OneInv, TypeOK
    <3> QED
      BY <1>1, <3>1 DEF OneInv, Descriptors, Sightings, Holding, Reclaiming, Names
  <2>2. CASE ReleaseCheck(p)
    <3>1. /\ st'[p] = st[p] /\ pc[p] = "check"
          /\ \/ /\ pc'[p] = "unlink" /\ my'[p] = my[p]
                /\ Names(my[p]) /\ file.owner # None
             \/ pc'[p] \in {"idle", "open"} /\ my'[p] = None
      BY <2>2 DEF ReleaseCheck, Finish, Names, OneInv, TypeOK
    <3> QED
      BY <1>1, <2>0, <3>1 DEF OneInv, Descriptors, Sightings, Holding, Reclaiming, Names
  <2>3. CASE Crash(p)
    <3>1. st'[p] = NoStat /\ my'[p] = None /\ pc'[p] = "dead"
      BY <2>3 DEF Crash, OneInv, TypeOK
    <3> QED
      BY <1>1, <2>0, <3>1 DEF Descriptors, Sightings, Holding, Reclaiming, Names, NoStat
  <2> QED
    BY <2>1, <2>2, <2>3
<1> QED
  BY <1>1, <1>2, FileStays DEF Step

(* An ownerless file gets old; without a stall its creator has left it.    *)
LEMMA AgeKeeps ==
  ASSUME OneInv, TypeOK', Age, "stall" \notin FaultKinds
  PROVE  OneInv'
<1> USE JournalLockAssumption
<1>1. /\ file # None /\ file.owner = None /\ ~BeingWritten
      /\ pc' = pc /\ my' = my /\ st' = st
  BY DEF Age, Fault
<1>2. file.gen \in Gens
  BY <1>1, FileFields DEF OneInv, TypeOK
<1>3. file' # None /\ file'.gen = file.gen /\ file'.owner = None /\ file'.aged = TRUE
  <2>1. file' = [gen |-> file.gen, owner |-> None, aged |-> TRUE]
    BY DEF Age
  <2> QED
    BY <1>2, <2>1, NewLockFileFields
<1>4. Stale'
  BY <1>3 DEF Stale, ownerIsStale
<1>5. ASSUME NEW q \in Procs PROVE pc[q] # "write" /\ ~Holding(q)
  BY <1>1 DEF OneInv, Descriptors, Names, BeingWritten
<1>6. ASSUME NEW q \in Procs PROVE Descriptors(q)' /\ Sightings(q)'
  BY <1>1, <1>3, <1>4, <1>5 DEF OneInv, Descriptors, Sightings, Holding, Reclaiming, Names
<1> QED
  BY <1>1, <1>3, <1>6 DEF OneInv, Apart

(* Every step keeps it, as long as no two processes reclaim at a time.     *)
LEMMA OneStep ==
  ASSUME OneInv, TypeOK', OneReclaimer, "stall" \notin FaultKinds, [Next]_vars
  PROVE  OneInv'
<1>1. ASSUME NEW p \in Procs, Step(p) \/ Crash(p) PROVE OneInv'
  BY <1>1, OpenKeeps, WriteKeeps, RemovalKeeps, LookKeeps, CallKeeps DEF Step
<1>2. CASE UNCHANGED vars
  BY <1>2 DEF vars, OneInv, TypeOK, Apart, Descriptors, Sightings, Holding, Reclaiming,
              Names, Stale, ownerIsStale, processAlive
<1> QED
  BY <1>1, <1>2, AgeKeeps DEF Next

(* A file that names a live owner goes by its owner's own unlink. *)
LEMMA OwnerStep ==
  ASSUME OneInv, [Next]_vars, NEW p \in Procs,
         file # None, file.owner = p, processAlive(p), file' = None \/ file'.gen # file.gen
  PROVE  pc[p] = "unlink" /\ pc'[p] # "unlink"
<1> USE JournalLockAssumption
<1>1. file.gen \in Gens
  BY FileFields DEF OneInv, TypeOK
<1>2. ~Stale
  BY DEF Stale, ownerIsStale, OneInv, TypeOK
<1>3. ~Age /\ ~UNCHANGED vars
  BY DEF Age, vars
<1>4. PICK q \in Procs : Step(q) \/ Crash(q)
  BY <1>3 DEF Next
<1>5. CASE ReleaseUnlink(q)
  <2>1. q = p /\ pc[q] = "unlink"
    BY <1>5 DEF OneInv, Descriptors, Holding, Names, ReleaseUnlink
  <2>2. pc'[q] \in {"idle", "open"}
    BY <1>5 DEF ReleaseUnlink, Finish, OneInv, TypeOK
  <2> QED
    BY <2>1, <2>2
<1>6. CASE ReclaimUnlink(q)
  BY <1>2, <1>6 DEF ReclaimUnlink, OneInv, Sightings, Reclaiming
<1>7. CASE WriteOwner(q)
  BY <1>1, <1>7, NewLockFileFields DEF WriteOwner
<1>8. CASE Open(q)
  BY <1>8 DEF Open
<1>9. CASE Call(q) \/ WriteFails(q) \/ ActionEnds(q) \/ ActionThrowsEEXIST(q) \/ ReleaseCheck(q) \/ Crash(q)
  BY <1>9 DEF Call, WriteFails, ActionEnds, ActionThrowsEEXIST, ReleaseCheck, Crash
<1>10. CASE ReclaimStat(q) \/ ReclaimRead(q) \/ ReclaimRestat(q) \/ ReclaimReread(q)
  BY <1>10 DEF ReclaimStat, ReclaimRead, ReclaimRestat, ReclaimReread, shared
<1> QED
  BY <1>4, <1>5, <1>6, <1>7, <1>8, <1>9, <1>10 DEF Step

(* The comment of reclaimStaleJournalLock, and mutual exclusion itself,    *)
(* hold through any number of deaths and failed writes in behaviours where *)
(* no two callers are between the last stat and the unlink of a reclaim at *)
(* the same time, and no creator stalls before it writes its pid: the race *)
(* of two reclaimers, and the age test on a stalled creator, are the only  *)
(* ways the code loses its lock.                                           *)
THEOREM OneReclaimerIsSafe ==
  ASSUME "stall" \notin FaultKinds
  PROVE  Spec /\ []OneReclaimer => []Mutex /\ LiveOwnerKept
<1>1. Init => OneInv
  BY TypeInit, NoRecords, JournalLockAssumption
     DEF Init, OneInv, Apart, Descriptors, Sightings, Holding, Reclaiming, Names
<1>2. OneInv /\ OneReclaimer /\ [Next]_vars => OneInv'
  BY OneStep, TypeStep DEF OneInv
<1>3. OneInv => Mutex
  BY DEF OneInv, Descriptors, Holding, Names, Mutex
<1>4. OneInv /\ [Next]_vars =>
        [\A p \in Procs :
            (file # None /\ file.owner = p /\ processAlive(p)
               /\ (file' = None \/ file'.gen # file.gen))
            => pc[p] = "unlink" /\ pc'[p] # "unlink"]_vars
  BY OwnerStep
<1> QED
  BY <1>1, <1>2, <1>3, <1>4, PTL DEF Spec, LiveOwnerKept

=============================================================================
