----------------------------- MODULE JournalLock -----------------------------
(***************************************************************************)
(* The crash-recoverable file lock of scripts/pr2-foundation/              *)
(* journal-lock.ts.  A caller creates the lock file with O_EXCL, writes    *)
(* {pid, nonce} into it, runs its action and unlinks the file if it still  *)
(* holds its own nonce.  A caller that finds the file there tries to       *)
(* reclaim it: it is stale when the pid in it is dead, or, when it carries *)
(* no owner, when it is old.  Every file system call is a step of its own, *)
(* because any two of them may be separated by steps of other processes.   *)
(***************************************************************************)
EXTENDS Naturals, FiniteSets

CONSTANTS
    Procs,       \* pids of the processes that use one lock path
    Gens,        \* identities of lock files: inode and nonce together
    None,        \* no file, no owner, no identity
    MaxAttempts, \* the caller's maxAttempts
    FaultKinds,  \* subset of {"crash", "write", "stall"}
    MaxFaults    \* bound on the number of faults of a behaviour

LockFiles == [gen : Gens, owner : Procs \cup {None}, aged : BOOLEAN]

ASSUME JournalLockAssumption ==
    /\ None \notin Procs \cup Gens \cup LockFiles
    /\ MaxAttempts \in Nat \ {0}
    /\ MaxFaults \in Nat

VARIABLES
    file,   \* the path: None, or [gen, owner, aged]
    pc,     \* where each process is
    att,    \* its attempt, 1 .. MaxAttempts
    my,     \* the file its open descriptor refers to, None when it has none
    st,     \* reclaim: what statSync saw, [gen, aged]
    raw,    \* reclaim: what readLockRaw saw, [gen, owner]; no owner, no gen
    res,    \* what the attempt ends with
    faults  \* faults so far

vars == <<file, pc, att, my, st, raw, res, faults>>
shared == <<file, faults>>

Results == {"none", "retry", "busy", "done", "error"}

PCs == {"idle", "open", "write", "action", "stat", "read", "restat", "reread",
        "reclaim", "check", "unlink", "dead"}

NoStat == [gen |-> None, aged |-> FALSE]
NoRaw == [gen |-> None, owner |-> None]

Stats == [gen : Gens \cup {None}, aged : BOOLEAN]
Raws == [gen : Gens \cup {None}, owner : Procs \cup {None}]

TypeOK ==
    /\ file \in {None} \cup LockFiles
    /\ pc \in [Procs -> PCs]
    /\ att \in [Procs -> 1 .. MaxAttempts]
    /\ my \in [Procs -> Gens \cup {None}]
    /\ st \in [Procs -> Stats]
    /\ raw \in [Procs -> Raws]
    /\ res \in [Procs -> Results]
    /\ faults \in 0 .. MaxFaults

Init ==
    /\ file = None
    /\ pc = [p \in Procs |-> "idle"]
    /\ att = [p \in Procs |-> 1]
    /\ my = [p \in Procs |-> None]
    /\ st = [p \in Procs |-> NoStat]
    /\ raw = [p \in Procs |-> NoRaw]
    /\ res = [p \in Procs |-> "none"]
    /\ faults = 0

-----------------------------------------------------------------------------
processAlive(p) == pc[p] # "dead"

(* parseOwner of what is in a file: its nonce counts only with an owner.   *)
parseOwner(f) == IF f.owner = None THEN NoRaw ELSE [gen |-> f.gen, owner |-> f.owner]

(* A lock file is taken for stale because of its age, owner or not. *)
ownerIsStaleByAgeOnly(owner, aged) == TRUE

(* Only owners are tested; an ownerless file is never stale. *)
ownerIsStaleOwnedOnly(owner, aged) == owner # None /\ ~processAlive(owner)

ownerIsStale(owner, aged) ==
    IF owner # None THEN ~processAlive(owner) ELSE aged

(* An inode number or nonce is not reused while anyone still remembers it. *)
FreshGens ==
    {g \in Gens : /\ file # None => file.gen # g
                  /\ \A p \in Procs : my[p] # g /\ st[p].gen # g /\ raw[p].gen # g}

Fault(kind) ==
    /\ kind \in FaultKinds
    /\ faults < MaxFaults
    /\ faults' = faults + 1

-----------------------------------------------------------------------------
(* withCrashRecoverableFileLock                                            *)

Call(p) ==
    /\ pc[p] = "idle"
    /\ pc' = [pc EXCEPT ![p] = "open"]
    /\ att' = [att EXCEPT ![p] = 1]
    /\ UNCHANGED <<file, my, st, raw, res, faults>>

(* openSync(lockPath, 'wx') creates the file, or fails with EEXIST. *)
Open(p) ==
    /\ pc[p] = "open"
    /\ \/ /\ file = None
          /\ \E g \in FreshGens :
                /\ file' = [gen |-> g, owner |-> None, aged |-> FALSE]
                /\ my' = [my EXCEPT ![p] = g]
          /\ pc' = [pc EXCEPT ![p] = "write"]
       \/ /\ file # None
          /\ pc' = [pc EXCEPT ![p] = "stat"]
          /\ UNCHANGED <<file, my>>
    /\ UNCHANGED <<att, st, raw, res, faults>>

(* The owner goes to the descriptor, whatever the path now names. *)
WriteOwner(p) ==
    /\ pc[p] = "write"
    /\ file' = IF file # None /\ file.gen = my[p]
               THEN [gen |-> file.gen, owner |-> p, aged |-> FALSE]
               ELSE file
    /\ pc' = [pc EXCEPT ![p] = "action"]
    /\ UNCHANGED <<att, my, st, raw, res, faults>>

(* writeFileSync or fsyncSync throws: the file stays without an owner. *)
WriteFails(p) ==
    /\ pc[p] = "write"
    /\ Fault("write")
    /\ res' = [res EXCEPT ![p] = "error"]
    /\ pc' = [pc EXCEPT ![p] = "check"]
    /\ UNCHANGED <<file, att, my, st, raw>>

(* The action returns, or throws something other than EEXIST. *)
ActionEnds(p) ==
    /\ pc[p] = "action"
    /\ \E r \in {"done", "error"} : res' = [res EXCEPT ![p] = r]
    /\ pc' = [pc EXCEPT ![p] = "check"]
    /\ UNCHANGED <<file, att, my, st, raw, faults>>

(* An EEXIST thrown by the action itself is taken for contention. *)
ActionThrowsEEXIST(p) ==
    /\ pc[p] = "action"
    /\ pc' = [pc EXCEPT ![p] = "stat"]
    /\ UNCHANGED <<file, att, my, st, raw, res, faults>>

-----------------------------------------------------------------------------
(* The end of an attempt.  A caller with a descriptor goes through the     *)
(* finally block first; r is what the attempt ends with.                   *)

Finish(p, r) ==
    /\ my' = [my EXCEPT ![p] = None]
    /\ IF r = "retry"
       THEN pc' = [pc EXCEPT ![p] = "open"]
       ELSE pc' = [pc EXCEPT ![p] = "idle"]
    /\ res' = [res EXCEPT ![p] = "none"]

(* The attempt is counted before it is compared with the limit. *)
AfterReclaimCountsPastLimit(p, reclaimed) ==
    /\ att' = [att EXCEPT ![p] = att[p] + 1]
    /\ st' = [st EXCEPT ![p] = NoStat]
    /\ raw' = [raw EXCEPT ![p] = NoRaw]
    /\ Finish(p, IF att[p] <= MaxAttempts THEN "retry" ELSE "busy")

(* A failed reclaim is retried at once, without counting the attempt. *)
AfterReclaimNeverCounts(p, reclaimed) ==
    /\ st' = [st EXCEPT ![p] = NoStat]
    /\ raw' = [raw EXCEPT ![p] = NoRaw]
    /\ att' = att
    /\ IF my[p] = None
       THEN Finish(p, "retry")
       ELSE /\ pc' = [pc EXCEPT ![p] = "check"]
            /\ res' = [res EXCEPT ![p] = "retry"]
            /\ my' = my

(* reclaimStaleJournalLock returned TRUE (the attempt is not counted) or   *)
(* FALSE (busy on the last attempt, otherwise delay and count).            *)
AfterReclaim(p, reclaimed) ==
    LET r == IF reclaimed \/ att[p] < MaxAttempts THEN "retry" ELSE "busy"
    IN  /\ att' = IF reclaimed \/ att[p] = MaxAttempts THEN att
                  ELSE [att EXCEPT ![p] = att[p] + 1]
        /\ st' = [st EXCEPT ![p] = NoStat]
        /\ raw' = [raw EXCEPT ![p] = NoRaw]
        /\ IF my[p] = None
           THEN Finish(p, r)
           ELSE /\ pc' = [pc EXCEPT ![p] = "check"]
                /\ res' = [res EXCEPT ![p] = r]
                /\ my' = my

(* closeSync, then stillOwnedBy: the path holds this attempt's nonce. *)
ReleaseCheck(p) ==
    /\ pc[p] = "check"
    /\ IF file # None /\ file.owner # None /\ file.gen = my[p]
       THEN /\ pc' = [pc EXCEPT ![p] = "unlink"]
            /\ UNCHANGED <<my, res>>
       ELSE Finish(p, res[p])
    /\ UNCHANGED <<file, att, st, raw, faults>>

(* unlinkSync removes whatever the path names now. *)
ReleaseUnlink(p) ==
    /\ pc[p] = "unlink"
    /\ file' = None
    /\ Finish(p, res[p])
    /\ UNCHANGED <<att, st, raw, faults>>

-----------------------------------------------------------------------------
(* reclaimStaleJournalLock                                                 *)

ReclaimStat(p) ==
    /\ pc[p] = "stat"
    /\ IF file = None
       THEN AfterReclaim(p, FALSE)
       ELSE /\ st' = [st EXCEPT ![p] = [gen |-> file.gen, aged |-> file.aged]]
            /\ pc' = [pc EXCEPT ![p] = "read"]
            /\ UNCHANGED <<att, my, raw, res>>
    /\ UNCHANGED shared

(* The content read may be of a later file than the one stat saw. *)
ReclaimRead(p) ==
    /\ pc[p] = "read"
    /\ IF file # None /\ ownerIsStale(file.owner, st[p].aged)
       THEN /\ raw' = [raw EXCEPT ![p] = parseOwner(file)]
            /\ pc' = [pc EXCEPT ![p] = "restat"]
            /\ UNCHANGED <<att, my, st, res>>
       ELSE AfterReclaim(p, FALSE)
    /\ UNCHANGED shared

ReclaimRestat(p) ==
    /\ pc[p] = "restat"
    /\ IF file # None /\ file.gen = st[p].gen
       THEN /\ pc' = [pc EXCEPT ![p] = "reread"]
            /\ UNCHANGED <<att, my, st, raw, res>>
       ELSE AfterReclaim(p, FALSE)
    /\ UNCHANGED shared

ReclaimReread(p) ==
    /\ pc[p] = "reread"
    /\ IF file # None /\ parseOwner(file) = raw[p]
       THEN /\ pc' = [pc EXCEPT ![p] = "reclaim"]
            /\ UNCHANGED <<att, my, st, raw, res>>
       ELSE AfterReclaim(p, FALSE)
    /\ UNCHANGED shared

(* unlinkSync(lockPath): by path, whatever is there now. *)
ReclaimUnlink(p) ==
    /\ pc[p] = "reclaim"
    /\ file' = None
    /\ AfterReclaim(p, file # None)
    /\ UNCHANGED faults

-----------------------------------------------------------------------------
(* The environment: a process dies anywhere in a call, and time passes.    *)

Crash(p) ==
    /\ pc[p] \notin {"idle", "dead"}
    /\ Fault("crash")
    /\ pc' = [pc EXCEPT ![p] = "dead"]
    /\ my' = [my EXCEPT ![p] = None]
    /\ st' = [st EXCEPT ![p] = NoStat]
    /\ raw' = [raw EXCEPT ![p] = NoRaw]
    /\ res' = [res EXCEPT ![p] = "none"]
    /\ UNCHANGED <<file, att>>

BeingWritten == file # None /\ \E p \in Procs : pc[p] = "write" /\ my[p] = file.gen

(* An ownerless file gets older than lockStaleMs.  That its creator spends *)
(* so long between open and write is a stall, and counts as a fault.       *)
Age ==
    /\ file # None
    /\ file.owner = None
    /\ ~file.aged
    /\ file' = [gen |-> file.gen, owner |-> None, aged |-> TRUE]
    /\ IF BeingWritten THEN Fault("stall") ELSE faults' = faults
    /\ UNCHANGED <<pc, att, my, st, raw, res>>

Step(p) ==
    \/ Call(p) \/ Open(p) \/ WriteOwner(p) \/ WriteFails(p)
    \/ ActionEnds(p) \/ ActionThrowsEEXIST(p)
    \/ ReleaseCheck(p) \/ ReleaseUnlink(p)
    \/ ReclaimStat(p) \/ ReclaimRead(p) \/ ReclaimRestat(p)
    \/ ReclaimReread(p) \/ ReclaimUnlink(p)

Next == Age \/ \E p \in Procs : Step(p) \/ Crash(p)

(* A live process is scheduled, its action ends, and time passes. *)
Fairness ==
    /\ WF_vars(Age)
    /\ \A p \in Procs : WF_vars(Step(p)) /\ WF_vars(ActionEnds(p))

Spec == Init /\ [][Next]_vars
FairSpec == Spec /\ Fairness

-----------------------------------------------------------------------------
(* Properties                                                              *)

(* No two processes run their actions at the same time.                    *)
Mutex == \A p, q \in Procs : pc[p] = "action" /\ pc[q] = "action" => p = q

(* Until a process dies, stalls or fails to write its owner, the O_EXCL    *)
(* creation and the nonce-checked unlink of withCrashRecoverableFileLock   *)
(* keep the actions of any number of callers apart, whatever reclaims they *)
(* attempt on one another's files.                                         *)
MutexUntilFault == faults = 0 => Mutex

(* reclaimStaleJournalLock: "A live owner is never removed, and a          *)
(* concurrent replacement loses the race without being unlinked."  Only    *)
(* the owner itself ever removes a lock file that names a live owner.      *)
LiveOwnerKept ==
    [][\A p \in Procs :
          (file # None /\ file.owner = p /\ processAlive(p)
             /\ (file' = None \/ file'.gen # file.gen))
          => pc[p] = "unlink" /\ pc'[p] # "unlink"]_vars

(* Every call returns or throws: the retry loop that does not count an     *)
(* attempt after a successful reclaim cannot spin for ever.                *)
CallTerminates ==
    \A p \in Procs : pc[p] \notin {"idle", "dead"} ~> pc[p] \in {"idle", "dead"}

(* A file whose creator is gone: its owner is dead, or it never got one.   *)
Orphan ==
    /\ file # None
    /\ IF file.owner # None THEN ~processAlive(file.owner)
       ELSE \A p \in Procs : my[p] # file.gen

(* A lock left behind by a dead or failed creator does not block the path  *)
(* for good, as long as some process goes on calling.                      *)
OrphanReclaimed ==
    Orphan ~> (~Orphan \/ \A p \in Procs : ~processAlive(p))

=============================================================================
