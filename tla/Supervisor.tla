----------------------------- MODULE Supervisor -----------------------------
(***************************************************************************)
(* The side-process supervisor: runSupervisor of scripts/lib/              *)
(* orchestrator-side-process-supervisor.ts, its single-instance lease, its *)
(* crash backoff, and the command reset-stall-refusal.                     *)
(*                                                                         *)
(* A run of the supervisor starts one scheduler tick after another and     *)
(* waits for each; it stops on a signal and refuses to go on when ticks    *)
(* keep failing or keep stalling, or when the epoch or the registry is not *)
(* the one it was started for.  Runs share the lease file, which the       *)
(* kernel locks, and the status file, which nothing locks.  A run may be   *)
(* killed between any two of its writes; its tick then goes on alone.      *)
(*                                                                         *)
(* The code between two awaits is not interrupted by the run's own signal  *)
(* handler or timers, but is by a kill, and by other processes.  Time is   *)
(* left out: a delay ends some time, a tick is late some time.             *)
(***************************************************************************)
EXTENDS Naturals

CONSTANTS
    MaxRuns,    \* bound: runs that acquire the lease
    Limit,      \* terminalRapidExits: failures, or stalls, in a row
    Patience,   \* maxRapidExitsBeforeBackoff
    MaxKills,   \* bound: runs that are killed
    MaxDrifts,  \* bound: changes of the registry or the epoch authority
    MaxResets   \* bound: reset commands

ASSUME SupervisorAssumption ==
    /\ Limit \in Nat /\ Limit >= 2
    /\ Patience \in Nat /\ Patience >= 1
    /\ MaxRuns \in Nat /\ MaxKills \in Nat /\ MaxDrifts \in Nat /\ MaxResets \in Nat

VARIABLES
    lock,      \* which run holds the kernel's lock on owner.json, or 0
    owner,     \* which run owner.json names, or 0 when it is empty
    status,    \* the status file
    memory,    \* per run: the status object it writes from
    stopping,  \* per run: whether it has handled a signal
    cancelled, \* per run: whether it has cancelled its tick
    stalled,   \* per run: whether its tick passed the stall deadline
    pc,        \* per run: where it is
    tick,      \* per run: its last tick
    valid,     \* whether epoch and registry are those of the runs
    held,      \* the status a reset command has read
    kills, drifts, resets

run == <<lock, owner, memory, stopping, cancelled, stalled, pc>>
bounds == <<kills, drifts, resets>>
vars == <<run, status, tick, valid, held, bounds>>

Runs == 1 .. MaxRuns
Outcomes == {"none", "completed", "failed", "stalled"}
Refusals == {"none", "mismatch", "child", "stall-loop"}
States == {"starting", "running", "waiting-restart", "stopping", "refused"}

(* last is lastTerminationReason; recent tells whether lastExitMs, the end *)
(* of the last tick that did not stall, is less than two cadences ago.     *)
Statuses == [run : Runs, state : States, child : BOOLEAN, refusal : Refusals,
             rapid : 0 .. Limit, stalls : 0 .. Limit, last : Outcomes, recent : BOOLEAN]
Fresh(r) == [run |-> r, state |-> "starting", child |-> FALSE, refusal |-> "none",
             rapid |-> 0, stalls |-> 0, last |-> "none", recent |-> FALSE]
NoStatus == [run |-> 0]

PCs == {"new", "acquired", "top", "backoff", "spawn", "spawned", "tick", "stalledOut", "rest",
        "leave", "release", "ended", "killed"}
Alive(r) == pc[r] \notin {"new", "ended", "killed"}

SupervisorTypeOK ==
    /\ lock \in 0 .. MaxRuns /\ owner \in 0 .. MaxRuns
    /\ status \in Statuses \cup {NoStatus}
    /\ memory \in [Runs -> Statuses]
    /\ stopping \in [Runs -> BOOLEAN]
    /\ cancelled \in [Runs -> BOOLEAN] /\ stalled \in [Runs -> BOOLEAN]
    /\ pc \in [Runs -> PCs]
    /\ tick \in [Runs -> {"none", "live", "ok", "bad"}]
    /\ valid \in BOOLEAN
    /\ held \in Statuses \cup {NoStatus}
    /\ kills \in 0 .. MaxKills /\ drifts \in 0 .. MaxDrifts /\ resets \in 0 .. MaxResets

Init ==
    /\ lock = 0 /\ owner = 0
    /\ status = NoStatus
    /\ memory = [r \in Runs |-> Fresh(r)]
    /\ stopping = [r \in Runs |-> FALSE]
    /\ cancelled = [r \in Runs |-> FALSE] /\ stalled = [r \in Runs |-> FALSE]
    /\ pc = [r \in Runs |-> "new"]
    /\ tick = [r \in Runs |-> "none"]
    /\ valid = TRUE
    /\ held = NoStatus
    /\ kills = 0 /\ drifts = 0 /\ resets = 0

-----------------------------------------------------------------------------
(* The lease.  A run that finds it taken ends without having written       *)
(* anything, and is left out.                                              *)

(* acquireSingleInstanceLease: the kernel's lock, and no living owner.     *)
Free == lock = 0 /\ ~\E q \in Runs : owner = q /\ Alive(q)

Acquire(r) ==
    /\ pc[r] = "new" /\ \A q \in 1 .. (r - 1) : pc[q] # "new"
    /\ Free
    /\ lock' = r /\ owner' = r
    /\ pc' = [pc EXCEPT ![r] = "acquired"]
    /\ UNCHANGED <<status, memory, stopping, cancelled, stalled, tick, valid, held, bounds>>

(* releaseSingleInstanceLease, and the end of the process.                 *)
Release(r) ==
    /\ pc[r] = "release"
    /\ owner' = IF owner = r THEN 0 ELSE owner
    /\ lock' = 0
    /\ pc' = [pc EXCEPT ![r] = "ended"]
    /\ UNCHANGED <<status, memory, stopping, cancelled, stalled, tick, valid, held, bounds>>

-----------------------------------------------------------------------------
(* The loop.                                                               *)

WrittenOnce(s) == IF status = NoStatus THEN s ELSE status
Written(s) == s

(* The run changes its status object, writes it and goes on at the label.  *)
Goes(r, s, label) ==
    /\ memory' = [memory EXCEPT ![r] = s]
    /\ status' = Written(s)
    /\ pc' = [pc EXCEPT ![r] = label]
    /\ UNCHANGED <<lock, owner>>

World == UNCHANGED <<valid, held, bounds>>

Refuse(r) ==
    Goes(r, [memory[r] EXCEPT !.state = "refused", !.child = FALSE, !.refusal = "mismatch"],
         "release")

(* verify and the first status, before the signal handlers are there.      *)
Begin(r) ==
    /\ pc[r] = "acquired"
    /\ IF valid THEN Goes(r, memory[r], "top") ELSE Refuse(r)
    /\ UNCHANGED <<stopping, cancelled, stalled, tick>> /\ World

Launch(r, s) == Goes(r, [s EXCEPT !.state = "starting", !.child = FALSE], "spawn")

Verified(r) == [memory[r] EXCEPT !.refusal = "none"]

TopUnverified(r) ==
    /\ pc[r] = "top" /\ Launch(r, Verified(r))
    /\ UNCHANGED <<stopping, cancelled, stalled, tick>> /\ World

(* The head of the loop.  The delay of the last failure is over by then    *)
(* unless the wall clock was set back, or is behind the timer.             *)
Top(r) ==
    /\ pc[r] = "top"
    /\ \/ ~valid /\ Refuse(r)
       \/ valid /\ Launch(r, Verified(r))
       \/ /\ valid /\ memory[r].rapid >= Patience
          /\ Goes(r, [Verified(r) EXCEPT !.state = "waiting-restart"], "backoff")
    /\ UNCHANGED <<stopping, cancelled, stalled, tick>> /\ World

BackoffBlind(r) ==
    /\ pc[r] = "backoff"
    /\ Launch(r, memory[r])
    /\ UNCHANGED <<stopping, cancelled, stalled, tick>> /\ World

(* The wait at the head of the loop ends; nothing is verified again, but   *)
(* the registry is read, and an unreadable one ends the run unrecorded.    *)
Backoff(r) ==
    /\ pc[r] = "backoff"
    /\ \/ ~stopping[r] /\ Launch(r, memory[r])
       \/ /\ pc' = [pc EXCEPT ![r] = IF stopping[r] THEN "leave" ELSE "release"]
          /\ ~stopping[r] => ~valid
          /\ UNCHANGED <<lock, owner, memory, status>>
    /\ UNCHANGED <<stopping, cancelled, stalled, tick>> /\ World

(* runProcess starts the tick, or cannot.                                  *)
Spawn(r) ==
    /\ pc[r] = "spawn"
    /\ cancelled' = [cancelled EXCEPT ![r] = FALSE] /\ stalled' = [stalled EXCEPT ![r] = FALSE]
    /\ \/ tick' = [tick EXCEPT ![r] = "live"] /\ pc' = [pc EXCEPT ![r] = "spawned"]
       \/ tick' = [tick EXCEPT ![r] = "bad"] /\ pc' = [pc EXCEPT ![r] = "tick"]
    /\ UNCHANGED <<lock, owner, status, memory, stopping>> /\ World

(* onSpawn.                                                                *)
OnSpawn(r) ==
    /\ pc[r] = "spawned"
    /\ Goes(r, [memory[r] EXCEPT !.state = "running", !.child = TRUE], "tick")
    /\ UNCHANGED <<stopping, cancelled, stalled, tick>> /\ World

(* The tick passes the stall deadline.                                     *)
Stall(r) ==
    /\ pc[r] = "tick" /\ memory[r].child
    /\ ~stopping[r] /\ ~stalled[r]
    /\ stalled' = [stalled EXCEPT ![r] = TRUE]
    /\ cancelled' = [cancelled EXCEPT ![r] = TRUE]
    /\ UNCHANGED <<lock, owner, status, memory, stopping, pc, tick>> /\ World

StopUncancelled(r) ==
    /\ pc[r] \in {"backoff", "tick", "rest"} /\ ~stopping[r]
    /\ stopping' = [stopping EXCEPT ![r] = TRUE]
    /\ Goes(r, [memory[r] EXCEPT !.state = "stopping"], pc[r])
    /\ UNCHANGED <<cancelled, stalled, tick>> /\ World

(* SIGTERM or SIGINT, the first.                                           *)
Stop(r) ==
    /\ pc[r] \in {"backoff", "tick", "rest"} /\ ~stopping[r]
    /\ stopping' = [stopping EXCEPT ![r] = TRUE]
    /\ Goes(r, [memory[r] EXCEPT !.state = "stopping"], pc[r])
    /\ cancelled' = [cancelled EXCEPT ![r] = @ \/ pc[r] = "tick"]
    /\ UNCHANGED <<stalled, tick>> /\ World

OverOnCancel(r) == tick[r] \in {"ok", "bad"} \/ cancelled[r]

(* runProcess returns when the tick has ended, cancelled or not.           *)
Over(r) == tick[r] \in {"ok", "bad"}

ExitedTooLate(r) ==
    LET rapid == IF tick[r] = "ok" THEN 0 ELSE memory[r].rapid + 1
    IN  [memory[r] EXCEPT !.rapid = rapid,
           !.state = IF rapid > Limit THEN "refused" ELSE "waiting-restart"]

(* What recordChildExit makes of a tick that was not cancelled: one that   *)
(* does not succeed is a rapid exit however long it took.                  *)
Exited(r) ==
    LET ok == tick[r] = "ok"
        rapid == IF ok THEN 0 ELSE memory[r].rapid + 1
    IN  [memory[r] EXCEPT
           !.child = FALSE, !.stalls = 0, !.rapid = rapid, !.recent = TRUE,
           !.last = IF ok THEN "completed" ELSE "failed",
           !.refusal = IF ok THEN "none" ELSE "child",
           !.state = IF rapid >= Limit THEN "refused" ELSE "waiting-restart"]

LateIsRecent(r) == [memory[r] EXCEPT
    !.child = FALSE, !.stalls = @ + 1, !.recent = TRUE, !.last = "stalled",
    !.refusal = "none", !.state = "waiting-restart"]
LateForgets(r) == [LateIsRecent(r) EXCEPT !.recent = FALSE, !.rapid = 0]

(* The branch of a stalled tick; the backoff does not learn of it.  The    *)
(* deadline is at least one cadence, and so is the delay before the tick.  *)
Late(r) == [memory[r] EXCEPT
    !.child = FALSE, !.stalls = @ + 1, !.recent = FALSE, !.last = "stalled",
    !.refusal = "none", !.state = "waiting-restart"]

Settled(r) == IF stalled[r] THEN Late(r) ELSE Exited(r)

After(s) ==
    IF s.state = "refused" THEN "release" ELSE IF s.stalls >= Limit THEN "stalledOut" ELSE "rest"

Return(r) ==
    /\ pc[r] = "tick" /\ Over(r)
    /\ IF stopping[r]
       THEN pc' = [pc EXCEPT ![r] = "leave"] /\ UNCHANGED <<lock, owner, memory, status>>
       ELSE Goes(r, Settled(r), After(Settled(r)))
    /\ UNCHANGED <<stopping, cancelled, stalled, tick>> /\ World

(* The last stall is written a second time, as a refusal.                  *)
RefuseStalls(r) ==
    /\ pc[r] = "stalledOut"
    /\ Goes(r, [memory[r] EXCEPT !.state = "refused", !.refusal = "stall-loop"], "release")
    /\ UNCHANGED <<stopping, cancelled, stalled, tick>> /\ World

(* The delay after a tick ends, and the loop's condition is tested.        *)
Rest(r) ==
    /\ pc[r] = "rest"
    /\ pc' = [pc EXCEPT ![r] = IF stopping[r] THEN "leave" ELSE "top"]
    /\ UNCHANGED <<lock, owner, status, memory, stopping, cancelled, stalled, tick>> /\ World

Leave(r) ==
    /\ pc[r] = "leave"
    /\ Goes(r, [memory[r] EXCEPT !.state = "stopping", !.child = FALSE], "release")
    /\ UNCHANGED <<stopping, cancelled, stalled, tick>> /\ World

-----------------------------------------------------------------------------
(* What happens to a run from outside.                                     *)

(* A tick ends, by itself or because it is killed.                         *)
TickEnds(r) ==
    /\ tick[r] = "live"
    /\ \E result \in {"ok", "bad"} : tick' = [tick EXCEPT ![r] = result]
    /\ UNCHANGED <<run, status>> /\ World

(* A run dies: the kernel frees its lock, its tick goes on.                *)
Kill(r) ==
    /\ Alive(r) /\ kills < MaxKills
    /\ kills' = kills + 1
    /\ lock' = 0
    /\ pc' = [pc EXCEPT ![r] = "killed"]
    /\ UNCHANGED <<owner, status, memory, stopping, cancelled, stalled, tick, valid, held,
                   drifts, resets>>

(* The registry or the epoch authority changes, or is restored.            *)
Drift ==
    /\ drifts < MaxDrifts /\ drifts' = drifts + 1
    /\ valid' = ~valid
    /\ UNCHANGED <<run, status, tick, held, kills, resets>>

(* resetStallLoopRefusal reads and checks,                                 *)
ResetRead ==
    /\ held = NoStatus /\ resets < MaxResets /\ resets' = resets + 1
    /\ valid
    /\ status # NoStatus /\ ~Alive(status.run) /\ status.refusal = "stall-loop"
    /\ held' = status
    /\ UNCHANGED <<run, status, tick, valid, kills, drifts>>

(* and writes, whatever has happened in between.                           *)
ResetWrite ==
    /\ held # NoStatus
    /\ status' = [held EXCEPT !.child = FALSE, !.state = "starting", !.refusal = "none",
                              !.rapid = 0, !.stalls = 0, !.last = "none", !.recent = FALSE]
    /\ held' = NoStatus
    /\ UNCHANGED <<run, tick, valid, bounds>>

-----------------------------------------------------------------------------
Loop(r) == \/ Begin(r) \/ Top(r) \/ Backoff(r) \/ Spawn(r) \/ OnSpawn(r) \/ Return(r)
           \/ RefuseStalls(r) \/ Rest(r) \/ Leave(r) \/ Release(r)

Next ==
    \/ \E r \in Runs : Acquire(r) \/ Loop(r) \/ Stall(r) \/ Stop(r) \/ TickEnds(r) \/ Kill(r)
    \/ Drift \/ ResetRead \/ ResetWrite

Spec == Init /\ [][Next]_vars

(* A tick that was sent SIGTERM and, later, SIGKILL ends.                  *)
CancelledEnds(r) == cancelled[r] /\ TickEnds(r)

(* A run that is not killed goes on, its timers fire; a tick may hang for  *)
(* ever when nobody cancels it, and nobody has to start or to stop a run.  *)
Fairness == \A r \in Runs :
    WF_vars(Loop(r)) /\ WF_vars(Stall(r)) /\ WF_vars(CancelledEnds(r))

FairSpec == Spec /\ Fairness

-----------------------------------------------------------------------------
(* Two ticks are alive at the same time only if the run of one of them was *)
(* killed: a run that stops or refuses leaves none behind, and the lease   *)
(* keeps the next run out until then.                                      *)
OneTick == \A q, r \in Runs :
    q # r /\ tick[q] = "live" /\ tick[r] = "live" => pc[q] = "killed" \/ pc[r] = "killed"

(* isSchedulerOperational, whatever it reads in the registry.              *)
Operational ==
    /\ status # NoStatus /\ Alive(status.run)
    /\ status.refusal = "none" /\ status.rapid = 0
    /\ \/ status.state = "running" /\ status.child /\ tick[status.run] = "live"
       \/ status.state = "waiting-restart" /\ ~status.child /\ status.recent

(* A scheduler that is reported operational is run by the holder of the    *)
(* lease, which has not handled a signal, and has a tick alive or the last *)
(* of its ticks has completed.                                             *)
OperationalTrue == Operational =>
    /\ lock = status.run /\ ~stopping[lock]
    /\ tick[lock] = "live" \/ memory[lock].last = "completed"

(* A run that has handled a signal starts no tick and never shows another  *)
(* state than stopping.                                                    *)
StopIsFinal == [][\A r \in Runs : stopping[r] =>
    /\ tick'[r] = "live" => tick[r] = "live"
    /\ memory'[r].state = "stopping"
    /\ status' # status /\ status'.run = r => status'.state = "stopping"]_vars

(* A run whose ticks do not complete again and again gives up, however     *)
(* failures and stalls alternate.                                          *)
Completes(r) == Return(r) /\ ~stopping[r] /\ Settled(r).last = "completed"
Gone(r) == pc[r] \in {"ended", "killed"}
GivesUp == \A r \in Runs : <>Alive(r) => <>Gone(r) \/ []<><<Completes(r)>>_vars

(* A run that has handled a signal ends, even when its tick hangs.         *)
StopEnds == \A r \in Runs : stopping[r] ~> Gone(r)

(* When epoch and registry are not those of the runs for good, every run   *)
(* is over some time, although it starts a tick unverified after a backoff *)
(* and shows a refusal that its next verification clears.                  *)
DriftEnds == \A r \in Runs : <>[]~valid => <>[]~Alive(r)

(* A run that has the lease gets its status into the file, and gets it     *)
(* there again after a reset command has written over it.                  *)
StatusHeals == \A r \in Runs : lock = r ~> (status.run = r \/ Gone(r))
=============================================================================
