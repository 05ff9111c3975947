----------------------------- MODULE FleetNudge ------------------------------
(***************************************************************************)
(* The S2 fleet nudge: scripts/pr2-foundation/fleet-nudge-actuator.ts over *)
(* the one-shot claims of worker-nudge-claim-store.ts and the dispatch     *)
(* journal of worker-dispatch-journal.ts.  An episode is a unit that       *)
(* became idle or livelocked in one tick of one scheduler generation.  A   *)
(* scheduler process runs a tick: for each eligible unit it claims the     *)
(* episode, persists the message hash, admits a journal row, records the   *)
(* claim as SEND_ATTEMPTED, sends, and settles claim and journal.          *)
(*                                                                         *)
(* Claim store operations run under a mutex directory per episode.  Here   *)
(* the mutex is a variable: taking it and taking it over from a dead       *)
(* holder are atomic.  The file system calls inside it are single steps,   *)
(* so that a crash or the deadline can fall between any two of them.       *)
(***************************************************************************)
EXTENDS Naturals, FiniteSets

CONSTANTS
    Procs,        \* scheduler processes; a restarted one is another member
    Units,        \* the eligible units of a tick
    MaxTick,      \* bound: ticks of the generation
    Retention,    \* S2_RETENTION_TICKS
    MaxTerminals, \* S2_MAX_TERMINALS_PER_GENERATION
    MaxStarts,    \* S2_MAX_STARTS_PER_TICK
    MaxCrashes,   \* bound: crashes of a behaviour
    None          \* no process, no terminal record, no unit

ASSUME FleetNudgeAssumption ==
    /\ None \notin Procs \cup Units \cup {"SENT", "FAILED_DEFINITIVE", "UNCERTAIN", "torn"}
    /\ IsFiniteSet(Units)
    /\ MaxTick \in Nat \ {0}
    /\ Retention \in Nat \ {0}
    /\ MaxTerminals \in Nat
    /\ MaxStarts \in Nat
    /\ MaxCrashes \in Nat

Ticks == 1 .. MaxTick
Episodes == Ticks \X Units

VARIABLES
    clock,    \* the newest tick of the generation
    phase,    \* active claim file of an episode: absent, torn, or its phase
    holder,   \* the process that wrote it
    lapsed,   \* whether its lease has expired
    terminal, \* terminal record of an episode: None, torn, or its phase
    journal,  \* dispatch journal row of an episode
    sends,    \* how often the runtime submitted the episode's message
    stray,    \* runtime calls for it that nobody waits for any more
    mutex,    \* holder of an episode's mutex directory
    pc, tick, todo, starts, failed, unit, dl, op, ret, out, crashes

store == <<phase, holder, lapsed, terminal>>
local == <<tick, todo, starts, unit>>
vars == <<clock, phase, holder, lapsed, terminal, journal, sends, stray, mutex,
          pc, tick, todo, starts, failed, unit, dl, op, ret, out, crashes>>

Outcomes == {"dispatched", "send_failed", "dispatch_unknown"}
Phases == {"none", "torn", "CLAIMED", "SEND_ATTEMPTED"}
Settled == {"SENT", "FAILED_DEFINITIVE", "UNCERTAIN"}
Ops == {"acquire", "hash", "mark", "inspect", "release", "finalize"}
Rets == {"fail", "ok", "recorded", "not_recorded", "untrusted"}
PCs == {"idle", "next", "validate", "want", "body", "create", "fill", "exit",
        "moveCheck", "moveCreate", "moveWrite", "moveUnlink", "admit", "gate",
        "send", "sending", "sent", "journal", "dead"}

(* The three deadlines of a tick, as stages of dl: an operation with limit *)
(* d goes on while dl < d.                                                 *)
Admission == 1
Dispatch == 2
Hard == 3

TypeOK ==
    /\ clock \in Ticks
    /\ phase \in [Episodes -> Phases]
    /\ holder \in [Episodes -> Procs \cup {None}]
    /\ lapsed \in [Episodes -> BOOLEAN]
    /\ terminal \in [Episodes -> Settled \cup {"torn", None}]
    /\ journal \in [Episodes -> Outcomes \cup {"none", "in_flight"}]
    /\ sends \in [Episodes -> Nat]
    /\ stray \in [Episodes -> Nat]
    /\ mutex \in [Episodes -> Procs \cup {None}]
    /\ pc \in [Procs -> PCs]
    /\ tick \in [Procs -> Ticks]
    /\ todo \in [Procs -> SUBSET Units]
    /\ starts \in [Procs -> 0 .. MaxStarts]
    /\ failed \in [Procs -> BOOLEAN]
    /\ unit \in [Procs -> Units \cup {None}]
    /\ dl \in [Procs -> 0 .. Hard]
    /\ op \in [Procs -> Ops]
    /\ ret \in [Procs -> Rets]
    /\ out \in [Procs -> Outcomes]
    /\ crashes \in 0 .. MaxCrashes

Init ==
    /\ clock = 1
    /\ phase = [e \in Episodes |-> "none"]
    /\ holder = [e \in Episodes |-> None]
    /\ lapsed = [e \in Episodes |-> FALSE]
    /\ terminal = [e \in Episodes |-> None]
    /\ journal = [e \in Episodes |-> "none"]
    /\ sends = [e \in Episodes |-> 0]
    /\ stray = [e \in Episodes |-> 0]
    /\ mutex = [e \in Episodes |-> None]
    /\ pc = [p \in Procs |-> "idle"]
    /\ tick = [p \in Procs |-> 1]
    /\ todo = [p \in Procs |-> {}]
    /\ starts = [p \in Procs |-> 0]
    /\ failed = [p \in Procs |-> FALSE]
    /\ unit = [p \in Procs |-> None]
    /\ dl = [p \in Procs |-> 0]
    /\ op = [p \in Procs |-> "acquire"]
    /\ ret = [p \in Procs |-> "fail"]
    /\ out = [p \in Procs |-> "dispatch_unknown"]
    /\ crashes = 0

-----------------------------------------------------------------------------
Ep(p) == <<tick[p], unit[p]>>
alive(p) == pc[p] # "dead"
MutexFree(e) == ~\E p \in Procs : mutex[e] = p /\ alive(p)
Before(p, d) == dl[p] < d
Own(p) == holder[Ep(p)] = p

(* The claim file of e is unlinked, with all it says. *)
Unlink(e) ==
    /\ phase' = [phase EXCEPT ![e] = "none"]
    /\ holder' = [holder EXCEPT ![e] = None]
    /\ lapsed' = [lapsed EXCEPT ![e] = FALSE]

Goto(p, l) == pc' = [pc EXCEPT ![p] = l]

(* Wrong: a record is kept for one tick less. *)
PrunedEarly(t) ==
    [e \in Episodes |->
        IF terminal[e] \in Settled /\ t + 1 >= e[1] + Retention THEN None ELSE terminal[e]]

(* pruneS2OneShotWorkerNudgeClaims at tick t: records that have been kept  *)
(* for Retention ticks go; anything unreadable stays and fails the prune.  *)
Pruned(t) ==
    [e \in Episodes |->
        IF terminal[e] \in Settled /\ t >= e[1] + Retention THEN None ELSE terminal[e]]

Count(term) == Cardinality({e \in Episodes : term[e] # None})

(* Wrong: off by one. *)
RoomToTheLimit(n) == n <= MaxTerminals
Room(n) == n < MaxTerminals

PruneOk(t) ==
    /\ \A e \in Episodes : terminal[e] # "torn"
    /\ Count(Pruned(t)) <= MaxTerminals

(* Time limit of each claim operation. *)
Limit(o) == CASE o \in {"acquire", "hash"} -> Admission
              [] o = "mark" -> Dispatch
              [] OTHER -> Hard

-----------------------------------------------------------------------------
(* The candidate loop of runFleetNudgeActuator                             *)

(* A process starts a tick of the generation.  A run is over before the    *)
(* records of its tick can expire: its budget is at most an eighth of the  *)
(* tick interval, and records are kept for Retention ticks.  It prunes     *)
(* first, which may be refused, or not end by the admission deadline.      *)
StartTick(p) ==
    /\ pc[p] = "idle"
    /\ \E t \in Ticks, U \in SUBSET Units, late \in BOOLEAN :
          /\ t <= clock
          /\ clock < t + Retention
          /\ U # {}
          /\ tick' = [tick EXCEPT ![p] = t]
          /\ todo' = [todo EXCEPT ![p] = U]
          /\ terminal' = Pruned(t)
          /\ failed' = [failed EXCEPT ![p] = late \/ ~PruneOk(t)]
    /\ starts' = [starts EXCEPT ![p] = 0]
    /\ dl' = [dl EXCEPT ![p] = 0]
    /\ Goto(p, "next")
    /\ UNCHANGED <<clock, phase, holder, lapsed, journal, sends, stray, mutex, unit, op, ret, out, crashes>>

Stop(p) == failed[p] \/ starts[p] >= MaxStarts \/ ~Before(p, Admission)

(* Wrong: a candidate stays in the list, and starts are not bounded. *)
PickUnbounded(p) ==
    /\ pc[p] = "next"
    /\ ~failed[p] /\ Before(p, Admission)
    /\ \E u \in todo[p] : unit' = [unit EXCEPT ![p] = u]
    /\ starts' = [starts EXCEPT ![p] = @ + 1]
    /\ Goto(p, "validate")
    /\ UNCHANGED <<clock, store, journal, sends, stray, mutex, tick, todo, failed, dl, op, ret, out, crashes>>

Pick(p) ==
    /\ pc[p] = "next"
    /\ ~Stop(p)
    /\ \E u \in todo[p] :
          /\ unit' = [unit EXCEPT ![p] = u]
          /\ todo' = [todo EXCEPT ![p] = @ \ {u}]
    /\ starts' = [starts EXCEPT ![p] = @ + 1]
    /\ Goto(p, "validate")
    /\ UNCHANGED <<clock, store, journal, sends, stray, mutex, tick, failed, dl, op, ret, out, crashes>>

(* Once the loop may not start a candidate it never may again.  The        *)
(* variables of the run go out of scope.                                   *)
EndTick(p) ==
    /\ pc[p] = "next"
    /\ Stop(p) \/ todo[p] = {}
    /\ todo' = [todo EXCEPT ![p] = {}]
    /\ starts' = [starts EXCEPT ![p] = 0]
    /\ failed' = [failed EXCEPT ![p] = FALSE]
    /\ unit' = [unit EXCEPT ![p] = None]
    /\ dl' = [dl EXCEPT ![p] = 0]
    /\ op' = [op EXCEPT ![p] = "acquire"]
    /\ out' = [out EXCEPT ![p] = "dispatch_unknown"]
    /\ Goto(p, "idle")
    /\ UNCHANGED <<clock, store, journal, sends, stray, mutex, tick, ret, crashes>>

(* p goes on to claim operation o. *)
Want(p, o) ==
    /\ Goto(p, "want")
    /\ op' = [op EXCEPT ![p] = o]

(* resolveTarget, revalidate and the two assertEpoch calls read the world  *)
(* outside and may refuse at any time; then the acquisition prunes.        *)
Validate(p) ==
    /\ pc[p] = "validate"
    /\ \/ /\ Goto(p, "next")
          /\ UNCHANGED <<terminal, op>>
       \/ /\ Before(p, Admission)
          /\ terminal' = Pruned(tick[p])
          /\ IF PruneOk(tick[p])
             THEN Want(p, "acquire")
             ELSE Goto(p, "next") /\ op' = op
    /\ UNCHANGED <<clock, phase, holder, lapsed, journal, sends, stray, mutex, local, failed, dl, ret, out, crashes>>

-----------------------------------------------------------------------------
(* withClaimMutexUntil: wait, run the body, remove the mutex.              *)

Return(p, r) == Goto(p, "exit") /\ ret' = [ret EXCEPT ![p] = r]

Enter(p) ==
    /\ pc[p] = "want"
    /\ Before(p, Limit(op[p]))
    /\ MutexFree(Ep(p))
    /\ mutex' = [mutex EXCEPT ![Ep(p)] = p]
    /\ Goto(p, "body")
    /\ UNCHANGED <<clock, store, journal, sends, stray, local, failed, dl, op, ret, out, crashes>>

(* What the actuator does with the result r of claim operation o. *)
Continue(p, o, r) ==
    \/ /\ o = "acquire"
       /\ IF r = "ok" THEN Want(p, "hash") ELSE Goto(p, "next") /\ op' = op
       /\ UNCHANGED <<failed, out>>
    \/ /\ o = "hash"
       /\ IF r = "ok" THEN Goto(p, "admit") /\ op' = op ELSE Want(p, "release")
       /\ UNCHANGED <<failed, out>>
    \/ /\ o \in {"mark", "inspect"}
       /\ CASE r = "recorded" -> Goto(p, "send") /\ UNCHANGED <<op, out>>
            [] r = "not_recorded" -> Want(p, "release") /\ out' = out
            [] r = "fail" /\ o = "mark" -> Want(p, "inspect") /\ out' = out
            [] OTHER -> Want(p, "finalize") /\ out' = [out EXCEPT ![p] = "dispatch_unknown"]
       /\ failed' = failed
    \/ /\ o = "release"
       /\ failed' = [failed EXCEPT ![p] = @ \/ r # "ok"]
       /\ Goto(p, "next")
       /\ UNCHANGED <<op, out>>
    \/ /\ o = "finalize"
       /\ failed' = [failed EXCEPT ![p] = @ \/ r # "ok"]
       /\ Goto(p, "journal")
       /\ UNCHANGED <<op, out>>

(* The body is over: rmSync of the mutex, and a last look at the deadline. *)
Exit(p) ==
    /\ pc[p] = "exit"
    /\ mutex' = [mutex EXCEPT ![Ep(p)] = None]
    /\ Continue(p, op[p], IF Before(p, Limit(op[p])) THEN ret[p] ELSE "fail")
    /\ ret' = [ret EXCEPT ![p] = "fail"]
    /\ UNCHANGED <<clock, store, journal, sends, stray, local, dl, crashes>>

(* The deadline passes while p waits for the mutex. *)
GiveUp(p) ==
    /\ pc[p] = "want"
    /\ ~Before(p, Limit(op[p]))
    /\ Continue(p, op[p], "fail")
    /\ UNCHANGED <<clock, store, journal, sends, stray, mutex, local, dl, ret, crashes>>

(* Inside the mutex, a step under way when the deadline passes throws. *)
Expire(p) ==
    /\ pc[p] \in {"body", "create", "fill", "moveCheck", "moveCreate", "moveWrite", "moveUnlink"}
    /\ ~Before(p, Limit(op[p]))
    /\ Return(p, "fail")
    /\ UNCHANGED <<clock, store, journal, sends, stray, mutex, local, failed, dl, op, out, crashes>>

InTime(p, l) == pc[p] = l /\ Before(p, Limit(op[p]))

-----------------------------------------------------------------------------
(* acquireS2OneShotWorkerNudgeClaim                                        *)

stale(e) == lapsed[e] \/ ~\E p \in Procs : holder[e] = p /\ alive(p)

(* Wrong: a stale attempt is claimed again. *)
ClaimableWhenStale(e) == phase[e] = "none" \/ stale(e)
Claimable(e) == phase[e] = "none" \/ (phase[e] = "CLAIMED" /\ stale(e))

(* Wrong: an attempt whose scheduler is not heard of is taken as failed. *)
recoveredAsFailed == "send_failed"
recoveredOutcome == "dispatch_unknown"

Acquire(p) ==
    LET e == Ep(p)
        free == terminal[e] = None /\ Claimable(e)
        recover == terminal[e] = None /\ phase[e] = "SEND_ATTEMPTED" /\ stale(e)
    IN  /\ InTime(p, "body")
        /\ op[p] = "acquire"
        /\ \/ /\ free
              /\ Unlink(e)
              /\ Goto(p, "create")
              /\ UNCHANGED <<ret, out>>
           \/ /\ recover
              /\ Goto(p, "moveCheck")
              /\ out' = [out EXCEPT ![p] = recoveredOutcome]
              /\ UNCHANGED <<phase, holder, lapsed, ret>>
           \/ /\ ~free /\ ~recover
              /\ Return(p, "fail")
              /\ UNCHANGED <<phase, holder, lapsed, out>>
    /\ UNCHANGED <<clock, terminal, journal, sends, stray, mutex, local, failed, dl, op, crashes>>

(* writeJsonAtomicUntil without overwrite: openSync 'wx', a deadline check, *)
(* and only then the content.                                              *)
Create(p) ==
    /\ InTime(p, "create")
    /\ phase' = [phase EXCEPT ![Ep(p)] = "torn"]
    /\ Goto(p, "fill")
    /\ UNCHANGED <<clock, holder, lapsed, terminal, journal, sends, stray, mutex, local, failed, dl, op, ret, out, crashes>>

Fill(p) ==
    /\ InTime(p, "fill")
    /\ phase' = [phase EXCEPT ![Ep(p)] = "CLAIMED"]
    /\ holder' = [holder EXCEPT ![Ep(p)] = p]
    /\ lapsed' = [lapsed EXCEPT ![Ep(p)] = FALSE]
    /\ Return(p, "ok")
    /\ UNCHANGED <<clock, terminal, journal, sends, stray, mutex, local, failed, dl, op, out, crashes>>

-----------------------------------------------------------------------------
(* persistWorkerNudgeMessageHash, markS2OneShotWorkerNudgeSendAttempted,   *)
(* inspectS2SendAttemptState and releaseS2OneShotWorkerNudgeClaim          *)

Hash(p) ==
    /\ InTime(p, "body")
    /\ op[p] = "hash"
    /\ Return(p, IF phase[Ep(p)] = "CLAIMED" /\ Own(p) THEN "ok" ELSE "fail")
    /\ UNCHANGED <<clock, store, journal, sends, stray, mutex, local, failed, dl, op, out, crashes>>

Markable(p) == phase[Ep(p)] = "CLAIMED" /\ Own(p) /\ ~lapsed[Ep(p)]

(* Wrong: an attempt is reported that the lapsed lease kept off the disk. *)
markResultIgnoresLease(p) ==
    IF phase[Ep(p)] \in {"CLAIMED", "SEND_ATTEMPTED"} /\ Own(p) THEN "recorded" ELSE "untrusted"

markResult(p) ==
    CASE Markable(p) -> "recorded"
      [] phase[Ep(p)] = "CLAIMED" /\ Own(p) /\ lapsed[Ep(p)] -> "not_recorded"
      [] phase[Ep(p)] = "SEND_ATTEMPTED" /\ Own(p) -> "recorded"
      [] OTHER -> "untrusted"

Mark(p) ==
    /\ InTime(p, "body")
    /\ op[p] = "mark"
    /\ phase' = IF Markable(p) THEN [phase EXCEPT ![Ep(p)] = "SEND_ATTEMPTED"] ELSE phase
    /\ Return(p, markResult(p))
    /\ UNCHANGED <<clock, holder, lapsed, terminal, journal, sends, stray, mutex, local, failed, dl, op, out, crashes>>

(* After an exception in mark: what do the files say? *)
attemptState(p) ==
    LET e == Ep(p)
    IN  CASE phase[e] \in {"none", "torn"} /\ terminal[e] \in Settled -> "recorded"
          [] phase[e] = "SEND_ATTEMPTED" /\ Own(p) -> "recorded"
          [] phase[e] = "CLAIMED" /\ Own(p) -> "not_recorded"
          [] OTHER -> "untrusted"

Inspect(p) ==
    /\ InTime(p, "body")
    /\ op[p] = "inspect"
    /\ Return(p, attemptState(p))
    /\ UNCHANGED <<clock, store, journal, sends, stray, mutex, local, failed, dl, op, out, crashes>>

Release(p) ==
    LET e == Ep(p)
        absent == phase[e] \in {"none", "torn"}
        mine == phase[e] = "CLAIMED" /\ Own(p)
    IN  /\ InTime(p, "body")
        /\ op[p] = "release"
        /\ IF mine THEN Unlink(e) ELSE UNCHANGED <<phase, holder, lapsed>>
        /\ Return(p, IF absent \/ mine THEN "ok" ELSE "fail")
    /\ UNCHANGED <<clock, terminal, journal, sends, stray, mutex, local, failed, dl, op, out, crashes>>

-----------------------------------------------------------------------------
(* finalizeS2OneShotWorkerNudgeClaim and moveS2ToTerminal                  *)

Finalize(p) ==
    /\ InTime(p, "body")
    /\ op[p] = "finalize"
    /\ IF phase[Ep(p)] = "SEND_ATTEMPTED" /\ Own(p)
       THEN Goto(p, "moveCheck") /\ ret' = ret
       ELSE Return(p, "fail")
    /\ UNCHANGED <<clock, store, journal, sends, stray, mutex, local, failed, dl, op, out, crashes>>

(* Prune, count the records, look for one of this episode. *)
MoveCheck(p) ==
    LET t == tick[p]
    IN  /\ InTime(p, "moveCheck")
        /\ terminal' = Pruned(t)
        /\ IF PruneOk(t) /\ Room(Count(terminal')) /\ terminal'[Ep(p)] = None
           THEN Goto(p, "moveCreate") /\ ret' = ret
           ELSE Return(p, "fail")
    /\ UNCHANGED <<clock, phase, holder, lapsed, journal, sends, stray, mutex, local, failed, dl, op, out, crashes>>

MoveCreate(p) ==
    /\ InTime(p, "moveCreate")
    /\ terminal' = [terminal EXCEPT ![Ep(p)] = "torn"]
    /\ Goto(p, "moveWrite")
    /\ UNCHANGED <<clock, phase, holder, lapsed, journal, sends, stray, mutex, local, failed, dl, op, ret, out, crashes>>

claimPhase(o) == CASE o = "dispatched" -> "SENT"
                   [] o = "send_failed" -> "FAILED_DEFINITIVE"
                   [] OTHER -> "UNCERTAIN"

MoveWrite(p) ==
    /\ InTime(p, "moveWrite")
    /\ terminal' = [terminal EXCEPT ![Ep(p)] = claimPhase(out[p])]
    /\ Goto(p, "moveUnlink")
    /\ UNCHANGED <<clock, phase, holder, lapsed, journal, sends, stray, mutex, local, failed, dl, op, ret, out, crashes>>

(* An acquisition that recovered a stale attempt still does not acquire. *)
MoveUnlink(p) ==
    /\ InTime(p, "moveUnlink")
    /\ Unlink(Ep(p))
    /\ Return(p, IF op[p] = "finalize" THEN "ok" ELSE "fail")
    /\ UNCHANGED <<clock, terminal, journal, sends, stray, mutex, local, failed, dl, op, out, crashes>>

-----------------------------------------------------------------------------
(* The dispatch journal, under its own lock and replaced atomically        *)

(* Wrong: an admission that fails, or that is too late, is taken as done. *)
AdmitJournalUnchecked(p) ==
    LET admitted == [journal EXCEPT ![Ep(p)] = IF @ = "none" THEN "in_flight" ELSE @]
    IN  /\ pc[p] = "admit"
        /\ journal' \in IF Before(p, Admission) THEN {journal, admitted} ELSE {journal}
        /\ Goto(p, "gate")
    /\ UNCHANGED <<clock, store, sends, stray, mutex, local, failed, dl, op, ret, out, crashes>>

(* An existing row of the episode is admitted again, whatever it says.     *)
(* An admission that fails may have written its row just too late.         *)
AdmitJournal(p) ==
    LET admitted == [journal EXCEPT ![Ep(p)] = IF @ = "none" THEN "in_flight" ELSE @]
    IN  /\ pc[p] = "admit"
        /\ \/ /\ Before(p, Admission)
              /\ journal' = admitted
              /\ Goto(p, "gate")
              /\ op' = op
           \/ /\ Want(p, "release")
              /\ journal' \in {journal, admitted}
    /\ UNCHANGED <<clock, store, sends, stray, mutex, local, failed, dl, ret, out, crashes>>

(* The admission deadline and the last assertEpoch before the attempt. *)
Gate(p) ==
    /\ pc[p] = "gate"
    /\ Want(p, "release") \/ (Before(p, Admission) /\ Want(p, "mark"))
    /\ UNCHANGED <<clock, store, journal, sends, stray, mutex, local, failed, dl, ret, out, crashes>>

(* Wrong: a settled row is overwritten, or accepted whatever it says. *)
finalizeRowOverwrites(row, o) == o
rowAgreesIfSettled(row, o) == row # "none"

(* finalizeS2WorkerDispatch of a row with outcome o, and whether it holds. *)
finalizeRow(row, o) == IF row = "in_flight" THEN o ELSE row
rowAgrees(row, o) == row \in {"in_flight", o}

FinalizeJournal(p) ==
    LET e == Ep(p)
        settled == [journal EXCEPT ![e] = finalizeRow(@, out[p])]
    IN  /\ pc[p] = "journal"
        /\ \/ /\ Before(p, Hard)
              /\ journal' = settled
              /\ failed' = [failed EXCEPT ![p] = @ \/ ~rowAgrees(journal[e], out[p])]
           \/ /\ journal' \in IF Before(p, Hard) THEN {journal, settled} ELSE {journal}
              /\ failed' = [failed EXCEPT ![p] = TRUE]
        /\ Goto(p, "next")
    /\ UNCHANGED <<clock, store, sends, stray, mutex, local, dl, op, ret, out, crashes>>

-----------------------------------------------------------------------------
(* The dispatch itself                                                     *)

Settle(p, o) == Want(p, "finalize") /\ out' = [out EXCEPT ![p] = o]

(* Past the dispatch deadline nothing is sent.  Otherwise the assignment   *)
(* fence or the revalidation under it refuses, or the runtime is called.   *)
Send(p) ==
    /\ pc[p] = "send"
    /\ IF Before(p, Dispatch)
       THEN \/ Settle(p, "send_failed")
            \/ Goto(p, "sending") /\ UNCHANGED <<op, out>>
       ELSE Settle(p, "dispatch_unknown")
    /\ UNCHANGED <<clock, store, journal, sends, stray, mutex, local, failed, dl, ret, crashes>>

(* The message is submitted, by the native command or by the POST of       *)
(* /tui/submit-prompt; the answer is still to come.                        *)
Submit(p) ==
    /\ pc[p] = "sending"
    /\ sends' = [sends EXCEPT ![Ep(p)] = @ + 1]
    /\ Goto(p, "sent")
    /\ UNCHANGED <<clock, store, journal, stray, mutex, local, failed, dl, op, ret, out, crashes>>

(* p stops waiting for its call, which may still be carried out. *)
Abandon(p) ==
    stray' = IF pc[p] = "sending" THEN [stray EXCEPT ![Ep(p)] = @ + 1] ELSE stray

SubmitStray(e) ==
    /\ stray[e] > 0
    /\ stray' = [stray EXCEPT ![e] = @ - 1]
    /\ sends' = [sends EXCEPT ![e] = @ + 1]
    /\ UNCHANGED <<clock, store, journal, mutex, pc, local, failed, dl, op, ret, out, crashes>>

(* The native command: refused before it is run, or its process could not  *)
(* be started; a receipt of the turn; or it is not known what became of it. *)
NativeAnswer(p) ==
    \/ Settle(p, "dispatch_unknown") /\ Abandon(p)
    \/ pc[p] = "sending" /\ Settle(p, "send_failed") /\ stray' = stray
    \/ pc[p] = "sent" /\ Settle(p, "dispatched") /\ stray' = stray

(* The requests to an OpenCode worker: every failure is send_failed, that  *)
(* of the last request included, whose message may have been submitted     *)
(* before its reply was lost, or may be submitted later.                   *)
OpenCodeAnswer(p) ==
    \/ Settle(p, "send_failed") /\ (Abandon(p) \/ stray' = stray)
    \/ pc[p] = "sent" /\ Settle(p, "dispatched") /\ stray' = stray

(* The assignment fence fails after its action has begun, which is         *)
(* reported as a failure before the dispatch.                              *)
FenceFails(p) == Settle(p, "send_failed") /\ (Abandon(p) \/ stray' = stray)

(* The dispatch returns in time. *)
Answer(p) ==
    /\ pc[p] \in {"sending", "sent"}
    /\ Before(p, Dispatch)
    /\ NativeAnswer(p) \/ OpenCodeAnswer(p) \/ FenceFails(p)
    /\ UNCHANGED <<clock, store, journal, sends, mutex, local, failed, dl, ret, crashes>>

(* Wrong: the deadline does not interrupt a call that has not submitted. *)
LateAwaitsSubmission(p) ==
    /\ pc[p] = "sent"
    /\ ~Before(p, Dispatch)
    /\ Settle(p, "dispatch_unknown") /\ Abandon(p)
    /\ UNCHANGED <<clock, store, journal, sends, mutex, local, failed, dl, ret, crashes>>

(* beforeDeadline gives the call up; what it does later is not heard. *)
Late(p) ==
    /\ pc[p] \in {"sending", "sent"}
    /\ ~Before(p, Dispatch)
    /\ Settle(p, "dispatch_unknown") /\ Abandon(p)
    /\ UNCHANGED <<clock, store, journal, sends, mutex, local, failed, dl, ret, crashes>>

-----------------------------------------------------------------------------
(* The environment                                                         *)

(* A runtime command outlives the scheduler that started it. *)
Crash(p) ==
    /\ pc[p] \notin {"idle", "dead"}
    /\ crashes < MaxCrashes
    /\ crashes' = crashes + 1
    /\ Goto(p, "dead")
    /\ Abandon(p)
    /\ todo' = [todo EXCEPT ![p] = {}]
    /\ starts' = [starts EXCEPT ![p] = 0]
    /\ failed' = [failed EXCEPT ![p] = FALSE]
    /\ dl' = [dl EXCEPT ![p] = 0]
    /\ op' = [op EXCEPT ![p] = "acquire"]
    /\ ret' = [ret EXCEPT ![p] = "fail"]
    /\ out' = [out EXCEPT ![p] = "dispatch_unknown"]
    /\ UNCHANGED <<clock, store, journal, sends, mutex, tick, unit>>

Time(p) ==
    /\ pc[p] \notin {"idle", "dead"}
    /\ Before(p, Hard)
    /\ dl' = [dl EXCEPT ![p] = @ + 1]
    /\ UNCHANGED <<clock, store, journal, sends, stray, mutex, pc, local, failed, op, ret, out, crashes>>

(* Another tick of the generation.  A run that old is past its deadline.   *)
NextTick ==
    /\ clock < MaxTick
    /\ clock' = clock + 1
    /\ dl' = [p \in Procs |->
                IF pc[p] \notin {"idle", "dead"} /\ clock' >= tick[p] + Retention
                THEN Hard ELSE dl[p]]
    /\ UNCHANGED <<store, journal, sends, stray, mutex, pc, local, failed, op, ret, out, crashes>>

LeaseExpires(e) ==
    /\ phase[e] \in {"CLAIMED", "SEND_ATTEMPTED"}
    /\ ~lapsed[e]
    /\ lapsed' = [lapsed EXCEPT ![e] = TRUE]
    /\ UNCHANGED <<clock, phase, holder, terminal, journal, sends, stray, mutex, pc, local, failed, dl, op, ret, out, crashes>>

Run(p) ==
    \/ Pick(p) \/ EndTick(p) \/ Validate(p)
    \/ Enter(p) \/ GiveUp(p) \/ Exit(p) \/ Expire(p)
    \/ Acquire(p) \/ Create(p) \/ Fill(p) \/ Hash(p) \/ Mark(p) \/ Inspect(p) \/ Release(p)
    \/ Finalize(p) \/ MoveCheck(p) \/ MoveCreate(p) \/ MoveWrite(p) \/ MoveUnlink(p)
    \/ AdmitJournal(p) \/ Gate(p) \/ FinalizeJournal(p)
    \/ Send(p) \/ Late(p)

Runtime(p) == Submit(p) \/ Answer(p)

Next ==
    \/ NextTick
    \/ \E e \in Episodes : LeaseExpires(e) \/ SubmitStray(e)
    \/ \E p \in Procs : StartTick(p) \/ Run(p) \/ Runtime(p) \/ Crash(p) \/ Time(p)

Spec == Init /\ [][Next]_vars

(* A live process takes its next step or, where it waits, its timers run.  *)
(* Nothing is assumed of the runtime: it may never answer.                 *)
FairSpec == Spec /\ \A p \in Procs : WF_vars(Run(p) \/ Time(p))

-----------------------------------------------------------------------------
(* Properties                                                              *)

(* docs/fleet-observer.md: one-shot.  However often an episode is claimed, *)
(* released, stolen after its lease, recovered after a crash or replayed   *)
(* by another process, its message is submitted at most once.              *)
AtMostOnce == \A e \in Episodes : sends[e] <= 1

(* The attempt is on disk before the message can be out: a submitted       *)
(* episode has its SEND_ATTEMPTED claim or a terminal record until the     *)
(* record is old enough to be pruned.                                      *)
WriteAhead ==
    \A e \in Episodes :
        sends[e] > 0 =>
            phase[e] = "SEND_ATTEMPTED" \/ terminal[e] # None \/ clock >= e[1] + Retention

(* What the records say can be relied on: the message of a claim that is   *)
(* SENT or of a row that is dispatched went out, once; and once a claim or *)
(* a row calls the attempt a definitive failure no process is, or comes to *)
(* be, in a call for it.  It does not follow that the message is not out:  *)
(* the OpenCode requests and the fence report failures of a sent one too.  *)
Truthful ==
    \A e \in Episodes :
        /\ terminal[e] = "SENT" \/ journal[e] = "dispatched" => sends[e] = 1
        /\ terminal[e] = "FAILED_DEFINITIVE" \/ journal[e] = "send_failed" =>
               \A p \in Procs : pc[p] = "sending" => Ep(p) # e

(* An attempt that does not fail its tick is settled twice and alike: the  *)
(* claim is a terminal record and the journal row has the same verdict.    *)
Reconciled ==
    [][\A p \in Procs :
          LET e == Ep(p)
          IN  pc[p] = "journal" /\ pc'[p] = "next" /\ ~failed'[p] =>
                  /\ phase[e] = "none"
                  /\ terminal[e] = claimPhase(journal'[e])]_vars

(* Neither a settled claim nor a settled journal row changes its verdict.  *)
VerdictStands ==
    [][\A e \in Episodes :
          /\ terminal[e] \in Settled => terminal'[e] \in {terminal[e], None}
          /\ journal[e] \in Outcomes => journal'[e] = journal[e]]_vars

(* docs/fleet-observer.md: terminal records of a generation are "capped at *)
(* 1,024 records".                                                         *)
TerminalsCapped == Count(terminal) <= MaxTerminals

(* "the hard return boundary": every tick of a live process comes to an    *)
(* end, whatever the mutexes and the runtime do.                           *)
TickReturns == \A p \in Procs : pc[p] \notin {"idle", "dead"} ~> pc[p] \in {"idle", "dead"}

(* An episode whose records may be pruned. *)
Old(e) == clock >= e[1] + Retention

(* What is on record of the attempt of an episode. *)
recordOf(e) ==
    IF Old(e) THEN "forgotten"
    ELSE IF terminal[e] \in Settled THEN terminal[e]
    ELSE IF phase[e] = "SEND_ATTEMPTED" \/ terminal[e] = "torn" THEN "attempted"
    ELSE "open"

(* Whether a call that may submit the message of e is under way. *)
callOf(e) ==
    IF stray[e] > 0 \/ \E p \in Procs : pc[p] = "sending" /\ Ep(p) = e THEN "out" ELSE "none"

(* Every episode, whatever the processes, crashes, late answers and stray  *)
(* calls, behaves as one nudge with one record and one row (SingleNudge):  *)
(* a row before the attempt, the attempt before the call, the message by   *)
(* the one call, and before a verdict that says so; no call once the       *)
(* attempt is called a failure (fleet-nudge-actuator.ts 576-737).          *)
Nudge(e) == INSTANCE SingleNudge
    WITH record <- recordOf(e), row <- journal[e], call <- callOf(e), sends <- sends[e]
SingleNudges ==
    /\ \A e \in Episodes : Nudge(e)!NudgeInit
    /\ [][\A e \in Episodes : Nudge(e)!NudgeNext \/ UNCHANGED Nudge(e)!nudgeVars]_vars

=============================================================================
