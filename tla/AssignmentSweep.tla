--------------------------- MODULE AssignmentSweep ---------------------------
(***************************************************************************)
(* The reconciliation sweep, scripts/reconcile-worker-assignments.ts, over *)
(* the worker assignment store, and the terminal mail it sends,            *)
(* scripts/orca-runtime/dispatch-terminal-mail.ts.                         *)
(*                                                                         *)
(* The scheduler sweeps the assignments one after the other: it asks the   *)
(* runtime about the worker, and an assignment whose worker is dead is     *)
(* retired, once the mail about its end is recorded or after Bound dead    *)
(* observations.  The mail has a ledger of its own, under a kernel lock    *)
(* that a dying process gives up; every other process that resolves the    *)
(* worker of an assignment (lib/worker-assignment-runtime.ts) sends the    *)
(* mail too.  The runtime is external: a worker may live, exit, be         *)
(* released, vanish and come back, and a call may fail.                    *)
(*                                                                         *)
(* Every change of the store is a step of AssignmentStore.  The other      *)
(* processes publish, attach, bind and fence, but only the sweep counts    *)
(* and retires.                                                            *)
(***************************************************************************)
EXTENDS AssignmentStore

CONSTANTS
    Sweeper,    \* the actor that sweeps
    Answers,    \* how the runtime may answer a send: "ok", "refused", "lost"
    MaxCrashes, \* bound: processes that die in a sweep or a send
    MaxMoves    \* bound: changes of the workers

ASSUME AssignmentSweepAssumption ==
    /\ Sweeper \in Actors
    /\ Answers \subseteq {"ok", "refused", "lost"}
    /\ {MaxCrashes, MaxMoves} \subseteq Nat
    /\ Bound # 0

VARIABLES
    worker,  \* what the runtime has for the worker of a deliverable
    ledger,  \* notified: what the mail ledger has for it
    told,    \* how often the run was told of its end, up to 2 (not in any file)
    sending, \* the process that holds the ledger's lock, and how far it is
    undone,  \* whether a client took its mail off the record after the sweep
             \* had decided to retire it (in no file either)
    pc,      \* where the sweep is
    todo,    \* the assignments it has listed and not yet looked at
    obs,     \* what it observed of the current one
    dead,    \* dead observations of it since one that was not, up to Bound (nor this)
    crashes, moves

mailVars == <<ledger, told, sending, undone>>
sweepVars == <<pc, todo, obs, dead>>
allVars == <<vars, mailVars, sweepVars, worker, crashes, moves>>

Clients == Actors \ {Sweeper}

Workers == {"live", "exited", "released", "missing"}
Observations == {"active", "terminal", "released", "gone"}
Controls == {"idle", "next", "look", "check", "reset", "advance", "consume", "send", "mail",
             "retire", "keep", "end"}
NotSending == [by |-> None]
SendSteps == {"claimed", "ok", "refused", "lost"}

SweepInit ==
    /\ Init
    /\ worker = [k \in Keys |-> "live"]
    /\ ledger = [k \in Keys |-> "none"]
    /\ told = [k \in Keys |-> 0]
    /\ sending = NotSending
    /\ undone = [k \in Keys |-> FALSE]
    /\ pc = "idle"
    /\ todo = {}
    /\ obs = "active"
    /\ dead = [k \in Keys |-> 0]
    /\ crashes = 0 /\ moves = 0

Mine == seen[Sweeper]
Dispatch == Mine.key
Recorded(k) == ledger[k] # "none"

(* The sweep goes on to s and leaves the store alone, or drops its         *)
(* assignment for the next.                                                *)
Goto(s) == pc' = s /\ UNCHANGED <<todo, obs, dead>>
Stay == UNCHANGED <<vars, mailVars, worker, crashes, moves>>
Outside == UNCHANGED <<mailVars, worker, crashes, moves>>
Drop == Fail(Sweeper) /\ Goto("next") /\ Outside
----------------------------------------------------------------------------
(* The mail: claim under the lock, send, record.                           *)

(* Wrong: whatever is on record.                                           *)
ClaimMailAgain(a, k) ==
    /\ sending = NotSending
    /\ ledger' = [ledger EXCEPT ![k] = "pending"]
    /\ sending' = [by |-> a, key |-> k, step |-> "claimed"]
    /\ UNCHANGED <<told, undone>>

(* Of its dispatch, by the process that has the lock.  A recorded mail, or *)
(* a busy lock, ends the call before it did anything.                      *)
ClaimMail(a, k) ==
    /\ sending = NotSending
    /\ ~Recorded(k)
    /\ ledger' = [ledger EXCEPT ![k] = "pending"]
    /\ sending' = [by |-> a, key |-> k, step |-> "claimed"]
    /\ UNCHANGED <<told, undone>>

(* The runtime takes the message or not; of a message it took the answer   *)
(* may be lost.                                                            *)
Submit(answer) ==
    /\ sending # NotSending /\ sending.step = "claimed"
    /\ sending' = [sending EXCEPT !.step = answer]
    /\ told' = IF answer = "refused" \/ told[sending.key] = 2 THEN told
                ELSE [told EXCEPT ![sending.key] = @ + 1]
    /\ UNCHANGED <<ledger, undone>>

(* The ledger and the lock after the answer.  What has no message id stays *)
(* pending.                                                                *)
Settle ==
    /\ sending # NotSending /\ sending.step # "claimed"
    /\ sending' = NotSending
    /\ IF sending.step = "ok"
       THEN \E v \in {"sent", "pending"} : ledger' = [ledger EXCEPT ![sending.key] = v]
       ELSE ledger' = [ledger EXCEPT ![sending.key] = "none"]
    /\ undone' = [undone EXCEPT ![sending.key] = @ \/ (sending.step # "ok" /\ pc = "retire")]
    /\ UNCHANGED told
----------------------------------------------------------------------------
(* The sweep.                                                              *)

BeginSweep ==
    /\ pc = "idle" /\ Readable
    /\ todo' = {rows[k] : k \in {j \in Taken : rows[j].kind = "local"}}
    /\ pc' = "next"
    /\ UNCHANGED <<obs, dead>> /\ Stay

EndSweep == pc = "next" /\ todo = {} /\ Goto("idle") /\ Stay

SameLogical(r, s) == [r EXCEPT !.ticks = s.ticks] = s

(* Look at one of them: it must still be there, with the same issue.       *)
Look(r) ==
    /\ pc = "next" /\ r \in todo
    /\ todo' = todo \ {r}
    /\ UNCHANGED <<obs, dead>>
    /\ IF Readable /\ Has(r.key) /\ SameLogical(rows[r.key], r)
       THEN ReadRow(Sweeper, r.key) /\ pc' = "look" /\ Outside
       ELSE pc' = "next" /\ Stay

(* What the runtime says of a worker. *)
Observed(w) ==
    CASE w = "live" -> {"active"}
      [] w = "exited" -> {"terminal"}
      [] w = "released" -> {"released", "terminal"}
      [] w = "missing" -> {"gone"}

Observe(o) ==
    /\ pc = "look"
    /\ o \in Observed(worker[Dispatch])
    /\ obs' = o
    /\ pc' = "check"
    /\ UNCHANGED <<todo, dead>> /\ Stay

Unresolved == pc = "look" /\ Drop

(* The assignment must still be exactly the one that was looked at.        *)
CheckStale == pc = "check" /\ ~(Readable /\ Current(Mine)) /\ Drop

(* Wrong: a worker that is there again leaves the count.                   *)
CheckNoReset ==
    /\ pc = "check" /\ Readable /\ Current(Mine)
    /\ dead' = [dead EXCEPT ![Dispatch] = IF obs = "active" THEN 0
                                          ELSE IF @ < Bound THEN @ + 1 ELSE @]
    /\ pc' = CASE obs = "active" -> "end"
               [] obs = "gone" /\ Recorded(Dispatch) -> "retire"
               [] OTHER -> "advance"
    /\ undone' = [undone EXCEPT ![Dispatch] = FALSE]
    /\ UNCHANGED <<vars, ledger, told, sending, todo, obs, worker, crashes, moves>>

(* A claim of the mail counts as a mail, although the lock is not taken.   *)
Check ==
    /\ pc = "check" /\ Readable /\ Current(Mine)
    /\ dead' = [dead EXCEPT ![Dispatch] = IF obs = "active" THEN 0
                                          ELSE IF @ < Bound THEN @ + 1 ELSE @]
    /\ pc' = CASE obs = "active" -> IF Mine.ticks = 0 THEN "end" ELSE "reset"
               [] obs = "gone" /\ Recorded(Dispatch) -> "retire"
               [] OTHER -> "advance"
    /\ undone' = [undone EXCEPT ![Dispatch] = FALSE]
    /\ UNCHANGED <<vars, ledger, told, sending, todo, obs, worker, crashes, moves>>

(* A worker that is there again: its progress is cleared, and the sweep    *)
(* tries until the store is free or the assignment is another.             *)
Reset == pc = "reset" /\ SetTicks(Sweeper, 0) /\ Goto("end") /\ Outside

ResetStale ==
    /\ pc = "reset"
    /\ ~(Readable /\ Has(Dispatch) /\ SameIdentity(rows[Dispatch], Mine))
    /\ Drop

(* A dead worker: one more observation, on disk before anything else.      *)
Advance ==
    /\ pc = "advance" /\ Mine.ticks < Bound
    /\ Current(Mine)
    /\ SetTicks(Sweeper, Mine.ticks + 1)
    /\ Goto(IF obs = "gone" THEN "keep" ELSE "consume") /\ Outside

AdvanceFails == pc = "advance" /\ Mine.ticks < Bound /\ ~(Usable /\ Current(Mine)) /\ Drop

(* At the bound only a mail that is recorded is looked at once more.       *)
AtBound ==
    /\ pc = "advance" /\ Mine.ticks >= Bound
    /\ Goto(IF obs = "gone" \/ ~Recorded(Dispatch) THEN "keep" ELSE "consume") /\ Stay

(* Only the end of a worker whose terminal is released, with a run to tell *)
(* it, is mailed, and only under the assignment fence.                     *)
Consume ==
    /\ pc = "consume"
    /\ IF obs = "released"
       THEN Enter(Sweeper) /\ Goto("send") /\ Outside
       ELSE Goto("keep") /\ Stay

ConsumeBusy == pc = "consume" /\ obs = "released" /\ ~Usable /\ Goto("keep") /\ Stay
ConsumeStale == pc = "consume" /\ obs = "released" /\ Usable /\ ~Current(Mine) /\ Drop

SendMail ==
    /\ pc = "send"
    /\ ClaimMail(Sweeper, Dispatch)
    /\ Goto("mail") /\ UNCHANGED <<vars, worker, crashes, moves>>

(* The mail is recorded already, or the ledger's lock is busy.             *)
SendDuplicate ==
    /\ pc = "send" /\ sending = NotSending /\ Recorded(Dispatch)
    /\ Leave(Sweeper) /\ Goto("retire") /\ Outside

SendBusy ==
    /\ pc = "send" /\ sending # NotSending
    /\ Leave(Sweeper) /\ Goto("keep") /\ Outside

MailAnswered(answer) ==
    /\ pc = "mail" /\ Submit(answer)
    /\ UNCHANGED <<vars, sweepVars, worker, crashes, moves>>

(* Wrong: the fence stays when the send has failed.                        *)
MailSettledFenced ==
    /\ pc = "mail" /\ Settle
    /\ IF sending.step = "ok" THEN Leave(Sweeper) /\ Goto("retire")
                              ELSE UNCHANGED vars /\ Goto("keep")
    /\ UNCHANGED <<worker, crashes, moves>>

(* Wrong: a send that was answered is one that was made.                   *)
MailSettledAnyway ==
    /\ pc = "mail" /\ Settle
    /\ Leave(Sweeper)
    /\ Goto("retire")
    /\ UNCHANGED <<worker, crashes, moves>>

MailSettled ==
    /\ pc = "mail" /\ Settle
    /\ Leave(Sweeper)
    /\ Goto(IF sending.step = "ok" THEN "retire" ELSE "keep")
    /\ UNCHANGED <<worker, crashes, moves>>

(* Wrong: whatever assignment is there now.                                *)
RetireRowUnchecked ==
    /\ pc = "retire" /\ Usable
    /\ rows' = [rows EXCEPT ![Dispatch] = NoRow]
    /\ Done(Sweeper) /\ UNCHANGED <<primary, minted, fence>>
    /\ Goto("next") /\ Outside

(* The mail is on record, or there will be none.                           *)
RetireRow == pc = "retire" /\ Retire(Sweeper) /\ Goto("next") /\ Outside

(* Wrong: a protected assignment is tried again.                           *)
RetireFailsStale == pc = "retire" /\ ~(Usable /\ Current(Mine)) /\ Drop

RetireFails == pc = "retire" /\ ~(Usable /\ Retirable(Mine)) /\ Drop

(* Wrong: one observation too late, after which the count stops.           *)
RetainOrGiveUpLate ==
    /\ pc = "keep"
    /\ IF Mine.ticks > Bound THEN Goto("retire") /\ Stay ELSE Drop

RetainOrGiveUp ==
    /\ pc = "keep"
    /\ IF Mine.ticks >= Bound THEN Goto("retire") /\ Stay ELSE Drop

EndItem == pc = "end" /\ Drop
----------------------------------------------------------------------------
(* The other processes, deaths and the runtime.                            *)

(* What a client does with the store; not while it waits for a send.       *)
StoreStep(a) ==
    /\ sending.by # a
    /\ \/ \E i \in Issues \cup {None} : ReadIssue(a, i)
       \/ \E k \in Keys : ReadRow(a, k)
       \/ ReadPrimary(a)
       \/ \E i \in Issues : Attach(a, i)
       \/ \E k \in Keys : Bind(a, k)
       \/ Unbind(a)
       \/ Enter(a)
       \/ EnterAdmission(a)
       \/ EnterPrimary(a)
       \/ Leave(a)
       \/ Fail(a)
    /\ UNCHANGED <<mailVars, sweepVars, worker, crashes, moves>>

(* A publication starts the count of its deliverable anew.                 *)
PublishStep(a, k, kind) ==
    /\ sending.by # a
    /\ Publish(a, k, kind)
    /\ dead' = [dead EXCEPT ![k] = 0]
    /\ UNCHANGED <<mailVars, pc, todo, obs, worker, crashes, moves>>

(* A client that resolves the worker of an assignment tells of its end.    *)
ResolveSend(a, k) ==
    /\ Readable /\ Has(k) /\ rows[k].kind = "local"
    /\ worker[k] \in {"exited", "released"}
    /\ ClaimMail(a, k)
    /\ UNCHANGED <<vars, sweepVars, worker, crashes, moves>>

ResolveAnswered(a, answer) ==
    /\ sending.by = a /\ Submit(answer)
    /\ UNCHANGED <<vars, sweepVars, worker, crashes, moves>>

ResolveSettled(a) ==
    /\ sending.by = a /\ Settle
    /\ UNCHANGED <<vars, sweepVars, worker, crashes, moves>>

Die(a) ==
    /\ crashes < MaxCrashes
    /\ crashes' = crashes + 1
    /\ sending' = IF sending.by = a THEN NotSending ELSE sending
    /\ IF stage[a] = "idle" THEN UNCHANGED vars ELSE Fail(a)
    /\ UNCHANGED <<ledger, told, undone, worker, moves>>

(* The next tick of the scheduler starts from the files.                   *)
SweeperDies ==
    /\ pc # "idle"
    /\ Die(Sweeper)
    /\ pc' = "idle" /\ todo' = {}
    /\ UNCHANGED <<obs, dead>>

ClientDies(a) == sending.by = a /\ Die(a) /\ UNCHANGED sweepVars

WorkerMoves(k) ==
    /\ moves < MaxMoves
    /\ moves' = moves + 1
    /\ \E w \in Workers \ {worker[k]} : worker' = [worker EXCEPT ![k] = w]
    /\ UNCHANGED <<vars, mailVars, sweepVars, crashes>>
----------------------------------------------------------------------------
SweepStep ==
    \/ BeginSweep \/ EndSweep
    \/ \E r \in todo : Look(r)
    \/ \E o \in Observations : Observe(o)
    \/ Unresolved
    \/ CheckStale \/ Check
    \/ Reset \/ ResetStale
    \/ Advance \/ AdvanceFails \/ AtBound
    \/ Consume \/ ConsumeBusy \/ ConsumeStale
    \/ SendMail \/ SendDuplicate \/ SendBusy
    \/ \E answer \in Answers : MailAnswered(answer)
    \/ MailSettled
    \/ RetireRow \/ RetireFails \/ RetainOrGiveUp
    \/ EndItem

ClientStep(a) ==
    \/ StoreStep(a)
    \/ \E k \in Keys, kind \in {"local", "remote"} : PublishStep(a, k, kind)
    \/ \E k \in Keys : ResolveSend(a, k)
    \/ \E answer \in Answers : ResolveAnswered(a, answer)
    \/ ResolveSettled(a)
    \/ ClientDies(a)

SweepNext ==
    \/ SweepStep
    \/ SweeperDies
    \/ \E a \in Clients : ClientStep(a)
    \/ \E k \in Keys : WorkerMoves(k)

SweepSpec == SweepInit /\ [][SweepNext]_allVars
(* A live scheduler goes on, with a resolved observation and a free store  *)
(* again and again, and a client ends its fenced action and its send.      *)
Fairness ==
    /\ WF_allVars(SweepStep)
    /\ \A k \in Keys : SF_allVars(\E o \in Observations : Dispatch = k /\ Observe(o))
    /\ \A k \in Keys : SF_allVars(Dispatch = k /\ Advance)
    /\ \A k \in Keys : SF_allVars(Dispatch = k /\ RetireRow)
    /\ SF_allVars(Reset)
    /\ \A a \in Clients : WF_allVars(stage[a] \in InFence /\ StoreStep(a))
    /\ \A a \in Clients :
         WF_allVars(ResolveSettled(a) \/ \E answer \in Answers : ResolveAnswered(a, answer))

FairSpec == SweepSpec /\ Fairness
----------------------------------------------------------------------------
(* The state is well formed: a fenced sweep is one that sends a mail, and  *)
(* the ledger's lock is the sweep's while it waits for an answer.          *)
SweepTypeOK ==
    /\ worker \in [Keys -> Workers]
    /\ ledger \in [Keys -> {"none", "pending", "sent"}]
    /\ told \in [Keys -> 0 .. 2]
    /\ undone \in [Keys -> BOOLEAN]
    /\ sending \in [by : Actors, key : Keys, step : SendSteps] \cup {NotSending}
    /\ pc \in Controls
    /\ todo \subseteq Row
    /\ obs \in Observations
    /\ dead \in [Keys -> 0 .. Bound]
    /\ stage[Sweeper] = CASE pc \in {"idle", "next"} -> "idle"
                          [] pc \in {"send", "mail"} -> "fenced"
                          [] OTHER -> "edit"
    /\ (pc = "mail" <=> sending.by = Sweeper)
    /\ (pc = "mail" => sending.key = Dispatch)

(* Every change the sweep and the others make to the store is one the      *)
(* store allows: the sweep implements AssignmentStore.                     *)
StoreKept == Spec

(* The run is told of the end of a dispatch at most once, by whatever      *)
(* processes resolve its worker and whenever they die (the ledger is "the  *)
(* existing at-most-once authority").                                      *)
MailOnce == \A k \in Keys : told[k] <= 1

(* The sweep retires an assignment on a dead observation of its worker,    *)
(* and then only with its mail on record or at the bound of observations,  *)
(* however sends are answered or lost.  One thing alone may undo the       *)
(* reason: another process, whose claim the sweep found on record, takes   *)
(* it back because its send failed, after the sweep has decided.           *)
Justified == [][\A k \in Keys :
    Has(k) /\ ~Has(k)' /\ minted' = minted
        => dead[k] >= 1 /\ (Recorded(k) \/ rows[k].ticks >= Bound \/ undone[k])]_allVars

(* Only "consecutive exact terminal/gone observations" count: a worker     *)
(* that was there in between starts the count anew, although the reset     *)
(* waits for a busy store.  A scheduler that dies before the reset loses   *)
(* what it observed.                                                       *)
Consecutive == [][\A k \in Keys :
    crashes' = 0 /\ Has(k) /\ Has(k)' /\ rows'[k].ticks > rows[k].ticks
        => rows'[k].ticks <= dead[k]]_allVars

(* Every sweep ends, although it waits for the store to clear a count.     *)
SweepEnds == pc # "idle" ~> pc = "idle"

(* The lock of the store is not busy whenever the sweep asks: a fenced     *)
(* action ends, and a caller tries ten times.                              *)
StoreObtained == \A s \in {"advance", "retire"} : []<>(pc = s) => []<>(pc = s /\ Usable)

(* No assignment stays for ever with a dead worker, unless it is the       *)
(* operator primary's: mails that fail are given up.                       *)
DeadRetired == StoreObtained => \A k \in Keys :
    ~ <>[](/\ Has(k) /\ rows[k].kind = "local" /\ primary # bindingFor(rows[k])
           /\ worker[k] # "live")
=============================================================================
