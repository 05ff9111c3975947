--------------------------- MODULE FleetNudgeSingle ---------------------------
(***************************************************************************)
(* The fleet nudge implements the single nudge at every episode, for any   *)
(* number of processes, units, ticks and crashes.  Inv, MoveInv and        *)
(* TruthInv of the modules it extends say why a step at an episode is one  *)
(* of the single nudge; JournalInv adds that nothing happens to an attempt *)
(* without a journal row.                                                  *)
(***************************************************************************)
EXTENDS FleetNudgeVerdicts

(* p is past the admission of its episode to the journal. *)
Admitted(p) ==
    \/ pc[p] \in {"gate", "send", "sending"}
    \/ op[p] \in {"mark", "inspect"} /\ pc[p] \in {"want", "body", "exit"}

JournalInv ==
    /\ \A p \in Procs : Admitted(p) => journal[Ep(p)] # "none"
    /\ \A e \in Episodes : stray[e] > 0 => journal[e] # "none"

-----------------------------------------------------------------------------
(* What a step of a process does to a row, a record and the message.       *)

(* A row is written by admission, and gets its outcome from a process.     *)
LEMMA RowStep ==
    ASSUME TypeOK, NEW p \in Procs, ProcStep(p), NEW e \in Episodes
    PROVE  \/ journal'[e] = journal[e]
           \/ AdmitJournal(p) /\ e = Ep(p) /\ journal[e] = "none" /\ journal'[e] = "in_flight"
           \/ FinalizeJournal(p) /\ e = Ep(p) /\ journal[e] = "in_flight" /\ journal'[e] = out[p]
<1>1. CASE AdmitJournal(p)
    BY <1>1 DEF AdmitJournal, TypeOK
<1>2. CASE FinalizeJournal(p)
    BY <1>2 DEF FinalizeJournal, finalizeRow, TypeOK
<1>3. CASE ~AdmitJournal(p) /\ ~FinalizeJournal(p)
    <2>1. journal' = journal
        BY <1>3, AnswerStep DEF ProcStep, Run, Runtime, StartTick, Crash, Time, Pick, EndTick, Validate, Enter,
           Exit, GiveUp, Expire, Acquire, Create, Fill, Hash, Mark, Inspect, Release, Finalize,
           MoveCheck, MoveCreate, MoveWrite, MoveUnlink, Gate, Send, Late, Submit
    <2> QED
        BY <2>1
<1> QED
    BY <1>1, <1>2, <1>3

(* There is no step that takes a row away. *)
LEMMA RowStays ==
    ASSUME TypeOK, Next, NEW e \in Episodes, journal[e] # "none"
    PROVE  journal'[e] # "none"
<1>1. ASSUME NEW p \in Procs, ProcStep(p) PROVE journal'[e] # "none"
    <2>1. out[p] # "none"
        BY DEF TypeOK, Outcomes
    <2> QED
        BY <1>1, <2>1, RowStep
<1>2. CASE NextTick \/ \E x \in Episodes : LeaseExpires(x) \/ SubmitStray(x)
    BY <1>2, WorldStep
<1> QED
    BY <1>1, <1>2 DEF Next, ProcStep

(* An attempt is marked by a process at its episode, and by nobody else.   *)
LEMMA MarkStep ==
    ASSUME TypeOK, NEW p \in Procs, ProcStep(p), NEW e \in Episodes, phase'[e] = "SEND_ATTEMPTED"
    PROVE  phase[e] = "SEND_ATTEMPTED" \/ (Mark(p) /\ e = Ep(p) /\ phase[e] = "CLAIMED")
<1>1. CASE Mark(p)
    BY <1>1 DEF Mark, Markable, TypeOK
<1>2. CASE Acquire(p) \/ Release(p) \/ MoveUnlink(p)
    BY <1>2 DEF Acquire, Release, MoveUnlink, Unlink, TypeOK
<1>3. CASE Create(p) \/ Fill(p)
    BY <1>3 DEF Create, Fill, TypeOK
<1>4. CASE ~(Acquire(p) \/ Create(p) \/ Fill(p) \/ Mark(p) \/ Release(p) \/ MoveUnlink(p))
    <2>1. phase' = phase
        BY <1>4, AnswerStep DEF ProcStep, StartTick, Validate, MoveCheck, MoveCreate, MoveWrite, Run, Runtime, Crash,
           Time, Pick, EndTick, Enter, Exit, GiveUp, Expire, Hash, Inspect, Finalize, AdmitJournal,
           Gate, FinalizeJournal, Send, Late, Submit, store
    <2> QED
        BY <2>1
<1> QED
    BY <1>1, <1>2, <1>3, <1>4

(* What is on record of an episode changes when its attempt is marked and  *)
(* when the verdict on the attempt is written.                             *)
LEMMA RecordStep ==
    ASSUME Inv, MoveInv, NEW p \in Procs, ProcStep(p), NEW e \in Episodes
    PROVE  \/ recordOf(e)' = recordOf(e)
           \/ Mark(p) /\ recordOf(e) = "open" /\ recordOf(e)' = "attempted"
           \/ /\ MoveWrite(p) /\ recordOf(e) = "attempted"
              /\ recordOf(e)' = terminal'[e] /\ terminal'[e] \in Settled
<1>0. /\ TypeOK /\ Local(p) /\ MoveSlot(p) /\ Next /\ Old(e)' = Old(e)
      /\ None # "torn" /\ None \notin Settled /\ "torn" \notin Settled
    <2>1. clock' = clock
        BY AnswerStep DEF ProcStep, Run, Runtime, StartTick, Crash, Time, Pick, EndTick, Validate, Enter,
           Exit, GiveUp, Expire, Acquire, Create, Fill, Hash, Mark, Inspect, Release, Finalize,
           MoveCheck, MoveCreate, MoveWrite, MoveUnlink, AdmitJournal, Gate, FinalizeJournal, Send,
           Late, Submit
    <2> QED
        BY <2>1, FleetNudgeAssumption DEF Inv, MoveInv, Old, Settled, Next, ProcStep
<1>1. CASE Old(e)
    BY <1>0, <1>1 DEF recordOf
<1>2. CASE ~Old(e) /\ terminal[e] \in Settled
    BY <1>0, <1>2, RecordKept DEF recordOf
<1>3. CASE ~Old(e) /\ terminal[e] = "torn"
    <2>1. ~MoveCreate(p) \/ e # Ep(p)
        BY <1>0, <1>3 DEF MoveSlot, MoveCreate, InTime
    <2>2. terminal'[e] = "torn" \/ (MoveWrite(p) /\ terminal'[e] = claimPhase(out[p]))
        BY <1>0, <1>3, <2>1, TerminalStep
    <2> QED
        BY <1>0, <1>3, <2>2, VerdictSettled DEF recordOf
<1>4. CASE ~Old(e) /\ terminal[e] = None
    <2>1. ~MoveWrite(p) \/ e # Ep(p)
        BY <1>0, <1>4 DEF MoveSlot, MoveWrite, InTime
    <2>2. terminal'[e] = None \/ (MoveCreate(p) /\ e = Ep(p) /\ terminal'[e] = "torn")
        BY <1>0, <1>4, <2>1, TerminalStep
    <2>3. CASE MoveCreate(p) /\ e = Ep(p) /\ terminal'[e] = "torn"
        <3>1. phase[e] = "SEND_ATTEMPTED"
            BY <1>0, <2>3 DEF MoveCreate, InTime, Local, MoveFrom, Moving
        <3> QED
            BY <1>0, <1>4, <2>3, <3>1 DEF recordOf
    <2>4. CASE terminal'[e] = None
        <3>1. phase'[e] = "SEND_ATTEMPTED" => phase[e] = "SEND_ATTEMPTED" \/ Mark(p)
            BY <1>0, MarkStep
        <3>2. phase[e] = "SEND_ATTEMPTED" => phase'[e] = "SEND_ATTEMPTED"
            <4>1. ~(pc[p] = "moveUnlink" /\ e = Ep(p))
                BY <1>0, <1>4, VerdictSettled DEF MoveSlot
            <4>2. ~(pc[p] \in {"create", "fill"} /\ e = Ep(p) /\ phase[e] = "SEND_ATTEMPTED")
                BY <1>0 DEF Local, Creating
            <4> QED
                BY <1>0, <4>1, <4>2, PhaseStep
        <3> QED
            BY <1>0, <1>4, <2>4, <3>1, <3>2 DEF recordOf
    <2> QED
        BY <2>2, <2>3, <2>4
<1> QED
    BY <1>0, <1>1, <1>2, <1>3, <1>4 DEF TypeOK

-----------------------------------------------------------------------------
(* Nothing happens to an attempt without a row.                            *)

(* A process comes to be past the admission by an admission that holds.    *)
LEMMA OwnAdmitted ==
    ASSUME Inv, NEW p \in Procs, ProcStep(p), Admitted(p)'
    PROVE  /\ Ep(p)' = Ep(p) /\ Ep(p) \in Episodes
           /\ Admitted(p) \/ journal'[Ep(p)] # "none"
<1>0. TypeOK /\ Local(p) /\ (pc[p] \notin {"idle", "next", "dead"} => Ep(p) \in Episodes)
    BY AtEpisode DEF Inv
<1>1. CASE AdmitJournal(p)
    <2>1. pc[p] = "admit" /\ Ep(p)' = Ep(p)
        BY <1>1 DEF AdmitJournal, Ep, local, store
    <2>2. pc'[p] = "gate"
        BY <1>0, <1>1 DEF AdmitJournal, Want, Goto, TypeOK, Admitted
    <2>3. journal' = [journal EXCEPT ![Ep(p)] = IF journal[Ep(p)] = "none" THEN "in_flight" ELSE journal[Ep(p)]]
        BY <1>0, <1>1, <2>2 DEF AdmitJournal, Want, Goto, TypeOK
    <2> QED
        BY <1>0, <2>1, <2>3 DEF TypeOK
<1>2. CASE Gate(p) \/ Send(p) \/ Mark(p) \/ Inspect(p)
    BY <1>0, <1>2 DEF Gate, Send, Mark, Inspect, InTime, Admitted, Ep, local
<1>3. CASE Enter(p) \/ Expire(p)
    <2>1. op'[p] = op[p] /\ pc'[p] \in {"body", "exit"} /\ Ep(p)' = Ep(p)
          /\ pc[p] \in {"want", "body", "create", "fill"} \cup Moving
        BY <1>0, <1>3 DEF Enter, Expire, Return, Goto, TypeOK, Ep, local, Moving
    <2>2. pc[p] \in {"create", "fill"} \cup Moving => op[p] \in {"acquire", "finalize"}
        BY <1>0 DEF Local, Creating, MoveFrom
    <2> QED
        BY <1>0, <2>1, <2>2 DEF Admitted, Moving
<1>4. CASE Exit(p) \/ GiveUp(p)
    <2>1. pc[p] \in {"want", "exit"} /\ Ep(p)' = Ep(p) /\ \E r : Continue(p, op[p], r)
        BY <1>4 DEF Exit, GiveUp, Ep, local
    <2>2. op[p] \in {"mark", "inspect"}
        BY <1>0, <2>1 DEF Continue, Want, Goto, TypeOK, Admitted
    <2> QED
        BY <1>0, <2>1, <2>2 DEF Admitted
<1>5. CASE Time(p)
    BY <1>0, <1>5 DEF Time, Admitted, Ep, local
<1>6. CASE StartTick(p) \/ Crash(p) \/ Pick(p) \/ EndTick(p) \/ Validate(p) \/ Create(p) \/ Late(p)
           \/ FinalizeJournal(p) \/ Submit(p) \/ Answer(p)
    BY <1>0, <1>6, AnswerMove DEF StartTick, Crash, Pick, EndTick, Validate, Create, Late, FinalizeJournal,
       Submit, Settle, Want, Goto, TypeOK, Admitted
<1>7. CASE Acquire(p) \/ Fill(p) \/ Hash(p) \/ Release(p) \/ Finalize(p) \/ MoveCheck(p) \/ MoveCreate(p)
           \/ MoveWrite(p) \/ MoveUnlink(p)
    BY <1>0, <1>7 DEF Acquire, Fill, Hash, Release, Finalize, MoveCheck, MoveCreate, MoveWrite, MoveUnlink,
       InTime, Return, Goto, TypeOK, Admitted, Local, Creating, MoveFrom, Moving
<1> QED
    BY <1>1, <1>2, <1>3, <1>4, <1>5, <1>6, <1>7 DEF ProcStep, Run, Runtime

(* Every step keeps the row of what is under way. *)
LEMMA JournalStep == Inv /\ JournalInv /\ [Next]_vars => JournalInv'
<1> SUFFICES ASSUME Inv, JournalInv, [Next]_vars PROVE JournalInv'
    OBVIOUS
<1>0. TypeOK
    BY DEF Inv
<1>1. CASE UNCHANGED vars
    BY <1>1 DEF vars, JournalInv, Admitted, Ep
<1>2. ASSUME Next, NEW q \in Procs, Admitted(q)' PROVE journal'[Ep(q)'] # "none"
    <2>1. CASE ProcStep(q)
        <3>1. /\ Ep(q)' = Ep(q) /\ Ep(q) \in Episodes
              /\ Admitted(q) \/ journal'[Ep(q)] # "none"
            BY <1>2, <2>1, OwnAdmitted
        <3> QED
            BY <1>0, <1>2, <3>1, RowStays DEF JournalInv
    <2>2. CASE Ep(q)' = Ep(q) /\ pc'[q] = pc[q] /\ op'[q] = op[q]
        <3>1. Admitted(q) /\ Ep(q) \in Episodes
            BY <1>2, <2>2, AtEpisode DEF Admitted
        <3> QED
            BY <1>0, <1>2, <2>2, <3>1, RowStays DEF JournalInv
    <2> QED
        BY <1>0, <1>2, <2>1, <2>2, OthersKept, WorldStep DEF Next, ProcStep
<1>3. ASSUME Next, NEW e \in Episodes, stray'[e] > 0 PROVE journal'[e] # "none"
    <2>1. stray[e] > 0 \/ \E p \in Procs : Armed(p) /\ Ep(p) = e
        BY <1>2, <1>3, CallStep
    <2>2. \A p \in Procs : Armed(p) => Admitted(p)
        BY DEF Armed, Admitted
    <2> QED
        BY <1>0, <1>3, <2>1, <2>2, RowStays DEF JournalInv
<1> QED
    BY <1>1, <1>2, <1>3 DEF JournalInv

-----------------------------------------------------------------------------
(* Every step is one of the single nudge, or none.                         *)

IndInv == Inv /\ MoveInv /\ TruthInv /\ JournalInv

(* Who is about to call has an attempt on record which nobody has called a *)
(* success or a failure, and a row in the same state.                      *)
LEMMA MayCall ==
    ASSUME IndInv, NEW p \in Procs, NEW e \in Episodes, Ep(p) = e, Armed(p), pc[p] = "send"
    PROVE  /\ sends[e] = 0 /\ stray[e] = 0
           /\ recordOf(e) \in {"attempted", "UNCERTAIN"}
           /\ journal[e] \in {"in_flight", "dispatch_unknown"}
<1>1. sends[e] = 0 /\ stray[e] = 0 /\ Recorded(e) /\ journal[e] # "none"
    BY DEF IndInv, Inv, Local, ArmedOnce, JournalInv, Admitted
<1>2. ~Old(e)
    BY DEF IndInv, Inv, Local, Timely, Running, Armed, Dispatch, Hard
<1>3. /\ terminal[e] # "FAILED_DEFINITIVE" /\ journal[e] # "send_failed"
      /\ terminal[e] # "SENT" /\ journal[e] # "dispatched"
    BY <1>1 DEF IndInv, TruthInv, TrueRecords, Quiet
<1>4. /\ terminal[e] \in Settled \cup {"torn", None}
      /\ journal[e] \in Outcomes \cup {"none", "in_flight"}
    BY DEF IndInv, Inv, TypeOK
<1> QED
    BY <1>1, <1>2, <1>3, <1>4 DEF recordOf, Recorded, Settled, Outcomes

(* p alone is in a call for its episode, and no stray call is left of it.  *)
LEMMA OneCall ==
    ASSUME Inv, NEW p \in Procs, NEW e \in Episodes, Ep(p) = e, Armed(p)
    PROVE  stray[e] = 0 /\ sends[e] = 0 /\ \A q \in Procs \ {p} : pc[q] = "sending" => Ep(q) # e
BY DEF Inv, Local, ArmedOnce, OneArmed, Armed

(* A call for an episode begins with Send, submits the message, or is      *)
(* given up or answered; other steps leave the calls and the message alone. *)
LEMMA CallsStep ==
    ASSUME Inv, NEW p \in Procs, ProcStep(p), NEW e \in Episodes
    PROVE  \/ callOf(e)' = callOf(e) /\ sends'[e] = sends[e]
           \/ Send(p) /\ pc'[p] = "sending" /\ e = Ep(p) /\ callOf(e) = "none" /\ callOf(e)' = "out"
           \/ /\ Submit(p) /\ e = Ep(p) /\ callOf(e) = "out" /\ callOf(e)' = "none"
              /\ sends[e] = 0 /\ sends'[e] = 1
           \/ (Late(p) \/ Answer(p) \/ Crash(p)) /\ callOf(e) = "out" /\ callOf(e)' = "none"
<1>0. TypeOK /\ stray[e] \in Nat /\ sends[e] \in Nat
    BY DEF Inv, TypeOK
<1>q. \A q \in Procs \ {p} : pc'[q] = pc[q] /\ Ep(q)' = Ep(q)
    BY <1>0, OthersKept
<1>1. CASE Submit(p)
    <2>1. /\ pc[p] = "sending" /\ pc'[p] = "sent" /\ stray' = stray
          /\ sends'[e] = IF e = Ep(p) THEN sends[e] + 1 ELSE sends[e]
        BY <1>0, <1>1 DEF Submit, Goto, TypeOK
    <2>2. CASE e = Ep(p)
        <3>1. stray[e] = 0 /\ sends[e] = 0 /\ \A q \in Procs \ {p} : pc[q] = "sending" => Ep(q) # e
            BY <2>1, <2>2, OneCall DEF Armed
        <3> QED
            BY <1>1, <1>q, <2>1, <2>2, <3>1 DEF callOf
    <2>3. CASE e # Ep(p)
        BY <1>q, <2>1, <2>3 DEF callOf
    <2> QED
        BY <2>2, <2>3
<1>2. CASE Send(p) /\ pc'[p] = "sending"
    <2>1. /\ pc[p] = "send" /\ Ep(p)' = Ep(p) /\ stray' = stray /\ sends' = sends /\ dl[p] < Dispatch
        BY <1>0, <1>2 DEF Send, Before, Settle, Want, Goto, TypeOK, Ep, local
    <2>2. CASE e = Ep(p)
        <3>1. stray[e] = 0 /\ \A q \in Procs \ {p} : pc[q] = "sending" => Ep(q) # e
            BY <2>1, <2>2, OneCall DEF Armed
        <3> QED
            BY <1>2, <1>q, <2>1, <2>2, <3>1 DEF callOf
    <2>3. CASE e # Ep(p)
        BY <1>q, <2>1, <2>3 DEF callOf
    <2> QED
        BY <2>2, <2>3
<1>3. CASE Late(p) \/ Answer(p) \/ Crash(p)
    <2>1. sends' = sends /\ pc'[p] # "sending" /\ (stray' = stray \/ Abandon(p))
        BY <1>0, <1>3, AnswerMove, AnswerStep DEF Late, Crash, Settle, Want, Goto, TypeOK
    <2>2. stray'[e] = stray[e] \/ (pc[p] = "sending" /\ Ep(p) = e)
        BY <1>0, <2>1 DEF Abandon, TypeOK
    <2>3. CASE pc[p] = "sending" /\ Ep(p) = e
        <3>1. callOf(e) = "out"
            BY <2>3 DEF callOf
        <3>2. callOf(e)' \in {"out", "none"}
            BY DEF callOf
        <3> QED
            BY <1>3, <2>1, <3>1, <3>2
    <2>4. CASE ~(pc[p] = "sending" /\ Ep(p) = e)
        BY <1>q, <2>1, <2>2, <2>4 DEF callOf
    <2> QED
        BY <2>3, <2>4
<1>4. CASE /\ ~(Submit(p) \/ Late(p) \/ Answer(p) \/ Crash(p))
           /\ ~(Send(p) /\ pc'[p] = "sending")
    <2>1. sends' = sends /\ stray' = stray
        BY <1>4 DEF ProcStep, Run, Runtime, StartTick, Time, Pick, EndTick, Validate, Enter, Exit, GiveUp,
           Expire, Acquire, Create, Fill, Hash, Mark, Inspect, Release, Finalize, MoveCheck, MoveCreate,
           MoveWrite, MoveUnlink, AdmitJournal, Gate, FinalizeJournal, Send
    <2>2. /\ pc'[p] = "sending" => pc[p] = "sending" /\ Ep(p)' = Ep(p)
          /\ pc[p] = "sending" => pc'[p] = "sending" /\ Ep(p)' = Ep(p)
        <3>1. CASE Time(p)
            BY <3>1 DEF Time, Ep, local
        <3>2. CASE Send(p)
            BY <1>4, <3>2 DEF Send
        <3>3. CASE ~Time(p) /\ ~Send(p)
            BY <1>0, <1>4, <3>3 DEF ProcStep, Run, Runtime, StartTick, Pick, EndTick, Validate, Enter, Exit,
               GiveUp, Expire, Acquire, Create, Fill, Hash, Mark, Inspect, Release, Finalize, MoveCheck,
               MoveCreate, MoveWrite, MoveUnlink, AdmitJournal, Gate, FinalizeJournal, InTime, Continue,
               Want, Return, Goto, TypeOK
        <3> QED
            BY <3>1, <3>2, <3>3
    <2> QED
        BY <1>q, <2>1, <2>2 DEF callOf
<1> QED
    BY <1>1, <1>2, <1>3, <1>4

(* A step of a process at an episode that leaves call and message alone.   *)
LEMMA SettleStep ==
    ASSUME IndInv, IndInv', NEW p \in Procs, ProcStep(p), NEW e \in Episodes,
           sends'[e] = sends[e], callOf(e)' = callOf(e)
    PROVE  Nudge(e)!NudgeNext \/ UNCHANGED Nudge(e)!nudgeVars
<1>0. TypeOK /\ Next /\ Inv /\ Inv' /\ MoveInv /\ TruthInv /\ JournalInv /\ out[p] \in Outcomes
    BY DEF IndInv, Inv, TypeOK, Next, ProcStep
<1>1. CASE journal'[e] # journal[e]
    <2>1. AdmitJournal(p) \/ FinalizeJournal(p)
        BY <1>0, <1>1, RowStep
    <2>2. recordOf(e)' = recordOf(e)
        BY <2>1 DEF AdmitJournal, FinalizeJournal, store, recordOf, Old
    <2>3. CASE journal[e] = "none" /\ journal'[e] = "in_flight"
        BY <2>2, <2>3 DEF Nudge!NudgeNext, Nudge!Admit
    <2>4. CASE journal[e] = "in_flight" /\ journal'[e] = out[p]
        <3>1. journal'[e] = "dispatched" => sends[e] = 1
            BY <1>0, RecordsStep
        <3>2. Nudge(e)!Report(out[p])
            BY <2>2, <2>4, <3>1 DEF Nudge!Report
        <3>3. out[p] \in Nudge(e)!Results
            BY <1>0 DEF Nudge!Results, Outcomes
        <3> QED
            BY <3>2, <3>3 DEF Nudge!NudgeNext
    <2> QED
        BY <1>0, <1>1, <2>3, <2>4, RowStep
<1>2. CASE journal'[e] = journal[e] /\ recordOf(e)' # recordOf(e)
    <2>1. CASE Mark(p) /\ recordOf(e) = "open" /\ recordOf(e)' = "attempted"
        <3>1. e = Ep(p) /\ Admitted(p)
            <4>1. phase'[e] = "SEND_ATTEMPTED" /\ phase[e] # "SEND_ATTEMPTED"
                BY <2>1 DEF recordOf, Mark, Settled, Old
            <4> QED
                BY <1>0, <2>1, <4>1, MarkStep DEF Mark, InTime, Admitted
        <3>2. journal[e] # "none"
            BY <1>0, <3>1 DEF JournalInv
        <3> QED
            BY <1>2, <2>1, <3>2 DEF Nudge!NudgeNext, Nudge!Attempt
    <2>2. CASE /\ MoveWrite(p) /\ recordOf(e) = "attempted"
               /\ recordOf(e)' = terminal'[e] /\ terminal'[e] \in Settled
        <3>1. terminal'[e] = "SENT" => sends[e] = 1
            BY <1>0, RecordsStep
        <3>2. Nudge(e)!Conclude(terminal'[e])
            BY <1>2, <2>2, <3>1 DEF Nudge!Conclude
        <3>3. terminal'[e] \in Nudge(e)!Verdicts
            BY <2>2 DEF Nudge!Verdicts, Settled
        <3> QED
            BY <3>2, <3>3 DEF Nudge!NudgeNext
    <2> QED
        BY <1>0, <1>2, <2>1, <2>2, RecordStep
<1>3. CASE journal'[e] = journal[e] /\ recordOf(e)' = recordOf(e)
    BY <1>3 DEF Nudge!nudgeVars
<1> QED
    BY <1>1, <1>2, <1>3

(* A step of the scheduler's world. *)
LEMMA WorldNudge ==
    ASSUME IndInv, NEW e \in Episodes, NextTick \/ \E x \in Episodes : LeaseExpires(x) \/ SubmitStray(x)
    PROVE  Nudge(e)!NudgeNext \/ UNCHANGED Nudge(e)!nudgeVars
<1>0. /\ TypeOK /\ journal' = journal /\ phase' = phase /\ terminal' = terminal /\ (Old(e) => Old(e)')
      /\ \A q \in Procs : Ep(q)' = Ep(q) /\ pc'[q] = pc[q]
    BY WorldStep DEF IndInv, Inv
<1>1. recordOf(e)' = recordOf(e) \/ recordOf(e)' = "forgotten"
    BY <1>0 DEF recordOf
<1>2. CASE sends'[e] = sends[e] /\ stray'[e] = stray[e]
    <2>1. callOf(e)' = callOf(e)
        BY <1>2, <1>0 DEF callOf
    <2> QED
        BY <1>0, <1>1, <1>2, <2>1 DEF Nudge!NudgeNext, Nudge!Forget, Nudge!nudgeVars
<1>3. CASE SubmitStray(e)
    <2>1. stray[e] > 0 /\ stray'[e] = stray[e] - 1 /\ sends'[e] = sends[e] + 1 /\ clock' = clock
        BY <1>0, <1>3 DEF SubmitStray, TypeOK
    <2>2. sends[e] = 0 /\ stray[e] = 1
        BY <1>0, <2>1 DEF IndInv, Inv, SentOnce
    <2>3. \A q \in Procs : pc[q] = "sending" => Ep(q) # e
        BY <2>2 DEF IndInv, Inv, Local, ArmedOnce, Armed
    <2>4. callOf(e) = "out" /\ callOf(e)' = "none"
        BY <1>0, <2>1, <2>2, <2>3 DEF callOf
    <2>5. recordOf(e)' = recordOf(e)
        BY <1>0, <2>1 DEF recordOf, Old
    <2> QED
        BY <1>0, <2>1, <2>2, <2>4, <2>5 DEF Nudge!NudgeNext, Nudge!Deliver
<1>4. SubmitStray(e) \/ (sends'[e] = sends[e] /\ stray'[e] = stray[e])
    BY <1>0 DEF NextTick, LeaseExpires, SubmitStray, TypeOK
<1> QED
    BY <1>2, <1>3, <1>4

(* Every step is a step of the single nudge at every episode, or leaves it *)
(* alone.                                                                  *)
LEMMA NudgeStep ==
    ASSUME IndInv, IndInv', [Next]_vars, NEW e \in Episodes
    PROVE  Nudge(e)!NudgeNext \/ UNCHANGED Nudge(e)!nudgeVars
<1>1. CASE UNCHANGED vars
    BY <1>1 DEF vars, Nudge!nudgeVars, recordOf, callOf, Old, Ep
<1>2. ASSUME NEW p \in Procs, ProcStep(p)
      PROVE  Nudge(e)!NudgeNext \/ UNCHANGED Nudge(e)!nudgeVars
    <2>0. Inv /\ TypeOK
        BY DEF IndInv, Inv
    <2>1. CASE callOf(e)' = callOf(e) /\ sends'[e] = sends[e]
        BY <1>2, <2>1, SettleStep
    <2>2. ASSUME Send(p) \/ Submit(p) \/ Late(p) \/ Answer(p) \/ Crash(p)
          PROVE  journal'[e] = journal[e] /\ recordOf(e)' = recordOf(e)
        <3>1. UNCHANGED <<clock, store, journal>>
            BY <2>2, AnswerStep DEF Send, Submit, Late, Crash
        <3> QED
            BY <3>1 DEF store, recordOf, Old
    <2>3. CASE Send(p) /\ pc'[p] = "sending" /\ e = Ep(p) /\ callOf(e) = "none" /\ callOf(e)' = "out"
        <3>1. pc[p] = "send" /\ dl[p] < Dispatch /\ sends' = sends
            BY <2>0, <2>3 DEF Send, Before, Settle, Want, Goto, TypeOK
        <3>2. /\ sends[e] = 0 /\ recordOf(e) \in {"attempted", "UNCERTAIN"}
              /\ journal[e] \in {"in_flight", "dispatch_unknown"}
            BY <2>3, <3>1, MayCall DEF Armed
        <3> QED
            BY <2>2, <2>3, <3>1, <3>2 DEF Nudge!NudgeNext, Nudge!Call
    <2>4. CASE /\ Submit(p) /\ e = Ep(p) /\ callOf(e) = "out" /\ callOf(e)' = "none"
               /\ sends[e] = 0 /\ sends'[e] = 1
        BY <2>2, <2>4 DEF Nudge!NudgeNext, Nudge!Deliver
    <2>5. CASE (Late(p) \/ Answer(p) \/ Crash(p)) /\ callOf(e) = "out" /\ callOf(e)' = "none"
        <3>1. sends' = sends
            BY <2>5, AnswerStep DEF Late, Crash
        <3> QED
            BY <2>2, <2>5, <3>1 DEF Nudge!NudgeNext, Nudge!Drop
    <2> QED
        BY <1>2, <2>0, <2>1, <2>3, <2>4, <2>5, CallsStep
<1> QED
    BY <1>1, <1>2, WorldNudge DEF Next, ProcStep

(* The fleet nudge implements a single nudge per episode: whatever its     *)
(* processes do, die of or hear too late, an episode gets its row, its     *)
(* attempt, its call and its verdicts once; the message goes out by the    *)
(* call alone, no verdict of success comes before it, and no call after a  *)
(* verdict of success or failure or once the records may be pruned.        *)
THEOREM NudgesAreSingle == Spec => SingleNudges
<1>1. Init => IndInv
    BY InvInit, FleetNudgeAssumption DEF Init, IndInv, MoveInv, MoveSlot, SettledClaim, HasSettled, TruthInv,
       TrueRecords, Honest, Settling, Moving, JournalInv, Admitted
<1>2. IndInv /\ [Next]_vars => IndInv'
    BY InvStep, MoveStep, TruthStep, JournalStep DEF IndInv
<1>3. Init => \A e \in Episodes : Nudge(e)!NudgeInit
    BY FleetNudgeAssumption DEF Init, Nudge!NudgeInit, recordOf, callOf, Old, Episodes, Ticks, Settled
<1>4. IndInv /\ IndInv' /\ [Next]_vars =>
        [\A e \in Episodes : Nudge(e)!NudgeNext \/ UNCHANGED Nudge(e)!nudgeVars]_vars
    BY NudgeStep
<1> QED
    BY <1>1, <1>2, <1>3, <1>4, PTL DEF Spec, SingleNudges

=============================================================================
