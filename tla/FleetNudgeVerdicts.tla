-------------------------- MODULE FleetNudgeVerdicts --------------------------
(***************************************************************************)
(* What the records of a fleet nudge are worth, for any number of          *)
(* processes, units, ticks and crashes: a verdict that is on disk stands   *)
(* and can be relied on, claim and journal agree on it, and the records of *)
(* a generation are as many as the processes that run at once let them be. *)
(* The invariant Inv of FleetNudgeProofs is used throughout.               *)
(***************************************************************************)
EXTENDS FleetNudgeProofs, FiniteSetTheorems

(* A step that process p takes or suffers. *)
ProcStep(p) == StartTick(p) \/ Run(p) \/ Runtime(p) \/ Crash(p) \/ Time(p)

(* Such a step leaves the other processes and the clock alone. *)
LEMMA OthersKept ==
    ASSUME NEW p \in Procs, NEW q \in Procs \ {p}, TypeOK, ProcStep(p)
    PROVE  /\ pc'[q] = pc[q] /\ op'[q] = op[q] /\ ret'[q] = ret[q] /\ out'[q] = out[q]
           /\ failed'[q] = failed[q] /\ dl'[q] = dl[q] /\ Ep(q)' = Ep(q)
           /\ clock' = clock
<1> USE DEF TypeOK, Ep, Goto, Want, Return, Settle, Continue, local, store
<1>1. CASE StartTick(p) \/ Crash(p) \/ Time(p) \/ Pick(p) \/ EndTick(p) \/ Validate(p)
    BY <1>1 DEF StartTick, Crash, Time, Pick, EndTick, Validate
<1>2. CASE Enter(p) \/ Exit(p) \/ GiveUp(p) \/ Expire(p)
    BY <1>2 DEF Enter, Exit, GiveUp, Expire
<1>3. CASE Acquire(p) \/ Create(p) \/ Fill(p) \/ Hash(p) \/ Mark(p) \/ Inspect(p) \/ Release(p)
    BY <1>3 DEF Acquire, Create, Fill, Hash, Mark, Inspect, Release
<1>4. CASE Finalize(p) \/ MoveCheck(p) \/ MoveCreate(p) \/ MoveWrite(p) \/ MoveUnlink(p)
    BY <1>4 DEF Finalize, MoveCheck, MoveCreate, MoveWrite, MoveUnlink
<1>5. CASE AdmitJournal(p) \/ Gate(p) \/ FinalizeJournal(p)
    BY <1>5 DEF AdmitJournal, Gate, FinalizeJournal
<1>6. CASE Send(p) \/ Late(p) \/ Submit(p)
    BY <1>6 DEF Send, Late, Submit
<1>7. CASE Answer(p)
    BY <1>7, AnswerStep
<1> QED
    BY <1>1, <1>2, <1>3, <1>4, <1>5, <1>6, <1>7 DEF ProcStep, Run, Runtime

(* After an answer its process goes on to settle its claim. *)
LEMMA AnswerMove ==
    ASSUME NEW p \in Procs, TypeOK, Answer(p)
    PROVE  /\ pc[p] \in {"sending", "sent"} /\ pc'[p] = "want" /\ op'[p] = "finalize"
           /\ Ep(p)' = Ep(p) /\ sends' = sends /\ out'[p] \in Outcomes
           /\ out'[p] = "dispatched" => pc[p] = "sent"
BY AnswerStep DEF Want, Goto, TypeOK, Ep, local

(* A terminal record changes when it is old and pruned, or under the move  *)
(* of its own process.                                                     *)
LEMMA TerminalStep ==
    ASSUME NEW p \in Procs, NEW e \in Episodes, TypeOK, Local(p), ProcStep(p)
    PROVE  \/ terminal'[e] = terminal[e]
           \/ terminal[e] \in Settled /\ terminal'[e] = None /\ Old(e)
           \/ MoveCreate(p) /\ e = Ep(p) /\ terminal'[e] = "torn"
           \/ MoveWrite(p) /\ e = Ep(p) /\ terminal'[e] = claimPhase(out[p])
<1>1. ASSUME NEW t \in Ticks, t <= clock, terminal' = Pruned(t)
      PROVE  \/ terminal'[e] = terminal[e]
             \/ terminal[e] \in Settled /\ terminal'[e] = None /\ Old(e)
    <2>1. terminal'[e] = terminal[e] \/ (terminal'[e] = None /\ Old(e))
        BY <1>1, PrunedOld
    <2>2. terminal'[e] = terminal[e] \/ terminal[e] \in Settled
        BY <1>1 DEF Pruned
    <2> QED
        BY <2>1, <2>2
<1>2. CASE StartTick(p)
    BY <1>1, <1>2 DEF StartTick
<1>3. CASE Validate(p)
    <2>1. terminal' = terminal \/ terminal' = Pruned(tick[p])
        BY <1>3 DEF Validate
    <2> QED
        BY <1>1, <2>1 DEF Local, Timely, TypeOK
<1>4. CASE MoveCheck(p)
    <2>1. terminal' = Pruned(tick[p])
        BY <1>4 DEF MoveCheck
    <2> QED
        BY <1>1, <2>1 DEF Local, Timely, TypeOK
<1>5. CASE MoveCreate(p) \/ MoveWrite(p)
    BY <1>5 DEF MoveCreate, MoveWrite, TypeOK
<1>6. CASE ~(StartTick(p) \/ Validate(p) \/ MoveCheck(p) \/ MoveCreate(p) \/ MoveWrite(p))
    <2>1. terminal' = terminal
        BY <1>6 DEF ProcStep, Run, Runtime, Crash, Time, Pick, EndTick, Enter, Exit, GiveUp, Expire,
           Acquire, Create, Fill, Hash, Mark, Inspect, Release, Finalize, MoveUnlink, AdmitJournal,
           Gate, FinalizeJournal, Send, Late, Submit, Answer, store
    <2> QED
        BY <2>1
<1> QED
    BY <1>2, <1>3, <1>4, <1>5, <1>6

(* A claim file changes under the hands of a process at its episode.  An   *)
(* attempt goes only at the end of a move.                                 *)
LEMMA PhaseStep ==
    ASSUME NEW p \in Procs, NEW e \in Episodes, TypeOK, Local(p), ProcStep(p)
    PROVE  \/ phase'[e] = phase[e]
           \/ phase'[e] = "none" /\ (phase[e] = "SEND_ATTEMPTED" => pc[p] = "moveUnlink" /\ e = Ep(p))
           \/ pc[p] \in {"create", "fill"} /\ e = Ep(p)
           \/ phase[e] = "CLAIMED" /\ phase'[e] = "SEND_ATTEMPTED"
<1>1. CASE Acquire(p)
    BY <1>1 DEF Acquire, Claimable, Unlink, TypeOK
<1>2. CASE Create(p) \/ Fill(p)
    BY <1>2 DEF Create, Fill, InTime, TypeOK
<1>3. CASE Mark(p)
    BY <1>3 DEF Mark, Markable, TypeOK
<1>4. CASE Release(p)
    BY <1>4 DEF Release, Unlink, TypeOK
<1>5. CASE MoveUnlink(p)
    BY <1>5 DEF MoveUnlink, InTime, Unlink, TypeOK
<1>6. CASE ~(Acquire(p) \/ Create(p) \/ Fill(p) \/ Mark(p) \/ Release(p) \/ MoveUnlink(p))
    <2>1. phase' = phase
        BY <1>6 DEF ProcStep, StartTick, Validate, MoveCheck, MoveCreate, MoveWrite, Run, Runtime, Crash,
           Time, Pick, EndTick, Enter, Exit, GiveUp, Expire, Hash, Inspect, Finalize, AdmitJournal,
           Gate, FinalizeJournal, Send, Late, Submit, Answer, store
    <2> QED
        BY <2>1
<1> QED
    BY <1>1, <1>2, <1>3, <1>4, <1>5, <1>6

(* The next tick, a lease that runs out and a stray call leave the         *)
(* processes' places, the records and the rows alone.                      *)
LEMMA WorldStep ==
    ASSUME TypeOK,
           NextTick \/ \E e \in Episodes : LeaseExpires(e) \/ SubmitStray(e)
    PROVE  /\ UNCHANGED <<phase, terminal, journal, pc, tick, unit, failed, op, ret, out>>
           /\ \A q \in Procs : Ep(q)' = Ep(q)
           /\ \A e \in Episodes : Old(e) => Old(e)'
<1>1. UNCHANGED <<phase, terminal, journal, pc, tick, unit, failed, op, ret, out>>
    BY DEF NextTick, LeaseExpires, SubmitStray, store, local
<1>2. \A e \in Episodes : Old(e) => Old(e)'
    BY FleetNudgeAssumption DEF NextTick, LeaseExpires, SubmitStray, Old, TypeOK, Ticks, Episodes
<1> QED
    BY <1>1, <1>2 DEF Ep

(* A process is at an episode unless it is between two candidates.         *)
LEMMA AtEpisode ==
    ASSUME Inv, NEW p \in Procs
    PROVE  pc[p] \notin {"idle", "next", "dead"} => Ep(p) \in Episodes
BY DEF Inv, TypeOK, Local, HasUnit, Ep, Episodes

-----------------------------------------------------------------------------
(* Verdicts stand.                                                         *)

(* A move writes where there was no record, and leaves the verdict of the  *)
(* process there until the record is old.                                  *)
MoveSlot(p) ==
    LET e == Ep(p)
    IN  /\ pc[p] = "moveCreate" => terminal[e] = None
        /\ pc[p] = "moveWrite" => terminal[e] = "torn"
        /\ pc[p] = "moveUnlink" => Old(e) \/ terminal[e] = claimPhase(out[p])

(* A claim that p has settled in time is a record of p's verdict.          *)
HasSettled(p) ==
    \/ pc[p] = "exit" /\ op[p] = "finalize" /\ ret[p] = "ok"
    \/ pc[p] = "journal" /\ ~failed[p]
SettledClaim(p) ==
    HasSettled(p) =>
        Old(Ep(p)) \/ (phase[Ep(p)] = "none" /\ terminal[Ep(p)] = claimPhase(out[p]))

MoveInv == \A p \in Procs : MoveSlot(p) /\ SettledClaim(p)

(* The verdict of an outcome is a settled phase. *)
LEMMA VerdictSettled ==
    \A o : claimPhase(o) \in Settled /\ claimPhase(o) # None /\ claimPhase(o) # "torn"
BY FleetNudgeAssumption DEF claimPhase, Settled

(* A settled record keeps its verdict until it is old, and no claim is     *)
(* created beside it.                                                      *)
LEMMA RecordKept ==
    ASSUME Inv, MoveInv, Next, NEW e \in Episodes, terminal[e] \in Settled
    PROVE  /\ terminal'[e] = terminal[e] \/ (terminal'[e] = None /\ Old(e))
           /\ phase[e] = "none" => phase'[e] = "none"
<1>1. ASSUME NEW p \in Procs, ProcStep(p)
      PROVE  /\ terminal'[e] = terminal[e] \/ (terminal'[e] = None /\ Old(e))
             /\ phase[e] = "none" => phase'[e] = "none"
    <2>1. Local(p) /\ MoveSlot(p) /\ TypeOK
        BY DEF Inv, MoveInv
    <2>2. terminal[e] # None /\ terminal[e] # "torn"
        BY FleetNudgeAssumption DEF Settled
    <2>3. ~(MoveCreate(p) /\ e = Ep(p)) /\ ~(MoveWrite(p) /\ e = Ep(p))
        BY <2>1, <2>2 DEF MoveSlot, MoveCreate, MoveWrite, InTime
    <2>4. ~(pc[p] \in {"create", "fill"} /\ e = Ep(p))
        BY <2>1, <2>2 DEF Local, Creating
    <2> QED
        BY <1>1, <2>1, <2>3, <2>4, TerminalStep, PhaseStep
<1>2. CASE NextTick \/ \E x \in Episodes : LeaseExpires(x) \/ SubmitStray(x)
    BY <1>2, WorldStep DEF Inv
<1> QED
    BY <1>1, <1>2 DEF Next, ProcStep

(* The steps of a process into and inside its move.                        *)
LEMMA OwnMove ==
    ASSUME Inv, MoveInv, Inv', NEW p \in Procs, ProcStep(p)
    PROVE  MoveSlot(p)' /\ SettledClaim(p)'
<1>0. Local(p) /\ MoveSlot(p) /\ SettledClaim(p) /\ TypeOK /\ None # "torn"
    BY FleetNudgeAssumption DEF Inv, MoveInv
<1>e. pc[p] \notin {"idle", "next", "dead"} => Ep(p) \in Episodes
    BY AtEpisode
<1>1. CASE MoveCheck(p)
    <2>1. pc'[p] = "moveCreate" => terminal'[Ep(p)] = None
        BY <1>0, <1>1 DEF MoveCheck, Return, Goto, TypeOK
    <2>2. pc'[p] \in {"moveCreate", "exit"} /\ ret'[p] \in {ret[p], "fail"} /\ Ep(p)' = Ep(p)
          /\ (pc'[p] = "exit" => ret'[p] = "fail")
        BY <1>0, <1>1 DEF MoveCheck, Return, Goto, TypeOK, Ep, local
    <2> QED
        BY <2>1, <2>2 DEF MoveSlot, SettledClaim, HasSettled
<1>2. CASE MoveCreate(p)
    <2>1. pc'[p] = "moveWrite" /\ Ep(p)' = Ep(p) /\ terminal'[Ep(p)] = "torn"
        BY <1>0, <1>e, <1>2 DEF MoveCreate, InTime, Goto, TypeOK, Ep, local
    <2> QED
        BY <2>1 DEF MoveSlot, SettledClaim, HasSettled
<1>3. CASE MoveWrite(p)
    <2>1. /\ pc'[p] = "moveUnlink" /\ Ep(p)' = Ep(p) /\ out'[p] = out[p]
          /\ terminal'[Ep(p)] = claimPhase(out[p])
        BY <1>0, <1>e, <1>3 DEF MoveWrite, InTime, Goto, TypeOK, Ep, local
    <2> QED
        BY <2>1 DEF MoveSlot, SettledClaim, HasSettled
<1>4. CASE MoveUnlink(p)
    <2>1. /\ pc'[p] = "exit" /\ Ep(p)' = Ep(p) /\ out'[p] = out[p] /\ terminal' = terminal
          /\ phase'[Ep(p)] = "none" /\ clock' = clock
        BY <1>0, <1>e, <1>4 DEF MoveUnlink, InTime, Unlink, Return, Goto, TypeOK, Ep, local
    <2>2. Old(Ep(p)) \/ terminal[Ep(p)] = claimPhase(out[p])
        BY <1>0, <1>4 DEF MoveUnlink, InTime, MoveSlot
    <2> QED
        BY <2>1, <2>2 DEF MoveSlot, SettledClaim, HasSettled, Old
<1>5. CASE Exit(p)
    <2>1. /\ pc'[p] \notin {"moveCreate", "moveWrite", "moveUnlink", "exit"} /\ pc[p] = "exit"
          /\ Ep(p)' = Ep(p) /\ UNCHANGED <<phase, terminal, clock>>
        BY <1>0, <1>5 DEF Exit, Continue, Want, Goto, TypeOK, Ep, local, store
    <2>2. pc'[p] = "journal" /\ ~failed'[p] =>
            op[p] = "finalize" /\ ret[p] = "ok" /\ out'[p] = out[p]
        BY <1>0, <1>5 DEF Exit, Continue, Want, Goto, TypeOK
    <2> QED
        BY <1>0, <2>1, <2>2 DEF MoveSlot, SettledClaim, HasSettled, Old
<1>6. CASE Time(p)
    BY <1>0, <1>6 DEF Time, MoveSlot, SettledClaim, HasSettled, Old, Ep, local, store
<1>7. CASE GiveUp(p)
    <2>1. pc'[p] \notin {"moveCreate", "moveWrite", "moveUnlink", "exit"}
          /\ (pc'[p] = "journal" => failed'[p])
        BY <1>0, <1>7 DEF GiveUp, Continue, Want, Goto, TypeOK
    <2> QED
        BY <2>1 DEF MoveSlot, SettledClaim, HasSettled
<1>8. CASE Expire(p) \/ Acquire(p) \/ Fill(p) \/ Hash(p) \/ Mark(p) \/ Inspect(p) \/ Release(p) \/ Finalize(p)
    <2>1. /\ pc'[p] \notin {"moveCreate", "moveWrite", "moveUnlink", "journal"}
          /\ pc'[p] = "exit" => ret'[p] = "fail" \/ op'[p] # "finalize"
        BY <1>0, <1>8 DEF Expire, Acquire, Fill, Hash, Mark, Inspect, Release, Finalize, Return, Goto,
           TypeOK, Local, Creating, InTime
    <2> QED
        BY <2>1 DEF MoveSlot, SettledClaim, HasSettled
<1>9. CASE StartTick(p) \/ Crash(p) \/ Pick(p) \/ EndTick(p) \/ Validate(p) \/ Enter(p) \/ Create(p)
           \/ AdmitJournal(p) \/ Gate(p) \/ FinalizeJournal(p) \/ Send(p) \/ Late(p) \/ Submit(p) \/ Answer(p)
    <2>1. pc'[p] \notin {"moveCreate", "moveWrite", "moveUnlink", "journal", "exit"}
        BY <1>0, <1>9, AnswerMove DEF StartTick, Crash, Pick, EndTick, Validate, Enter, Create, AdmitJournal,
           Gate, FinalizeJournal, Send, Late, Submit, Settle, Want, Goto, TypeOK
    <2> QED
        BY <2>1 DEF MoveSlot, SettledClaim, HasSettled
<1> QED
    BY <1>1, <1>2, <1>3, <1>4, <1>5, <1>6, <1>7, <1>8, <1>9 DEF ProcStep, Run, Runtime

(* Another process does not reach into a move, whose mutex its owner has.  *)
LEMMA OthersMove ==
    ASSUME Inv, MoveInv, Next, NEW p \in Procs, ProcStep(p), NEW q \in Procs \ {p}
    PROVE  MoveSlot(q)' /\ SettledClaim(q)'
<1>1. /\ pc'[q] = pc[q] /\ op'[q] = op[q] /\ ret'[q] = ret[q] /\ out'[q] = out[q]
      /\ failed'[q] = failed[q] /\ Ep(q)' = Ep(q) /\ Old(Ep(q))' = Old(Ep(q))
    BY OthersKept DEF Inv, Old
<1>2. Local(p) /\ Local(q) /\ MoveSlot(p) /\ MoveSlot(q) /\ SettledClaim(q) /\ TypeOK
    BY DEF Inv, MoveInv
<1>3. MoveSlot(q)'
    <2> SUFFICES ASSUME pc[q] \in {"moveCreate", "moveWrite", "moveUnlink"} PROVE MoveSlot(q)'
        BY <1>1 DEF MoveSlot
    <2>1. Ep(q) \in Episodes
        BY AtEpisode
    <2>2. ~(MoveCreate(p) /\ Ep(q) = Ep(p)) /\ ~(MoveWrite(p) /\ Ep(q) = Ep(p))
        BY <1>2 DEF Local, Owned, Section, MoveCreate, MoveWrite, InTime
    <2>3. \/ terminal'[Ep(q)] = terminal[Ep(q)]
          \/ terminal[Ep(q)] \in Settled /\ terminal'[Ep(q)] = None /\ Old(Ep(q))
        BY <1>2, <2>1, <2>2, TerminalStep
    <2>4. terminal[Ep(q)] \in Settled => terminal[Ep(q)] # None /\ terminal[Ep(q)] # "torn"
        BY FleetNudgeAssumption DEF Settled
    <2> QED
        BY <1>1, <1>2, <2>3, <2>4 DEF MoveSlot
<1>4. SettledClaim(q)'
    <2> SUFFICES ASSUME HasSettled(q), ~Old(Ep(q)) PROVE SettledClaim(q)'
        BY <1>1 DEF SettledClaim, HasSettled
    <2>1. Ep(q) \in Episodes
        BY AtEpisode DEF HasSettled
    <2>2. phase[Ep(q)] = "none" /\ terminal[Ep(q)] = claimPhase(out[q])
        BY <1>2 DEF SettledClaim
    <2>3. phase'[Ep(q)] = "none" /\ terminal'[Ep(q)] = terminal[Ep(q)]
        BY <2>1, <2>2, VerdictSettled, RecordKept
    <2> QED
        BY <1>1, <2>2, <2>3 DEF SettledClaim
<1> QED
    BY <1>3, <1>4

(* Every step keeps the moves in order. *)
LEMMA MoveStep == Inv /\ Inv' /\ MoveInv /\ [Next]_vars => MoveInv'
<1> SUFFICES ASSUME Inv, Inv', MoveInv, [Next]_vars PROVE MoveInv'
    OBVIOUS
<1>1. CASE UNCHANGED vars
    BY <1>1 DEF vars, MoveInv, MoveSlot, SettledClaim, HasSettled, Old, Ep
<1>2. ASSUME NEW p \in Procs, ProcStep(p) PROVE MoveInv'
    <2>1. Next
        BY <1>2 DEF Next, ProcStep
    <2> QED
        BY <1>2, <2>1, OwnMove, OthersMove DEF MoveInv
<1>3. CASE NextTick \/ \E e \in Episodes : LeaseExpires(e) \/ SubmitStray(e)
    <2>1. ASSUME NEW q \in Procs PROVE MoveSlot(q)' /\ SettledClaim(q)'
        <3>1. pc[q] \notin {"idle", "next", "dead"} => Ep(q) \in Episodes
            BY AtEpisode
        <3>2. MoveSlot(q) /\ SettledClaim(q)
            BY DEF MoveInv
        <3>3. /\ UNCHANGED <<phase, terminal, pc, failed, op, ret, out>> /\ Ep(q)' = Ep(q)
              /\ Ep(q) \in Episodes => (Old(Ep(q)) => Old(Ep(q))')
            BY <1>3, WorldStep DEF Inv
        <3> QED
            BY <3>1, <3>2, <3>3 DEF MoveSlot, SettledClaim, HasSettled
    <2> QED
        BY <2>1 DEF MoveInv
<1> QED
    BY <1>1, <1>2, <1>3 DEF Next, ProcStep

(* Inv and MoveInv hold in every reachable state. *)
LEMMA MovesInOrder == Spec => [](Inv /\ MoveInv)
<1>1. Init => Inv /\ MoveInv
    BY InvInit DEF Init, MoveInv, MoveSlot, SettledClaim, HasSettled
<1>2. Inv /\ MoveInv /\ [Next]_vars => Inv' /\ MoveInv'
    BY InvStep, MoveStep
<1> QED
    BY <1>1, <1>2, PTL DEF Spec

(* A journal row that has an outcome keeps it. *)
LEMMA RowKept ==
    ASSUME TypeOK, Next, NEW e \in Episodes, journal[e] \in Outcomes
    PROVE  journal'[e] = journal[e]
<1>1. ASSUME NEW p \in Procs, AdmitJournal(p) PROVE journal'[e] = journal[e]
    BY <1>1 DEF AdmitJournal, TypeOK, Outcomes
<1>2. ASSUME NEW p \in Procs, FinalizeJournal(p) PROVE journal'[e] = journal[e]
    BY <1>2 DEF FinalizeJournal, finalizeRow, TypeOK, Outcomes
<1>3. ASSUME NEW p \in Procs, ProcStep(p), ~AdmitJournal(p), ~FinalizeJournal(p)
      PROVE  journal'[e] = journal[e]
    <2>1. journal' = journal
        BY <1>3 DEF ProcStep, Run, Runtime, StartTick, Crash, Time, Pick, EndTick, Validate, Enter,
           Exit, GiveUp, Expire, Acquire, Create, Fill, Hash, Mark, Inspect, Release, Finalize,
           MoveCheck, MoveCreate, MoveWrite, MoveUnlink, Gate, Send, Late, Submit, Answer
    <2> QED
        BY <2>1
<1>4. CASE NextTick \/ \E x \in Episodes : LeaseExpires(x) \/ SubmitStray(x)
    BY <1>4, WorldStep
<1> QED
    BY <1>1, <1>2, <1>3, <1>4 DEF Next, ProcStep

(* Once a claim or a journal row says how an attempt ended, it never says  *)
(* anything else, whoever else claims, recovers or finalizes the episode;  *)
(* a claim record only goes, by pruning.                                   *)
THEOREM VerdictsStand == Spec => VerdictStands
<1>1. Inv /\ MoveInv /\ [Next]_vars =>
        [\A e \in Episodes :
            /\ terminal[e] \in Settled => terminal'[e] \in {terminal[e], None}
            /\ journal[e] \in Outcomes => journal'[e] = journal[e]]_vars
    BY RecordKept, RowKept DEF Inv
<1> QED
    BY <1>1, MovesInOrder, PTL DEF Spec, VerdictStands

(* An attempt that its process settles in both places without failing is   *)
(* settled alike in both: the record of the claim is there, it has not     *)
(* been pruned, and it has the verdict of the journal row.                 *)
THEOREM SettledAlike == Spec => Reconciled
<1>1. ASSUME Inv, MoveInv, Next, NEW p \in Procs,
             pc[p] = "journal", pc'[p] = "next", ~failed'[p]
      PROVE  phase[Ep(p)] = "none" /\ terminal[Ep(p)] = claimPhase(journal'[Ep(p)])
    <2>1. TypeOK /\ Local(p) /\ SettledClaim(p) /\ Ep(p) \in Episodes
        BY <1>1, AtEpisode DEF Inv, MoveInv
    <2>2. FinalizeJournal(p)
        <3>1. ASSUME NEW q \in Procs, ProcStep(q) PROVE q = p
            BY <1>1, <2>1, <3>1, OthersKept
        <3>2. ProcStep(p)
            BY <1>1, <2>1, <3>1, WorldStep DEF Next, ProcStep
        <3>3. ~(StartTick(p) \/ Pick(p) \/ EndTick(p) \/ Validate(p) \/ Enter(p) \/ Exit(p) \/ GiveUp(p)
                \/ Expire(p) \/ Acquire(p) \/ Create(p) \/ Fill(p) \/ Hash(p) \/ Mark(p) \/ Inspect(p)
                \/ Release(p) \/ Finalize(p) \/ MoveCheck(p) \/ MoveCreate(p) \/ MoveWrite(p)
                \/ MoveUnlink(p) \/ AdmitJournal(p) \/ Gate(p) \/ Send(p) \/ Late(p) \/ Submit(p)
                \/ Answer(p))
            BY <1>1 DEF StartTick, Pick, EndTick, Validate, Enter, Exit, GiveUp, Expire, Acquire, Create,
               Fill, Hash, Mark, Inspect, Release, Finalize, MoveCheck, MoveCreate, MoveWrite, MoveUnlink,
               AdmitJournal, Gate, Send, Late, Submit, Answer, InTime
        <3>4. ~Crash(p) /\ ~Time(p)
            BY <1>1, <2>1 DEF Crash, Time, Goto, TypeOK
        <3> QED
            BY <3>2, <3>3, <3>4 DEF ProcStep, Run, Runtime
    <2>3. dl[p] < Hard /\ ~failed[p] /\ rowAgrees(journal[Ep(p)], out[p])
          /\ journal' = [journal EXCEPT ![Ep(p)] = finalizeRow(journal[Ep(p)], out[p])]
        BY <1>1, <2>1, <2>2 DEF FinalizeJournal, Before, TypeOK
    <2>4. ~Old(Ep(p))
        BY <1>1, <2>1, <2>3 DEF Local, Timely, Running, Hard
    <2>5. phase[Ep(p)] = "none" /\ terminal[Ep(p)] = claimPhase(out[p])
        BY <1>1, <2>1, <2>3, <2>4 DEF SettledClaim, HasSettled
    <2>6. journal'[Ep(p)] = out[p]
        BY <2>1, <2>3 DEF finalizeRow, rowAgrees, TypeOK
    <2> QED
        BY <2>5, <2>6
<1>2. Inv /\ MoveInv /\ [Next]_vars =>
        [\A p \in Procs :
            LET e == Ep(p)
            IN  pc[p] = "journal" /\ pc'[p] = "next" /\ ~failed'[p] =>
                    /\ phase[e] = "none"
                    /\ terminal[e] = claimPhase(journal'[e])]_vars
    BY <1>1
<1> QED
    BY <1>2, MovesInOrder, PTL DEF Spec, Reconciled

-----------------------------------------------------------------------------
(* Verdicts can be relied on.                                              *)

(* Nobody is about to call the runtime for e, nor in a call for it, and    *)
(* the attempt on record keeps everybody from trying again.  A call that   *)
(* was given up may still be carried out.                                  *)
Quiet(e) ==
    /\ Recorded(e)
    /\ \A p \in Procs : Armed(p) => Ep(p) # e

(* p has an outcome which it writes down in the end. *)
Settling(p) ==
    \/ op[p] = "finalize" /\ pc[p] \in {"want", "body", "exit"} \cup Moving
    \/ pc[p] = "journal"

Honest(p) ==
    /\ Settling(p) /\ out[p] = "send_failed" => Quiet(Ep(p))
    /\ Settling(p) /\ out[p] = "dispatched" => sends[Ep(p)] = 1
    /\ op[p] = "acquire" /\ pc[p] \in Moving => out[p] = "dispatch_unknown"
    /\ pc[p] = "sent" => sends[Ep(p)] = 1

TrueRecords ==
    \A e \in Episodes :
        /\ terminal[e] = "FAILED_DEFINITIVE" \/ journal[e] = "send_failed" => Quiet(e)
        /\ terminal[e] = "SENT" \/ journal[e] = "dispatched" => sends[e] = 1

TruthInv == TrueRecords /\ \A p \in Procs : Honest(p)

(* What is recorded stays recorded until it is old, and then is old. *)
LEMMA RecordedStays ==
    ASSUME Inv, MoveInv, Next, NEW e \in Episodes, Recorded(e)
    PROVE  Recorded(e)'
<1>1. ASSUME NEW p \in Procs, ProcStep(p) PROVE Recorded(e)'
    <2>1. Local(p) /\ MoveSlot(p) /\ TypeOK /\ Old(e)' = Old(e)
        <3>1. clock' = clock
            BY <1>1 DEF ProcStep, Run, Runtime, StartTick, Crash, Time, Pick, EndTick, Validate, Enter,
               Exit, GiveUp, Expire, Acquire, Create, Fill, Hash, Mark, Inspect, Release, Finalize,
               MoveCheck, MoveCreate, MoveWrite, MoveUnlink, AdmitJournal, Gate, FinalizeJournal, Send,
               Late, Submit, Answer
        <3> QED
            BY <3>1 DEF Inv, MoveInv, Old
    <2>2. terminal[e] # None => terminal'[e] # None \/ Old(e)
        BY <1>1, <2>1, TerminalStep, VerdictSettled, FleetNudgeAssumption
    <2>3. phase[e] = "SEND_ATTEMPTED" =>
            phase'[e] = "SEND_ATTEMPTED" \/ terminal[e] # None \/ Old(e)
        <3>1. pc[p] = "moveUnlink" /\ e = Ep(p) => terminal[e] # None \/ Old(e)
            BY <2>1, VerdictSettled DEF MoveSlot
        <3>2. ~(pc[p] \in {"create", "fill"} /\ e = Ep(p) /\ phase[e] = "SEND_ATTEMPTED")
            BY <2>1 DEF Local, Creating
        <3> QED
            BY <1>1, <2>1, <3>1, <3>2, PhaseStep
    <2> QED
        BY <2>1, <2>2, <2>3 DEF Recorded
<1>2. CASE NextTick \/ \E x \in Episodes : LeaseExpires(x) \/ SubmitStray(x)
    BY <1>2, WorldStep DEF Inv, Recorded
<1> QED
    BY <1>1, <1>2 DEF Next, ProcStep

(* Only a process that marks a claim of an episode without a record comes  *)
(* to be allowed to submit.                                                *)
LEMMA Arming ==
    ASSUME Inv, Next, NEW q \in Procs, Armed(q)'
    PROVE  Ep(q)' = Ep(q) /\ (Armed(q) \/ ~Recorded(Ep(q)))
<1>0. TypeOK /\ Local(q)
    BY DEF Inv
<1>1. ASSUME NEW p \in Procs \ {q}, ProcStep(p) PROVE Ep(q)' = Ep(q) /\ Armed(q)
    BY <1>0, <1>1, OthersKept DEF Armed
<1>2. CASE NextTick \/ \E x \in Episodes : LeaseExpires(x) \/ SubmitStray(x)
    <2>1. dl' = dl \/ \E f : dl' = [x \in Procs |-> IF f[x] THEN Hard ELSE dl[x]]
        <3>1. CASE NextTick
            <4> DEFINE f == [x \in Procs |-> pc[x] \notin {"idle", "dead"} /\ clock' >= tick[x] + Retention]
            <4>1. dl' = [x \in Procs |-> IF f[x] THEN Hard ELSE dl[x]]
                BY <3>1 DEF NextTick
            <4> QED
                BY <4>1
        <3>2. CASE \E x \in Episodes : LeaseExpires(x) \/ SubmitStray(x)
            BY <3>2 DEF LeaseExpires, SubmitStray
        <3> QED
            BY <1>2, <3>1, <3>2
    <2>2. dl'[q] < Dispatch => dl[q] < Dispatch
        BY <2>1 DEF Dispatch, Hard
    <2> QED
        BY <1>0, <1>2, <2>2, WorldStep DEF Armed
<1>3. CASE Mark(q)
    <2>1. /\ pc[q] = "body" /\ op[q] = "mark" /\ dl[q] < Dispatch /\ Ep(q)' = Ep(q)
          /\ markResult(q) = "recorded"
        BY <1>0, <1>3 DEF Mark, InTime, Before, Limit, Return, Goto, Armed, TypeOK, Ep, local
    <2>2. ~Old(Ep(q))
        BY <1>0, <2>1 DEF Local, Timely, Running, Hard, Dispatch
    <2>3. Markable(q)
        BY <1>0, <2>1 DEF markResult, Local, Unmarked, BeforeMark, Own
    <2>4. Ep(q) \in Episodes
        BY <2>1, AtEpisode
    <2>5. terminal[Ep(q)] = None /\ phase[Ep(q)] = "CLAIMED"
        BY <2>3, <2>4 DEF Markable, Inv, ClaimedFresh
    <2> QED
        BY <2>1, <2>2, <2>5 DEF Recorded
<1>4. CASE Exit(q)
    BY <1>0, <1>4 DEF Exit, Continue, Want, Goto, Before, Limit, Armed, TypeOK, Local, LateInspect,
       Dispatch, Hard, Ep, local
<1>5. CASE Send(q)
    BY <1>0, <1>5 DEF Send, Settle, Want, Goto, Before, Armed, TypeOK, Ep, local
<1>6. CASE Time(q)
    BY <1>0, <1>6 DEF Time, Armed, TypeOK, Ep, local, Dispatch, Hard
<1>7. CASE StartTick(q) \/ Crash(q) \/ Pick(q) \/ EndTick(q) \/ Validate(q) \/ Enter(q) \/ Create(q)
           \/ AdmitJournal(q) \/ Gate(q) \/ FinalizeJournal(q) \/ Late(q) \/ Submit(q) \/ Answer(q)
    <2>1. pc'[q] \notin {"send", "sending", "exit"}
        BY <1>0, <1>7, AnswerMove DEF StartTick, Crash, Pick, EndTick, Validate, Enter, Create, AdmitJournal,
           Gate, FinalizeJournal, Late, Submit, Settle, Want, Goto, TypeOK
    <2> QED
        BY <2>1 DEF Armed
<1>8. CASE GiveUp(q)
    BY <1>0, <1>8 DEF GiveUp, Continue, Want, Goto, Armed, TypeOK
<1>9. CASE Expire(q) \/ Acquire(q) \/ Fill(q) \/ Hash(q) \/ Inspect(q) \/ Release(q) \/ Finalize(q)
           \/ MoveCheck(q) \/ MoveCreate(q) \/ MoveWrite(q) \/ MoveUnlink(q)
    <2>1. pc'[q] \notin {"send", "sending"} /\ (pc'[q] = "exit" => ret'[q] = "fail" \/ op'[q] # "mark")
        BY <1>0, <1>9 DEF Expire, Acquire, Fill, Hash, Inspect, Release, Finalize, MoveCheck, MoveCreate,
           MoveWrite, MoveUnlink, Return, Goto, TypeOK, Local, Creating, MoveFrom, Moving, InTime
    <2> QED
        BY <2>1 DEF Armed
<1> QED
    BY <1>1, <1>2, <1>3, <1>4, <1>5, <1>6, <1>7, <1>8, <1>9 DEF Next, ProcStep, Run, Runtime

(* A message goes out, or its call is given up, only from the hands of a   *)
(* process that is sending it; a stray call is carried out or stays.       *)
LEMMA CallStep ==
    ASSUME Inv, Next, NEW e \in Episodes
    PROVE  /\ sends'[e] >= sends[e]
           /\ \/ sends'[e] = sends[e] /\ stray'[e] = stray[e]
              \/ stray[e] > 0
              \/ \E p \in Procs : Armed(p) /\ Ep(p) = e
<1>0. TypeOK /\ sends[e] \in Nat /\ stray[e] \in Nat
    BY DEF Inv, TypeOK
<1>1. ASSUME NEW p \in Procs, Submit(p)
      PROVE  sends'[e] >= sends[e] /\ (sends'[e] = sends[e] \/ (Armed(p) /\ Ep(p) = e)) /\ stray' = stray
    BY <1>0, <1>1 DEF Submit, Armed, TypeOK
<1>2. ASSUME NEW p \in Procs, Late(p) \/ Answer(p) \/ Crash(p)
      PROVE  sends' = sends /\ (stray'[e] = stray[e] \/ (Armed(p) /\ Ep(p) = e))
    <2>1. sends' = sends /\ (stray' = stray \/ Abandon(p))
        BY <1>2, AnswerStep DEF Late, Crash
    <2>2. Abandon(p) => stray'[e] = stray[e] \/ (pc[p] = "sending" /\ Ep(p) = e)
        BY <1>0 DEF Abandon, TypeOK
    <2> QED
        BY <2>1, <2>2 DEF Armed
<1>3. ASSUME NEW p \in Procs, ProcStep(p), ~(Submit(p) \/ Late(p) \/ Answer(p) \/ Crash(p))
      PROVE  sends' = sends /\ stray' = stray
    BY <1>3 DEF ProcStep, Run, Runtime, StartTick, Time, Pick, EndTick, Validate, Enter, Exit, GiveUp,
       Expire, Acquire, Create, Fill, Hash, Mark, Inspect, Release, Finalize, MoveCheck, MoveCreate,
       MoveWrite, MoveUnlink, AdmitJournal, Gate, FinalizeJournal, Send
<1>4. CASE NextTick \/ \E x \in Episodes : LeaseExpires(x)
    BY <1>0, <1>4 DEF NextTick, LeaseExpires
<1>5. ASSUME NEW x \in Episodes, SubmitStray(x)
      PROVE  sends'[e] >= sends[e] /\ (stray[e] > 0 \/ (sends'[e] = sends[e] /\ stray'[e] = stray[e]))
    BY <1>0, <1>5 DEF SubmitStray, TypeOK
<1> QED
    BY <1>0, <1>1, <1>2, <1>3, <1>4, <1>5 DEF Next, ProcStep

(* Who does not call will not call. *)
LEMMA QuietStays ==
    ASSUME Inv, MoveInv, Next, NEW e \in Episodes, Quiet(e)
    PROVE  Quiet(e)'
<1>1. Recorded(e)'
    BY RecordedStays DEF Quiet
<1>2. ASSUME NEW q \in Procs, Armed(q)', Ep(q)' = e PROVE FALSE
    <2>1. Ep(q) = e /\ (Armed(q) \/ ~Recorded(e))
        BY <1>2, Arming
    <2> QED
        BY <2>1 DEF Quiet
<1> QED
    BY <1>1, <1>2 DEF Quiet

(* What is out stays out, and is not sent a second time. *)
LEMMA SentStays ==
    ASSUME Inv, Inv', Next, NEW e \in Episodes, sends[e] = 1
    PROVE  sends'[e] = 1
<1>1. sends'[e] >= 1
    BY CallStep
<1>2. sends'[e] = 0 \/ sends'[e] = 1
    BY DEF Inv, SentOnce
<1> QED
    BY <1>1, <1>2

(* The outcome a process takes to its records can be relied on. *)
LEMMA OwnHonest ==
    ASSUME Inv, Inv', MoveInv, Next, NEW p \in Procs, Honest(p), ProcStep(p)
    PROVE  Honest(p)'
<1>0. Local(p) /\ TypeOK /\ (pc[p] \notin {"idle", "next", "dead"} => Ep(p) \in Episodes)
    BY AtEpisode DEF Inv
<1>q. \A e \in Episodes : (Quiet(e) => Quiet(e)') /\ (sends[e] = 1 => sends'[e] = 1)
    <2>1. ASSUME NEW e \in Episodes, Quiet(e) PROVE Quiet(e)'
        BY <2>1, QuietStays
    <2>2. ASSUME NEW e \in Episodes, sends[e] = 1 PROVE sends'[e] = 1
        BY <2>2, SentStays
    <2> QED
        BY <2>1, <2>2
<1>k. ASSUME \/ Ep(p)' = Ep(p) /\ out'[p] = out[p] /\ Settling(p)
             \/ ~Settling(p)' \/ out'[p] = "dispatch_unknown",
             op'[p] = "acquire" /\ pc'[p] \in Moving => out'[p] = "dispatch_unknown",
             pc'[p] # "sent" \/ (pc[p] = "sent" /\ Ep(p)' = Ep(p))
      PROVE  Honest(p)'
    <2>1. Settling(p) => Ep(p) \in Episodes
        BY <1>0 DEF Settling, Moving
    <2>2. pc[p] = "sent" => Ep(p) \in Episodes
        BY <1>0
    <2> QED
        BY <1>k, <1>q, <2>1, <2>2 DEF Honest
<1>1. CASE Submit(p)
    <2>1. /\ pc'[p] = "sent" /\ op'[p] = op[p] /\ Ep(p)' = Ep(p) /\ Ep(p) \in Episodes
          /\ sends[Ep(p)] = 0 /\ sends'[Ep(p)] = sends[Ep(p)] + 1
        BY <1>0, <1>1 DEF Submit, Goto, TypeOK, Ep, local, Local, ArmedOnce, Armed
    <2> QED
        BY <2>1 DEF Honest, Settling, Moving
<1>2. CASE (Send(p) \/ Answer(p)) /\ out'[p] = "send_failed" /\ pc'[p] = "want"
    <2>1. /\ Armed(p) \/ pc[p] = "sent"
          /\ Ep(p)' = Ep(p) /\ Ep(p) \in Episodes /\ op'[p] = "finalize"
        <3>1. CASE Send(p)
            BY <1>0, <1>2, <3>1 DEF Send, Settle, Want, Goto, Before, TypeOK, Ep, local, Armed
        <3>2. CASE Answer(p)
            BY <1>0, <3>2, AnswerMove DEF Armed
        <3> QED
            BY <1>2, <3>1, <3>2
    <2>2. Recorded(Ep(p)) /\ \A q \in Procs \ {p} : Armed(q) => Ep(q) # Ep(p)
        <3>1. CASE Armed(p)
            BY <1>0, <3>1 DEF Local, ArmedOnce, Inv, OneArmed
        <3>2. CASE pc[p] = "sent"
            <4>1. sends[Ep(p)] = 1
                BY <3>2 DEF Honest
            <4> QED
                BY <2>1, <4>1 DEF Inv, SentOnce, Local, ArmedOnce
        <3> QED
            BY <2>1, <3>1, <3>2
    <2>3. Quiet(Ep(p))'
        <3>1. Recorded(Ep(p))'
            BY <2>1, <2>2, RecordedStays
        <3>2. ASSUME NEW q \in Procs, Armed(q)', Ep(q)' = Ep(p) PROVE FALSE
            <4>1. Ep(q) = Ep(p) /\ Armed(q)
                BY <2>2, <3>2, Arming
            <4>2. q = p
                BY <2>2, <4>1
            <4> QED
                BY <1>2, <3>2, <4>2 DEF Armed
        <3> QED
            BY <2>1, <3>1, <3>2 DEF Quiet
    <2> QED
        BY <1>2, <2>1, <2>3 DEF Honest
<1>3. CASE Answer(p) /\ out'[p] = "dispatched" /\ pc[p] = "sent"
    <2>1. /\ pc'[p] = "want" /\ op'[p] = "finalize" /\ Ep(p)' = Ep(p) /\ sends' = sends
        BY <1>0, <1>3, AnswerMove
    <2> QED
        BY <1>3, <2>1 DEF Honest
<1>4. CASE Late(p) \/ (Send(p) /\ ~(out'[p] = "send_failed" /\ pc'[p] = "want"))
    <2>1. /\ pc'[p] \in {"want", "sending"} /\ Ep(p)' = Ep(p)
          /\ pc'[p] = "want" => out'[p] = "dispatch_unknown"
        BY <1>0, <1>4 DEF Send, Late, Settle, Want, Goto, TypeOK, Ep, local
    <2>2. pc'[p] = "sending" => ~Settling(p)'
        BY DEF Settling, Moving
    <2> QED
        BY <1>k, <2>1, <2>2 DEF Moving
<1>9. CASE Answer(p) /\ out'[p] = "dispatch_unknown"
    BY <1>0, <1>9, <1>k, AnswerMove DEF Moving
<1>5. CASE StartTick(p) \/ Crash(p) \/ Pick(p) \/ EndTick(p) \/ Validate(p) \/ Gate(p) \/ AdmitJournal(p)
           \/ FinalizeJournal(p) \/ Create(p) \/ Fill(p) \/ Hash(p) \/ Mark(p) \/ Inspect(p) \/ Release(p)
    <2>1. ~Settling(p)' /\ pc'[p] # "sent" /\ pc'[p] \notin Moving
        BY <1>0, <1>5 DEF StartTick, Crash, Pick, EndTick, Validate, Gate, AdmitJournal, FinalizeJournal,
           Create, Fill, Hash, Mark, Inspect, Release, Return, Want, Goto, TypeOK, Settling, Moving,
           Local, Creating, InTime
    <2> QED
        BY <1>k, <2>1
<1>6. CASE Acquire(p)
    <2>1. /\ op'[p] = "acquire" /\ pc'[p] \in {"create", "moveCheck", "exit"}
          /\ pc'[p] = "moveCheck" => out'[p] = "dispatch_unknown"
        BY <1>0, <1>6 DEF Acquire, recoveredOutcome, Return, Goto, TypeOK
    <2>2. ~Settling(p)' \/ out'[p] = "dispatch_unknown"
        BY <2>1 DEF Settling, Moving
    <2> QED
        BY <1>k, <2>1, <2>2 DEF Moving
<1>7. CASE GiveUp(p) \/ Exit(p)
    <2>1. /\ Ep(p)' = Ep(p) /\ pc[p] \in {"want", "exit"}
          /\ pc'[p] \in {"want", "next", "admit", "send", "journal"}
          /\ \/ op[p] = "finalize" /\ out'[p] = out[p]
             \/ pc'[p] # "journal" /\ (op'[p] # "finalize" \/ pc'[p] # "want")
             \/ out'[p] = "dispatch_unknown"
        BY <1>0, <1>7 DEF GiveUp, Exit, Continue, Want, Goto, TypeOK, Ep, local
    <2>2. \/ out'[p] = out[p] /\ Settling(p)
          \/ ~Settling(p)' \/ out'[p] = "dispatch_unknown"
        BY <2>1 DEF Settling, Moving
    <2> QED
        BY <1>k, <2>1, <2>2 DEF Moving
<1>8. CASE Enter(p) \/ Expire(p) \/ Finalize(p) \/ MoveCheck(p) \/ MoveCreate(p) \/ MoveWrite(p)
           \/ MoveUnlink(p) \/ Time(p)
    <2>1. /\ Ep(p)' = Ep(p) /\ out'[p] = out[p] /\ op'[p] = op[p]
          /\ \/ pc'[p] = pc[p]
             \/ pc[p] \in {"want", "body", "create", "fill"} \cup Moving
                /\ pc'[p] \in {"body", "exit"} \cup Moving
        BY <1>0, <1>8 DEF Enter, Expire, Finalize, MoveCheck, MoveCreate, MoveWrite, MoveUnlink, Time, InTime,
           Return, Goto, TypeOK, Ep, local, Moving
    <2>2. pc[p] \in {"create", "fill"} => op[p] # "finalize"
        BY <1>0 DEF Local, Creating
    <2>3. Settling(p)' => Settling(p)
        BY <2>1, <2>2 DEF Settling, Moving
    <2>4. op'[p] = "acquire" /\ pc'[p] \in Moving => out'[p] = "dispatch_unknown"
        <3>1. pc'[p] \in Moving /\ op'[p] = "acquire" => pc[p] \in Moving
            BY <1>0, <1>8 DEF Enter, Expire, Finalize, MoveCheck, MoveCreate, MoveWrite, MoveUnlink, Time,
               InTime, Return, Goto, TypeOK, local, Moving
        <3> QED
            BY <2>1, <3>1 DEF Honest
    <2>5. pc'[p] # "sent" \/ (pc[p] = "sent" /\ Ep(p)' = Ep(p))
        BY <2>1 DEF Moving
    <2> QED
        BY <1>k, <2>1, <2>3, <2>4, <2>5
<1> QED
    BY <1>0, <1>1, <1>2, <1>3, <1>4, <1>5, <1>6, <1>7, <1>8, <1>9, AnswerMove DEF ProcStep, Run, Runtime, Outcomes

(* The outcome of a process stays true whatever the others do.             *)
LEMMA OthersHonest ==
    ASSUME Inv, Inv', MoveInv, Next, NEW q \in Procs, Honest(q),
           UNCHANGED <<pc[q], op[q], out[q], Ep(q)>>
    PROVE  Honest(q)'
<1>1. \A e \in Episodes : (Quiet(e) => Quiet(e)') /\ (sends[e] = 1 => sends'[e] = 1)
    <2>1. ASSUME NEW e \in Episodes, Quiet(e) PROVE Quiet(e)'
        BY <2>1, QuietStays
    <2>2. ASSUME NEW e \in Episodes, sends[e] = 1 PROVE sends'[e] = 1
        BY <2>2, SentStays
    <2> QED
        BY <2>1, <2>2
<1>2. Settling(q)' = Settling(q)
    BY DEF Settling
<1>3. Settling(q) \/ pc[q] = "sent" => Ep(q) \in Episodes
    BY AtEpisode DEF Settling, Moving
<1> QED
    BY <1>1, <1>2, <1>3 DEF Honest

(* A record or a row gets its verdict from a process that has it. *)
LEMMA RecordsStep ==
    ASSUME Inv, Inv', MoveInv, TruthInv, Next, NEW e \in Episodes
    PROVE  /\ terminal'[e] = "FAILED_DEFINITIVE" \/ journal'[e] = "send_failed" => Quiet(e)
           /\ terminal'[e] = "SENT" \/ journal'[e] = "dispatched" => sends[e] = 1
<1>1. ASSUME NEW p \in Procs, ProcStep(p)
      PROVE  \/ terminal'[e] \in {terminal[e], None, "torn"}
             \/ e = Ep(p) /\ Settling(p) /\ terminal'[e] = claimPhase(out[p])
             \/ terminal'[e] = "UNCERTAIN"
    <2>1. Local(p) /\ Honest(p) /\ TypeOK
        BY DEF Inv, TruthInv
    <2>2. CASE MoveWrite(p) /\ e = Ep(p) /\ terminal'[e] = claimPhase(out[p])
        <3>1. pc[p] = "moveWrite" /\ op[p] \in {"acquire", "finalize"}
            BY <2>1, <2>2 DEF MoveWrite, InTime, Local, MoveFrom, Moving
        <3>2. CASE op[p] = "acquire"
            BY <2>1, <2>2, <3>1, <3>2 DEF Honest, Moving, claimPhase
        <3>3. CASE op[p] = "finalize"
            BY <2>2, <3>1, <3>3 DEF Settling, Moving
        <3> QED
            BY <3>1, <3>2, <3>3
    <2> QED
        BY <1>1, <2>1, <2>2, TerminalStep
<1>2. ASSUME NEW p \in Procs, ProcStep(p)
      PROVE  \/ journal'[e] \in {journal[e], "in_flight"}
             \/ e = Ep(p) /\ Settling(p) /\ journal'[e] = out[p]
    <2>1. CASE AdmitJournal(p)
        BY <2>1 DEF AdmitJournal, Inv, TypeOK
    <2>2. CASE FinalizeJournal(p)
        BY <2>2 DEF FinalizeJournal, finalizeRow, Settling, Inv, TypeOK
    <2>3. CASE ~AdmitJournal(p) /\ ~FinalizeJournal(p)
        BY <1>2, <2>3 DEF ProcStep, Run, Runtime, StartTick, Crash, Time, Pick, EndTick, Validate, Enter,
           Exit, GiveUp, Expire, Acquire, Create, Fill, Hash, Mark, Inspect, Release, Finalize,
           MoveCheck, MoveCreate, MoveWrite, MoveUnlink, Gate, Send, Late, Submit, Answer
    <2> QED
        BY <2>1, <2>2, <2>3
<1>3. ASSUME NEW p \in Procs, ProcStep(p)
      PROVE  /\ terminal'[e] = "FAILED_DEFINITIVE" \/ journal'[e] = "send_failed" => Quiet(e)
             /\ terminal'[e] = "SENT" \/ journal'[e] = "dispatched" => sends[e] = 1
    <2>1. None \notin {"FAILED_DEFINITIVE", "SENT"}
        BY FleetNudgeAssumption
    <2>2. \A o : (claimPhase(o) = "FAILED_DEFINITIVE" => o = "send_failed")
                 /\ (claimPhase(o) = "SENT" => o = "dispatched")
        BY DEF claimPhase
    <2>3. Honest(p) /\ TrueRecords
        BY DEF TruthInv
    <2>4. terminal'[e] = "FAILED_DEFINITIVE" \/ journal'[e] = "send_failed" => Quiet(e)
        BY <1>1, <1>2, <1>3, <2>1, <2>2, <2>3 DEF Honest, TrueRecords
    <2>5. terminal'[e] = "SENT" \/ journal'[e] = "dispatched" => sends[e] = 1
        BY <1>1, <1>2, <1>3, <2>1, <2>2, <2>3 DEF Honest, TrueRecords
    <2> QED
        BY <2>4, <2>5
<1>4. CASE NextTick \/ \E x \in Episodes : LeaseExpires(x) \/ SubmitStray(x)
    BY <1>4, WorldStep DEF Inv, TruthInv, TrueRecords
<1> QED
    BY <1>3, <1>4 DEF Next, ProcStep

(* Every step keeps outcomes, records and rows true. *)
LEMMA TruthStep == Inv /\ Inv' /\ MoveInv /\ TruthInv /\ [Next]_vars => TruthInv'
<1> SUFFICES ASSUME Inv, Inv', MoveInv, TruthInv, [Next]_vars PROVE TruthInv'
    OBVIOUS
<1>1. CASE UNCHANGED vars
    BY <1>1 DEF vars, TruthInv, TrueRecords, Honest, Settling, Quiet, Recorded, Armed, Old, Ep
<1>2. CASE Next
    <2>1. TrueRecords'
        <3>1. ASSUME NEW e \in Episodes,
                     terminal'[e] = "FAILED_DEFINITIVE" \/ journal'[e] = "send_failed"
              PROVE  Quiet(e)'
            BY <1>2, <3>1, RecordsStep, QuietStays
        <3>2. ASSUME NEW e \in Episodes, terminal'[e] = "SENT" \/ journal'[e] = "dispatched"
              PROVE  sends'[e] = 1
            BY <1>2, <3>2, RecordsStep, SentStays
        <3> QED
            BY <3>1, <3>2 DEF TrueRecords
    <2>2. ASSUME NEW q \in Procs PROVE Honest(q)'
        <3>1. TypeOK /\ Honest(q)
            BY DEF Inv, TruthInv
        <3>2. CASE ProcStep(q)
            BY <1>2, <3>1, <3>2, OwnHonest
        <3>3. ASSUME NEW p \in Procs \ {q}, ProcStep(p) PROVE Honest(q)'
            <4>1. UNCHANGED <<pc[q], op[q], out[q], Ep(q)>>
                BY <3>1, <3>3, OthersKept
            <4> QED
                BY <1>2, <3>1, <4>1, OthersHonest
        <3>4. CASE NextTick \/ \E x \in Episodes : LeaseExpires(x) \/ SubmitStray(x)
            <4>1. UNCHANGED <<pc[q], op[q], out[q], Ep(q)>>
                BY <3>1, <3>4, WorldStep
            <4> QED
                BY <1>2, <3>1, <4>1, OthersHonest
        <3> QED
            BY <1>2, <3>2, <3>3, <3>4 DEF Next, ProcStep
    <2> QED
        BY <2>1, <2>2 DEF TruthInv
<1> QED
    BY <1>1, <1>2

(* What the records say of an episode can be relied on: one that they call *)
(* sent or dispatched was sent, once; and for one that a claim or a row    *)
(* calls definitely failed no process calls the runtime, then or later:    *)
(* only a call that its process has given up may still be carried out.     *)
THEOREM RecordsAreTrue == Spec => []Truthful
<1>1. Init => TruthInv
    BY FleetNudgeAssumption DEF Init, TruthInv, TrueRecords, Honest, Settling, Moving
<1>2. Inv /\ MoveInv /\ TruthInv /\ [Next]_vars => Inv' /\ MoveInv' /\ TruthInv'
    BY InvStep, MoveStep, TruthStep
<1>3. Init => Inv /\ MoveInv
    BY InvInit DEF Init, MoveInv, MoveSlot, SettledClaim, HasSettled
<1>4. TruthInv => Truthful
    BY DEF TruthInv, TrueRecords, Quiet, Armed, Truthful
<1> QED
    BY <1>1, <1>2, <1>3, <1>4, PTL DEF Spec

-----------------------------------------------------------------------------
(* The cap on the records.                                                 *)

RunningProcs == {p \in Procs : Running(p)}
AtMost(n) == IsFiniteSet(RunningProcs) /\ Cardinality(RunningProcs) <= n
OneRunning == \A p, q \in Procs : Running(p) /\ Running(q) => p = q

(* The records, and the processes that have found room for one more. *)
Records(term) == {e \in Episodes : term[e] # None}
Creators == {p \in Procs : pc[p] = "moveCreate"}

(* Each of n processes may find room for the last record and create one.   *)
Roomy(n) == Count(terminal) + Cardinality(Creators) < MaxTerminals + n

(* There are finitely many episodes. *)
LEMMA EpisodesFinite == IsFiniteSet(Episodes)
<1>1. IsFiniteSet(Ticks)
    BY FleetNudgeAssumption, FS_Interval DEF Ticks
<1> QED
    BY <1>1, FleetNudgeAssumption, FS_Product DEF Episodes

(* Records are counted by a number, and fewer of them by a smaller one.    *)
LEMMA CountNat ==
    ASSUME NEW t PROVE IsFiniteSet(Records(t)) /\ Count(t) \in Nat /\ Count(t) = Cardinality(Records(t))
<1>1. IsFiniteSet(Records(t))
    BY EpisodesFinite, FS_Subset DEF Records
<1> QED
    BY <1>1, FS_CardinalityType DEF Count, Records

LEMMA CountSmaller ==
    ASSUME NEW s, NEW t, Records(t) \subseteq Records(s)
    PROVE  Count(t) <= Count(s)
BY CountNat, FS_Subset

(* Who creates a record is running. *)
LEMMA CreatorsRun ==
    ASSUME NEW n \in Nat, AtMost(n)
    PROVE  /\ IsFiniteSet(Creators) /\ Cardinality(Creators) \in Nat
           /\ Cardinality(Creators) <= n
<1>1. Creators \in SUBSET RunningProcs
    BY DEF Creators, RunningProcs, Running
<1>2. IsFiniteSet(Creators) /\ Cardinality(Creators) <= Cardinality(RunningProcs)
    BY <1>1, FS_Subset DEF AtMost
<1>3. Cardinality(Creators) \in Nat /\ Cardinality(RunningProcs) \in Nat
    BY <1>2, FS_CardinalityType DEF AtMost
<1> QED
    BY <1>2, <1>3 DEF AtMost

(* Every step keeps the records within what the running processes may      *)
(* create.                                                                 *)
LEMMA RoomyStep ==
    ASSUME NEW n \in Nat, Inv, MoveInv, AtMost(n), AtMost(n)', Roomy(n), [Next]_vars
    PROVE  Roomy(n)'
<1> USE FleetNudgeAssumption
<1>0. TypeOK /\ Count(terminal) \in Nat /\ Count(terminal') \in Nat
    BY CountNat DEF Inv
<1>1. /\ IsFiniteSet(Creators) /\ Cardinality(Creators) \in Nat
      /\ IsFiniteSet(Creators') /\ Cardinality(Creators') \in Nat /\ Cardinality(Creators') <= n
    <2>1. IsFiniteSet(Creators) /\ Cardinality(Creators) \in Nat
        BY CreatorsRun
    <2>2. Creators' \in SUBSET RunningProcs'
        BY DEF Creators, RunningProcs, Running
    <2>3. IsFiniteSet(RunningProcs') /\ Cardinality(RunningProcs') <= n
        BY DEF AtMost
    <2>4. IsFiniteSet(Creators') /\ Cardinality(Creators') <= Cardinality(RunningProcs')
        BY <2>2, <2>3, FS_Subset
    <2>5. Cardinality(Creators') \in Nat /\ Cardinality(RunningProcs') \in Nat
        BY <2>3, <2>4, FS_CardinalityType
    <2> QED
        BY <2>1, <2>3, <2>4, <2>5
(* Nothing is created and nobody newly found room. *)
<1>2. ASSUME Records(terminal') \subseteq Records(terminal), Creators' \subseteq Creators
      PROVE  Roomy(n)'
    <2>1. Count(terminal') <= Count(terminal)
        BY <1>2, CountSmaller
    <2>2. Cardinality(Creators') <= Cardinality(Creators)
        BY <1>1, <1>2, FS_Subset
    <2> QED
        BY <1>0, <1>1, <2>1, <2>2 DEF Roomy
<1>3. CASE UNCHANGED vars
    BY <1>2, <1>3 DEF vars, Creators
<1>4. CASE NextTick \/ \E e \in Episodes : LeaseExpires(e) \/ SubmitStray(e)
    BY <1>0, <1>2, <1>4, WorldStep DEF Creators
<1>5. ASSUME NEW p \in Procs, ProcStep(p) PROVE Roomy(n)'
    <2>0. Local(p) /\ MoveSlot(p)
        BY DEF Inv, MoveInv
    <2>1. CASE MoveCreate(p)
        <3>1. Ep(p) \in Episodes /\ pc[p] = "moveCreate" /\ p \in Creators
            BY <2>1, AtEpisode DEF MoveCreate, InTime, Creators
        <3>2. Records(terminal') \subseteq Records(terminal) \cup {Ep(p)}
            BY <1>0, <2>1 DEF MoveCreate, Records, TypeOK
        <3>3. Count(terminal') <= Count(terminal) + 1
            <4>1. IsFiniteSet(Records(terminal)) /\ Count(terminal) = Cardinality(Records(terminal))
                  /\ Count(terminal') = Cardinality(Records(terminal'))
                BY CountNat
            <4>2. /\ IsFiniteSet(Records(terminal) \cup {Ep(p)})
                  /\ Cardinality(Records(terminal) \cup {Ep(p)}) \in {Count(terminal), Count(terminal) + 1}
                BY <4>1, FS_AddElement
            <4>3. Cardinality(Records(terminal')) <= Cardinality(Records(terminal) \cup {Ep(p)})
                BY <3>2, <4>2, FS_Subset
            <4> QED
                BY <1>0, <4>1, <4>2, <4>3
        <3>4. Creators' = Creators \ {p}
            <4>1. \A q \in Procs : pc'[q] = IF q = p THEN "moveWrite" ELSE pc[q]
                BY <1>0, <2>1 DEF MoveCreate, Goto, TypeOK
            <4> QED
                BY <4>1 DEF Creators
        <3>5. Cardinality(Creators') = Cardinality(Creators) - 1
            BY <1>1, <3>1, <3>4, FS_RemoveElement
        <3> QED
            BY <1>0, <1>1, <3>3, <3>5 DEF Roomy
    <2>2. CASE MoveCheck(p) /\ pc'[p] = "moveCreate"
        <3>1. Count(terminal') < MaxTerminals
            BY <1>0, <2>2 DEF MoveCheck, Room, Return, Goto, TypeOK
        <3> QED
            BY <1>0, <1>1, <3>1 DEF Roomy
    <2>3. CASE ~MoveCreate(p) /\ ~(MoveCheck(p) /\ pc'[p] = "moveCreate")
        <3>1. pc'[p] = "moveCreate" => pc[p] = "moveCreate"
            <4>1. CASE Time(p)
                BY <4>1 DEF Time
            <4>2. CASE Answer(p)
                BY <1>0, <4>2, AnswerMove
            <4> QED
                BY <1>0, <1>5, <2>3, <4>1, <4>2 DEF ProcStep, Run, Runtime, StartTick, Crash, Pick, EndTick, Validate,
                   Enter, Exit, GiveUp, Expire, Acquire, Create, Fill, Hash, Mark, Inspect, Release, Finalize,
                   MoveWrite, MoveUnlink, AdmitJournal, Gate, FinalizeJournal, Send, Late, Submit,
                   Continue, Settle, Want, Return, Goto, TypeOK
        <3>2. Creators' \subseteq Creators
            BY <1>0, <1>5, <3>1, OthersKept DEF Creators
        <3>3. Records(terminal') \subseteq Records(terminal)
            <4>1. ASSUME NEW e \in Episodes, terminal[e] = None PROVE terminal'[e] = None
                <5>1. ~(MoveWrite(p) /\ e = Ep(p))
                    BY <2>0, <4>1 DEF MoveWrite, InTime, MoveSlot
                <5>2. terminal[e] \notin Settled
                    BY <4>1 DEF Settled
                <5> QED
                    BY <1>0, <1>5, <2>0, <2>3, <4>1, <5>1, <5>2, TerminalStep
            <4> QED
                BY <4>1 DEF Records
        <3> QED
            BY <1>2, <3>2, <3>3
    <2> QED
        BY <2>1, <2>2, <2>3
<1> QED
    BY <1>3, <1>4, <1>5 DEF Next, ProcStep

(* Initially there is no record. *)
LEMMA RoomyInit == ASSUME NEW n \in Nat \ {0}, Init PROVE Roomy(n)
<1>1. Records(terminal) = {} /\ Creators = {}
    BY DEF Init, Records, Creators
<1>2. Count(terminal) = 0 /\ Cardinality(Creators) = 0
    BY <1>1, CountNat, FS_EmptySet
<1> QED
    BY <1>2, FleetNudgeAssumption DEF Roomy

(* When never more than n processes run at once, the terminal records of a *)
(* generation exceed their cap by less than n: every process counts them   *)
(* under the mutex of its own episode only, so each may find the last room *)
(* free.                                                                   *)
THEOREM OvershootBounded ==
    ASSUME NEW n \in Nat \ {0}
    PROVE  Spec /\ []AtMost(n) => [](Count(terminal) < MaxTerminals + n)
<1>1. Init => Roomy(n)
    BY RoomyInit
<1>2. AtMost(n) /\ AtMost(n)' /\ Inv /\ MoveInv /\ Roomy(n) /\ [Next]_vars => Roomy(n)'
    BY RoomyStep
<1>3. AtMost(n) /\ Roomy(n) => Count(terminal) < MaxTerminals + n
    BY CreatorsRun, CountNat, FleetNudgeAssumption DEF Roomy
<1> QED
    BY <1>1, <1>2, <1>3, MovesInOrder, PTL DEF Spec

(* One process at a time, as the lease of the scheduler has it, keeps the  *)
(* cap, through crashes and restarts.                                      *)
THEOREM CapKept == Spec /\ []OneRunning => []TerminalsCapped
<1>1. OneRunning => AtMost(1)
    <2> SUFFICES ASSUME OneRunning PROVE AtMost(1)
        OBVIOUS
    <2>1. RunningProcs = {} \/ \E p : RunningProcs = {p}
        BY DEF RunningProcs, OneRunning
    <2>2. CASE RunningProcs = {}
        BY <2>2, FS_EmptySet DEF AtMost
    <2>3. ASSUME NEW p, RunningProcs = {p} PROVE AtMost(1)
        <3>1. IsFiniteSet({p}) /\ Cardinality({p}) = 1
            BY FS_Singleton
        <3> QED
            BY <2>3, <3>1 DEF AtMost
    <2> QED
        BY <2>1, <2>2, <2>3
<1>2. Init => Roomy(1)
    BY RoomyInit
<1>3. AtMost(1) /\ AtMost(1)' /\ Inv /\ MoveInv /\ Roomy(1) /\ [Next]_vars => Roomy(1)'
    BY RoomyStep
<1>4. AtMost(1) /\ Roomy(1) => TerminalsCapped
    BY CreatorsRun, CountNat, FleetNudgeAssumption DEF Roomy, TerminalsCapped
<1> QED
    BY <1>1, <1>2, <1>3, <1>4, MovesInOrder, PTL DEF Spec

=============================================================================
