--------------------------- MODULE FleetNudgeProofs ---------------------------
(***************************************************************************)
(* Proofs about the fleet nudge for any number of processes, units, ticks, *)
(* starts, terminal records and crashes.                                   *)
(***************************************************************************)
EXTENDS FleetNudge, TLAPS

(* The initial state has the declared types. *)
LEMMA TypeInit == Init => TypeOK
BY FleetNudgeAssumption DEF Init, TypeOK, Ticks, Phases, Settled, Ops, Rets, PCs, Outcomes,
   Hard

(* An answer settles the attempt; one of success comes after the           *)
(* submission, and only a call whose answer is no success is given up.     *)
LEMMA AnswerStep ==
    ASSUME NEW p \in Procs, Answer(p)
    PROVE  /\ pc[p] \in {"sending", "sent"} /\ Before(p, Dispatch)
           /\ Want(p, "finalize") /\ (stray' = stray \/ Abandon(p))
           /\ \E o \in Outcomes :
                 out' = [out EXCEPT ![p] = o] /\ (o = "dispatched" => pc[p] = "sent")
           /\ UNCHANGED <<clock, store, journal, sends, mutex, local, failed, dl, ret, crashes>>
BY DEF Answer, NativeAnswer, OpenCodeAnswer, FenceFails, Settle, Outcomes

(* Giving a call up keeps the count of stray calls a number. *)
LEMMA AbandonType ==
    ASSUME TypeOK, NEW p \in Procs, stray' = stray \/ Abandon(p)
    PROVE  stray' \in [Episodes -> Nat]
<1>1. stray \in [Episodes -> Nat]
    BY DEF TypeOK
<1>2. CASE stray' = stray
    BY <1>1, <1>2
<1>3. CASE stray' = [stray EXCEPT ![Ep(p)] = stray[Ep(p)] + 1]
    <2>1. ASSUME NEW x \in Episodes PROVE stray'[x] \in Nat
        BY <1>1, <1>3
    <2> QED
        BY <1>1, <1>3, <2>1
<1> QED
    BY <1>2, <1>3 DEF Abandon

(* Every step keeps the declared types. *)
LEMMA TypeStep == TypeOK /\ [Next]_vars => TypeOK'
<1> SUFFICES ASSUME TypeOK, [Next]_vars PROVE TypeOK'
    OBVIOUS
<1> USE FleetNudgeAssumption
<1>1. CASE UNCHANGED vars
    BY <1>1 DEF TypeOK, vars
<1>2. CASE NextTick
    BY <1>2 DEF TypeOK, NextTick, store, local, Hard, Ticks
<1>3. ASSUME NEW e \in Episodes, LeaseExpires(e) PROVE TypeOK'
    BY <1>3 DEF TypeOK, LeaseExpires, local
<1>33. ASSUME NEW e \in Episodes, SubmitStray(e) PROVE TypeOK'
    <2>1. \A x \in Episodes : sends[x] + 1 \in Nat /\ (stray[x] > 0 => stray[x] - 1 \in Nat)
        BY DEF TypeOK
    <2>2. sends' \in [Episodes -> Nat] /\ stray' \in [Episodes -> Nat]
        BY <1>33, <2>1 DEF TypeOK, SubmitStray
    <2> QED
        BY <1>33, <2>2 DEF TypeOK, SubmitStray, store, local
<1>4. ASSUME NEW p \in Procs, StartTick(p) PROVE TypeOK'
    BY <1>4 DEF TypeOK, StartTick, Goto, Pruned, PCs, Hard
<1>5. ASSUME NEW p \in Procs, Pick(p) PROVE TypeOK'
    BY <1>5 DEF TypeOK, Pick, Stop, Goto, PCs, store
<1>6. ASSUME NEW p \in Procs, EndTick(p) PROVE TypeOK'
    BY <1>6 DEF TypeOK, EndTick, Goto, PCs, store, Hard, Ops, Outcomes
<1>7. ASSUME NEW p \in Procs, Validate(p) PROVE TypeOK'
    BY <1>7 DEF TypeOK, Validate, Want, Goto, Pruned, PCs, Ops, local
<1>8. ASSUME NEW p \in Procs, Enter(p) PROVE TypeOK'
    BY <1>8 DEF TypeOK, Enter, Goto, PCs, store, local
<1>9. ASSUME NEW p \in Procs, GiveUp(p) PROVE TypeOK'
    <2>1. Continue(p, op[p], "fail")
        BY <1>9 DEF GiveUp
    <2>2. pc' \in [Procs -> PCs]
        BY <2>1 DEF TypeOK, Continue, Want, Goto, PCs
    <2>3. op' \in [Procs -> Ops] /\ out' \in [Procs -> Outcomes]
        BY <2>1 DEF TypeOK, Continue, Want, Ops, Outcomes
    <2>4. failed' \in [Procs -> BOOLEAN]
        BY <2>1 DEF TypeOK, Continue
    <2> QED
        BY <1>9, <2>2, <2>3, <2>4 DEF TypeOK, GiveUp, store, local
<1>10. ASSUME NEW p \in Procs, Exit(p) PROVE TypeOK'
    <2>1. mutex' \in [Episodes -> Procs \cup {None}] /\ ret' \in [Procs -> Rets]
        BY <1>10 DEF TypeOK, Exit, Rets
    <2>2. PICK r : Continue(p, op[p], r)
        BY <1>10 DEF Exit
    <2>3. pc' \in [Procs -> PCs]
        BY <2>2 DEF TypeOK, Continue, Want, Goto, PCs
    <2>4. op' \in [Procs -> Ops] /\ out' \in [Procs -> Outcomes]
        BY <2>2 DEF TypeOK, Continue, Want, Ops, Outcomes
    <2>5. failed' \in [Procs -> BOOLEAN]
        BY <2>2 DEF TypeOK, Continue
    <2> QED
        BY <1>10, <2>1, <2>3, <2>4, <2>5 DEF TypeOK, Exit, store, local
<1>11. ASSUME NEW p \in Procs, Expire(p) PROVE TypeOK'
    BY <1>11 DEF TypeOK, Expire, Return, Goto, PCs, Rets, store, local
<1>12. ASSUME NEW p \in Procs, Acquire(p) PROVE TypeOK'
    <2>1. phase' \in [Episodes -> Phases] /\ holder' \in [Episodes -> Procs \cup {None}]
            /\ lapsed' \in [Episodes -> BOOLEAN]
        BY <1>12 DEF TypeOK, Acquire, Unlink, Phases
    <2>2. pc' \in [Procs -> PCs] /\ ret' \in [Procs -> Rets]
        BY <1>12 DEF TypeOK, Acquire, Return, Goto, PCs, Rets
    <2>3. out' \in [Procs -> Outcomes]
        BY <1>12 DEF TypeOK, Acquire, recoveredOutcome, Outcomes
    <2> QED
        BY <1>12, <2>1, <2>2, <2>3 DEF TypeOK, Acquire, local
<1>13. ASSUME NEW p \in Procs, Create(p) PROVE TypeOK'
    BY <1>13 DEF TypeOK, Create, Goto, PCs, Phases, local
<1>14. ASSUME NEW p \in Procs, Fill(p) PROVE TypeOK'
    BY <1>14 DEF TypeOK, Fill, Return, Goto, PCs, Rets, Phases, local
<1>15. ASSUME NEW p \in Procs, Hash(p) PROVE TypeOK'
    BY <1>15 DEF TypeOK, Hash, Return, Goto, PCs, Rets, store, local
<1>16. ASSUME NEW p \in Procs, Mark(p) PROVE TypeOK'
    BY <1>16 DEF TypeOK, Mark, markResult, Return, Goto, PCs, Rets, Phases, local
<1>17. ASSUME NEW p \in Procs, Inspect(p) PROVE TypeOK'
    BY <1>17 DEF TypeOK, Inspect, attemptState, Return, Goto, PCs, Rets, store, local
<1>18. ASSUME NEW p \in Procs, Release(p) PROVE TypeOK'
    BY <1>18 DEF TypeOK, Release, Unlink, Return, Goto, PCs, Rets, Phases, local
<1>19. ASSUME NEW p \in Procs, Finalize(p) PROVE TypeOK'
    BY <1>19 DEF TypeOK, Finalize, Return, Goto, PCs, Rets, store, local
<1>20. ASSUME NEW p \in Procs, MoveCheck(p) PROVE TypeOK'
    BY <1>20 DEF TypeOK, MoveCheck, Pruned, Return, Goto, PCs, Rets, local
<1>21. ASSUME NEW p \in Procs, MoveCreate(p) PROVE TypeOK'
    BY <1>21 DEF TypeOK, MoveCreate, Goto, PCs, local
<1>22. ASSUME NEW p \in Procs, MoveWrite(p) PROVE TypeOK'
    BY <1>22 DEF TypeOK, MoveWrite, claimPhase, Settled, Goto, PCs, local
<1>23. ASSUME NEW p \in Procs, MoveUnlink(p) PROVE TypeOK'
    BY <1>23 DEF TypeOK, MoveUnlink, Unlink, Return, Goto, PCs, Rets, Phases, local
<1>24. ASSUME NEW p \in Procs, AdmitJournal(p) PROVE TypeOK'
    BY <1>24 DEF TypeOK, AdmitJournal, Want, Goto, PCs, Ops, store, local
<1>25. ASSUME NEW p \in Procs, Gate(p) PROVE TypeOK'
    BY <1>25 DEF TypeOK, Gate, Want, Goto, PCs, Ops, store, local
<1>26. ASSUME NEW p \in Procs, FinalizeJournal(p) PROVE TypeOK'
    <2>1. journal' \in [Episodes -> Outcomes \cup {"none", "in_flight"}]
        <3>1. out[p] \in Outcomes
            BY DEF TypeOK
        <3> QED
            BY <1>26, <3>1 DEF TypeOK, FinalizeJournal, finalizeRow
    <2>2. pc' \in [Procs -> PCs] /\ failed' \in [Procs -> BOOLEAN]
        <3>1. pc' \in [Procs -> PCs]
            BY <1>26 DEF TypeOK, FinalizeJournal, Goto, PCs
        <3>2. failed' \in [Procs -> BOOLEAN]
            BY <1>26 DEF TypeOK, FinalizeJournal, rowAgrees
        <3> QED
            BY <3>1, <3>2
    <2> QED
        BY <1>26, <2>1, <2>2 DEF TypeOK, FinalizeJournal, store, local
<1>27. ASSUME NEW p \in Procs, Send(p) PROVE TypeOK'
    BY <1>27 DEF TypeOK, Send, Settle, Want, Goto, PCs, Ops, Outcomes, store, local
<1>28. ASSUME NEW p \in Procs, Late(p) PROVE TypeOK'
    <2>1. stray' \in [Episodes -> Nat]
        BY <1>28, AbandonType DEF Late
    <2> QED
        BY <1>28, <2>1 DEF TypeOK, Late, Settle, Want, Goto, PCs, Ops, Outcomes, store, local
<1>29. ASSUME NEW p \in Procs, Submit(p) PROVE TypeOK'
    <2>1. sends' \in [Episodes -> Nat]
        <3>1. sends' = [sends EXCEPT ![Ep(p)] = sends[Ep(p)] + 1]
            BY <1>29 DEF Submit
        <3>2. sends \in [Episodes -> Nat]
            BY DEF TypeOK
        <3>3. ASSUME NEW e \in Episodes PROVE sends'[e] \in Nat
            BY <3>1, <3>2
        <3> QED
            BY <3>1, <3>2, <3>3
    <2>2. pc' \in [Procs -> PCs]
        BY <1>29 DEF TypeOK, Submit, Goto, PCs
    <2> QED
        BY <1>29, <2>1, <2>2 DEF TypeOK, Submit, store, local
<1>30. ASSUME NEW p \in Procs, Answer(p) PROVE TypeOK'
    <2>1. stray' \in [Episodes -> Nat]
        BY <1>30, AbandonType, AnswerStep DEF TypeOK
    <2> QED
        BY <1>30, <2>1, AnswerStep DEF TypeOK, Want, Goto, PCs, Ops, store, local
<1>31. ASSUME NEW p \in Procs, Crash(p) PROVE TypeOK'
    <2>1. stray' \in [Episodes -> Nat]
        BY <1>31, AbandonType DEF Crash
    <2> QED
        BY <1>31, <2>1 DEF TypeOK, Crash, Goto, PCs, Ops, Rets, Outcomes, store, Hard
<1>32. ASSUME NEW p \in Procs, Time(p) PROVE TypeOK'
    BY <1>32 DEF TypeOK, Time, Before, Hard, store, local
<1> QED
    BY <1>1, <1>2, <1>3, <1>4, <1>5, <1>6, <1>7, <1>8, <1>9, <1>10, <1>11, <1>12, <1>13,
       <1>14, <1>15, <1>16, <1>17, <1>18, <1>19, <1>20, <1>21, <1>22, <1>23, <1>24, <1>25,
       <1>26, <1>27, <1>28, <1>29, <1>30, <1>31, <1>32, <1>33 DEF Next, Run, Runtime

(* The variables always hold values of their types. *)
THEOREM TypeCorrect == Spec => []TypeOK
<1>1. Init => TypeOK
    BY TypeInit
<1>2. TypeOK /\ [Next]_vars => TypeOK'
    BY TypeStep
<1> QED
    BY <1>1, <1>2, PTL DEF Spec

-----------------------------------------------------------------------------
(* Why a message is submitted at most once.                                *)

Section == {"body", "create", "fill", "exit", "moveCheck", "moveCreate", "moveWrite", "moveUnlink"}
Moving == {"moveCheck", "moveCreate", "moveWrite", "moveUnlink"}

Running(p) == pc[p] \notin {"idle", "dead"}

(* p may still submit the message of its episode. *)
Armed(p) ==
    \/ pc[p] = "sending"
    \/ /\ dl[p] < Dispatch
       /\ pc[p] = "send" \/ (pc[p] = "exit" /\ op[p] = "mark" /\ ret[p] = "recorded")

(* p has a claim it has not yet marked. *)
BeforeMark(p) ==
    \/ pc[p] \in {"admit", "gate"}
    \/ op[p] = "hash" /\ pc[p] \in {"want", "body", "exit"}
    \/ op[p] = "mark" /\ pc[p] \in {"want", "body"}
    \/ op[p] = "acquire" /\ pc[p] = "exit" /\ ret[p] = "ok"

Recorded(e) == phase[e] = "SEND_ATTEMPTED" \/ terminal[e] # None \/ Old(e)

HasUnit(p) == pc[p] \notin {"idle", "next", "dead"} => unit[p] \in Units
Timely(p) == tick[p] <= clock /\ (Running(p) /\ Old(Ep(p)) => dl[p] = Hard)
Owned(p) == pc[p] \in Section => mutex[Ep(p)] = p
Creating(p) ==
    pc[p] \in {"create", "fill"} =>
        op[p] = "acquire" /\ terminal[Ep(p)] = None /\ phase[Ep(p)] # "SEND_ATTEMPTED"
MoveFrom(p) ==
    pc[p] \in Moving => phase[Ep(p)] = "SEND_ATTEMPTED" /\ op[p] \in {"acquire", "finalize"}
MoveTo(p) ==
    pc[p] \in {"moveWrite", "moveUnlink"} => terminal[Ep(p)] # None \/ Old(Ep(p))
Unmarked(p) ==
    BeforeMark(p) => ~(phase[Ep(p)] = "SEND_ATTEMPTED" /\ holder[Ep(p)] = p)
LateInspect(p) ==
    \/ op[p] = "inspect" /\ pc[p] \in {"want", "body", "exit"}
    \/ op[p] = "mark" /\ pc[p] = "exit" /\ ret[p] = "fail"
    => dl[p] >= Dispatch
ArmedOnce(p) == Armed(p) => sends[Ep(p)] = 0 /\ stray[Ep(p)] = 0 /\ Recorded(Ep(p))

Local(p) ==
    /\ HasUnit(p) /\ Timely(p) /\ Owned(p) /\ Creating(p) /\ MoveFrom(p) /\ MoveTo(p)
    /\ Unmarked(p) /\ LateInspect(p) /\ ArmedOnce(p)

ClaimedFresh == \A e \in Episodes : phase[e] = "CLAIMED" => terminal[e] = None
OneArmed == \A p, q \in Procs : Armed(p) /\ Armed(q) /\ Ep(p) = Ep(q) => p = q
SentOnce ==
    \A e \in Episodes :
        \/ sends[e] = 0 /\ stray[e] = 0
        \/ /\ \/ sends[e] = 1 /\ stray[e] = 0
              \/ sends[e] = 0 /\ stray[e] = 1
           /\ Recorded(e)

Inv == TypeOK /\ (\A p \in Procs : Local(p)) /\ ClaimedFresh /\ OneArmed /\ SentOnce

(* A step of p that leaves claims, sends, mutexes and the other processes   *)
(* alone; LocalOnly, if it gives up no runtime call either.                *)
Frame(p) ==
    /\ UNCHANGED <<clock, phase, holder, terminal, sends, mutex>>
    /\ \A q \in Procs \ {p} :
          /\ pc'[q] = pc[q] /\ op'[q] = op[q] /\ ret'[q] = ret[q] /\ dl'[q] = dl[q]
          /\ tick'[q] = tick[q] /\ unit'[q] = unit[q]

LocalOnly(p) == Frame(p) /\ stray' = stray

(* Such a step keeps the invariant if p's own part survives it and if it   *)
(* does not arm p.                                                         *)
LEMMA LocalStep ==
    ASSUME Inv, TypeOK', NEW p \in Procs, LocalOnly(p), Local(p)',
           Armed(p)' => Armed(p) /\ Ep(p)' = Ep(p)
    PROVE  Inv'
<1>1. ASSUME NEW q \in Procs \ {p}
      PROVE  Ep(q)' = Ep(q) /\ Old(Ep(q))' = Old(Ep(q)) /\ Running(q)' = Running(q)
             /\ Armed(q)' = Armed(q) /\ BeforeMark(q)' = BeforeMark(q)
             /\ Recorded(Ep(q))' = Recorded(Ep(q))
    BY DEF LocalOnly, Frame, Ep, Old, Running, Armed, BeforeMark, Recorded
<1>2. ASSUME NEW q \in Procs PROVE Local(q)'
    <2>1. CASE q # p
        BY <2>1, <1>1 DEF Inv, Local, LocalOnly, Frame, HasUnit, Timely, Owned, Creating,
           MoveFrom, MoveTo, Unmarked, LateInspect, ArmedOnce
    <2> QED
        BY <2>1
<1>3. ClaimedFresh'
    BY DEF Inv, ClaimedFresh, LocalOnly, Frame
<1>4. OneArmed'
    BY <1>1 DEF Inv, OneArmed
<1>5. SentOnce'
    BY DEF Inv, SentOnce, LocalOnly, Frame, Recorded, Old
<1> QED
    BY <1>2, <1>3, <1>4, <1>5 DEF Inv

(* A call that p gives up remains the only one of its episode. *)
LEMMA AbandonStep ==
    ASSUME Inv, TypeOK', NEW p \in Procs, Frame(p), stray' = stray \/ Abandon(p), Local(p)',
           ~Armed(p)'
    PROVE  Inv'
<1>1. CASE stray' = stray
    BY <1>1, LocalStep DEF LocalOnly
<1>2. CASE pc[p] = "sending" /\ Abandon(p)
    <2> DEFINE e == Ep(p)
    <2>1. Armed(p) /\ sends[e] = 0 /\ stray[e] = 0 /\ Recorded(e) /\ e \in Episodes
        BY <1>2 DEF Inv, TypeOK, Armed, Local, ArmedOnce, HasUnit, Ep, Episodes
    <2>2. \A x \in Episodes : stray'[x] = IF x = e THEN 1 ELSE stray[x]
        <3>1. stray' = [stray EXCEPT ![e] = stray[e] + 1] /\ stray \in [Episodes -> Nat]
            BY <1>2 DEF Abandon, Inv, TypeOK
        <3> HIDE DEF e
        <3> QED
            BY <2>1, <3>1
    <2>3. ASSUME NEW q \in Procs \ {p}
          PROVE  Ep(q)' = Ep(q) /\ Old(Ep(q))' = Old(Ep(q)) /\ Running(q)' = Running(q)
                 /\ Armed(q)' = Armed(q) /\ BeforeMark(q)' = BeforeMark(q)
                 /\ Recorded(Ep(q))' = Recorded(Ep(q))
        BY DEF Frame, Ep, Old, Running, Armed, BeforeMark, Recorded
    <2>4. ASSUME NEW q \in Procs PROVE Local(q)'
        <3>1. CASE q = p
            BY <3>1
        <3>2. CASE q # p
            <4>1. HasUnit(q)' /\ Timely(q)' /\ Owned(q)' /\ Creating(q)' /\ MoveFrom(q)'
                  /\ MoveTo(q)' /\ Unmarked(q)' /\ LateInspect(q)'
                BY <3>2, <2>3 DEF Inv, Local, Frame, HasUnit, Timely, Owned, Creating,
                   MoveFrom, MoveTo, Unmarked, LateInspect
            <4>2. ArmedOnce(q)'
                <5> SUFFICES ASSUME Armed(q)' PROVE ArmedOnce(q)'
                    BY DEF ArmedOnce
                <5>1. Armed(q) /\ Ep(q) # e /\ ArmedOnce(q)
                    BY <2>1, <2>3, <3>2 DEF Inv, OneArmed, Local
                <5>2. Ep(q) \in Episodes
                    BY <5>1 DEF Inv, TypeOK, Armed, Local, HasUnit, Ep, Episodes
                <5>3. stray'[Ep(q)] = stray[Ep(q)]
                    BY <2>2, <5>1, <5>2
                <5> QED
                    BY <5>1, <5>3, <2>3, <3>2 DEF ArmedOnce, Frame
            <4> QED
                BY <4>1, <4>2 DEF Local
        <3> QED
            BY <3>1, <3>2
    <2>5. ClaimedFresh'
        BY DEF Inv, ClaimedFresh, Frame
    <2>6. OneArmed'
        BY <2>3 DEF Inv, OneArmed
    <2>7. SentOnce'
        BY <2>1, <2>2 DEF Inv, SentOnce, Frame, Recorded, Old
    <2> QED
        BY <2>4, <2>5, <2>6, <2>7 DEF Inv
<1> QED
    BY <1>1, <1>2 DEF Abandon

(* The loop takes up a candidate. *)
LEMMA PickInv == ASSUME Inv, TypeOK', NEW p \in Procs, Pick(p) PROVE Inv'
<1> USE DEF Pick, Stop, store, Goto
<1>1. LocalOnly(p)
    BY DEF Inv, TypeOK, LocalOnly, Frame
<1>u. unit'[p] \in Units /\ pc'[p] = "validate" /\ pc[p] = "next" /\ tick'[p] = tick[p]
    BY DEF Inv, TypeOK
<1>2. Local(p)'
    BY <1>u, FleetNudgeAssumption DEF Inv, TypeOK, Local, HasUnit, Timely, Owned, Creating,
       MoveFrom, MoveTo, Unmarked, LateInspect, ArmedOnce, Running, Section, Moving,
       BeforeMark, Armed, Ep, Old, Recorded, Episodes, Dispatch, Hard
<1>3. Armed(p)' => Armed(p) /\ Ep(p)' = Ep(p)
    BY DEF Inv, TypeOK, Armed, Ep, Dispatch, Hard, Local, LateInspect
<1> QED
    BY <1>1, <1>2, <1>3, LocalStep

(* The loop ends. *)
LEMMA EndTickInv == ASSUME Inv, TypeOK', NEW p \in Procs, EndTick(p) PROVE Inv'
<1> USE DEF EndTick, store, Goto
<1>1. LocalOnly(p)
    BY DEF Inv, TypeOK, LocalOnly, Frame
<1>2. Local(p)'
    BY FleetNudgeAssumption DEF Inv, TypeOK, Local, HasUnit, Timely, Owned, Creating,
       MoveFrom, MoveTo, Unmarked, LateInspect, ArmedOnce, Running, Section, Moving,
       BeforeMark, Armed, Ep, Old, Recorded, Dispatch, Hard
<1>3. Armed(p)' => Armed(p) /\ Ep(p)' = Ep(p)
    BY DEF Inv, TypeOK, Armed, Ep, Dispatch, Hard, Local, LateInspect
<1> QED
    BY <1>1, <1>2, <1>3, LocalStep

(* Waiting for the mutex ends with the deadline. *)
LEMMA GiveUpInv == ASSUME Inv, TypeOK', NEW p \in Procs, GiveUp(p) PROVE Inv'
<1> USE DEF GiveUp, Continue, Want, Limit, Before, store, local, Goto
<1>1. LocalOnly(p)
    BY DEF Inv, TypeOK, LocalOnly, Frame
<1>2. Local(p)'
    BY SMTT(30), FleetNudgeAssumption DEF Inv, TypeOK, Local, HasUnit, Timely, Owned, Creating,
       MoveFrom, MoveTo, Unmarked, LateInspect, ArmedOnce, Running, Section, Moving,
       BeforeMark, Armed, Ep, Old, Recorded, Dispatch, Hard
<1>3. Armed(p)' => Armed(p) /\ Ep(p)' = Ep(p)
    BY DEF Inv, TypeOK, Armed, Ep, Dispatch, Hard, Local, LateInspect
<1> QED
    BY <1>1, <1>2, <1>3, LocalStep

(* A claim operation ends with its deadline. *)
LEMMA ExpireInv == ASSUME Inv, TypeOK', NEW p \in Procs, Expire(p) PROVE Inv'
<1> USE DEF Expire, Return, Limit, Before, Hard, Dispatch, store, local, Goto
<1>1. LocalOnly(p)
    BY DEF Inv, TypeOK, LocalOnly, Frame
<1>2. Local(p)'
    <2>1. Ep(p)' = Ep(p) /\ Old(Ep(p))' = Old(Ep(p)) /\ ~Armed(p)'
        <3>1. pc'[p] = "exit" /\ ret'[p] = "fail"
            BY DEF Inv, TypeOK
        <3>2. ~Armed(p)'
            BY <3>1 DEF Armed
        <3> QED
            BY <3>2 DEF Ep, Old
    <2>2. HasUnit(p)' /\ Timely(p)' /\ Owned(p)' /\ LateInspect(p)'
        BY <2>1 DEF Inv, TypeOK, Local, HasUnit, Timely, Running, Owned, Section, LateInspect
    <2>3. Creating(p)' /\ MoveFrom(p)' /\ MoveTo(p)'
        BY DEF Inv, TypeOK, Creating, MoveFrom, MoveTo, Moving
    <2>4. Unmarked(p)'
        BY <2>1 DEF Inv, TypeOK, Local, Unmarked, BeforeMark, Creating, MoveFrom, Moving
    <2> QED
        BY <2>1, <2>2, <2>3, <2>4 DEF Local, ArmedOnce
<1>3. Armed(p)' => Armed(p) /\ Ep(p)' = Ep(p)
    BY DEF Inv, TypeOK, Armed, Ep, Dispatch, Hard, Local, LateInspect
<1> QED
    BY <1>1, <1>2, <1>3, LocalStep

(* The hash changes no claim state the invariant is about. *)
LEMMA HashInv == ASSUME Inv, TypeOK', NEW p \in Procs, Hash(p) PROVE Inv'
<1> USE DEF Hash, InTime, Return, store, local, Goto
<1>1. LocalOnly(p)
    BY DEF Inv, TypeOK, LocalOnly, Frame
<1>2. Local(p)'
    BY FleetNudgeAssumption DEF Inv, TypeOK, Local, HasUnit, Timely, Owned, Creating,
       MoveFrom, MoveTo, Unmarked, LateInspect, ArmedOnce, Running, Section, Moving,
       BeforeMark, Armed, Ep, Old, Recorded, Dispatch, Hard
<1>3. Armed(p)' => Armed(p) /\ Ep(p)' = Ep(p)
    BY DEF Inv, TypeOK, Armed, Ep, Dispatch, Hard, Local, LateInspect
<1> QED
    BY <1>1, <1>2, <1>3, LocalStep

(* Past the dispatch deadline an inspection arms nobody. *)
LEMMA InspectInv == ASSUME Inv, TypeOK', NEW p \in Procs, Inspect(p) PROVE Inv'
<1> USE DEF Inspect, InTime, attemptState, Return, store, local, Goto
<1>1. LocalOnly(p)
    BY DEF Inv, TypeOK, LocalOnly, Frame
<1>2. Local(p)'
    BY FleetNudgeAssumption DEF Inv, TypeOK, Local, HasUnit, Timely, Owned, Creating,
       MoveFrom, MoveTo, Unmarked, LateInspect, ArmedOnce, Running, Section, Moving,
       BeforeMark, Armed, Ep, Old, Recorded, Dispatch, Hard
<1>3. Armed(p)' => Armed(p) /\ Ep(p)' = Ep(p)
    BY DEF Inv, TypeOK, Armed, Ep, Dispatch, Hard, Local, LateInspect
<1> QED
    BY <1>1, <1>2, <1>3, LocalStep

(* Only an attempt is finalized. *)
LEMMA FinalizeInv == ASSUME Inv, TypeOK', NEW p \in Procs, Finalize(p) PROVE Inv'
<1> USE DEF Finalize, InTime, Return, store, local, Goto
<1>1. LocalOnly(p)
    BY DEF Inv, TypeOK, LocalOnly, Frame
<1>2. Local(p)'
    BY SMTT(30), FleetNudgeAssumption DEF Inv, TypeOK, Local, HasUnit, Timely, Owned, Creating,
       MoveFrom, MoveTo, Unmarked, LateInspect, ArmedOnce, Running, Section, Moving,
       BeforeMark, Armed, Ep, Old, Recorded, Dispatch, Hard
<1>3. Armed(p)' => Armed(p) /\ Ep(p)' = Ep(p)
    BY DEF Inv, TypeOK, Armed, Ep, Dispatch, Hard, Local, LateInspect
<1> QED
    BY <1>1, <1>2, <1>3, LocalStep

(* Journal admission. *)
LEMMA AdmitJournalInv == ASSUME Inv, TypeOK', NEW p \in Procs, AdmitJournal(p) PROVE Inv'
<1> USE DEF AdmitJournal, Want, store, local, Goto
<1>1. LocalOnly(p)
    BY DEF Inv, TypeOK, LocalOnly, Frame
<1>2. Local(p)'
    BY FleetNudgeAssumption DEF Inv, TypeOK, Local, HasUnit, Timely, Owned, Creating,
       MoveFrom, MoveTo, Unmarked, LateInspect, ArmedOnce, Running, Section, Moving,
       BeforeMark, Armed, Ep, Old, Recorded, Dispatch, Hard
<1>3. Armed(p)' => Armed(p) /\ Ep(p)' = Ep(p)
    BY DEF Inv, TypeOK, Armed, Ep, Dispatch, Hard, Local, LateInspect
<1> QED
    BY <1>1, <1>2, <1>3, LocalStep

(* The last check before the attempt. *)
LEMMA GateInv == ASSUME Inv, TypeOK', NEW p \in Procs, Gate(p) PROVE Inv'
<1> USE DEF Gate, Want, store, local, Goto
<1>1. LocalOnly(p)
    BY DEF Inv, TypeOK, LocalOnly, Frame
<1>2. Local(p)'
    BY SMTT(30), FleetNudgeAssumption DEF Inv, TypeOK, Local, HasUnit, Timely, Owned, Creating,
       MoveFrom, MoveTo, Unmarked, LateInspect, ArmedOnce, Running, Section, Moving,
       BeforeMark, Armed, Ep, Old, Recorded, Dispatch, Hard
<1>3. Armed(p)' => Armed(p) /\ Ep(p)' = Ep(p)
    BY DEF Inv, TypeOK, Armed, Ep, Dispatch, Hard, Local, LateInspect
<1> QED
    BY <1>1, <1>2, <1>3, LocalStep

(* Journal settlement. *)
LEMMA FinalizeJournalInv == ASSUME Inv, TypeOK', NEW p \in Procs, FinalizeJournal(p) PROVE Inv'
<1> USE DEF FinalizeJournal, store, local, Goto
<1>1. LocalOnly(p)
    BY DEF Inv, TypeOK, LocalOnly, Frame
<1>2. Local(p)'
    BY FleetNudgeAssumption DEF Inv, TypeOK, Local, HasUnit, Timely, Owned, Creating,
       MoveFrom, MoveTo, Unmarked, LateInspect, ArmedOnce, Running, Section, Moving,
       BeforeMark, Armed, Ep, Old, Recorded, Dispatch, Hard
<1>3. Armed(p)' => Armed(p) /\ Ep(p)' = Ep(p)
    BY DEF Inv, TypeOK, Armed, Ep, Dispatch, Hard, Local, LateInspect
<1> QED
    BY <1>1, <1>2, <1>3, LocalStep

(* A send goes on only if it was armed. *)
LEMMA SendInv == ASSUME Inv, TypeOK', NEW p \in Procs, Send(p) PROVE Inv'
<1> USE DEF Send, Settle, Want, Before, store, local, Goto
<1>1. LocalOnly(p)
    BY DEF Inv, TypeOK, LocalOnly, Frame
<1>2. Local(p)'
    BY SMTT(30), FleetNudgeAssumption DEF Inv, TypeOK, Local, HasUnit, Timely, Owned, Creating,
       MoveFrom, MoveTo, Unmarked, LateInspect, ArmedOnce, Running, Section, Moving,
       BeforeMark, Armed, Ep, Old, Recorded, Dispatch, Hard
<1>3. Armed(p)' => Armed(p) /\ Ep(p)' = Ep(p)
    BY DEF Inv, TypeOK, Armed, Ep, Dispatch, Hard, Local, LateInspect
<1> QED
    BY <1>1, <1>2, <1>3, LocalStep

(* A late answer is not heard. *)
LEMMA LateInv == ASSUME Inv, TypeOK', NEW p \in Procs, Late(p) PROVE Inv'
<1> USE DEF Late, Settle, Want, store, local, Goto
<1>1. Frame(p) /\ (stray' = stray \/ Abandon(p))
    BY DEF Inv, TypeOK, Frame
<1>2. Local(p)'
    BY FleetNudgeAssumption DEF Inv, TypeOK, Local, HasUnit, Timely, Owned, Creating,
       MoveFrom, MoveTo, Unmarked, LateInspect, ArmedOnce, Running, Section, Moving,
       BeforeMark, Armed, Ep, Old, Recorded, Dispatch, Hard
<1>3. ~Armed(p)'
    BY DEF Inv, TypeOK, Armed
<1> QED
    BY <1>1, <1>2, <1>3, AbandonStep

(* An answer comes after the submission or instead of it. *)
LEMMA AnswerInv == ASSUME Inv, TypeOK', NEW p \in Procs, Answer(p) PROVE Inv'
<1>0. /\ pc[p] \in {"sending", "sent"} /\ Want(p, "finalize") /\ (stray' = stray \/ Abandon(p))
      /\ UNCHANGED <<clock, store, journal, sends, mutex, local, failed, dl, ret, crashes>>
    BY AnswerStep
<1>1. Frame(p) /\ (stray' = stray \/ Abandon(p))
    BY <1>0 DEF Inv, TypeOK, Frame, Want, Goto, store, local
<1>t. /\ pc'[p] = "want" /\ op'[p] = "finalize" /\ Ep(p)' = Ep(p)
      /\ UNCHANGED <<clock, tick, unit, dl, holder, phase, mutex>>
    BY <1>0 DEF Inv, TypeOK, Want, Goto, store, local, Ep
<1>2. Local(p)'
    <2>1. HasUnit(p)' /\ Timely(p)'
        BY <1>0, <1>t DEF Inv, Local, HasUnit, Timely, Running, Old
    <2>2. Owned(p)' /\ Creating(p)' /\ MoveFrom(p)' /\ MoveTo(p)' /\ ArmedOnce(p)'
        BY <1>t DEF Owned, Section, Creating, MoveFrom, MoveTo, Moving, ArmedOnce, Armed
    <2>3. Unmarked(p)' /\ LateInspect(p)'
        BY <1>t DEF Unmarked, BeforeMark, LateInspect
    <2> QED
        BY <2>1, <2>2, <2>3 DEF Local
<1>3. ~Armed(p)'
    BY <1>t DEF Armed
<1> QED
    BY <1>1, <1>2, <1>3, AbandonStep

(* A crash arms nobody; a runtime call survives it. *)
LEMMA CrashInv == ASSUME Inv, TypeOK', NEW p \in Procs, Crash(p) PROVE Inv'
<1> USE DEF Crash, store, Goto
<1>1. Frame(p) /\ (stray' = stray \/ Abandon(p))
    BY DEF Inv, TypeOK, Frame
<1>2. Local(p)'
    BY FleetNudgeAssumption DEF Inv, TypeOK, Local, HasUnit, Timely, Owned, Creating,
       MoveFrom, MoveTo, Unmarked, LateInspect, ArmedOnce, Running, Section, Moving,
       BeforeMark, Armed, Ep, Old, Recorded, Dispatch, Hard
<1>3. ~Armed(p)'
    BY DEF Inv, TypeOK, Armed
<1> QED
    BY <1>1, <1>2, <1>3, AbandonStep

(* Time can only disarm. *)
LEMMA TimeInv == ASSUME Inv, TypeOK', NEW p \in Procs, Time(p) PROVE Inv'
<1> USE DEF Time, Before, store, local, Goto
<1>1. LocalOnly(p)
    BY DEF Inv, TypeOK, LocalOnly, Frame
<1>2. Local(p)'
    BY FleetNudgeAssumption DEF Inv, TypeOK, Local, HasUnit, Timely, Owned, Creating,
       MoveFrom, MoveTo, Unmarked, LateInspect, ArmedOnce, Running, Section, Moving,
       BeforeMark, Armed, Ep, Old, Recorded, Dispatch, Hard
<1>3. Armed(p)' => Armed(p) /\ Ep(p)' = Ep(p)
    BY DEF Inv, TypeOK, Armed, Ep, Dispatch, Hard, Local, LateInspect
<1> QED
    BY <1>1, <1>2, <1>3, LocalStep

(* Pruning at a tick of the generation removes only old records. *)
LEMMA PrunedOld ==
    ASSUME TypeOK, NEW t \in Ticks, t <= clock, NEW e \in Episodes
    PROVE  Pruned(t)[e] = terminal[e] \/ (Pruned(t)[e] = None /\ Old(e))
BY FleetNudgeAssumption DEF TypeOK, Pruned, Episodes, Ticks, Old

(* A live holder keeps its mutex: nobody else is inside. *)
LEMMA EnterInv == ASSUME Inv, TypeOK', NEW p \in Procs, Enter(p) PROVE Inv'
<1> USE FleetNudgeAssumption DEF Enter, MutexFree, alive, store, local, Goto
<1>e. pc[p] # "idle" => Ep(p) \in Episodes
    BY DEF Inv, Local, HasUnit, Ep, Episodes, TypeOK
<1>0. \A q \in Procs : (q # p \/ pc[p] # "idle" => Ep(q)' = Ep(q)) /\ Old(Ep(q))' = Old(Ep(q)')
    BY DEF Ep, Old, Inv, TypeOK
<1>1. ASSUME NEW q \in Procs PROVE Local(q)'
    BY <1>0, <1>e, FleetNudgeAssumption DEF Inv, TypeOK, Local, HasUnit, Timely, Owned,
       Creating, MoveFrom, MoveTo, Unmarked, LateInspect, ArmedOnce, Section, Moving,
       Running, Armed, BeforeMark, Recorded, Old, ClaimedFresh, OneArmed, SentOnce,
       Dispatch, Hard
<1>2. ClaimedFresh'
    BY <1>e, FleetNudgeAssumption DEF Inv, TypeOK, ClaimedFresh, Local, Creating, MoveFrom,
       Moving
<1>3. OneArmed'
    BY <1>0, <1>e DEF Inv, TypeOK, OneArmed, Armed, Local, ArmedOnce, Recorded, Timely,
       Running, LateInspect, Unmarked, BeforeMark, ClaimedFresh, Dispatch, Hard
<1>4. SentOnce'
    BY <1>e, FleetNudgeAssumption DEF Inv, TypeOK, SentOnce, Recorded, Old, Local,
       ArmedOnce, Armed, Creating, MoveFrom, MoveTo, Moving, Timely, Running
<1> QED
    BY <1>1, <1>2, <1>3, <1>4 DEF Inv

(* A recorded attempt goes on to the send, a late one to the inspection. *)
LEMMA ExitInv == ASSUME Inv, TypeOK', NEW p \in Procs, Exit(p) PROVE Inv'
<1> USE FleetNudgeAssumption DEF Exit, Continue, Want, Limit, Before, store, local, Goto
<1>e. pc[p] # "idle" => Ep(p) \in Episodes
    BY DEF Inv, Local, HasUnit, Ep, Episodes, TypeOK
<1>0. \A q \in Procs : (q # p \/ pc[p] # "idle" => Ep(q)' = Ep(q)) /\ Old(Ep(q))' = Old(Ep(q)')
    BY DEF Ep, Old, Inv, TypeOK
<1>1. ASSUME NEW q \in Procs PROVE Local(q)'
    BY SMTT(30), <1>0, <1>e, FleetNudgeAssumption DEF Inv, TypeOK, Local, HasUnit, Timely, Owned,
       Creating, MoveFrom, MoveTo, Unmarked, LateInspect, ArmedOnce, Section, Moving,
       Running, Armed, BeforeMark, Recorded, Old, ClaimedFresh, OneArmed, SentOnce,
       Dispatch, Hard
<1>2. ClaimedFresh'
    BY <1>e, FleetNudgeAssumption DEF Inv, TypeOK, ClaimedFresh, Local, Creating, MoveFrom,
       Moving
<1>3. OneArmed'
    <2>1. ASSUME NEW q \in Procs, Armed(q)' PROVE Armed(q)
        BY <2>1 DEF Inv, TypeOK, Armed, Local, LateInspect, Dispatch, Hard
    <2> QED
        BY <1>0, <2>1 DEF Inv, OneArmed, Armed
<1>4. SentOnce'
    BY <1>e, FleetNudgeAssumption DEF Inv, TypeOK, SentOnce, Recorded, Old, Local,
       ArmedOnce, Armed, Creating, MoveFrom, MoveTo, Moving, Timely, Running
<1> QED
    BY <1>1, <1>2, <1>3, <1>4 DEF Inv

(* Validation prunes, and goes on or drops the candidate. *)
LEMMA ValidateInv == ASSUME Inv, TypeOK', NEW p \in Procs, Validate(p) PROVE Inv'
<1> USE FleetNudgeAssumption DEF Validate, Want, local, Goto
<1>e. pc[p] # "idle" => Ep(p) \in Episodes
    BY DEF Inv, Local, HasUnit, Ep, Episodes, TypeOK
<1>0. \A q \in Procs : (q # p \/ pc[p] # "idle" => Ep(q)' = Ep(q)) /\ Old(Ep(q))' = Old(Ep(q)')
    BY DEF Ep, Old, Inv, TypeOK
<1>t. \A e \in Episodes : terminal'[e] = terminal[e] \/ (terminal'[e] = None /\ Old(e))
    BY PrunedOld DEF Inv, TypeOK, Local, Timely
<1>1. ASSUME NEW q \in Procs PROVE Local(q)'
    <2>1. HasUnit(q)' /\ Timely(q)' /\ Owned(q)' /\ LateInspect(q)'
        BY <1>0 DEF Inv, TypeOK, Local, HasUnit, Timely, Running, Owned, Section,
           LateInspect, MoveFrom, Moving, Old, Hard, Dispatch
    <2>2. Ep(q) \in Episodes \/ pc[q] \in {"idle", "next", "dead"}
        BY DEF Inv, TypeOK, Local, HasUnit, Ep, Episodes
    <2>3. Creating(q)' /\ MoveFrom(q)'
        BY <1>0, <1>t, <2>2 DEF Inv, TypeOK, Local, Creating, MoveFrom, Moving
    <2>4. MoveTo(q)'
        BY <1>0, <1>t, <2>2 DEF Inv, TypeOK, Local, MoveTo, Old
    <2>5. Unmarked(q)'
        BY <1>0 DEF Inv, TypeOK, Local, Unmarked, BeforeMark
    <2>6. ArmedOnce(q)'
        BY <1>0, <1>t, <2>2 DEF Inv, TypeOK, Local, ArmedOnce, Armed, Recorded, Old
    <2> QED
        BY <2>1, <2>3, <2>4, <2>5, <2>6 DEF Local
<1>2. ClaimedFresh'
    BY <1>e, <1>t, FleetNudgeAssumption DEF Inv, TypeOK, ClaimedFresh, Local, Creating,
       MoveFrom, Moving
<1>3. OneArmed'
    BY <1>0, <1>e DEF Inv, TypeOK, OneArmed, Armed, Local, ArmedOnce, Recorded, Timely,
       Running, LateInspect, Unmarked, BeforeMark, ClaimedFresh, Dispatch, Hard
<1>4. SentOnce'
    BY <1>e, <1>t, FleetNudgeAssumption DEF Inv, TypeOK, SentOnce, Recorded, Old, Local,
       ArmedOnce, Armed, Creating, MoveFrom, MoveTo, Moving, Timely, Running
<1> QED
    BY <1>1, <1>2, <1>3, <1>4 DEF Inv

(* The terminal move prunes only old records. *)
LEMMA MoveCheckInv == ASSUME Inv, TypeOK', NEW p \in Procs, MoveCheck(p) PROVE Inv'
<1> USE FleetNudgeAssumption DEF MoveCheck, InTime, Before, Limit, Return, local, Goto
<1>e. pc[p] # "idle" => Ep(p) \in Episodes
    BY DEF Inv, Local, HasUnit, Ep, Episodes, TypeOK
<1>0. \A q \in Procs : (q # p \/ pc[p] # "idle" => Ep(q)' = Ep(q)) /\ Old(Ep(q))' = Old(Ep(q)')
    BY DEF Ep, Old, Inv, TypeOK
<1>t. \A e \in Episodes : terminal'[e] = terminal[e] \/ (terminal'[e] = None /\ Old(e))
    BY PrunedOld DEF Inv, TypeOK, Local, Timely
<1>1. ASSUME NEW q \in Procs PROVE Local(q)'
    <2>1. HasUnit(q)' /\ Timely(q)' /\ Owned(q)' /\ LateInspect(q)'
        BY <1>0 DEF Inv, TypeOK, Local, HasUnit, Timely, Running, Owned, Section,
           LateInspect, MoveFrom, Moving, Old, Hard, Dispatch
    <2>2. Ep(q) \in Episodes \/ pc[q] \in {"idle", "next", "dead"}
        BY DEF Inv, TypeOK, Local, HasUnit, Ep, Episodes
    <2>3. Creating(q)' /\ MoveFrom(q)'
        BY <1>0, <1>t, <2>2 DEF Inv, TypeOK, Local, Creating, MoveFrom, Moving
    <2>4. MoveTo(q)'
        BY <1>0, <1>t, <2>2 DEF Inv, TypeOK, Local, MoveTo, Old
    <2>5. Unmarked(q)'
        BY <1>0 DEF Inv, TypeOK, Local, Unmarked, BeforeMark, MoveFrom, Moving
    <2>6. ArmedOnce(q)'
        BY <1>0, <1>t, <2>2 DEF Inv, TypeOK, Local, ArmedOnce, Armed, Recorded, Old
    <2> QED
        BY <2>1, <2>3, <2>4, <2>5, <2>6 DEF Local
<1>2. ClaimedFresh'
    BY <1>e, <1>t, FleetNudgeAssumption DEF Inv, TypeOK, ClaimedFresh, Local, Creating,
       MoveFrom, Moving
<1>3. OneArmed'
    BY <1>0, <1>e DEF Inv, TypeOK, OneArmed, Armed, Local, ArmedOnce, Recorded, Timely,
       Running, LateInspect, Unmarked, BeforeMark, ClaimedFresh, Dispatch, Hard
<1>4. SentOnce'
    BY <1>e, <1>t, FleetNudgeAssumption DEF Inv, TypeOK, SentOnce, Recorded, Old, Local,
       ArmedOnce, Armed, Creating, MoveFrom, MoveTo, Moving, Timely, Running
<1> QED
    BY <1>1, <1>2, <1>3, <1>4 DEF Inv

(* An acquisition leaves an attempt and its record alone. *)
LEMMA AcquireInv == ASSUME Inv, TypeOK', NEW p \in Procs, Acquire(p) PROVE Inv'
<1>e. Ep(p) \in Episodes
    BY FleetNudgeAssumption DEF Inv, Local, HasUnit, Ep, Episodes, TypeOK, Acquire, InTime
<1>f. /\ UNCHANGED <<clock, terminal, sends, stray, mutex, tick, unit, dl, op>>
      /\ pc[p] = "body" /\ op[p] = "acquire"
      /\ \A q \in Procs \ {p} : pc'[q] = pc[q] /\ ret'[q] = ret[q]
    BY DEF Inv, TypeOK, Acquire, InTime, Return, Goto, local
<1>p. \/ /\ phase' = [phase EXCEPT ![Ep(p)] = "none"]
         /\ holder' = [holder EXCEPT ![Ep(p)] = None]
         /\ phase[Ep(p)] # "SEND_ATTEMPTED" /\ terminal[Ep(p)] = None /\ pc'[p] = "create"
      \/ /\ phase' = phase /\ holder' = holder
         /\ phase[Ep(p)] = "SEND_ATTEMPTED" /\ pc'[p] = "moveCheck"
      \/ phase' = phase /\ holder' = holder /\ pc'[p] = "exit" /\ ret'[p] = "fail"
    BY DEF Inv, TypeOK, Acquire, Unlink, Claimable, Return, Goto
<1>0. \A q \in Procs : Ep(q)' = Ep(q) /\ Old(Ep(q))' = Old(Ep(q))
    BY <1>f DEF Ep, Old
<1>h. \A x \in Episodes : phase'[x] = "SEND_ATTEMPTED" <=> phase[x] = "SEND_ATTEMPTED"
    BY <1>e, <1>p DEF Inv, TypeOK
<1>k. \A x \in Episodes : phase'[x] = "SEND_ATTEMPTED" => holder'[x] = holder[x]
    BY <1>e, <1>p DEF Inv, TypeOK
<1>u. \A q \in Procs : Ep(q) \in Episodes \/ pc[q] \in {"idle", "next", "dead"}
    BY DEF Inv, TypeOK, Local, HasUnit, Ep, Episodes
<1>1. ASSUME NEW q \in Procs PROVE Local(q)'
    <2>1. HasUnit(q)' /\ Timely(q)' /\ Owned(q)' /\ LateInspect(q)'
        BY <1>0, <1>f, <1>p DEF Inv, TypeOK, Local, HasUnit, Timely, Running, Owned,
           Section, LateInspect, Hard, Dispatch
    <2>2. Creating(q)' /\ MoveFrom(q)'
        <3>1. CASE q = p
            BY <1>0, <1>e, <1>f, <1>p, <3>1 DEF Inv, TypeOK, Creating, MoveFrom, Moving
        <3>2. CASE q # p
            <4>1. pc'[q] = pc[q] /\ op'[q] = op[q] /\ terminal'[Ep(q)] = terminal[Ep(q)]
                BY <1>f, <3>2
            <4>2. Ep(q) \in Episodes =>
                    (phase'[Ep(q)] = "SEND_ATTEMPTED" <=> phase[Ep(q)] = "SEND_ATTEMPTED")
                BY <1>h
            <4>3. Creating(q) /\ MoveFrom(q)
                BY DEF Inv, Local
            <4> QED
                BY <1>0, <1>u, <4>1, <4>2, <4>3 DEF Creating, MoveFrom, Moving
        <3> QED
            BY <3>1, <3>2
    <2>3. MoveTo(q)'
        BY <1>0, <1>f, <1>p DEF Inv, Local, MoveTo
    <2>4. Unmarked(q)'
        <3>1. BeforeMark(q)' => BeforeMark(q)
            BY <1>f, <1>p DEF BeforeMark, Inv, TypeOK
        <3>2. BeforeMark(q) => Ep(q) \in Episodes
            <4>1. BeforeMark(q) => pc[q] \notin {"idle", "next", "dead"}
                BY DEF BeforeMark
            <4> QED
                BY <4>1, <1>u
        <3> QED
            BY <1>0, <1>h, <1>k, <3>1, <3>2 DEF Inv, Local, Unmarked
    <2>5. ArmedOnce(q)'
        BY <1>0, <1>f, <1>h, <1>p, <1>u DEF Inv, Local, ArmedOnce, Armed, Recorded
    <2> QED
        BY <2>1, <2>2, <2>3, <2>4, <2>5 DEF Local
<1>2. ClaimedFresh'
    BY <1>f, <1>p, <1>e DEF Inv, TypeOK, ClaimedFresh
<1>3. OneArmed'
    BY <1>0, <1>f, <1>p DEF Inv, OneArmed, Armed
<1>4. SentOnce'
    BY <1>f, <1>p, <1>e DEF Inv, TypeOK, SentOnce, Recorded, Old
<1> QED
    BY <1>1, <1>2, <1>3, <1>4 DEF Inv

(* A claim is created only where no attempt is recorded. *)
LEMMA CreateInv == ASSUME Inv, TypeOK', NEW p \in Procs, Create(p) PROVE Inv'
<1> USE FleetNudgeAssumption DEF Create, InTime, local, Goto
<1>e. pc[p] # "idle" => Ep(p) \in Episodes
    BY DEF Inv, Local, HasUnit, Ep, Episodes, TypeOK
<1>0. \A q \in Procs : (q # p \/ pc[p] # "idle" => Ep(q)' = Ep(q)) /\ Old(Ep(q))' = Old(Ep(q)')
    BY DEF Ep, Old, Inv, TypeOK
<1>1. ASSUME NEW q \in Procs PROVE Local(q)'
    BY <1>0, <1>e, FleetNudgeAssumption DEF Inv, TypeOK, Local, HasUnit, Timely, Owned,
       Creating, MoveFrom, MoveTo, Unmarked, LateInspect, ArmedOnce, Section, Moving,
       Running, Armed, BeforeMark, Recorded, Old, ClaimedFresh, OneArmed, SentOnce,
       Dispatch, Hard
<1>2. ClaimedFresh'
    BY <1>e, FleetNudgeAssumption DEF Inv, TypeOK, ClaimedFresh, Local, Creating, MoveFrom,
       Moving
<1>3. OneArmed'
    BY <1>0, <1>e DEF Inv, TypeOK, OneArmed, Armed, Local, ArmedOnce, Recorded, Timely,
       Running, LateInspect, Unmarked, BeforeMark, ClaimedFresh, Dispatch, Hard
<1>4. SentOnce'
    BY <1>e, FleetNudgeAssumption DEF Inv, TypeOK, SentOnce, Recorded, Old, Local,
       ArmedOnce, Armed, Creating, MoveFrom, MoveTo, Moving, Timely, Running
<1> QED
    BY <1>1, <1>2, <1>3, <1>4 DEF Inv

(* A filled claim belongs to an episode without a terminal record. *)
LEMMA FillInv == ASSUME Inv, TypeOK', NEW p \in Procs, Fill(p) PROVE Inv'
<1> USE FleetNudgeAssumption DEF Fill, InTime, Return, local, Goto
<1>e. pc[p] # "idle" => Ep(p) \in Episodes
    BY DEF Inv, Local, HasUnit, Ep, Episodes, TypeOK
<1>0. \A q \in Procs : (q # p \/ pc[p] # "idle" => Ep(q)' = Ep(q)) /\ Old(Ep(q))' = Old(Ep(q)')
    BY DEF Ep, Old, Inv, TypeOK
<1>1. ASSUME NEW q \in Procs PROVE Local(q)'
    BY <1>0, <1>e, FleetNudgeAssumption DEF Inv, TypeOK, Local, HasUnit, Timely, Owned,
       Creating, MoveFrom, MoveTo, Unmarked, LateInspect, ArmedOnce, Section, Moving,
       Running, Armed, BeforeMark, Recorded, Old, ClaimedFresh, OneArmed, SentOnce,
       Dispatch, Hard
<1>2. ClaimedFresh'
    BY <1>e, FleetNudgeAssumption DEF Inv, TypeOK, ClaimedFresh, Local, Creating, MoveFrom,
       Moving
<1>3. OneArmed'
    BY <1>0, <1>e DEF Inv, TypeOK, OneArmed, Armed, Local, ArmedOnce, Recorded, Timely,
       Running, LateInspect, Unmarked, BeforeMark, ClaimedFresh, Dispatch, Hard
<1>4. SentOnce'
    BY <1>e, FleetNudgeAssumption DEF Inv, TypeOK, SentOnce, Recorded, Old, Local,
       ArmedOnce, Armed, Creating, MoveFrom, MoveTo, Moving, Timely, Running
<1> QED
    BY <1>1, <1>2, <1>3, <1>4 DEF Inv

(* Marking arms a process that is alone with its unattempted episode. *)
LEMMA MarkInv == ASSUME Inv, TypeOK', NEW p \in Procs, Mark(p) PROVE Inv'
<1> USE FleetNudgeAssumption DEF Mark, InTime, Before, Limit, Return, Markable, markResult, Own, local, Goto
<1>e. pc[p] # "idle" => Ep(p) \in Episodes
    BY DEF Inv, Local, HasUnit, Ep, Episodes, TypeOK
<1>0. \A q \in Procs : (q # p \/ pc[p] # "idle" => Ep(q)' = Ep(q)) /\ Old(Ep(q))' = Old(Ep(q)')
    BY DEF Ep, Old, Inv, TypeOK
<1>1. ASSUME NEW q \in Procs PROVE Local(q)'
    BY <1>0, <1>e, FleetNudgeAssumption DEF Inv, TypeOK, Local, HasUnit, Timely, Owned,
       Creating, MoveFrom, MoveTo, Unmarked, LateInspect, ArmedOnce, Section, Moving,
       Running, Armed, BeforeMark, Recorded, Old, ClaimedFresh, OneArmed, SentOnce,
       Dispatch, Hard
<1>2. ClaimedFresh'
    BY <1>e, FleetNudgeAssumption DEF Inv, TypeOK, ClaimedFresh, Local, Creating, MoveFrom,
       Moving
<1>3. OneArmed'
    BY SMTT(30), <1>0, <1>e DEF Inv, TypeOK, OneArmed, Armed, Local, ArmedOnce, Recorded, Timely,
       Running, LateInspect, Unmarked, BeforeMark, ClaimedFresh, Dispatch, Hard
<1>4. SentOnce'
    BY <1>e, FleetNudgeAssumption DEF Inv, TypeOK, SentOnce, Recorded, Old, Local,
       ArmedOnce, Armed, Creating, MoveFrom, MoveTo, Moving, Timely, Running
<1> QED
    BY <1>1, <1>2, <1>3, <1>4 DEF Inv

(* Only an unattempted claim is released. *)
LEMMA ReleaseInv == ASSUME Inv, TypeOK', NEW p \in Procs, Release(p) PROVE Inv'
<1> USE FleetNudgeAssumption DEF Release, Unlink, InTime, Return, Own, local, Goto
<1>e. pc[p] # "idle" => Ep(p) \in Episodes
    BY DEF Inv, Local, HasUnit, Ep, Episodes, TypeOK
<1>0. \A q \in Procs : (q # p \/ pc[p] # "idle" => Ep(q)' = Ep(q)) /\ Old(Ep(q))' = Old(Ep(q)')
    BY DEF Ep, Old, Inv, TypeOK
<1>p. \A x \in Episodes :
          /\ phase'[x] = phase[x] \/ (phase[x] = "CLAIMED" /\ phase'[x] = "none")
          /\ phase'[x] = "SEND_ATTEMPTED" => holder'[x] = holder[x]
    BY <1>e DEF Inv, TypeOK
<1>u. \A q \in Procs : Ep(q) \in Episodes \/ pc[q] \in {"idle", "next", "dead"}
    BY DEF Inv, TypeOK, Local, HasUnit, Ep, Episodes
<1>1. ASSUME NEW q \in Procs PROVE Local(q)'
    <2>1. HasUnit(q)' /\ Timely(q)' /\ Owned(q)' /\ LateInspect(q)'
        BY <1>0 DEF Inv, TypeOK, Local, HasUnit, Timely, Running, Owned, Section,
           LateInspect, Hard, Dispatch
    <2>2. Creating(q)' /\ MoveFrom(q)' /\ MoveTo(q)'
        BY <1>0, <1>p, <1>u DEF Inv, TypeOK, Local, Creating, MoveFrom, MoveTo, Moving
    <2>3. Unmarked(q)'
        <3>1. BeforeMark(q)' => BeforeMark(q) /\ Ep(q) \in Episodes
            BY <1>u DEF Inv, TypeOK, BeforeMark
        <3> QED
            BY <1>0, <1>p, <3>1 DEF Inv, Local, Unmarked
    <2>4. ArmedOnce(q)'
        BY <1>0, <1>p, <1>u DEF Inv, TypeOK, Local, ArmedOnce, Armed, Recorded
    <2> QED
        BY <2>1, <2>2, <2>3, <2>4 DEF Local
<1>2. ClaimedFresh'
    BY <1>e, FleetNudgeAssumption DEF Inv, TypeOK, ClaimedFresh, Local, Creating, MoveFrom,
       Moving
<1>3. OneArmed'
    BY <1>0, <1>e DEF Inv, TypeOK, OneArmed, Armed, Local, ArmedOnce, Recorded, Timely,
       Running, LateInspect, Unmarked, BeforeMark, ClaimedFresh, Dispatch, Hard
<1>4. SentOnce'
    BY <1>e, FleetNudgeAssumption DEF Inv, TypeOK, SentOnce, Recorded, Old, Local,
       ArmedOnce, Armed, Creating, MoveFrom, MoveTo, Moving, Timely, Running
<1> QED
    BY <1>1, <1>2, <1>3, <1>4 DEF Inv

(* The claim goes only when the terminal record is there. *)
LEMMA MoveUnlinkInv == ASSUME Inv, TypeOK', NEW p \in Procs, MoveUnlink(p) PROVE Inv'
<1> USE FleetNudgeAssumption DEF MoveUnlink, Unlink, InTime, Return, local, Goto
<1>e. pc[p] # "idle" => Ep(p) \in Episodes
    BY DEF Inv, Local, HasUnit, Ep, Episodes, TypeOK
<1>0. \A q \in Procs : (q # p \/ pc[p] # "idle" => Ep(q)' = Ep(q)) /\ Old(Ep(q))' = Old(Ep(q)')
    BY DEF Ep, Old, Inv, TypeOK
<1>1. ASSUME NEW q \in Procs PROVE Local(q)'
    BY <1>0, <1>e, FleetNudgeAssumption DEF Inv, TypeOK, Local, HasUnit, Timely, Owned,
       Creating, MoveFrom, MoveTo, Unmarked, LateInspect, ArmedOnce, Section, Moving,
       Running, Armed, BeforeMark, Recorded, Old, ClaimedFresh, OneArmed, SentOnce,
       Dispatch, Hard
<1>2. ClaimedFresh'
    BY <1>e, FleetNudgeAssumption DEF Inv, TypeOK, ClaimedFresh, Local, Creating, MoveFrom,
       Moving
<1>3. OneArmed'
    BY <1>0, <1>e DEF Inv, TypeOK, OneArmed, Armed, Local, ArmedOnce, Recorded, Timely,
       Running, LateInspect, Unmarked, BeforeMark, ClaimedFresh, Dispatch, Hard
<1>4. SentOnce'
    BY <1>e, FleetNudgeAssumption DEF Inv, TypeOK, SentOnce, Recorded, Old, Local,
       ArmedOnce, Armed, Creating, MoveFrom, MoveTo, Moving, Timely, Running
<1> QED
    BY <1>1, <1>2, <1>3, <1>4 DEF Inv

(* From here on the episode has a terminal record. *)
LEMMA MoveCreateInv == ASSUME Inv, TypeOK', NEW p \in Procs, MoveCreate(p) PROVE Inv'
<1> USE FleetNudgeAssumption DEF MoveCreate, InTime, local, Goto
<1>e. pc[p] # "idle" => Ep(p) \in Episodes
    BY DEF Inv, Local, HasUnit, Ep, Episodes, TypeOK
<1>0. \A q \in Procs : (q # p \/ pc[p] # "idle" => Ep(q)' = Ep(q)) /\ Old(Ep(q))' = Old(Ep(q)')
    BY DEF Ep, Old, Inv, TypeOK
<1>1. ASSUME NEW q \in Procs PROVE Local(q)'
    BY <1>0, <1>e, FleetNudgeAssumption DEF Inv, TypeOK, Local, HasUnit, Timely, Owned,
       Creating, MoveFrom, MoveTo, Unmarked, LateInspect, ArmedOnce, Section, Moving,
       Running, Armed, BeforeMark, Recorded, Old, ClaimedFresh, OneArmed, SentOnce,
       Dispatch, Hard
<1>2. ClaimedFresh'
    BY <1>e, FleetNudgeAssumption DEF Inv, TypeOK, ClaimedFresh, Local, Creating, MoveFrom,
       Moving
<1>3. OneArmed'
    BY <1>0, <1>e DEF Inv, TypeOK, OneArmed, Armed, Local, ArmedOnce, Recorded, Timely,
       Running, LateInspect, Unmarked, BeforeMark, ClaimedFresh, Dispatch, Hard
<1>4. SentOnce'
    BY <1>e, FleetNudgeAssumption DEF Inv, TypeOK, SentOnce, Recorded, Old, Local,
       ArmedOnce, Armed, Creating, MoveFrom, MoveTo, Moving, Timely, Running
<1> QED
    BY <1>1, <1>2, <1>3, <1>4 DEF Inv

(* The terminal record gets its verdict. *)
LEMMA MoveWriteInv == ASSUME Inv, TypeOK', NEW p \in Procs, MoveWrite(p) PROVE Inv'
<1> USE FleetNudgeAssumption DEF MoveWrite, InTime, claimPhase, local, Goto
<1>e. pc[p] # "idle" => Ep(p) \in Episodes
    BY DEF Inv, Local, HasUnit, Ep, Episodes, TypeOK
<1>0. \A q \in Procs : (q # p \/ pc[p] # "idle" => Ep(q)' = Ep(q)) /\ Old(Ep(q))' = Old(Ep(q)')
    BY DEF Ep, Old, Inv, TypeOK
<1>1. ASSUME NEW q \in Procs PROVE Local(q)'
    BY <1>0, <1>e, FleetNudgeAssumption DEF Inv, TypeOK, Local, HasUnit, Timely, Owned,
       Creating, MoveFrom, MoveTo, Unmarked, LateInspect, ArmedOnce, Section, Moving,
       Running, Armed, BeforeMark, Recorded, Old, ClaimedFresh, OneArmed, SentOnce,
       Dispatch, Hard
<1>2. ClaimedFresh'
    BY <1>e, FleetNudgeAssumption DEF Inv, TypeOK, ClaimedFresh, Local, Creating, MoveFrom,
       Moving
<1>3. OneArmed'
    BY <1>0, <1>e DEF Inv, TypeOK, OneArmed, Armed, Local, ArmedOnce, Recorded, Timely,
       Running, LateInspect, Unmarked, BeforeMark, ClaimedFresh, Dispatch, Hard
<1>4. SentOnce'
    BY <1>e, FleetNudgeAssumption DEF Inv, TypeOK, SentOnce, Recorded, Old, Local,
       ArmedOnce, Armed, Creating, MoveFrom, MoveTo, Moving, Timely, Running
<1> QED
    BY <1>1, <1>2, <1>3, <1>4 DEF Inv

(* A submission disarms the process. *)
LEMMA SubmitInv == ASSUME Inv, TypeOK', NEW p \in Procs, Submit(p) PROVE Inv'
<1> USE FleetNudgeAssumption DEF Submit, store, local, Goto
<1>e. pc[p] # "idle" => Ep(p) \in Episodes
    BY DEF Inv, Local, HasUnit, Ep, Episodes, TypeOK
<1>0. \A q \in Procs : (q # p \/ pc[p] # "idle" => Ep(q)' = Ep(q)) /\ Old(Ep(q))' = Old(Ep(q)')
    BY DEF Ep, Old, Inv, TypeOK
<1>1. ASSUME NEW q \in Procs PROVE Local(q)'
    BY <1>0, <1>e, FleetNudgeAssumption DEF Inv, TypeOK, Local, HasUnit, Timely, Owned,
       Creating, MoveFrom, MoveTo, Unmarked, LateInspect, ArmedOnce, Section, Moving,
       Running, Armed, BeforeMark, Recorded, Old, ClaimedFresh, OneArmed, SentOnce,
       Dispatch, Hard
<1>2. ClaimedFresh'
    BY <1>e, FleetNudgeAssumption DEF Inv, TypeOK, ClaimedFresh, Local, Creating, MoveFrom,
       Moving
<1>3. OneArmed'
    BY <1>0, <1>e DEF Inv, TypeOK, OneArmed, Armed, Local, ArmedOnce, Recorded, Timely,
       Running, LateInspect, Unmarked, BeforeMark, ClaimedFresh, Dispatch, Hard
<1>4. SentOnce'
    BY <1>e, FleetNudgeAssumption DEF Inv, TypeOK, SentOnce, Recorded, Old, Local,
       ArmedOnce, Armed, Creating, MoveFrom, MoveTo, Moving, Timely, Running
<1> QED
    BY <1>1, <1>2, <1>3, <1>4 DEF Inv

(* A stray call that is carried out is none any more. *)
LEMMA SubmitStrayInv == ASSUME Inv, TypeOK', NEW x \in Episodes, SubmitStray(x) PROVE Inv'
<1> USE DEF SubmitStray, store, local
<1>1. sends[x] = 0 /\ stray[x] = 1 /\ Recorded(x)
    BY DEF Inv, SentOnce
<1>2. \A e \in Episodes : /\ sends'[e] = IF e = x THEN 1 ELSE sends[e]
                          /\ stray'[e] = IF e = x THEN 0 ELSE stray[e]
    <2>1. /\ sends' = [sends EXCEPT ![x] = sends[x] + 1] /\ sends \in [Episodes -> Nat]
          /\ stray' = [stray EXCEPT ![x] = stray[x] - 1] /\ stray \in [Episodes -> Nat]
        BY DEF Inv, TypeOK
    <2> QED
        BY <1>1, <2>1
<1>3. ASSUME NEW q \in Procs PROVE Local(q)'
    <2>1. HasUnit(q)' /\ Timely(q)' /\ Owned(q)' /\ Creating(q)' /\ MoveFrom(q)'
          /\ MoveTo(q)' /\ Unmarked(q)' /\ LateInspect(q)'
        BY DEF Inv, Local, HasUnit, Timely, Owned, Creating, MoveFrom, MoveTo, Unmarked,
           LateInspect, Running, BeforeMark, Ep, Old
    <2>2. ArmedOnce(q)'
        <3> SUFFICES ASSUME Armed(q)' PROVE ArmedOnce(q)'
            BY DEF ArmedOnce
        <3>1. Armed(q) /\ ArmedOnce(q) /\ Ep(q)' = Ep(q)
            BY DEF Armed, Inv, Local, Ep
        <3>2. Ep(q) \in Episodes
            BY <3>1 DEF Inv, TypeOK, Armed, Local, HasUnit, Ep, Episodes
        <3>3. Ep(q) # x
            BY <1>1, <3>1 DEF ArmedOnce
        <3> QED
            BY <1>2, <3>1, <3>2, <3>3 DEF ArmedOnce, Recorded, Old
    <2> QED
        BY <2>1, <2>2 DEF Local
<1>4. ClaimedFresh' /\ OneArmed'
    BY DEF Inv, ClaimedFresh, OneArmed, Armed, Ep
<1>5. SentOnce'
    BY <1>1, <1>2 DEF Inv, SentOnce, Recorded, Old
<1> QED
    BY <1>3, <1>4, <1>5 DEF Inv

(* A run starts with nothing armed, and its pruning removes only old records. *)
LEMMA StartTickInv == ASSUME Inv, TypeOK', NEW p \in Procs, StartTick(p) PROVE Inv'
<1> USE FleetNudgeAssumption DEF StartTick, Goto
<1>e. pc[p] # "idle" => Ep(p) \in Episodes
    BY DEF Inv, Local, HasUnit, Ep, Episodes, TypeOK
<1>0. \A q \in Procs : (q # p \/ pc[p] # "idle" => Ep(q)' = Ep(q)) /\ Old(Ep(q))' = Old(Ep(q)')
    BY DEF Ep, Old, Inv, TypeOK
<1>t. \A e \in Episodes : terminal'[e] = terminal[e] \/ (terminal'[e] = None /\ Old(e))
    BY PrunedOld DEF Inv, TypeOK, Local, Timely
<1>1. ASSUME NEW q \in Procs PROVE Local(q)'
    <2>0. tick'[p] \in Nat /\ clock \in Nat /\ clock' = clock /\ tick'[p] <= clock /\ clock < tick'[p] + Retention /\ Ep(p)'[1] = tick'[p]
        BY DEF Inv, TypeOK, Ep, Ticks
    <2>1. HasUnit(q)' /\ Owned(q)' /\ LateInspect(q)'
        BY <1>0 DEF Inv, TypeOK, Local, HasUnit, Owned, Section, LateInspect, Dispatch
    <2>a. Timely(q)'
        <3>1. CASE q = p
            BY <2>0, <3>1 DEF Timely, Old
        <3>2. CASE q # p
            BY <1>0, <3>2 DEF Inv, TypeOK, Local, Timely, Running
        <3> QED
            BY <3>1, <3>2
    <2>2. Ep(q) \in Episodes \/ pc[q] \in {"idle", "next", "dead"}
        BY DEF Inv, TypeOK, Local, HasUnit, Ep, Episodes
    <2>3. Creating(q)' /\ MoveFrom(q)'
        BY <1>0, <1>t, <2>2 DEF Inv, TypeOK, Local, Creating, MoveFrom, Moving
    <2>4. MoveTo(q)'
        BY <1>0, <1>t, <2>2 DEF Inv, TypeOK, Local, MoveTo, Old
    <2>5. Unmarked(q)'
        BY <1>0 DEF Inv, TypeOK, Local, Unmarked, BeforeMark
    <2>6. ArmedOnce(q)'
        BY <1>0, <1>t, <2>2 DEF Inv, TypeOK, Local, ArmedOnce, Armed, Recorded, Old
    <2> QED
        BY <2>1, <2>a, <2>3, <2>4, <2>5, <2>6 DEF Local
<1>2. ClaimedFresh'
    BY <1>e, <1>t, FleetNudgeAssumption DEF Inv, TypeOK, ClaimedFresh, Local, Creating,
       MoveFrom, Moving
<1>3. OneArmed'
    BY <1>0, <1>e DEF Inv, TypeOK, OneArmed, Armed, Local, ArmedOnce, Recorded, Timely,
       Running, LateInspect, Unmarked, BeforeMark, ClaimedFresh, Dispatch, Hard
<1>4. SentOnce'
    BY <1>e, <1>t, FleetNudgeAssumption DEF Inv, TypeOK, SentOnce, Recorded, Old, Local,
       ArmedOnce, Armed, Creating, MoveFrom, MoveTo, Moving, Timely, Running
<1> QED
    BY <1>1, <1>2, <1>3, <1>4 DEF Inv

(* A lease that runs out changes nothing the invariant is about. *)
LEMMA LeaseExpiresInv == ASSUME Inv, TypeOK', NEW x \in Episodes, LeaseExpires(x) PROVE Inv'
<1> USE DEF LeaseExpires, local
<1>1. \A q \in Procs : Local(q)'
    BY DEF Inv, Local, HasUnit, Timely, Owned, Creating, MoveFrom, MoveTo, Unmarked,
       LateInspect, ArmedOnce, Running, Section, Moving, Armed, BeforeMark, Recorded, Ep, Old
<1>2. ClaimedFresh' /\ OneArmed' /\ SentOnce'
    BY DEF Inv, ClaimedFresh, OneArmed, SentOnce, Armed, Recorded, Ep, Old
<1> QED
    BY <1>1, <1>2 DEF Inv

(* A new tick makes episodes old only once their runs are past all deadlines. *)
LEMMA NextTickInv == ASSUME Inv, TypeOK', NextTick PROVE Inv'
<1> USE FleetNudgeAssumption DEF NextTick, store, local
<1>0. \A q \in Procs : Ep(q)' = Ep(q) /\ Ep(q)[1] = tick[q] /\ (Armed(q)' => Armed(q))
    BY DEF Inv, TypeOK, Armed, Ep, Dispatch, Hard
<1>1. \A e \in Episodes : Old(e) => Old(e)'
    BY DEF Inv, TypeOK, Old, Episodes, Ticks
<1>2. ASSUME NEW q \in Procs PROVE Local(q)'
    <2>1. Timely(q)'
        <3>1. Old(Ep(q))' <=> clock' >= tick[q] + Retention
            BY <1>0 DEF Old
        <3>2. tick[q] \in Nat /\ clock \in Nat /\ clock' = clock + 1 /\ tick'[q] = tick[q]
            BY DEF Inv, TypeOK, Ticks
        <3>3. Running(q)' /\ Old(Ep(q))' => dl'[q] = Hard
            BY <3>1 DEF Running
        <3> QED
            BY <3>2, <3>3 DEF Inv, Local, Timely
    <2>2. LateInspect(q)'
        BY DEF Inv, TypeOK, Local, LateInspect, Dispatch, Hard
    <2>3. HasUnit(q)' /\ Owned(q)'
        BY <1>0 DEF Inv, Local, HasUnit, Owned
    <2>5. Creating(q)' /\ MoveFrom(q)' /\ Unmarked(q)'
        BY <1>0 DEF Inv, Local, Creating, MoveFrom, Unmarked, BeforeMark
    <2>4. MoveTo(q)' /\ ArmedOnce(q)'
        <3>1. Ep(q) \in Episodes \/ pc[q] \in {"idle", "next", "dead"}
            BY DEF Inv, TypeOK, Local, HasUnit, Ep, Episodes
        <3> QED
            BY <1>0, <1>1, <3>1 DEF Inv, Local, MoveTo, ArmedOnce, Armed, Recorded
    <2> QED
        BY <2>1, <2>2, <2>3, <2>4, <2>5 DEF Local
<1>3. ClaimedFresh' /\ OneArmed' /\ SentOnce'
    BY <1>0, <1>1 DEF Inv, TypeOK, ClaimedFresh, OneArmed, SentOnce, Recorded
<1> QED
    BY <1>2, <1>3 DEF Inv

(* The invariant holds initially. *)
LEMMA InvInit == Init => Inv
<1> SUFFICES ASSUME Init PROVE Inv
    OBVIOUS
<1> USE FleetNudgeAssumption DEF Init
<1>1. \A p \in Procs : Local(p)
    BY DEF Local, HasUnit, Timely, Owned, Creating, MoveFrom, MoveTo, Unmarked, LateInspect,
       ArmedOnce, Running, Section, Moving, BeforeMark, Armed
<1>2. ClaimedFresh /\ OneArmed /\ SentOnce
    BY DEF ClaimedFresh, OneArmed, SentOnce, Armed
<1> QED
    BY <1>1, <1>2, TypeInit DEF Inv

(* Every step keeps it. *)
LEMMA InvStep == Inv /\ [Next]_vars => Inv'
<1> SUFFICES ASSUME Inv, [Next]_vars PROVE Inv'
    OBVIOUS
<1>1. TypeOK'
    BY TypeStep DEF Inv
<1>2. CASE UNCHANGED vars
    BY <1>2 DEF Inv, vars, TypeOK, Local, HasUnit, Timely, Owned, Creating, MoveFrom, MoveTo,
       Unmarked, LateInspect, ArmedOnce, Running, Section, Moving, BeforeMark, Armed, Recorded,
       Old, Ep, ClaimedFresh, OneArmed, SentOnce
<1>3. CASE Next
    BY <1>1, <1>3, NextTickInv, LeaseExpiresInv, SubmitStrayInv, StartTickInv, PickInv, EndTickInv,
       ValidateInv, EnterInv, GiveUpInv, ExitInv, ExpireInv, AcquireInv, CreateInv,
       FillInv, HashInv, MarkInv, InspectInv, ReleaseInv, FinalizeInv, MoveCheckInv,
       MoveCreateInv, MoveWriteInv, MoveUnlinkInv, AdmitJournalInv, GateInv,
       FinalizeJournalInv, SendInv, LateInv, SubmitInv, AnswerInv, CrashInv, TimeInv
       DEF Next, Run, Runtime
<1> QED
    BY <1>2, <1>3

(* The message of an episode is submitted at most once. *)
THEOREM OneShot == Spec => []AtMostOnce
<1>1. Inv => AtMostOnce
    BY DEF Inv, SentOnce, AtMostOnce
<1> QED
    BY <1>1, InvInit, InvStep, PTL DEF Spec

(* The attempt is recorded before the message can be submitted. *)
THEOREM RecordedFirst == Spec => []WriteAhead
<1>1. Inv => WriteAhead
    BY DEF Inv, SentOnce, Recorded, Old, WriteAhead
<1> QED
    BY <1>1, InvInit, InvStep, PTL DEF Spec

=============================================================================
