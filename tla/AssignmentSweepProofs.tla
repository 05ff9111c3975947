------------------------ MODULE AssignmentSweepProofs ------------------------
(***************************************************************************)
(* Theorems about the sweep and the terminal mail: what they do to the     *)
(* store is what the store allows, so that its theorems hold of them too;  *)
(* a run is told once of the end of a worker; and an assignment is retired *)
(* only when it should be.                                                 *)
(***************************************************************************)
EXTENDS AssignmentSweep, AssignmentStoreProofs

(* The sweep has the row of the assignment it is at.                       *)
Held == pc \notin {"idle", "next"} => Mine \in Row

SInv == Inv /\ SweepTypeOK /\ Held

(* The initial state satisfies the invariant.                              *)
LEMMA SweepInitInv == SweepInit => SInv
<1>1. SweepInit => Inv
  BY InitInv DEF SweepInit
<1>2. SweepInit => SweepTypeOK
  BY AssignmentStoreAssumption, AssignmentSweepAssumption
  DEF SweepInit, Init, SweepTypeOK, Workers, Observations, Controls, NotSending
<1> QED
  BY <1>1, <1>2 DEF SInv, SweepInit, Held

(* Every step leaves the store, or is the step of an actor on it.          *)
LEMMA StoreOf ==
  ASSUME SInv, SweepNext
  PROVE  UNCHANGED vars \/ \E a \in Actors : Step(a)
<1> USE AssignmentSweepAssumption
<1>1. CASE \/ BeginSweep \/ EndSweep \/ (\E o \in Observations : Observe(o)) \/ Check \/ AtBound
           \/ ConsumeBusy \/ SendMail \/ (\E answer \in Answers : MailAnswered(answer))
  BY <1>1 DEF BeginSweep, EndSweep, Observe, Check, AtBound, ConsumeBusy, SendMail, MailAnswered,
     Stay, vars
<1>2. CASE \/ Unresolved \/ CheckStale \/ ResetStale \/ AdvanceFails \/ ConsumeStale \/ RetireFails
           \/ RetainOrGiveUp \/ EndItem
  BY <1>2 DEF Unresolved, CheckStale, ResetStale, AdvanceFails, ConsumeStale, RetireFails,
     RetainOrGiveUp, EndItem, Drop, Stay, Step
<1>3. CASE \E r \in todo : Look(r)
  <2>1. PICK r \in todo : Look(r)
    BY <1>3
  <2>2. r.key \in Keys
    BY RowFields DEF SInv, SweepTypeOK
  <2> QED
    BY <2>1, <2>2 DEF Look, Stay, Step
<1>4. CASE Reset \/ Advance
  <2>1. 0 \in 0 .. Bound
    BY AssignmentStoreAssumption
  <2>2. Advance => Mine.ticks + 1 \in 0 .. Bound
    BY RowFields, AssignmentStoreAssumption DEF Advance, SInv, Held
  <2> QED
    BY <1>4, <2>1, <2>2 DEF Reset, Advance, Step
<1>5. CASE Consume \/ SendDuplicate \/ SendBusy \/ MailSettled \/ RetireRow
  BY <1>5 DEF Consume, SendDuplicate, SendBusy, MailSettled, RetireRow, Stay, Step
<1>6. CASE SweeperDies
  BY <1>6 DEF SweeperDies, Die, Step
<1>7. ASSUME NEW a \in Clients, ClientStep(a) PROVE UNCHANGED vars \/ Step(a)
  BY <1>7 DEF ClientStep, StoreStep, PublishStep, ResolveSend, ResolveAnswered, ResolveSettled,
     ClientDies, Die, Step
<1>8. CASE \E k \in Keys : WorkerMoves(k)
  BY <1>8 DEF WorkerMoves
<1> QED
  BY <1>1, <1>2, <1>3, <1>4, <1>5, <1>6, <1>7, <1>8 DEF SweepNext, SweepStep, Clients

(* What a step does to the ledger and its lock.                            *)
MailStep ==
    \/ /\ UNCHANGED <<ledger, told, sending>>
       /\ undone' = undone \/ \E k \in Keys : undone' = [undone EXCEPT ![k] = FALSE]
    \/ \E a \in Actors, k \in Keys : ClaimMail(a, k)
    \/ \E answer \in Answers : Submit(answer)
    \/ Settle
    \/ sending' = NotSending /\ UNCHANGED <<ledger, told, undone>>

(* Every step does one of these. *)
LEMMA MailOf == ASSUME SInv, SweepNext PROVE MailStep
<1> USE DEF MailStep
<1>1. CASE SendMail
  <2>1. Dispatch \in Keys
    BY <1>1, RowFields DEF SendMail, SInv, Held, Dispatch
  <2> QED
    BY <1>1, <2>1, AssignmentSweepAssumption DEF SendMail
<1>2. CASE (\E answer \in Answers : MailAnswered(answer)) \/ MailSettled
  BY <1>2 DEF MailAnswered, MailSettled
<1>3. CASE SweeperDies
  BY <1>3 DEF SweeperDies, Die, mailVars
<1>4. ASSUME NEW a \in Clients, ClientStep(a) PROVE MailStep
  BY <1>4 DEF ClientStep, StoreStep, PublishStep, ResolveSend, ResolveAnswered, ResolveSettled,
     ClientDies, Die, Clients, mailVars
<1>5. CASE \E k \in Keys : WorkerMoves(k)
  BY <1>5 DEF WorkerMoves, mailVars
<1>7. CASE Check
  <2>1. Dispatch \in Keys
    BY <1>7, RowFields DEF Check, SInv, Held, Dispatch
  <2> QED
    BY <1>7, <2>1 DEF Check
<1>6. CASE \/ BeginSweep \/ EndSweep \/ (\E r \in todo : Look(r)) \/ Unresolved \/ AtBound
           \/ (\E o \in Observations : Observe(o))
           \/ ConsumeBusy \/ CheckStale \/ ResetStale \/ AdvanceFails \/ ConsumeStale \/ RetireFails
           \/ RetainOrGiveUp \/ EndItem \/ Reset \/ Advance \/ Consume \/ SendDuplicate \/ SendBusy
           \/ RetireRow
  BY <1>6 DEF BeginSweep, EndSweep, Observe, AtBound, ConsumeBusy, Look, Unresolved,
     CheckStale, ResetStale, AdvanceFails, ConsumeStale, RetireFails, RetainOrGiveUp, EndItem,
     Reset, Advance, Consume, SendDuplicate, SendBusy, RetireRow, Drop, Stay, Outside, mailVars
<1> QED
  BY <1>1, <1>2, <1>3, <1>4, <1>5, <1>6, <1>7 DEF SweepNext, SweepStep

(* The types of the ledger and its lock. *)
MailTypeOK ==
    /\ ledger \in [Keys -> {"none", "pending", "sent"}]
    /\ told \in [Keys -> 0 .. 2]
    /\ sending \in [by : Actors, key : Keys, step : SendSteps] \cup {NotSending}
    /\ undone \in [Keys -> BOOLEAN]

(* Such a step keeps the types. *)
LEMMA MailTypeStep == ASSUME MailTypeOK, MailStep PROVE MailTypeOK'
<1> USE DEF MailTypeOK
<1>1. CASE /\ UNCHANGED <<ledger, told, sending>>
           /\ undone' = undone \/ \E k \in Keys : undone' = [undone EXCEPT ![k] = FALSE]
  BY <1>1 DEF mailVars
<1>2. CASE \E a \in Actors, k \in Keys : ClaimMail(a, k)
  BY <1>2 DEF ClaimMail, SendSteps
<1>3. CASE \E answer \in Answers : Submit(answer)
  <2>1. PICK answer \in Answers : Submit(answer)
    BY <1>3
  <2>2. sending \in [by : Actors, key : Keys, step : SendSteps] /\ answer \in SendSteps
    BY <2>1, AssignmentSweepAssumption DEF Submit, SendSteps
  <2>3. sending' \in [by : Actors, key : Keys, step : SendSteps]
    BY <2>1, <2>2 DEF Submit
  <2>4. told' \in [Keys -> 0 .. 2]
    BY <2>1, <2>2 DEF Submit
  <2> QED
    BY <2>1, <2>3, <2>4 DEF Submit
<1>4. CASE Settle
  BY <1>4 DEF Settle
<1>5. CASE sending' = NotSending /\ UNCHANGED <<ledger, told, undone>>
  BY <1>5
<1> QED
  BY <1>1, <1>2, <1>3, <1>4, <1>5 DEF MailStep

(* The observations, the list and the counts keep their types.             *)
LEMMA WorkTypeStep ==
  ASSUME SInv, SweepNext
  PROVE  /\ worker' \in [Keys -> Workers]
         /\ pc' \in Controls /\ todo' \subseteq Row /\ obs' \in Observations
         /\ dead' \in [Keys -> 0 .. Bound]
<1> USE DEF SInv, SweepTypeOK
<1>1. CASE SweepStep
  <2>1. worker' = worker
    BY <1>1 DEF SweepStep, BeginSweep, EndSweep, Observe, Check, AtBound, ConsumeBusy, Look, Unresolved,
       CheckStale, ResetStale, AdvanceFails, ConsumeStale, RetireFails, RetainOrGiveUp, EndItem,
       Reset, Advance, Consume, SendMail, SendDuplicate, SendBusy, MailAnswered, MailSettled, RetireRow,
       Drop, Stay, Outside
  <2>2. pc' \in Controls
    BY <1>1 DEF SweepStep, BeginSweep, EndSweep, Observe, Check, AtBound, ConsumeBusy, Look, Unresolved,
       CheckStale, ResetStale, AdvanceFails, ConsumeStale, RetireFails, RetainOrGiveUp, EndItem,
       Reset, Advance, Consume, SendMail, SendDuplicate, SendBusy, MailAnswered, MailSettled, RetireRow,
       Drop, Goto, Controls, sweepVars
  <2>3. todo' \subseteq Row
    <3>1. CASE BeginSweep
      BY <3>1, NoneApart DEF BeginSweep, Inv, TypeOK, Taken, Has
    <3> QED
      BY <1>1, <3>1 DEF SweepStep, EndSweep, Observe, Check, AtBound, ConsumeBusy, Look, Unresolved,
         CheckStale, ResetStale, AdvanceFails, ConsumeStale, RetireFails, RetainOrGiveUp, EndItem,
         Reset, Advance, Consume, SendMail, SendDuplicate, SendBusy, MailAnswered, MailSettled, RetireRow,
         Drop, Goto, sweepVars
  <2>4. obs' \in Observations
    BY <1>1 DEF SweepStep, BeginSweep, EndSweep, Observe, Check, AtBound, ConsumeBusy, Look, Unresolved,
       CheckStale, ResetStale, AdvanceFails, ConsumeStale, RetireFails, RetainOrGiveUp, EndItem,
       Reset, Advance, Consume, SendMail, SendDuplicate, SendBusy, MailAnswered, MailSettled, RetireRow,
       Drop, Goto, sweepVars
  <2>5. dead' \in [Keys -> 0 .. Bound]
    <3>1. CASE Check
      <4>1. dead' = [dead EXCEPT ![Dispatch] = IF obs = "active" THEN 0
                                               ELSE IF @ < Bound THEN @ + 1 ELSE @]
        BY <3>1 DEF Check
      <4>2. \A k \in Keys : dead'[k] \in 0 .. Bound
        BY <4>1, AssignmentStoreAssumption
      <4> QED
        BY <4>1, <4>2
    <3> QED
      BY <1>1, <3>1 DEF SweepStep, BeginSweep, EndSweep, Observe, AtBound, ConsumeBusy, Look, Unresolved,
         CheckStale, ResetStale, AdvanceFails, ConsumeStale, RetireFails, RetainOrGiveUp, EndItem,
         Reset, Advance, Consume, SendMail, SendDuplicate, SendBusy, MailAnswered, MailSettled, RetireRow,
         Drop, Goto, sweepVars
  <2> QED
    BY <2>1, <2>2, <2>3, <2>4, <2>5
<1>2. CASE SweeperDies
  BY <1>2 DEF SweeperDies, Die, Controls
<1>3. ASSUME NEW a \in Clients, ClientStep(a)
      PROVE  /\ worker' = worker /\ pc' = pc /\ todo' = todo /\ obs' = obs
             /\ dead' \in [Keys -> 0 .. Bound]
  <2>1. CASE \E k \in Keys, kind \in {"local", "remote"} : PublishStep(a, k, kind)
    BY <2>1, AssignmentStoreAssumption DEF PublishStep
  <2> QED
    BY <1>3, <2>1 DEF ClientStep, StoreStep, ResolveSend, ResolveAnswered, ResolveSettled,
       ClientDies, Die, sweepVars
<1>4. CASE \E k \in Keys : WorkerMoves(k)
  BY <1>4 DEF WorkerMoves, sweepVars
<1> QED
  BY <1>1, <1>2, <1>3, <1>4 DEF SweepNext

(* The places of the sweep, with what it holds of the store there.         *)
Phase(s) == CASE s \in {"idle", "next"} -> "idle"
              [] s \in {"send", "mail"} -> "fenced"
              [] OTHER -> "edit"

PhaseOK ==
    /\ stage[Sweeper] = Phase(pc)
    /\ (pc = "mail" <=> sending.by = Sweeper)
    /\ (pc = "mail" => sending.key = Dispatch)

(* A step of the sweep has the store where it should, with its assignment. *)
LEMMA SweepView ==
  ASSUME SInv, SweepStep
  PROVE  stage'[Sweeper] = Phase(pc') /\ Held'
<1> USE AssignmentSweepAssumption DEF Phase
<1>0. TypeOK /\ stage[Sweeper] = Phase(pc) /\ Held
  BY DEF SInv, Inv, SweepTypeOK
<1>1. CASE \/ BeginSweep \/ EndSweep \/ (\E o \in Observations : Observe(o)) \/ Check \/ AtBound
           \/ ConsumeBusy \/ SendMail \/ (\E answer \in Answers : MailAnswered(answer))
  <2>1. stage' = stage /\ seen' = seen
    BY <1>1 DEF BeginSweep, EndSweep, Observe, Check, AtBound, ConsumeBusy, SendMail, MailAnswered,
       Stay, vars
  <2>2. Phase(pc') = Phase(pc) /\ (pc' \notin {"idle", "next"} => pc \notin {"idle", "next"})
    BY <1>1, <1>0 DEF BeginSweep, EndSweep, Observe, Check, AtBound, ConsumeBusy, SendMail, MailAnswered,
       Goto, sweepVars
  <2> QED
    BY <1>0, <2>1, <2>2 DEF Held, Mine
<1>2. ASSUME Drop PROVE stage'[Sweeper] = Phase(pc') /\ Held'
  BY <1>0, <1>2, ViewOf DEF Drop, Fail, Done, Goto, Held
<1>3. CASE \/ Unresolved \/ CheckStale \/ ResetStale \/ AdvanceFails \/ ConsumeStale \/ RetireFails
           \/ EndItem
  BY <1>2, <1>3 DEF Unresolved, CheckStale, ResetStale, AdvanceFails, ConsumeStale, RetireFails, EndItem
<1>4. CASE RetainOrGiveUp
  BY <1>0, <1>2, <1>4 DEF RetainOrGiveUp, Stay, Goto, vars, Held, Mine
<1>5. CASE \E r \in todo : Look(r)
  <2>1. PICK r \in todo : Look(r)
    BY <1>5
  <2>2. CASE ReadRow(Sweeper, r.key) /\ pc' = "look"
    <3>1. rows[r.key] \in Row
      BY <2>2, RowFields DEF ReadRow, SInv, Inv, TypeOK, SweepTypeOK, Has
    <3>2. stage'[Sweeper] = "edit" /\ seen'[Sweeper] = rows[r.key]
      BY <1>0, <2>2, ViewOf DEF ReadRow
    <3> QED
      BY <2>2, <3>1, <3>2 DEF Held, Mine
  <2>3. CASE pc' = "next" /\ Stay
    BY <1>0, <2>1, <2>3 DEF Look, Stay, vars, Held
  <2> QED
    BY <2>1, <2>2, <2>3 DEF Look
<1>6. CASE Reset \/ Advance
  <2>1. PICK k \in 0 .. Bound : SetTicks(Sweeper, k)
    <3>1. 0 \in 0 .. Bound
      BY AssignmentStoreAssumption
    <3>2. Advance => Mine.ticks + 1 \in 0 .. Bound
      BY RowFields, AssignmentStoreAssumption DEF Advance, SInv, Held
    <3> QED
      BY <1>6, <3>1, <3>2 DEF Reset, Advance
  <2>2. EditedAt(Sweeper, Dispatch) /\ View(Sweeper, "edit", rows'[Dispatch], None, NoPointer)
    BY <1>0, <2>1, SetTicksDoes DEF Dispatch, Mine
  <2>3. stage'[Sweeper] = "edit" /\ seen'[Sweeper] \in Row
    BY <1>0, <2>2, ViewOf DEF EditedAt
  <2> QED
    BY <1>6, <2>3 DEF Reset, Advance, Goto, Held, Mine
<1>7. CASE Consume
  BY <1>0, <1>7, ViewOf DEF Consume, Enter, Goto, Stay, vars, Held, Mine
<1>8. CASE SendDuplicate \/ SendBusy \/ MailSettled
  <2>1. stage[Sweeper] = "fenced" /\ Mine \in Row /\ Leave(Sweeper)
    BY <1>0, <1>8 DEF SendDuplicate, SendBusy, MailSettled, Held
  <2>2. stage'[Sweeper] = "edit" /\ seen'[Sweeper] = seen[Sweeper]
    BY <1>0, <2>1, ViewOf DEF Leave, After
  <2> QED
    BY <1>8, <2>1, <2>2 DEF SendDuplicate, SendBusy, MailSettled, Goto, Held, Mine
<1>9. CASE RetireRow
  BY <1>0, <1>9, ViewOf DEF RetireRow, Retire, Done, Goto, Held
<1> QED
  BY <1>1, <1>3, <1>4, <1>5, <1>6, <1>7, <1>8, <1>9 DEF SweepStep

(* The ledger's lock is the sweep's while it waits for an answer.          *)
LEMMA SweepLock ==
  ASSUME SInv, SweepStep
  PROVE  (pc' = "mail" <=> sending'.by = Sweeper) /\ (pc' = "mail" => sending'.key = Dispatch')
<1> USE AssignmentSweepAssumption
<1>0. /\ pc = "mail" <=> sending.by = Sweeper
      /\ pc = "mail" => sending.key = Dispatch
      /\ None # Sweeper
  BY AssignmentStoreAssumption DEF SInv, SweepTypeOK
<1>1. CASE SendMail
  BY <1>0, <1>1 DEF SendMail, ClaimMail, Goto, vars, Dispatch, Mine
<1>2. CASE \E answer \in Answers : MailAnswered(answer)
  <2>1. PICK answer \in Answers : MailAnswered(answer)
    BY <1>2
  <2>2. sending \in [by : Actors, key : Keys, step : SendSteps]
    BY <2>1 DEF MailAnswered, Submit, SInv, SweepTypeOK
  <2>3. sending'.by = sending.by /\ sending'.key = sending.key
    BY <2>1, <2>2 DEF MailAnswered, Submit
  <2> QED
    BY <1>0, <2>1, <2>3 DEF MailAnswered, sweepVars, vars, Dispatch, Mine
<1>3. CASE MailSettled
  BY <1>0, <1>3 DEF MailSettled, Settle, NotSending, Goto
<1>4. CASE \/ BeginSweep \/ EndSweep \/ (\E r \in todo : Look(r)) \/ Unresolved \/ Check \/ AtBound
           \/ (\E o \in Observations : Observe(o))
           \/ ConsumeBusy \/ CheckStale \/ ResetStale \/ AdvanceFails \/ ConsumeStale \/ RetireFails
           \/ RetainOrGiveUp \/ EndItem \/ Reset \/ Advance \/ Consume \/ SendDuplicate \/ SendBusy
           \/ RetireRow
  <2>1. sending' = sending
    BY <1>4 DEF BeginSweep, EndSweep, Observe, Check, AtBound, ConsumeBusy, Look, Unresolved,
       CheckStale, ResetStale, AdvanceFails, ConsumeStale, RetireFails, RetainOrGiveUp, EndItem,
       Reset, Advance, Consume, SendDuplicate, SendBusy, RetireRow, Drop, Stay, Outside, mailVars
  <2>2. pc # "mail" /\ pc' # "mail"
    <3>1. Drop => pc' # "mail"
      BY DEF Drop, Goto
    <3> QED
      BY <1>4, <3>1 DEF BeginSweep, EndSweep, Observe, Check, AtBound, ConsumeBusy, Look, Unresolved,
         CheckStale, ResetStale, AdvanceFails, ConsumeStale, RetireFails, RetainOrGiveUp, EndItem,
         Reset, Advance, Consume, SendDuplicate, SendBusy, RetireRow, Goto
  <2> QED
    BY <1>0, <2>1, <2>2
<1> QED
  BY <1>1, <1>2, <1>3, <1>4 DEF SweepStep

(* Every step has the sweep where it should be.                            *)
LEMMA PhaseStep == ASSUME SInv, SweepNext PROVE PhaseOK' /\ Held'
<1> USE AssignmentSweepAssumption
<1>0. /\ pc = "mail" <=> sending.by = Sweeper
      /\ pc = "mail" => sending.key = Dispatch
      /\ stage[Sweeper] = Phase(pc)
      /\ TypeOK /\ Held /\ None # Sweeper
  BY AssignmentStoreAssumption DEF SInv, Inv, SweepTypeOK, Phase
<1>1. CASE SweepStep
  BY <1>1, SweepView, SweepLock DEF PhaseOK
<1>2. CASE SweeperDies
  <2>1. stage'[Sweeper] = "idle"
    BY <1>0, <1>2, ViewOf DEF SweeperDies, Die, Fail, Done, vars
  <2>2. sending'.by # Sweeper
    BY <1>0, <1>2 DEF SweeperDies, Die, NotSending
  <2> QED
    BY <1>2, <2>1, <2>2 DEF SweeperDies, PhaseOK, Phase, Held
<1>3. ASSUME NEW a \in Clients, ClientStep(a) PROVE PhaseOK' /\ Held'
  <2>1. pc' = pc
    BY <1>3 DEF ClientStep, StoreStep, PublishStep, ResolveSend, ResolveAnswered, ResolveSettled,
       ClientDies, sweepVars
  <2>2. UNCHANGED vars \/ Step(a)
    BY <1>3 DEF ClientStep, StoreStep, PublishStep, ResolveSend, ResolveAnswered, ResolveSettled,
       ClientDies, Die, Step
  <2>3. stage'[Sweeper] = stage[Sweeper] /\ seen'[Sweeper] = seen[Sweeper]
    BY <1>0, <2>2, SeenStep DEF vars, Clients
  <2>4. sending' = sending \/ (sending.by # Sweeper /\ sending'.by # Sweeper)
    <3>1. CASE \E k \in Keys : ResolveSend(a, k)
      BY <1>0, <3>1 DEF ResolveSend, ClaimMail, NotSending, Clients
    <3>2. CASE \E answer \in Answers : ResolveAnswered(a, answer)
      <4>1. PICK answer \in Answers : ResolveAnswered(a, answer)
        BY <3>2
      <4>2. sending \in [by : Actors, key : Keys, step : SendSteps] /\ sending.by # Sweeper
        BY <4>1 DEF ResolveAnswered, Submit, Clients, SInv, SweepTypeOK
      <4>3. sending'.by = sending.by
        BY <4>1, <4>2 DEF ResolveAnswered, Submit
      <4> QED
        BY <4>2, <4>3
    <3>3. CASE ResolveSettled(a)
      BY <1>0, <3>3 DEF ResolveSettled, Settle, NotSending, Clients
    <3>4. CASE ClientDies(a)
      BY <1>0, <3>4 DEF ClientDies, Die, NotSending, Clients
    <3> QED
      BY <1>3, <3>1, <3>2, <3>3, <3>4 DEF ClientStep, StoreStep, PublishStep, mailVars
  <2> QED
    BY <1>0, <2>1, <2>3, <2>4 DEF PhaseOK, Held, Mine, Dispatch
<1>4. CASE \E k \in Keys : WorkerMoves(k)
  BY <1>0, <1>4 DEF WorkerMoves, vars, sweepVars, mailVars, PhaseOK, Held, Mine, Dispatch
<1> QED
  BY <1>1, <1>2, <1>3, <1>4 DEF SweepNext

(* Every step keeps the invariant and is a step of the store.              *)
LEMMA SInvStep == SInv /\ [SweepNext]_allVars => SInv' /\ [Next]_vars
<1>1. ASSUME SInv, SweepNext PROVE SInv' /\ [Next]_vars
  <2>1. [Next]_vars
    BY <1>1, StoreOf DEF Next, Step
  <2>2. Inv'
    BY <1>1, <2>1, InvStep DEF SInv
  <2>3. MailTypeOK'
    BY <1>1, MailOf, MailTypeStep DEF SInv, SweepTypeOK, MailTypeOK
  <2> QED
    BY <1>1, <2>1, <2>2, <2>3, WorkTypeStep, PhaseStep DEF SInv, SweepTypeOK, MailTypeOK, PhaseOK, Phase
<1>2. ASSUME SInv, UNCHANGED allVars PROVE SInv' /\ [Next]_vars
  <2>1. UNCHANGED vars
    BY <1>2 DEF allVars
  <2>2. Inv'
    BY <1>2, <2>1, InvStep DEF SInv
  <2> QED
    BY <1>2, <2>1, <2>2 DEF SInv, SweepTypeOK, Held, allVars, vars, sweepVars, mailVars, Mine, Dispatch
<1> QED
  BY <1>1, <1>2

(* The invariant holds in every state, and every step is one of the store. *)
THEOREM SweepInvariance == SweepSpec => []SInv
  BY SweepInitInv, SInvStep, PTL DEF SweepSpec

(* The state of the sweep stays well formed: it has the assignment fence   *)
(* exactly while it sends a mail, and the ledger's lock exactly while it   *)
(* waits for the answer.                                                   *)
THEOREM SweepTypeCorrect == SweepSpec => []SweepTypeOK
  BY SweepInvariance, PTL DEF SInv

(* The sweep, and whoever shares the store and the mail with it, implement *)
(* the store: what is proved of AssignmentStore holds of them.             *)
THEOREM Implements == SweepSpec => StoreKept
<1>1. SweepInit => Init
  BY DEF SweepInit
<1> QED
  BY <1>1, SweepInitInv, SInvStep, PTL DEF SweepSpec, StoreKept, Spec
----------------------------------------------------------------------------
(* No answer is lost.                                                      *)

(* What the run was not told, and what a send in progress has done.        *)
MailInv ==
    /\ \A k \in Keys : told[k] <= 1
    /\ \A k \in Keys : ledger[k] = "none" => told[k] = 0
    /\ sending # NotSending =>
         /\ ledger[sending.key] # "none"
         /\ sending.step # "lost"
         /\ sending.step \in {"claimed", "refused"} => told[sending.key] = 0

(* A step of the mail keeps it. *)
LEMMA MailInvStep ==
  ASSUME "lost" \notin Answers, MailTypeOK, MailInv, MailStep
  PROVE  MailInv'
<1> USE DEF MailTypeOK, MailInv
<1>1. CASE /\ UNCHANGED <<ledger, told, sending>>
           /\ undone' = undone \/ \E k \in Keys : undone' = [undone EXCEPT ![k] = FALSE]
  BY <1>1 DEF mailVars
<1>2. CASE \E a \in Actors, k \in Keys : ClaimMail(a, k)
  BY <1>2 DEF ClaimMail, Recorded
<1>3. CASE \E answer \in Answers : Submit(answer)
  <2>1. PICK answer \in Answers : Submit(answer)
    BY <1>3
  <2>2. /\ sending \in [by : Actors, key : Keys, step : SendSteps]
        /\ answer \in {"ok", "refused"}
        /\ sending.step = "claimed" /\ told[sending.key] = 0
    BY <2>1, AssignmentSweepAssumption DEF Submit
  <2>3. sending'.key = sending.key /\ sending'.step = answer
    BY <2>1, <2>2 DEF Submit
  <2>4. IF answer = "refused" THEN told' = told ELSE told' = [told EXCEPT ![sending.key] = 1]
    BY <2>1, <2>2 DEF Submit
  <2>5. ledger' = ledger
    BY <2>1 DEF Submit
  <2>6. sending # NotSending /\ ledger[sending.key] # "none" /\ sending.key \in Keys
    <3>1. sending # NotSending
      BY <2>1 DEF Submit
    <3>2. sending.key \in Keys
      BY <2>2
    <3> QED
      BY <3>1, <3>2
  <2>7. CASE answer = "refused"
    BY <2>2, <2>3, <2>4, <2>5, <2>6, <2>7
  <2>8. CASE answer = "ok"
    <3>1. told' = [told EXCEPT ![sending.key] = 1]
      BY <2>4, <2>8
    <3> QED
      BY <2>2, <2>3, <2>5, <2>6, <2>8, <3>1
  <2> QED
    BY <2>2, <2>7, <2>8
<1>4. CASE Settle
  <2>0. sending \in [by : Actors, key : Keys, step : SendSteps] /\ sending # NotSending
    BY <1>4 DEF Settle
  <2>1. sending.step \in {"ok", "refused"} /\ sending.key \in Keys /\ told' = told
        /\ sending' = NotSending
    <3>1. sending.step \in {"claimed", "ok", "refused", "lost"} /\ sending.key \in Keys
      BY <2>0 DEF SendSteps
    <3>2. sending.step # "lost"
      BY <2>0
    <3>3. sending.step # "claimed" /\ told' = told /\ sending' = NotSending
      BY <1>4 DEF Settle
    <3> QED
      BY <3>1, <3>2, <3>3
  <2>2. CASE sending.step = "ok"
    BY <1>4, <2>0, <2>1, <2>2 DEF Settle
  <2>3. CASE sending.step = "refused"
    BY <1>4, <2>0, <2>1, <2>3 DEF Settle
  <2> QED
    BY <2>1, <2>2, <2>3
<1>5. CASE sending' = NotSending /\ UNCHANGED <<ledger, told, undone>>
  BY <1>5
<1> QED
  BY <1>1, <1>2, <1>3, <1>4, <1>5 DEF MailStep

(* The run is told at most once of the end of a dispatch, whoever resolves *)
(* its worker and whoever dies in a send, provided the runtime reports a   *)
(* message it took.                                                        *)
THEOREM ToldOnce == ASSUME "lost" \notin Answers PROVE SweepSpec => []MailOnce
<1>1. SweepInit => MailInv
  BY DEF SweepInit, MailInv
<1>2. SInv /\ MailInv /\ [SweepNext]_allVars => MailInv'
  <2>1. ASSUME SInv, MailInv, SweepNext PROVE MailInv'
    BY <2>1, MailOf, MailInvStep DEF SInv, SweepTypeOK, MailTypeOK
  <2>2. ASSUME MailInv, UNCHANGED allVars PROVE MailInv'
    BY <2>2 DEF MailInv, allVars, mailVars
  <2> QED
    BY <2>1, <2>2
<1>3. MailInv => MailOnce
  BY DEF MailInv, MailOnce
<1> QED
  BY <1>1, <1>2, <1>3, SweepInvariance, PTL DEF SweepSpec
----------------------------------------------------------------------------
(* Why an assignment is retired.                                           *)

(* The places after a dead observation. *)
AfterDead == {"advance", "consume", "send", "mail", "retire", "keep"}

(* A dead observation was made of the assignment the sweep is at, if it is *)
(* still there, and before a retirement the mail is on record, the bound   *)
(* is reached, or a client has just taken the mail off the record.         *)
Counted == pc \in AfterDead /\ Has(Dispatch) /\ rows[Dispatch].id = Mine.id => dead[Dispatch] >= 1
Settled == pc = "retire" => Recorded(Dispatch) \/ Mine.ticks >= Bound \/ undone[Dispatch]

JInv == Counted /\ Settled

(* A client that takes a mail off the record is noticed while the sweep    *)
(* retires the assignment.                                                 *)
LEMMA UndoneStep ==
  ASSUME SInv, NEW a \in Clients, ClientStep(a), NEW k \in Keys
  PROVE  /\ undone[k] => undone'[k]
         /\ Recorded(k) /\ pc = "retire" => Recorded(k)' \/ undone'[k]
<1>0. /\ undone \in [Keys -> BOOLEAN] /\ ledger \in [Keys -> {"none", "pending", "sent"}]
      /\ sending \in [by : Actors, key : Keys, step : SendSteps] \cup {NotSending}
  BY DEF SInv, SweepTypeOK
<1>1. CASE UNCHANGED <<ledger, undone>>
  BY <1>1 DEF Recorded
<1>2. CASE \E j \in Keys : ClaimMail(a, j)
  BY <1>0, <1>2 DEF ClaimMail, Recorded
<1>3. CASE Settle
  <2>0. sending.key \in Keys
    BY <1>0, <1>3 DEF Settle
  <2>1. CASE sending.step = "ok"
    <3>1. \E v \in {"sent", "pending"} : ledger' = [ledger EXCEPT ![sending.key] = v]
      BY <1>3, <2>1 DEF Settle
    <3>2. undone'[k] = undone[k]
      BY <1>0, <1>3, <2>0, <2>1 DEF Settle
    <3> QED
      BY <1>0, <2>0, <3>1, <3>2 DEF Recorded
  <2>2. CASE sending.step # "ok"
    <3>1. /\ ledger' = [ledger EXCEPT ![sending.key] = "none"]
          /\ undone' = [undone EXCEPT ![sending.key] = undone[sending.key] \/ pc = "retire"]
      BY <1>3, <2>2 DEF Settle
    <3> QED
      BY <1>0, <2>0, <3>1 DEF Recorded
  <2> QED
    BY <2>1, <2>2
<1> QED
  BY <1>1, <1>2, <1>3 DEF ClientStep, StoreStep, PublishStep, ResolveSend, ResolveAnswered, ResolveSettled,
     ClientDies, Die, Submit, mailVars

(* The sweep decides to retire an assignment with its mail on record, or   *)
(* at the bound.                                                           *)
LEMMA SettledStep ==
  ASSUME SInv, JInv, SweepNext
  PROVE  Settled'
<1>0. pc \notin {"idle", "next"} => Dispatch \in Keys /\ Mine \in Row
  BY RowFields DEF SInv, Held, Dispatch
<1>1. CASE Check
  BY <1>0, <1>1 DEF Check, vars, Settled, Dispatch, Mine, Recorded
<1>2. CASE SendDuplicate
  <2>1. /\ seen'[Sweeper] = Mine /\ Dispatch \in Keys /\ ledger[Dispatch] # "none"
        /\ ledger' = ledger
    BY <1>0, <1>2, ViewOf, AssignmentSweepAssumption
    DEF SendDuplicate, Leave, After, Outside, mailVars, Recorded, SInv, Inv, SweepTypeOK, Mine
  <2> QED
    BY <2>1 DEF Settled, Recorded, Dispatch, Mine
<1>3. CASE MailSettled
  <2>1. seen'[Sweeper] = Mine /\ Dispatch \in Keys /\ sending # NotSending
    BY <1>0, <1>3, ViewOf, AssignmentSweepAssumption
    DEF MailSettled, Settle, Leave, After, Goto, SInv, Inv, SweepTypeOK, Mine
  <2>2. sending.key = Dispatch /\ (pc' = "retire" => sending.step = "ok")
    BY <1>3, <2>1 DEF MailSettled, Goto, SInv, SweepTypeOK
  <2>3. pc' = "retire" => ledger'[Dispatch] \in {"sent", "pending"}
    BY <1>3, <2>1, <2>2 DEF MailSettled, Settle, SInv, SweepTypeOK
  <2> QED
    BY <2>1, <2>3 DEF Settled, Recorded, Dispatch, Mine
<1>4. CASE RetainOrGiveUp
  BY <1>4 DEF RetainOrGiveUp, Drop, Goto, Stay, vars, Settled, Dispatch, Mine
<1>5. CASE \/ BeginSweep \/ EndSweep \/ (\E r \in todo : Look(r)) \/ Unresolved \/ AtBound
           \/ (\E o \in Observations : Observe(o))
           \/ ConsumeBusy \/ CheckStale \/ ResetStale \/ AdvanceFails \/ ConsumeStale \/ RetireFails
           \/ EndItem \/ Reset \/ Advance \/ Consume \/ SendMail \/ SendBusy \/ RetireRow \/ SweeperDies
           \/ (\E answer \in Answers : MailAnswered(answer))
  <2>1. pc' # "retire"
    BY <1>5 DEF BeginSweep, EndSweep, Observe, AtBound, ConsumeBusy, Look, Unresolved, CheckStale,
       ResetStale, AdvanceFails, ConsumeStale, RetireFails, EndItem, Reset, Advance, Consume, SendMail,
       SendBusy, RetireRow, MailAnswered, SweeperDies, Drop, Goto, sweepVars
  <2> QED
    BY <2>1 DEF Settled
<1>6. ASSUME NEW a \in Clients, ClientStep(a) PROVE Settled'
  <2>1. pc' = pc
    BY <1>6 DEF ClientStep, StoreStep, PublishStep, ResolveSend, ResolveAnswered, ResolveSettled,
       ClientDies, sweepVars
  <2>2. UNCHANGED vars \/ Step(a)
    BY <1>6 DEF ClientStep, StoreStep, PublishStep, ResolveSend, ResolveAnswered, ResolveSettled,
       ClientDies, Die, Step
  <2>3. seen'[Sweeper] = seen[Sweeper]
    BY <2>2, SeenStep, AssignmentSweepAssumption DEF vars, Clients, SInv, Inv
  <2> QED
    BY <1>0, <1>6, <2>1, <2>3, UndoneStep DEF JInv, Settled, Mine, Dispatch
<1>7. CASE \E k \in Keys : WorkerMoves(k)
  BY <1>7 DEF WorkerMoves, vars, sweepVars, mailVars, JInv, Settled, Mine, Dispatch, Recorded
<1> QED
  BY <1>1, <1>2, <1>3, <1>4, <1>5, <1>6, <1>7 DEF SweepNext, SweepStep

(* A dead observation of the assignment the sweep is at stays counted: a   *)
(* publication that starts its count anew is of another assignment.        *)
LEMMA CountedStep ==
  ASSUME SInv, JInv, SweepNext
  PROVE  Counted'
<1> USE AssignmentSweepAssumption
<1>0. /\ pc \notin {"idle", "next"} => Dispatch \in Keys /\ Mine \in Row
      /\ pc \in AfterDead => pc \notin {"idle", "next"}
      /\ TypeOK /\ dead \in [Keys -> 0 .. Bound]
  BY RowFields DEF SInv, Inv, SweepTypeOK, Held, Dispatch, AfterDead
<1>1. CASE Check
  <2>1. Dispatch \in Keys /\ Dispatch' = Dispatch
    BY <1>0, <1>1 DEF Check, Stay, vars, Dispatch, Mine
  <2>2. pc' \in AfterDead => obs # "active"
    BY <1>1 DEF Check, AfterDead
  <2>3. dead'[Dispatch] = IF obs = "active" THEN 0
                          ELSE IF dead[Dispatch] < Bound THEN dead[Dispatch] + 1 ELSE dead[Dispatch]
    BY <1>0, <1>1, <2>1 DEF Check
  <2>4. obs # "active" => dead'[Dispatch] >= 1
    BY <1>0, <2>1, <2>3, AssignmentStoreAssumption
  <2> QED
    BY <2>1, <2>2, <2>4 DEF Counted
<1>2. CASE \/ BeginSweep \/ EndSweep \/ (\E r \in todo : Look(r)) \/ Unresolved
           \/ (\E o \in Observations : Observe(o))
           \/ CheckStale \/ ResetStale \/ AdvanceFails \/ ConsumeStale \/ RetireFails
           \/ EndItem \/ Reset \/ RetireRow \/ SweeperDies
  <2>1. pc' \notin AfterDead
    BY <1>2 DEF BeginSweep, EndSweep, Observe, Look, Unresolved, CheckStale,
       ResetStale, AdvanceFails, ConsumeStale, RetireFails, EndItem, Reset,
       RetireRow, SweeperDies, Drop, Goto, AfterDead
  <2> QED
    BY <2>1 DEF Counted
<1>3. CASE AtBound \/ ConsumeBusy \/ SendMail \/ RetainOrGiveUp \/ (\E answer \in Answers : MailAnswered(answer))
  <2>1. pc \in AfterDead /\ dead' = dead /\ (UNCHANGED vars \/ pc' = "next")
    BY <1>3 DEF AtBound, ConsumeBusy, SendMail, RetainOrGiveUp, MailAnswered, Stay, Goto, Drop, AfterDead, sweepVars
  <2> QED
    BY <2>1 DEF JInv, Counted, vars, Dispatch, Mine, Has, AfterDead
<1>4. CASE Consume \/ SendDuplicate \/ SendBusy \/ MailSettled
  <2>1. pc \in AfterDead /\ dead' = dead /\ rows' = rows
    BY <1>4 DEF Consume, Enter, Stay, SendDuplicate, SendBusy, MailSettled, Leave, Goto, AfterDead, vars
  <2>2. CASE UNCHANGED vars
    BY <2>1, <2>2 DEF JInv, Counted, vars, Dispatch, Mine, Has
  <2>3. CASE Enter(Sweeper)
    BY <1>0, <2>1, <2>3, ViewOf DEF Enter, JInv, Counted, Dispatch, Mine, Has
  <2>4. CASE Leave(Sweeper)
    <3>1. stage[Sweeper] = "fenced"
      BY <1>4, <2>4 DEF Consume, SendDuplicate, SendBusy, MailSettled, Leave, InFence, SInv, SweepTypeOK
    <3>2. seen'[Sweeper] = seen[Sweeper]
      BY <1>0, <2>4, <3>1, ViewOf DEF Leave, After
    <3> QED
      BY <2>1, <3>2 DEF JInv, Counted, Dispatch, Mine, Has
  <2> QED
    BY <1>4, <2>2, <2>3, <2>4 DEF Consume, Stay, SendDuplicate, SendBusy, MailSettled
<1>5. CASE Advance
  <2>1. /\ pc \in AfterDead /\ dead' = dead /\ Dispatch \in Keys /\ Mine \in Row /\ rows[Dispatch] = Mine
        /\ SetTicks(Sweeper, Mine.ticks + 1) /\ Mine.ticks < Bound
    BY <1>0, <1>5 DEF Advance, Goto, Current, Dispatch, AfterDead
  <2>2. Mine.ticks + 1 \in 0 .. Bound
    BY <2>1, RowFields, AssignmentStoreAssumption
  <2>3. EditedAt(Sweeper, Dispatch) /\ View(Sweeper, "edit", rows'[Dispatch], None, NoPointer)
    BY <1>0, <2>1, <2>2, SetTicksDoes DEF Dispatch, Mine
  <2>4. seen'[Sweeper] = rows'[Dispatch] /\ rows'[Dispatch].key = Dispatch
    BY <1>0, <2>3, ViewOf DEF EditedAt
  <2>5. Has(Dispatch) /\ rows[Dispatch].id = Mine.id
    BY <2>1, RowFields DEF Has
  <2> QED
    BY <2>1, <2>4, <2>5 DEF JInv, Counted, Dispatch, Mine
<1>6. ASSUME NEW a \in Clients, ClientStep(a) PROVE Counted'
  <2>1. pc' = pc
    BY <1>6 DEF ClientStep, StoreStep, PublishStep, ResolveSend, ResolveAnswered, ResolveSettled,
       ClientDies, sweepVars
  <2>2. UNCHANGED vars \/ Step(a)
    BY <1>6 DEF ClientStep, StoreStep, PublishStep, ResolveSend, ResolveAnswered, ResolveSettled,
       ClientDies, Die, Step
  <2>3. seen'[Sweeper] = seen[Sweeper]
    BY <1>0, <2>2, SeenStep DEF vars, Clients
  <2>4. CASE \E k \in Keys, kind \in {"local", "remote"} : PublishStep(a, k, kind)
    <3>1. PICK k \in Keys, kind \in {"local", "remote"} : PublishStep(a, k, kind)
      BY <2>4
    <3>2. Published(a, k)
      BY <1>0, <3>1, PublishDoes DEF PublishStep, Clients
    <3>3. SUFFICES ASSUME pc \in AfterDead, rows'[Dispatch] # NoRow, rows'[Dispatch].id = Mine.id
                   PROVE  dead'[Dispatch] >= 1
      BY <2>1, <2>3 DEF Counted, Dispatch, Mine, Has
    <3>4. Mine.id <= minted /\ Mine.id \in Nat /\ minted \in Nat
      BY <1>0, <3>3, RowFields DEF SInv, Inv, Minted, TypeOK, Mine
    <3>5. Dispatch # k
      BY <3>2, <3>3, <3>4 DEF Published
    <3>6. rows'[Dispatch] = rows[Dispatch] /\ dead'[Dispatch] = dead[Dispatch]
      <4>1. rows'[Dispatch] \in {NoRow, rows[Dispatch]}
        BY <1>0, <3>2, <3>3, <3>5 DEF Published
      <4>2. rows'[Dispatch] # NoRow
        BY <3>3
      <4>3. dead'[Dispatch] = dead[Dispatch]
        BY <1>0, <3>1, <3>3, <3>5 DEF PublishStep
      <4> QED
        BY <4>1, <4>2, <4>3
    <3> QED
      BY <3>3, <3>6 DEF JInv, Counted, Has
  <2>5. CASE ~ \E k \in Keys, kind \in {"local", "remote"} : PublishStep(a, k, kind)
    <3>1. dead' = dead
      BY <1>6, <2>5 DEF ClientStep, StoreStep, ResolveSend, ResolveAnswered, ResolveSettled,
         ClientDies, Die, sweepVars
    <3>2. rows' = rows \/ \E k \in Taken : EditedAt(a, k)
      <4>1. CASE \E i \in Issues : Attach(a, i)
        BY <1>0, <4>1, AttachDoes DEF Clients, EditedAt
      <4> QED
        BY <1>6, <2>5, <4>1 DEF ClientStep, StoreStep, ResolveSend, ResolveAnswered, ResolveSettled,
           ClientDies, Die, Fail, vars, ReadIssue, ReadRow, ReadPrimary, Bind, Unbind, Enter, EnterAdmission,
           EnterPrimary, Leave
    <3>3. \A k \in Keys : Has(k)' => Has(k) /\ rows'[k].id = rows[k].id
      BY <1>0, <3>2 DEF EditedAt, Has, Taken, TypeOK
    <3> QED
      BY <1>0, <2>1, <2>3, <3>1, <3>3 DEF JInv, Counted, Dispatch, Mine
  <2> QED
    BY <2>4, <2>5
<1>7. CASE \E k \in Keys : WorkerMoves(k)
  BY <1>7 DEF WorkerMoves, vars, sweepVars, JInv, Counted, Mine, Dispatch, Has
<1> QED
  BY <1>1, <1>2, <1>3, <1>4, <1>5, <1>6, <1>7 DEF SweepNext, SweepStep

(* Only the sweep retires an assignment, the one it is at. *)
LEMMA RetiredBySweep ==
  ASSUME SInv, SweepNext, NEW k \in Keys, Has(k), ~Has(k)', minted' = minted
  PROVE  pc = "retire" /\ k = Dispatch /\ rows[k] = Mine
<1>0. TypeOK /\ Sweeper \in Actors
  BY AssignmentSweepAssumption DEF SInv, Inv
<1>1. CASE RetireRow
  <2>1. RetiredAt(Sweeper, Dispatch) /\ rows[Dispatch] = Mine
    BY <1>0, <1>1, RetireDoes DEF RetireRow, Retire, Retirable, Current, Dispatch, Mine
  <2> QED
    BY <1>0, <1>1, <2>1 DEF RetireRow, RetiredAt, TypeOK, Taken, Has
<1>2. CASE SweepStep /\ ~RetireRow
  <2>1. rows' = rows \/ \E j \in Taken : EditedAt(Sweeper, j)
    <3>1. CASE Reset \/ Advance
      <4>1. 0 \in 0 .. Bound /\ (Advance => Mine.ticks + 1 \in 0 .. Bound)
        BY RowFields, AssignmentStoreAssumption DEF Advance, SInv, Held
      <4>2. EditedAt(Sweeper, Dispatch)
        BY <1>0, <3>1, <4>1, SetTicksDoes DEF Reset, Advance, Dispatch, Mine
      <4> QED
        BY <4>2 DEF EditedAt
    <3>2. CASE Drop
      BY <3>2 DEF Drop, Fail
    <3> QED
      BY <1>2, <3>1, <3>2 DEF SweepStep, BeginSweep, EndSweep, Observe, Check, AtBound,
         ConsumeBusy, Look, Unresolved, CheckStale, ResetStale, AdvanceFails, ConsumeStale,
         RetireFails, RetainOrGiveUp, EndItem, Consume, SendMail, SendDuplicate,
         SendBusy, MailAnswered, MailSettled, Stay, vars, ReadRow, Enter, Leave
  <2> QED
    BY <1>0, <2>1 DEF EditedAt, TypeOK, Taken, Has, NoRow, Row
<1>3. CASE SweeperDies \/ \E j \in Keys : WorkerMoves(j)
  BY <1>3 DEF SweeperDies, Die, Fail, WorkerMoves, vars, Has
<1>4. ASSUME NEW a \in Clients, ClientStep(a) PROVE FALSE
  <2>1. CASE \E j \in Keys, kind \in {"local", "remote"} : PublishStep(a, j, kind)
    BY <1>0, <2>1 DEF PublishStep, Publish, TypeOK
  <2>2. CASE \E i \in Issues : Attach(a, i)
    <3>1. \E j \in Taken : EditedAt(a, j)
      BY <1>0, <2>2, AttachDoes DEF Clients, EditedAt
    <3> QED
      BY <1>0, <3>1 DEF EditedAt, TypeOK, Taken, Has, NoRow, Row
  <2>3. CASE rows' = rows
    BY <2>3 DEF Has
  <2> QED
    BY <1>4, <2>1, <2>2, <2>3 DEF ClientStep, StoreStep, ResolveSend, ResolveAnswered, ResolveSettled,
       ClientDies, Die, Fail, vars, ReadIssue, ReadRow, ReadPrimary, Bind, Unbind, Enter, EnterAdmission,
       EnterPrimary, Leave
<1> QED
  BY <1>1, <1>2, <1>3, <1>4 DEF SweepNext, SweepStep

(* However sends are answered, the sweep retires an assignment on a dead   *)
(* observation, and with its mail on record or at the bound, unless        *)
(* another process took the mail off the record after it had decided.      *)
THEOREM RetiredJustly == SweepSpec => Justified
<1>1. SweepInit => JInv
  BY DEF SweepInit, JInv, Counted, Settled, AfterDead
<1>2. SInv /\ JInv /\ [SweepNext]_allVars => JInv'
  <2>1. ASSUME SInv, JInv, SweepNext PROVE JInv'
    BY <2>1, SettledStep, CountedStep DEF JInv
  <2>2. ASSUME JInv, UNCHANGED allVars PROVE JInv'
    BY <2>2 DEF JInv, Counted, Settled, allVars, vars, sweepVars, mailVars, Has, Dispatch,
       Mine, Recorded
  <2> QED
    BY <2>1, <2>2
<1>3. SInv /\ JInv /\ [SweepNext]_allVars =>
        [\A k \in Keys : Has(k) /\ ~Has(k)' /\ minted' = minted
           => dead[k] >= 1 /\ (Recorded(k) \/ rows[k].ticks >= Bound \/ undone[k])]_allVars
  <2>1. ASSUME SInv, JInv, SweepNext, NEW k \in Keys, Has(k), ~Has(k)', minted' = minted
        PROVE  dead[k] >= 1 /\ (Recorded(k) \/ rows[k].ticks >= Bound \/ undone[k])
    BY <2>1, RetiredBySweep DEF JInv, Counted, Settled, AfterDead
  <2> QED
    BY <2>1
<1> QED
  BY <1>1, <1>2, <1>3, SweepInvariance, PTL DEF SweepSpec, Justified
----------------------------------------------------------------------------
(* The scheduler has not died.                                             *)

(* The file of a store that its readers take counts no more dead           *)
(* observations than were made, but for the count that is being reset; and *)
(* the observation that is about to be recorded was made.                  *)
CountedRow(k) ==
    \/ rows[k].ticks <= dead[k]
    \/ pc = "reset" /\ k = Dispatch /\ SameIdentity(rows[k], Mine)
CountsTrue == crashes = 0 /\ Readable => \A k \in Taken : CountedRow(k)
NextCounted ==
    crashes = 0 /\ pc = "advance" /\ Has(Dispatch) /\ rows[Dispatch].id = Mine.id /\ Mine.ticks < Bound
        => Mine.ticks + 1 <= dead[Dispatch]

CInv == CountsTrue /\ NextCounted
KInv == CInv /\ crashes \in Nat

(* A change of the issue or the count leaves the identity of a row.        *)
LEMMA IdentityKept ==
  ASSUME NEW r \in Row, NEW s \in Row
  PROVE  /\ \A i \in Issues \cup {None} : SameIdentity([r EXCEPT !.issue = i], s) <=> SameIdentity(r, s)
         /\ SameIdentity(r, r)
  BY DEF SameIdentity, Row

(* The count of a row is a number, and so is that of the observations.     *)
LEMMA CountTypes ==
  ASSUME SInv
  PROVE  /\ \A k \in Taken : rows[k] \in Row /\ rows[k].ticks \in Nat /\ rows[k].key = k
         /\ \A k \in Keys : dead[k] \in Nat
         /\ pc \notin {"idle", "next"} => Dispatch \in Keys /\ Mine \in Row /\ Mine.ticks \in Nat
         /\ TypeOK /\ Sweeper \in Actors /\ Bound \in Nat
  BY RowFields, AssignmentStoreAssumption, AssignmentSweepAssumption
  DEF SInv, Inv, TypeOK, SweepTypeOK, Held, Dispatch, Taken, Has

(* A count grows no further than the observations of the moment.           *)
GrowsTo(k) == crashes' = 0 /\ Has(k) /\ Has(k)' /\ rows'[k].ticks > rows[k].ticks
    => rows'[k].ticks <= dead[k]

(* An observation that counts is one more; one of a worker that is there   *)
(* has none before it, and the count is cleared next.                      *)
LEMMA CheckCounts ==
  ASSUME SInv, CInv, Check
  PROVE  CInv' /\ \A k \in Keys : GrowsTo(k)
<1>1. /\ Dispatch \in Keys /\ Mine \in Row /\ Mine.ticks \in Nat /\ Bound \in Nat
      /\ Readable /\ rows[Dispatch] = Mine /\ pc = "check"
      /\ rows' = rows /\ crashes' = crashes /\ Mine' = Mine /\ Dispatch' = Dispatch /\ minted' = minted
      /\ dead \in [Keys -> 0 .. Bound]
  BY CountTypes DEF Check, Stay, vars, Current, Dispatch, Mine, SInv, SweepTypeOK
<1>2. Dispatch \in Taken
  BY <1>1, NoneApart DEF Taken, Has
<1>3. \A k \in Keys : dead'[k] = IF k = Dispatch
                                 THEN IF obs = "active" THEN 0
                                      ELSE IF dead[k] < Bound THEN dead[k] + 1 ELSE dead[k]
                                 ELSE dead[k]
  BY <1>1 DEF Check
<1>4. crashes = 0 => \A k \in Taken : rows[k].ticks <= dead[k]
  BY <1>1 DEF CInv, CountsTrue, CountedRow
<1>5. SameIdentity(Mine, Mine)
  BY <1>1, IdentityKept
<1>6. CountsTrue'
  <2>1. ASSUME crashes = 0, NEW k \in Taken PROVE CountedRow(k)'
    <3>1. rows[k].ticks \in Nat /\ dead[k] \in Nat /\ k \in Keys /\ rows[k].ticks <= dead[k]
      BY <1>4, <2>1, CountTypes DEF Taken
    <3>2. CASE k # Dispatch
      BY <1>1, <1>3, <3>1, <3>2 DEF CountedRow
    <3>3. CASE k = Dispatch /\ obs # "active"
      BY <1>1, <1>3, <3>1, <3>3 DEF CountedRow
    <3>4. CASE k = Dispatch /\ obs = "active"
      <4>1. dead'[k] = 0
        BY <1>3, <3>1, <3>4
      <4>2. Mine.ticks # 0 => pc' = "reset"
        BY <3>4 DEF Check
      <4> QED
        BY <1>1, <1>5, <3>1, <3>4, <4>1, <4>2 DEF CountedRow
    <3> QED
      BY <3>2, <3>3, <3>4
  <2> QED
    BY <1>1, <2>1 DEF CountsTrue, Taken, Has
<1>7. NextCounted'
  <2>1. SUFFICES ASSUME crashes = 0, pc' = "advance", Mine.ticks < Bound
                 PROVE  Mine.ticks + 1 <= dead'[Dispatch]
    BY <1>1 DEF NextCounted
  <2>2. obs # "active"
    BY <2>1 DEF Check
  <2>3. Mine.ticks <= dead[Dispatch] /\ dead[Dispatch] \in Nat
    BY <1>1, <1>2, <1>4, <2>1, CountTypes
  <2> QED
    BY <1>1, <1>3, <2>1, <2>2, <2>3
<1> QED
  BY <1>1, <1>6, <1>7, CountTypes DEF CInv, GrowsTo, Has, Taken

(* What a change of its count leaves and does.                             *)
LEMMA TicksOnly ==
  ASSUME SInv, NEW t \in 0 .. Bound, SetTicks(Sweeper, t), pc \notin {"idle", "next"}
  PROVE  /\ Usable /\ Dispatch \in Taken /\ Taken' = Taken /\ Readable' = Readable
         /\ rows'[Dispatch].ticks = t
         /\ \A k \in Keys \ {Dispatch} : rows'[k] = rows[k]
<1>1. rows \in [Keys -> Row \cup {NoRow}] /\ Dispatch \in Keys
  BY CountTypes DEF TypeOK
<1>2. Dispatch \in Taken
  BY <1>1 DEF SetTicks, Taken, Dispatch, Mine
<1>3. rows' = [rows EXCEPT ![Dispatch] = [rows[Dispatch] EXCEPT !.ticks = t]]
  BY DEF SetTicks, Dispatch, Mine
<1>4. rows[Dispatch] \in Row
  BY <1>2, CountTypes
<1>5. rows'[Dispatch] \in Row /\ rows'[Dispatch].ticks = t
  BY <1>1, <1>3, <1>4 DEF Row
<1>6. Taken' = Taken
  BY <1>1, <1>2, <1>3, <1>5, NoneApart DEF Taken, Has
<1> QED
  BY <1>1, <1>2, <1>3, <1>5, <1>6 DEF Readable, SetTicks

(* The reset clears the count that was too high.                           *)
LEMMA ResetCounts ==
  ASSUME SInv, CInv, Reset
  PROVE  CInv' /\ \A k \in Keys : GrowsTo(k)
<1>1. /\ pc = "reset" /\ pc' = "end" /\ dead' = dead /\ crashes' = crashes
      /\ SetTicks(Sweeper, 0) /\ 0 \in 0 .. Bound
  BY AssignmentStoreAssumption DEF Reset, Goto, Outside
<1>2. /\ Usable /\ Dispatch \in Taken /\ Taken' = Taken /\ Readable' = Readable
      /\ rows'[Dispatch].ticks = 0
      /\ \A k \in Keys \ {Dispatch} : rows'[k] = rows[k]
  BY <1>1, TicksOnly
<1>3. CountsTrue'
  <2>1. ASSUME crashes = 0, Readable, NEW k \in Taken PROVE rows'[k].ticks <= dead[k]
    <3>1. CASE k = Dispatch
      BY <1>2, <2>1, <3>1, CountTypes DEF Taken
    <3>2. CASE k # Dispatch
      BY <1>2, <2>1, <3>2 DEF CInv, CountsTrue, CountedRow, Taken
    <3> QED
      BY <3>1, <3>2
  <2> QED
    BY <1>1, <1>2, <2>1 DEF CountsTrue, CountedRow
<1>4. NextCounted'
  BY <1>1 DEF NextCounted
<1>5. ASSUME NEW k \in Keys, Has(k), rows'[k].ticks > rows[k].ticks PROVE FALSE
  BY <1>2, <1>5, CountTypes DEF Taken
<1> QED
  BY <1>3, <1>4, <1>5 DEF CInv, GrowsTo

(* The count that is written is that of the observations.                  *)
LEMMA AdvanceCounts ==
  ASSUME SInv, CInv, Advance
  PROVE  CInv' /\ \A k \in Keys : GrowsTo(k)
<1>1. /\ pc = "advance" /\ pc' \in {"keep", "consume"} /\ dead' = dead /\ crashes' = crashes
      /\ SetTicks(Sweeper, Mine.ticks + 1) /\ Mine.ticks < Bound /\ Current(Mine)
  BY DEF Advance, Goto, Outside
<1>2. Mine.ticks + 1 \in 0 .. Bound
  BY <1>1, CountTypes
<1>3. /\ Usable /\ Dispatch \in Taken /\ Taken' = Taken /\ Readable' = Readable
      /\ rows'[Dispatch].ticks = Mine.ticks + 1
      /\ \A k \in Keys \ {Dispatch} : rows'[k] = rows[k]
  BY <1>1, <1>2, TicksOnly
<1>4. crashes = 0 => Mine.ticks + 1 <= dead[Dispatch]
  BY <1>1, <1>3 DEF CInv, NextCounted, Current, Dispatch, Taken
<1>5. CountsTrue'
  <2>1. ASSUME crashes = 0, Readable, NEW k \in Taken PROVE rows'[k].ticks <= dead[k]
    <3>1. CASE k = Dispatch
      BY <1>3, <1>4, <2>1, <3>1
    <3>2. CASE k # Dispatch
      BY <1>1, <1>3, <2>1, <3>2 DEF CInv, CountsTrue, CountedRow, Taken
    <3> QED
      BY <3>1, <3>2
  <2> QED
    BY <1>1, <1>3, <2>1 DEF CountsTrue, CountedRow
<1>6. NextCounted'
  BY <1>1 DEF NextCounted
<1>7. \A k \in Keys : GrowsTo(k)
  BY <1>1, <1>3, <1>4, CountTypes DEF GrowsTo, Taken
<1> QED
  BY <1>5, <1>6, <1>7 DEF CInv

(* The other steps of the sweep count nothing.                             *)
LEMMA OtherCounts ==
  ASSUME SInv, CInv, SweepStep, ~Check, ~Reset, ~Advance
  PROVE  CInv' /\ \A k \in Keys : GrowsTo(k)
<1>0. TypeOK /\ Sweeper \in Actors
  BY CountTypes
<1>1. /\ dead' = dead /\ crashes' = crashes
      /\ pc' \notin {"reset", "advance"}
      /\ RetireRow \/ rows' = rows
  <2>1. Drop => dead' = dead /\ crashes' = crashes /\ pc' = "next" /\ rows' = rows
    BY DEF Drop, Goto, Outside, Fail
  <2> QED
    BY <2>1 DEF SweepStep, BeginSweep, EndSweep, Observe, AtBound, ConsumeBusy, Look, Unresolved,
       CheckStale, ResetStale, AdvanceFails, ConsumeStale, RetireFails, RetainOrGiveUp, EndItem,
       Consume, SendMail, SendDuplicate, SendBusy, MailAnswered, MailSettled, RetireRow, ReadRow,
       Enter, Leave, Stay, Outside, Goto, vars, sweepVars
<1>2. pc = "reset" => rows' = rows /\ (Readable => ~(Has(Dispatch) /\ SameIdentity(rows[Dispatch], Mine)))
  BY <1>1 DEF SweepStep, BeginSweep, EndSweep, Observe, AtBound, ConsumeBusy, Look, Unresolved,
     CheckStale, ResetStale, AdvanceFails, ConsumeStale, RetireFails, RetainOrGiveUp, EndItem,
     Consume, SendMail, SendDuplicate, SendBusy, MailAnswered, MailSettled, RetireRow
<1>3. \A k \in Keys : rows'[k] \in {rows[k], NoRow}
  <2>1. CASE RetireRow
    <3>1. RetiredAt(Sweeper, Dispatch)
      BY <1>0, <2>1, RetireDoes DEF RetireRow, Dispatch, Mine
    <3> QED
      BY <1>0, <3>1 DEF RetiredAt, TypeOK
  <2> QED
    BY <1>1, <2>1
<1>4. Readable' => Readable
  BY <1>1 DEF RetireRow, Retire, Usable, Readable, Taken, Has
<1>5. CountsTrue'
  <2>1. ASSUME crashes = 0, Readable, NEW k \in Taken' PROVE rows'[k].ticks <= dead'[k]
    <3>1. k \in Taken /\ rows'[k] = rows[k]
      BY <1>3, <2>1 DEF Taken, Has
    <3>2. CountedRow(k)
      BY <2>1, <3>1 DEF CInv, CountsTrue
    <3> QED
      BY <1>1, <1>2, <2>1, <3>1, <3>2 DEF CountedRow, Taken
  <2> QED
    BY <1>1, <1>4, <2>1 DEF CountsTrue, CountedRow
<1>6. NextCounted'
  BY <1>1 DEF NextCounted
<1>7. \A k \in Keys : GrowsTo(k)
  BY <1>3, CountTypes DEF GrowsTo, Has, Taken
<1> QED
  BY <1>5, <1>6, <1>7 DEF CInv

(* A client publishes with a count of none, or leaves the counts.          *)
LEMMA ClientCounts ==
  ASSUME SInv, CInv, crashes \in Nat, NEW a \in Clients, ClientStep(a)
  PROVE  CInv' /\ \A k \in Keys : GrowsTo(k)
<1>0. /\ TypeOK /\ Sweeper \in Actors /\ a \in Actors /\ a # Sweeper
      /\ \A k \in Keys : dead[k] \in Nat
  BY CountTypes DEF Clients
<1>1. pc' = pc
  BY DEF ClientStep, StoreStep, PublishStep, ResolveSend, ResolveAnswered, ResolveSettled,
     ClientDies, sweepVars
<1>2. Mine' = Mine /\ Dispatch' = Dispatch
  <2>1. UNCHANGED vars \/ Step(a)
    BY DEF ClientStep, StoreStep, PublishStep, ResolveSend, ResolveAnswered, ResolveSettled,
       ClientDies, Die, Step
  <2> QED
    BY <1>0, <2>1, SeenStep DEF vars, Mine, Dispatch
<1>3. crashes' = 0 => crashes = 0
  <2>1. crashes' = crashes \/ ClientDies(a)
    BY DEF ClientStep, StoreStep, PublishStep, ResolveSend, ResolveAnswered, ResolveSettled
  <2>2. ClientDies(a) => crashes' = crashes + 1
    BY DEF ClientDies, Die
  <2> QED
    BY <2>1, <2>2
<1>4. CASE \E k \in Keys, kind \in {"local", "remote"} : PublishStep(a, k, kind)
  <2>1. PICK k \in Keys, kind \in {"local", "remote"} : PublishStep(a, k, kind)
    BY <1>4
  <2>2. Published(a, k) /\ Readable
    BY <1>0, <2>1, PublishDoes DEF PublishStep, Publish, Usable
  <2>3. rows'[k].ticks = 0 /\ dead' = [dead EXCEPT ![k] = 0]
    BY <2>1 DEF PublishStep, Publish
  <2>4. dead'[k] = 0 /\ \A j \in Keys \ {k} : dead'[j] = dead[j] /\ rows'[j] \in {rows[j], NoRow}
    BY <2>2, <2>3 DEF Published, SInv, SweepTypeOK
  <2>5. CountsTrue'
    <3>1. ASSUME crashes = 0, NEW j \in Taken' PROVE CountedRow(j)'
      <4>1. CASE j = k
        BY <2>3, <2>4, <4>1 DEF CountedRow
      <4>2. CASE j # k
        <5>1. j \in Taken /\ j \in Keys /\ rows'[j] = rows[j] /\ dead'[j] = dead[j]
          BY <2>4, <3>1, <4>2 DEF Taken, Has
        <5> QED
          BY <1>1, <1>2, <2>2, <3>1, <5>1 DEF CInv, CountsTrue, CountedRow
      <4> QED
        BY <4>1, <4>2
    <3> QED
      BY <1>3, <3>1 DEF CountsTrue
  <2>6. NextCounted'
    <3>1. SUFFICES ASSUME crashes = 0, pc = "advance", rows'[Dispatch] # NoRow,
                          rows'[Dispatch].id = Mine.id, Mine.ticks < Bound
                   PROVE  Mine.ticks + 1 <= dead'[Dispatch]
      BY <1>1, <1>2, <1>3 DEF NextCounted, Has
    <3>2. Mine \in Row /\ Dispatch \in Keys /\ Mine.id \in Nat /\ Mine.id <= minted /\ minted \in Nat
      BY <1>0, <3>1, CountTypes, RowFields DEF SInv, Inv, Minted, TypeOK, Mine
    <3>3. Dispatch # k
      BY <2>2, <3>1, <3>2 DEF Published
    <3>4. rows'[Dispatch] = rows[Dispatch] /\ dead'[Dispatch] = dead[Dispatch]
      BY <2>4, <3>1, <3>2, <3>3
    <3> QED
      BY <3>1, <3>4 DEF CInv, NextCounted, Has
  <2>7. ASSUME NEW j \in Keys, Has(j), Has(j)', rows'[j].ticks > rows[j].ticks PROVE FALSE
    <3>1. rows[j].ticks \in Nat
      BY <2>7, CountTypes DEF Taken
    <3> QED
      BY <2>3, <2>4, <2>7, <3>1 DEF Has
  <2> QED
    BY <2>5, <2>6, <2>7 DEF CInv, GrowsTo
<1>5. CASE \E i \in Issues : StoreStep(a) /\ Attach(a, i)
  <2>1. PICK i \in Issues : StoreStep(a) /\ Attach(a, i)
    BY <1>5
  <2> DEFINE k == seen[a].key
  <2>2. /\ EditedAt(a, k) /\ Usable /\ dead' = dead /\ k \in Taken /\ k \in Keys
        /\ rows' = [rows EXCEPT ![k] = rows'[k]]
    BY <1>0, <2>1, AttachDoes DEF StoreStep, Attach, EditedAt, sweepVars, Taken
  <2>3. rows[k] \in Row /\ rows'[k] = [rows[k] EXCEPT !.issue = i] /\ rows'[k] \in Row
    BY <1>0, <2>1, <2>2, CountTypes DEF Attach, EditedAt, TypeOK
  <2>4. rows'[k].ticks = rows[k].ticks /\ rows'[k].id = rows[k].id
    BY <2>3 DEF Row
  <2>5. \A j \in Keys \ {k} : rows'[j] = rows[j]
    BY <1>0, <2>2 DEF TypeOK
  <2>6. Taken' = Taken
    BY <2>2, <2>3, <2>5, NoneApart DEF Taken, Has
  <2>7. CountsTrue'
    <3>1. ASSUME crashes = 0, NEW j \in Taken PROVE CountedRow(j)'
      <4>1. CountedRow(j)
        BY <2>2, <3>1 DEF CInv, CountsTrue, Usable
      <4>2. pc = "reset" /\ SameIdentity(rows[k], Mine) => SameIdentity(rows'[k], Mine)
        BY <2>1, <2>3, IdentityKept, CountTypes
      <4> QED
        BY <1>1, <1>2, <2>2, <2>4, <2>5, <3>1, <4>1, <4>2 DEF CountedRow, Taken
    <3> QED
      BY <1>3, <2>6, <3>1 DEF CountsTrue
  <2>8. NextCounted'
    <3>1. rows'[Dispatch].id = Mine.id /\ pc = "advance" => rows[Dispatch].id = Mine.id
      BY <2>4, <2>5, CountTypes
    <3>2. pc = "advance" => (rows'[Dispatch] # NoRow <=> rows[Dispatch] # NoRow)
      BY <2>6, CountTypes DEF Taken, Has
    <3> QED
      BY <1>1, <1>2, <1>3, <2>2, <3>1, <3>2 DEF CInv, NextCounted, Has
  <2>9. \A j \in Keys : Has(j) => ~(rows'[j].ticks > rows[j].ticks)
    BY <2>4, <2>5, CountTypes DEF Taken
  <2> QED
    BY <2>7, <2>8, <2>9 DEF CInv, GrowsTo
<1>6. CASE rows' = rows /\ dead' = dead
  BY <1>1, <1>2, <1>3, <1>6, CountTypes
  DEF CInv, CountsTrue, CountedRow, NextCounted, GrowsTo, Readable, Taken, Has
<1> QED
  BY <1>4, <1>5, <1>6 DEF ClientStep, StoreStep, ResolveSend, ResolveAnswered, ResolveSettled,
     ClientDies, Die, Fail, vars, sweepVars, ReadIssue, ReadRow, ReadPrimary, Bind, Unbind, Enter,
     EnterAdmission, EnterPrimary, Leave

(* Every step keeps the counts true, and no count outgrows the             *)
(* observations.                                                           *)
LEMMA CountStep ==
  ASSUME SInv, KInv, SweepNext
  PROVE  KInv' /\ \A k \in Keys : GrowsTo(k)
<1> USE DEF KInv
<1>0. crashes' \in {crashes, crashes + 1}
  BY DEF SweepNext, SweepStep, BeginSweep, EndSweep, Observe, Check, AtBound, ConsumeBusy, Look,
     Unresolved, CheckStale, ResetStale, AdvanceFails, ConsumeStale, RetireFails, RetainOrGiveUp,
     EndItem, Reset, Advance, Consume, SendMail, SendDuplicate, SendBusy, MailAnswered, MailSettled,
     RetireRow, Drop, Stay, Outside, SweeperDies, Die, ClientStep, StoreStep, PublishStep,
     ResolveSend, ResolveAnswered, ResolveSettled, ClientDies, WorkerMoves
<1>1. ASSUME SweepStep PROVE CInv' /\ \A k \in Keys : GrowsTo(k)
  BY <1>1, CheckCounts, ResetCounts, AdvanceCounts, OtherCounts
<1>2. ASSUME SweeperDies PROVE CInv' /\ \A k \in Keys : GrowsTo(k)
  <2>1. crashes' = crashes + 1 /\ crashes < MaxCrashes
    BY <1>2 DEF SweeperDies, Die
  <2> QED
    BY <1>2, <2>1 DEF CInv, CountsTrue, NextCounted, GrowsTo
<1>3. ASSUME NEW a \in Clients, ClientStep(a)
      PROVE CInv' /\ \A k \in Keys : GrowsTo(k)
  BY <1>3, ClientCounts
<1>4. ASSUME NEW j \in Keys, WorkerMoves(j)
      PROVE CInv' /\ \A k \in Keys : GrowsTo(k)
  BY <1>4, CountTypes DEF WorkerMoves, vars, sweepVars, CInv, CountsTrue, CountedRow, NextCounted,
     GrowsTo, Readable, Taken, Has, Mine, Dispatch
<1> QED
  BY <1>0, <1>1, <1>2, <1>3, <1>4 DEF SweepNext

(* Until a process dies, a dead observation that is put on disk is one of  *)
(* as many in a row: whatever publishes, attaches, fences or makes the     *)
(* store busy between the observation of a worker that is there again and  *)
(* the reset of its count.                                                 *)
THEOREM CountedInARow == SweepSpec => Consecutive
<1>1. SweepInit => KInv
  BY DEF SweepInit, Init, KInv, CInv, CountsTrue, NextCounted, Taken, Has
<1>2. SInv /\ KInv /\ [SweepNext]_allVars => KInv'
  <2>1. ASSUME KInv, UNCHANGED allVars PROVE KInv'
    BY <2>1 DEF KInv, CInv, CountsTrue, CountedRow, NextCounted, allVars, vars, sweepVars, Readable, Taken,
       Has, Mine, Dispatch
  <2> QED
    BY <2>1, CountStep
<1>3. SInv /\ KInv /\ [SweepNext]_allVars =>
        [\A k \in Keys : crashes' = 0 /\ Has(k) /\ Has(k)' /\ rows'[k].ticks > rows[k].ticks
           => rows'[k].ticks <= dead[k]]_allVars
  BY CountStep DEF GrowsTo
<1> QED
  BY <1>1, <1>2, <1>3, SweepInvariance, PTL DEF SweepSpec, Consecutive
=============================================================================
