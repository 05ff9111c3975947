-------------------------- MODULE SupervisorProofs --------------------------
(***************************************************************************)
(* What is proved of the supervisor, for every number of runs, failures,   *)
(* kills, drifts and resets.                                               *)
(***************************************************************************)
EXTENDS Supervisor, TLAPS

(* The kernel's lock is held by the run that is alive.                     *)
Lease == \A r \in Runs : Alive(r) => lock = r

(* A live tick is awaited, or was left behind by a kill.                   *)
Awaited == \A r \in Runs : tick[r] = "live" => pc[r] \in {"spawned", "tick", "killed"}

(* What the status object of a run says.                                   *)
Counted == \A r \in Runs :
    /\ memory[r].run = r
    /\ pc[r] \notin {"release", "ended", "killed"} =>
         memory[r].rapid < Limit /\ (pc[r] # "stalledOut" => memory[r].stalls < Limit)
    /\ memory[r].recent /\ memory[r].rapid = 0 => memory[r].last = "completed"
    /\ memory[r].refusal = "stall-loop" =>
         pc[r] \in {"release", "ended", "killed"} /\ ~stopping[r]

(* A run that has handled a signal is past its last tick, or cancels it,   *)
(* and its status object says so.                                          *)
Signalled == \A r \in Runs : stopping[r] =>
    /\ pc[r] \in {"backoff", "tick", "rest", "leave", "release", "ended", "killed"}
    /\ memory[r].state = "stopping"

(* The status file is that of a run that has begun; while the run is alive *)
(* it is its status object.                                                *)
Filed == status # NoStatus =>
    /\ pc[status.run] # "new"
    /\ Alive(status.run) => status = memory[status.run]
    /\ status.refusal = "stall-loop" => ~stopping[status.run]
                                        /\ pc[status.run] \in {"release", "ended", "killed"}

(* A reset command holds the status of a run that is gone for good and was *)
(* never told to stop.                                                     *)
HeldOfGone == held # NoStatus => pc[held.run] \in {"ended", "killed"} /\ ~stopping[held.run]

IInv == /\ SupervisorTypeOK
        /\ Lease
        /\ Awaited
        /\ Counted
        /\ Signalled
        /\ Filed
        /\ HeldOfGone

-----------------------------------------------------------------------------
LEMMA NoStatusIsNone == NoStatus \notin Statuses
BY DEF NoStatus, Statuses, Runs

LEMMA InitEstablishes == Init => IInv
<1> SUFFICES ASSUME Init PROVE IInv
  OBVIOUS
<1>1. \A r \in Runs : Fresh(r) \in Statuses
  BY SupervisorAssumption DEF Fresh, Statuses, States, Refusals, Outcomes
<1>2. SupervisorTypeOK
  BY <1>1, SupervisorAssumption DEF Init, SupervisorTypeOK, PCs, Runs
<1>3. Lease /\ Awaited /\ Signalled /\ Filed /\ HeldOfGone
  BY DEF Init, Lease, Awaited, Signalled, Filed, HeldOfGone, Alive
<1>4. Counted
  BY SupervisorAssumption DEF Init, Counted, Fresh
<1> QED BY <1>2, <1>3, <1>4 DEF IInv

-----------------------------------------------------------------------------
(* A step in which a live run writes its status object s and goes on at a  *)
(* label, whatever it does to its flags and its tick.                      *)
LEMMA GoesKeeps ==
    ASSUME IInv, NEW r \in Runs, NEW s \in Statuses, NEW label \in PCs, Goes(r, s, label),
           Alive(r), label \notin {"new", "ended", "killed"},
           s.run = r,
           label # "release" => s.rapid < Limit,
           label \notin {"release", "stalledOut"} => s.stalls < Limit,
           s.recent /\ s.rapid = 0 => s.last = "completed",
           s.refusal = "stall-loop" => label = "release" /\ ~stopping'[r],
           stopping' \in [Runs -> BOOLEAN],
           \A q \in Runs : q # r => stopping'[q] = stopping[q],
           stopping'[r] => /\ label \in {"backoff", "tick", "rest", "leave", "release"}
                           /\ s.state = "stopping",
           tick' \in [Runs -> {"none", "live", "ok", "bad"}],
           \A q \in Runs : q # r => tick'[q] = tick[q],
           tick'[r] = "live" => label \in {"spawned", "tick"},
           cancelled' \in [Runs -> BOOLEAN], stalled' \in [Runs -> BOOLEAN],
           World
    PROVE  IInv'
<1> USE DEF IInv, Goes, World, Written, bounds
<1>1. status' = s /\ memory'[r] = s /\ pc'[r] = label
  BY DEF SupervisorTypeOK
<1>2. \A q \in Runs : q # r => memory'[q] = memory[q] /\ pc'[q] = pc[q]
  BY DEF SupervisorTypeOK
<1>3. SupervisorTypeOK'
  BY DEF SupervisorTypeOK
<1>4. Lease'
  BY <1>1, <1>2 DEF Lease, Alive
<1>5. Awaited'
  BY <1>1, <1>2 DEF Awaited
<1>6. Counted'
  BY <1>1, <1>2 DEF Counted
<1>7. Signalled'
  BY <1>1, <1>2 DEF Signalled
<1>8. Filed'
  BY <1>1 DEF Filed
<1>9. HeldOfGone'
  <2> SUFFICES ASSUME held # NoStatus
               PROVE  pc'[held.run] \in {"ended", "killed"} /\ ~stopping'[held.run]
    BY DEF HeldOfGone
  <2>1. held.run \in Runs
    BY DEF SupervisorTypeOK, Statuses
  <2>2. held.run # r
    BY DEF HeldOfGone, Alive
  <2> QED BY <1>2, <2>1, <2>2 DEF HeldOfGone
<1> QED BY <1>3, <1>4, <1>5, <1>6, <1>7, <1>8, <1>9

(* A step in which a live run goes on at a label and writes nothing.       *)
LEMMA MovesKeep ==
    ASSUME IInv, NEW r \in Runs, NEW label \in PCs,
           pc' = [pc EXCEPT ![r] = label], Alive(r), label \notin {"new", "ended", "killed"},
           pc[r] \notin {"release", "stalledOut"},
           stopping[r] => label \in {"backoff", "tick", "rest", "leave"},
           tick' \in [Runs -> {"none", "live", "ok", "bad"}],
           \A q \in Runs : q # r => tick'[q] = tick[q],
           tick'[r] = "live" => label \in {"spawned", "tick"},
           cancelled' \in [Runs -> BOOLEAN], stalled' \in [Runs -> BOOLEAN],
           UNCHANGED <<lock, owner, status, memory, stopping>>, World
    PROVE  IInv'
<1> USE DEF IInv, World, bounds
<1>1. pc'[r] = label /\ \A q \in Runs : q # r => pc'[q] = pc[q]
  BY DEF SupervisorTypeOK
<1>2. SupervisorTypeOK'
  BY DEF SupervisorTypeOK
<1>3. Lease' /\ Awaited'
  BY <1>1 DEF Lease, Awaited, Alive
<1>4. Counted' /\ Signalled'
  BY <1>1 DEF Counted, Signalled, Alive
<1>5. status # NoStatus => status.run \in Runs
  BY DEF SupervisorTypeOK, Statuses
<1>6. held # NoStatus => held.run \in Runs
  BY DEF SupervisorTypeOK, Statuses
<1>7. Filed'
  BY <1>1, <1>5 DEF Filed, Alive
<1>8. HeldOfGone'
  BY <1>1, <1>6 DEF HeldOfGone, Alive
<1> QED BY <1>2, <1>3, <1>4, <1>7, <1>8

-----------------------------------------------------------------------------
(* What the head of the loop writes.                                       *)
LEMMA VerifiedIs ==
    ASSUME SupervisorTypeOK, NEW r \in Runs
    PROVE  /\ Verified(r) \in Statuses
           /\ Verified(r) = [memory[r] EXCEPT !.refusal = "none"]
           /\ Verified(r).refusal = "none" /\ Verified(r).run = memory[r].run
           /\ Verified(r).rapid = memory[r].rapid /\ Verified(r).stalls = memory[r].stalls
           /\ Verified(r).recent = memory[r].recent /\ Verified(r).last = memory[r].last
BY DEF SupervisorTypeOK, Statuses, Verified, Refusals

(* What a tick that has ended makes of the status object.                  *)
LEMMA ExitedIs ==
    ASSUME IInv, NEW r \in Runs, pc[r] = "tick"
    PROVE  /\ Exited(r) \in Statuses /\ Exited(r).run = r
           /\ Exited(r).refusal # "stall-loop"
           /\ Exited(r).recent /\ Exited(r).rapid = 0 => Exited(r).last = "completed"
           /\ Exited(r).state # "refused" => Exited(r).rapid < Limit /\ Exited(r).stalls < Limit
<1>1. memory[r] \in Statuses /\ memory[r].run = r /\ memory[r].rapid < Limit
  BY DEF IInv, SupervisorTypeOK, Counted
<1>2. /\ Limit \in Nat /\ Limit >= 2
      /\ memory[r].rapid \in 0 .. Limit
  BY <1>1, SupervisorAssumption DEF Statuses
<1> DEFINE rapid == IF tick[r] = "ok" THEN 0 ELSE memory[r].rapid + 1
<1>3. rapid \in 0 .. Limit /\ (rapid = 0 => tick[r] = "ok")
  BY <1>1, <1>2
<1> HIDE DEF rapid
<1>4. Exited(r) = [memory[r] EXCEPT
         !.child = FALSE, !.stalls = 0, !.rapid = rapid, !.recent = TRUE,
         !.last = IF tick[r] = "ok" THEN "completed" ELSE "failed",
         !.refusal = IF tick[r] = "ok" THEN "none" ELSE "child",
         !.state = IF rapid >= Limit THEN "refused" ELSE "waiting-restart"]
  BY DEF Exited, rapid
<1>5. Exited(r) \in Statuses
  <2>1. 0 \in 0 .. Limit
    BY <1>2
  <2>2. (IF tick[r] = "ok" THEN "completed" ELSE "failed") \in Outcomes
    BY DEF Outcomes
  <2>3. (IF tick[r] = "ok" THEN "none" ELSE "child") \in Refusals
    BY DEF Refusals
  <2>4. (IF rapid >= Limit THEN "refused" ELSE "waiting-restart") \in States
    BY DEF States
  <2> QED BY <1>1, <1>3, <1>4, <2>1, <2>2, <2>3, <2>4 DEF Statuses
<1>6. /\ Exited(r).run = r /\ Exited(r).refusal \in {"none", "child"}
      /\ Exited(r).rapid = rapid /\ Exited(r).stalls = 0
      /\ Exited(r).last = IF tick[r] = "ok" THEN "completed" ELSE "failed"
      /\ Exited(r).state = IF rapid >= Limit THEN "refused" ELSE "waiting-restart"
  BY <1>1, <1>4 DEF Statuses
<1> QED BY <1>2, <1>3, <1>5, <1>6

LEMMA LateIs ==
    ASSUME IInv, NEW r \in Runs, pc[r] = "tick"
    PROVE  /\ Late(r) \in Statuses /\ Late(r).run = r
           /\ Late(r).refusal = "none" /\ Late(r).state = "waiting-restart"
           /\ ~Late(r).recent /\ Late(r).rapid < Limit
<1>1. memory[r] \in Statuses /\ memory[r].run = r /\ memory[r].rapid < Limit
      /\ memory[r].stalls < Limit
  BY DEF IInv, SupervisorTypeOK, Counted
<1>2. memory[r].stalls + 1 \in 0 .. Limit
  BY <1>1, SupervisorAssumption DEF Statuses
<1> QED BY <1>1, <1>2 DEF Late, Statuses, States, Refusals, Outcomes

-----------------------------------------------------------------------------
LEMMA NextPreserves == IInv /\ [Next]_vars => IInv'
<1> SUFFICES ASSUME IInv, [Next]_vars PROVE IInv'
  OBVIOUS
<1> USE DEF World
<1>0. /\ SupervisorTypeOK
      /\ \A r \in Runs : memory[r] \in Statuses /\ memory[r].run = r
      /\ stopping \in [Runs -> BOOLEAN] /\ cancelled \in [Runs -> BOOLEAN]
      /\ stalled \in [Runs -> BOOLEAN]
      /\ tick \in [Runs -> {"none", "live", "ok", "bad"}]
  BY DEF IInv, SupervisorTypeOK, Counted
<1>1. ASSUME NEW r \in Runs, Acquire(r) PROVE IInv'
  <2> USE <1>1 DEF Acquire, bounds
  <2>1. pc'[r] = "acquired" /\ \A q \in Runs : q # r => pc'[q] = pc[q]
    BY <1>0 DEF SupervisorTypeOK
  <2>2. SupervisorTypeOK'
    <3>1. r \in 0 .. MaxRuns
      BY SupervisorAssumption DEF Runs
    <3> QED BY <1>0, <3>1 DEF SupervisorTypeOK, PCs
  <2>3. \A q \in Runs : ~Alive(q)
    BY DEF IInv, Lease, Free, Runs
  <2>4. Lease'
    BY <2>1, <2>3 DEF Lease, Alive
  <2>5. Awaited' /\ Counted' /\ Signalled'
    BY <2>1 DEF IInv, Awaited, Counted, Signalled
  <2>6. (status # NoStatus => status.run \in Runs) /\ (held # NoStatus => held.run \in Runs)
    BY <1>0 DEF SupervisorTypeOK, Statuses
  <2>7. Filed' /\ HeldOfGone'
    BY <2>1, <2>6 DEF IInv, Filed, HeldOfGone, Alive
  <2> QED BY <2>2, <2>4, <2>5, <2>7 DEF IInv
<1>2. ASSUME NEW r \in Runs, Release(r) PROVE IInv'
  <2> USE <1>2 DEF Release, bounds
  <2>1. pc'[r] = "ended" /\ \A q \in Runs : q # r => pc'[q] = pc[q]
    BY <1>0 DEF SupervisorTypeOK
  <2>2. SupervisorTypeOK'
    <3>1. 0 \in 0 .. MaxRuns
      BY SupervisorAssumption
    <3> QED BY <1>0, <3>1 DEF SupervisorTypeOK, PCs
  <2>3. lock = r
    BY DEF IInv, Lease, Alive
  <2>4. Lease'
    BY <2>1, <2>3 DEF IInv, Lease, Alive
  <2>5. Awaited' /\ Counted' /\ Signalled'
    BY <2>1 DEF IInv, Awaited, Counted, Signalled
  <2>6. (status # NoStatus => status.run \in Runs) /\ (held # NoStatus => held.run \in Runs)
    BY <1>0 DEF SupervisorTypeOK, Statuses
  <2>7. Filed' /\ HeldOfGone'
    BY <2>1, <2>6 DEF IInv, Filed, HeldOfGone, Alive
  <2> QED BY <2>2, <2>4, <2>5, <2>7 DEF IInv
<1>3. ASSUME NEW r \in Runs, pc[r] \in {"acquired", "top"}, Refuse(r),
             UNCHANGED <<stopping, cancelled, stalled, tick>>, World
      PROVE  IInv'
  <2> DEFINE s == [memory[r] EXCEPT !.state = "refused", !.child = FALSE, !.refusal = "mismatch"]
  <2>1. s.run = r /\ s.refusal = "mismatch" /\ s.recent = memory[r].recent
        /\ s.rapid = memory[r].rapid /\ s.last = memory[r].last
    BY <1>0 DEF Statuses
  <2>5. s \in Statuses
    <3>1. memory[r] \in Statuses
      BY <1>0
    <3> QED BY <3>1 DEF Statuses, States, Refusals
  <2>2. ~stopping[r] /\ tick[r] # "live" /\ Alive(r)
    BY <1>3 DEF IInv, Signalled, Awaited, Alive
  <2>3. s.recent /\ s.rapid = 0 => s.last = "completed"
    BY <2>1 DEF IInv, Counted
  <2> HIDE DEF s
  <2>4. Goes(r, s, "release")
    BY <1>3 DEF Refuse, s
  <2> QED BY <1>0, <1>3, <2>1, <2>2, <2>3, <2>4, <2>5, GoesKeeps DEF PCs
<1>4. ASSUME NEW r \in Runs, NEW s \in Statuses, Launch(r, s), Alive(r), ~stopping[r],
             tick[r] # "live", s.run = r, s.rapid < Limit, s.stalls < Limit,
             s.recent /\ s.rapid = 0 => s.last = "completed", s.refusal # "stall-loop",
             UNCHANGED <<stopping, cancelled, stalled, tick>>, World
      PROVE  IInv'
  <2> DEFINE t == [s EXCEPT !.state = "starting", !.child = FALSE]
  <2>1. t \in Statuses /\ t.run = r /\ t.refusal = s.refusal /\ t.recent = s.recent
        /\ t.rapid = s.rapid /\ t.stalls = s.stalls /\ t.last = s.last
    BY <1>4 DEF Statuses, States
  <2> HIDE DEF t
  <2>2. Goes(r, t, "spawn")
    BY <1>4 DEF Launch, t
  <2> QED BY <1>0, <1>4, <2>1, <2>2, GoesKeeps DEF PCs
<1>5. ASSUME NEW r \in Runs, Begin(r) PROVE IInv'
  <2>1. CASE ~valid
    BY <1>3, <1>5, <2>1 DEF Begin
  <2>2. CASE valid
    <3>1. ~stopping[r] /\ tick[r] # "live" /\ Alive(r)
          /\ memory[r].rapid < Limit /\ memory[r].stalls < Limit
          /\ (memory[r].recent /\ memory[r].rapid = 0 => memory[r].last = "completed")
          /\ memory[r].refusal # "stall-loop"
      BY <1>5 DEF IInv, Signalled, Awaited, Alive, Counted, Begin
    <3>2. Goes(r, memory[r], "top")
      BY <1>5, <2>2 DEF Begin
    <3> QED BY <1>0, <1>5, <3>1, <3>2, GoesKeeps DEF PCs, Begin
  <2> QED BY <2>1, <2>2
<1>6. ASSUME NEW r \in Runs, Top(r) PROVE IInv'
  <2>1. ~stopping[r] /\ tick[r] # "live" /\ Alive(r)
        /\ memory[r].rapid < Limit /\ memory[r].stalls < Limit
        /\ (memory[r].recent /\ memory[r].rapid = 0 => memory[r].last = "completed")
    BY <1>6 DEF IInv, Signalled, Awaited, Alive, Counted, Top
  <2>2. CASE Refuse(r)
    BY <1>3, <1>6, <2>2 DEF Top
  <2>3. CASE Launch(r, Verified(r))
    BY <1>0, <1>4, <1>6, <2>1, <2>3, VerifiedIs DEF Top
  <2>4. CASE Goes(r, [Verified(r) EXCEPT !.state = "waiting-restart"], "backoff")
    <3> DEFINE s == [Verified(r) EXCEPT !.state = "waiting-restart"]
    <3>1. s \in Statuses /\ s.run = r /\ s.refusal = "none" /\ s.recent = memory[r].recent
          /\ s.rapid = memory[r].rapid /\ s.stalls = memory[r].stalls /\ s.last = memory[r].last
      BY <1>0, VerifiedIs DEF Statuses, States
    <3>2. Goes(r, s, "backoff")
      BY <2>4
    <3> HIDE DEF s
    <3> QED BY <1>0, <1>6, <2>1, <3>1, <3>2, GoesKeeps DEF PCs, Top
  <2> QED BY <1>6, <2>2, <2>3, <2>4 DEF Top
<1>7. ASSUME NEW r \in Runs, Backoff(r) PROVE IInv'
  <2>1. tick[r] # "live" /\ Alive(r)
        /\ memory[r].rapid < Limit /\ memory[r].stalls < Limit
        /\ (memory[r].recent /\ memory[r].rapid = 0 => memory[r].last = "completed")
        /\ memory[r].refusal # "stall-loop"
    BY <1>7 DEF IInv, Awaited, Alive, Counted, Backoff
  <2>2. CASE stopping[r]
    BY <1>0, <1>7, <2>1, <2>2, MovesKeep DEF Backoff, PCs
  <2>3. CASE ~stopping[r] /\ Launch(r, memory[r])
    BY <1>0, <1>4, <1>7, <2>1, <2>3 DEF Backoff
  <2>4. CASE ~stopping[r] /\ pc' = [pc EXCEPT ![r] = "release"]
             /\ UNCHANGED <<lock, owner, memory, status>>
    BY <1>0, <1>7, <2>1, <2>4, MovesKeep DEF Backoff, PCs
  <2> QED BY <1>7, <2>2, <2>3, <2>4 DEF Backoff
<1>8. ASSUME NEW r \in Runs, Spawn(r) PROVE IInv'
  <2>1. ~stopping[r] /\ Alive(r)
    BY <1>8 DEF IInv, Signalled, Alive, Spawn
  <2>2. CASE tick' = [tick EXCEPT ![r] = "live"] /\ pc' = [pc EXCEPT ![r] = "spawned"]
    BY <1>0, <1>8, <2>1, <2>2, MovesKeep DEF Spawn, PCs
  <2>3. CASE tick' = [tick EXCEPT ![r] = "bad"] /\ pc' = [pc EXCEPT ![r] = "tick"]
    BY <1>0, <1>8, <2>1, <2>3, MovesKeep DEF Spawn, PCs
  <2> QED BY <1>8, <2>2, <2>3 DEF Spawn
<1>9. ASSUME NEW r \in Runs, OnSpawn(r) PROVE IInv'
  <2> DEFINE s == [memory[r] EXCEPT !.state = "running", !.child = TRUE]
  <2>1. ~stopping[r] /\ Alive(r)
        /\ memory[r].rapid < Limit /\ memory[r].stalls < Limit
        /\ (memory[r].recent /\ memory[r].rapid = 0 => memory[r].last = "completed")
        /\ memory[r].refusal # "stall-loop"
    BY <1>9 DEF IInv, Signalled, Alive, Counted, OnSpawn
  <2>2. s.run = r /\ s.refusal = memory[r].refusal
        /\ s.recent = memory[r].recent /\ s.rapid = memory[r].rapid
        /\ s.stalls = memory[r].stalls /\ s.last = memory[r].last
    BY <1>0 DEF Statuses
  <2>4. s \in Statuses
    <3>1. memory[r] \in Statuses
      BY <1>0
    <3> QED BY <3>1 DEF Statuses, States
  <2>3. Goes(r, s, "tick")
    BY <1>9 DEF OnSpawn
  <2> HIDE DEF s
  <2> QED BY <1>0, <1>9, <2>1, <2>2, <2>3, <2>4, GoesKeeps DEF PCs, OnSpawn
<1>10. ASSUME NEW r \in Runs, Stall(r) PROVE IInv'
  BY <1>0, <1>10 DEF Stall, IInv, SupervisorTypeOK, Lease, Awaited, Counted, Signalled, Filed,
                     HeldOfGone, Alive, bounds
<1>11. ASSUME NEW r \in Runs, Stop(r) PROVE IInv'
  <2> DEFINE s == [memory[r] EXCEPT !.state = "stopping"]
  <2>1. Alive(r) /\ pc[r] \in {"backoff", "tick", "rest"}
        /\ memory[r].rapid < Limit /\ memory[r].stalls < Limit
        /\ (memory[r].recent /\ memory[r].rapid = 0 => memory[r].last = "completed")
        /\ memory[r].refusal # "stall-loop"
    BY <1>11 DEF IInv, Alive, Counted, Stop
  <2>2. tick[r] = "live" => pc[r] = "tick"
    BY <2>1 DEF IInv, Awaited
  <2>3. s.run = r /\ s.refusal = memory[r].refusal
        /\ s.recent = memory[r].recent /\ s.rapid = memory[r].rapid
        /\ s.stalls = memory[r].stalls /\ s.last = memory[r].last /\ s.state = "stopping"
    BY <1>0 DEF Statuses
  <2>7. s \in Statuses
    <3>1. memory[r] \in Statuses
      BY <1>0
    <3> QED BY <3>1 DEF Statuses, States
  <2>4. Goes(r, s, pc[r])
    BY <1>11 DEF Stop
  <2> HIDE DEF s
  <2>5. cancelled' \in [Runs -> BOOLEAN]
    BY <1>0, <1>11 DEF Stop
  <2>6. /\ stopping' \in [Runs -> BOOLEAN] /\ stopping'[r]
        /\ \A q \in Runs : q # r => stopping'[q] = stopping[q]
    BY <1>0, <1>11 DEF Stop
  <2>8. UNCHANGED <<stalled, tick>> /\ World
    BY <1>11 DEF Stop
  <2>9. pc[r] \in PCs /\ pc[r] \notin {"new", "ended", "killed"}
    BY <2>1 DEF PCs
  <2> HIDE DEF World
  <2> QED BY <1>0, <2>1, <2>2, <2>3, <2>4, <2>5, <2>6, <2>7, <2>8, <2>9, GoesKeeps
<1>12. ASSUME NEW r \in Runs, Return(r) PROVE IInv'
  <2>1. Alive(r) /\ tick[r] # "live" /\ pc[r] = "tick"
    BY <1>12 DEF Return, Over, Alive
  <2>2. CASE stopping[r]
    BY <1>0, <1>12, <2>1, <2>2, MovesKeep DEF Return, PCs
  <2>3. CASE ~stopping[r]
    <3> DEFINE s == Settled(r)
               label == After(s)
    <3>1. /\ s \in Statuses /\ s.run = r
          /\ s.refusal # "stall-loop"
          /\ s.recent /\ s.rapid = 0 => s.last = "completed"
          /\ s.state # "refused" => s.rapid < Limit
      BY <2>1, ExitedIs, LateIs DEF Settled
    <3>2. Goes(r, s, label)
      BY <1>12, <2>3 DEF Return
    <3> HIDE DEF s
    <3>3. s.stalls \in 0 .. Limit /\ Limit \in Nat
      BY <3>1, SupervisorAssumption DEF Statuses
    <3>4. /\ label \in PCs /\ label \in {"release", "stalledOut", "rest"}
          /\ label # "release" => s.state # "refused"
          /\ label \notin {"release", "stalledOut"} => s.stalls < Limit
      BY <3>3 DEF PCs, After
    <3> HIDE DEF label
    <3> QED BY <1>0, <1>12, <2>1, <2>3, <3>1, <3>2, <3>4, GoesKeeps DEF Return
  <2> QED BY <2>2, <2>3
<1>13. ASSUME NEW r \in Runs, Rest(r) PROVE IInv'
  <2>1. Alive(r) /\ tick[r] # "live"
    BY <1>13 DEF IInv, Awaited, Alive, Rest
  <2>2. CASE stopping[r]
    BY <1>0, <1>13, <2>1, <2>2, MovesKeep DEF Rest, PCs
  <2>3. CASE ~stopping[r]
    BY <1>0, <1>13, <2>1, <2>3, MovesKeep DEF Rest, PCs
  <2> QED BY <2>2, <2>3
<1>14. ASSUME NEW r \in Runs, Leave(r) PROVE IInv'
  <2> DEFINE s == [memory[r] EXCEPT !.state = "stopping", !.child = FALSE]
  <2>1. Alive(r) /\ tick[r] # "live"
        /\ (memory[r].recent /\ memory[r].rapid = 0 => memory[r].last = "completed")
        /\ memory[r].refusal # "stall-loop"
    BY <1>14 DEF IInv, Alive, Counted, Awaited, Leave
  <2>2. s.run = r /\ s.refusal = memory[r].refusal
        /\ s.recent = memory[r].recent /\ s.rapid = memory[r].rapid
        /\ s.last = memory[r].last /\ s.state = "stopping"
    BY <1>0 DEF Statuses
  <2>4. s \in Statuses
    <3>1. memory[r] \in Statuses
      BY <1>0
    <3> QED BY <3>1 DEF Statuses, States
  <2>3. Goes(r, s, "release")
    BY <1>14 DEF Leave
  <2> HIDE DEF s
  <2> QED BY <1>0, <1>14, <2>1, <2>2, <2>3, <2>4, GoesKeeps DEF PCs, Leave
<1>15. ASSUME NEW r \in Runs, TickEnds(r) PROVE IInv'
  BY <1>0, <1>15 DEF TickEnds, run, IInv, SupervisorTypeOK, Lease, Awaited, Counted, Signalled,
                     Filed, HeldOfGone, Alive, bounds
<1>16. ASSUME NEW r \in Runs, Kill(r) PROVE IInv'
  <2> USE <1>16 DEF Kill
  <2>1. pc'[r] = "killed" /\ \A q \in Runs : q # r => pc'[q] = pc[q]
    BY <1>0 DEF SupervisorTypeOK
  <2>2. SupervisorTypeOK'
    BY <1>0, SupervisorAssumption DEF SupervisorTypeOK, PCs, Runs
  <2>3. lock = r
    BY DEF IInv, Lease
  <2>4. Lease'
    BY <2>1, <2>3 DEF IInv, Lease, Alive
  <2>5. Awaited' /\ Counted' /\ Signalled'
    BY <2>1 DEF IInv, Awaited, Counted, Signalled
  <2>6. (status # NoStatus => status.run \in Runs) /\ (held # NoStatus => held.run \in Runs)
    BY <1>0 DEF SupervisorTypeOK, Statuses
  <2>7. Filed' /\ HeldOfGone'
    BY <2>1, <2>6 DEF IInv, Filed, HeldOfGone, Alive
  <2> QED BY <2>2, <2>4, <2>5, <2>7 DEF IInv
<1>17. ASSUME Drift PROVE IInv'
  BY <1>0, <1>17, SupervisorAssumption
     DEF Drift, run, IInv, SupervisorTypeOK, Lease, Awaited, Counted, Signalled, Filed,
         HeldOfGone, Alive
<1>18. ASSUME ResetRead PROVE IInv'
  <2> USE <1>18 DEF ResetRead, run
  <2>1. SupervisorTypeOK'
    BY <1>0, SupervisorAssumption DEF SupervisorTypeOK
  <2>2. Lease' /\ Awaited' /\ Counted' /\ Signalled' /\ Filed'
    BY DEF IInv, Lease, Awaited, Counted, Signalled, Filed, Alive
  <2>3. HeldOfGone'
    BY DEF IInv, Filed, HeldOfGone, Alive
  <2> QED BY <2>1, <2>2, <2>3 DEF IInv
<1>19. ASSUME ResetWrite PROVE IInv'
  <2> USE <1>19 DEF ResetWrite, run, bounds
  <2>1. held \in Statuses
    BY <1>0 DEF SupervisorTypeOK
  <2>6. /\ held.run \in Runs /\ 0 \in 0 .. Limit
        /\ status'.run = held.run /\ status'.refusal = "none"
    BY <2>1, SupervisorAssumption DEF Statuses
  <2>2. status' \in Statuses
    BY <2>1, <2>6 DEF Statuses, States, Refusals, Outcomes
  <2>3. SupervisorTypeOK'
    BY <1>0, <2>2 DEF SupervisorTypeOK
  <2>4. Lease' /\ Awaited' /\ Counted' /\ Signalled' /\ HeldOfGone'
    BY DEF IInv, Lease, Awaited, Counted, Signalled, HeldOfGone, Alive
  <2>5. Filed'
    BY <2>2, <2>6 DEF IInv, Filed, HeldOfGone, Alive
  <2> QED BY <2>3, <2>4, <2>5 DEF IInv
<1>20. ASSUME NEW r \in Runs, RefuseStalls(r) PROVE IInv'
  <2> DEFINE s == [memory[r] EXCEPT !.state = "refused", !.refusal = "stall-loop"]
  <2>1. Alive(r) /\ tick[r] # "live" /\ ~stopping[r]
        /\ (memory[r].recent /\ memory[r].rapid = 0 => memory[r].last = "completed")
    BY <1>20 DEF IInv, Alive, Counted, Awaited, Signalled, RefuseStalls
  <2>2. s.run = r /\ s.recent = memory[r].recent
        /\ s.rapid = memory[r].rapid /\ s.last = memory[r].last
    BY <1>0 DEF Statuses
  <2>4. s \in Statuses
    <3>1. memory[r] \in Statuses
      BY <1>0
    <3> QED BY <3>1 DEF Statuses, States, Refusals
  <2>3. Goes(r, s, "release")
    BY <1>20 DEF RefuseStalls
  <2> HIDE DEF s
  <2> QED BY <1>0, <1>20, <2>1, <2>2, <2>3, <2>4, GoesKeeps DEF PCs, RefuseStalls
<1>21. CASE UNCHANGED vars
  BY <1>21 DEF vars, run, bounds, IInv, SupervisorTypeOK, Lease, Awaited, Counted, Signalled,
               Filed, HeldOfGone, Alive
<1> QED
  BY <1>1, <1>2, <1>5, <1>6, <1>7, <1>8, <1>9, <1>10, <1>11, <1>12, <1>13, <1>14, <1>15,
     <1>16, <1>17, <1>18, <1>19, <1>20, <1>21 DEF Next, Loop

(* The invariant the theorems rest on.                                     *)
THEOREM Inductive == Spec => []IInv
<1> QED BY InitEstablishes, NextPreserves, PTL DEF Spec

(* The types, with no more than Limit failures or stalls in a row counted. *)
THEOREM TypeCorrect == Spec => []SupervisorTypeOK
<1>1. IInv => SupervisorTypeOK
  BY DEF IInv
<1> QED BY <1>1, Inductive, PTL

(* Two ticks are alive at once only after a kill: the lease keeps the next *)
(* run out until the one before has seen its tick end.                     *)
THEOREM OneTickAtATime == Spec => []OneTick
<1>1. IInv => OneTick
  BY DEF IInv, OneTick, Lease, Awaited, Alive
<1> QED BY <1>1, Inductive, PTL

(* The scheduler that `status` reports operational is that of the run that *)
(* has the lease, and its last tick completed or is alive.                 *)
THEOREM OperationalIsTrue == Spec => []OperationalTrue
<1>1. ASSUME IInv, Operational
      PROVE  /\ lock = status.run /\ ~stopping[lock]
             /\ tick[lock] = "live" \/ memory[lock].last = "completed"
  <2>1. status.run \in Runs
    BY <1>1 DEF IInv, SupervisorTypeOK, Operational, Statuses
  <2>2. lock = status.run /\ status = memory[lock]
    BY <1>1, <2>1 DEF IInv, Lease, Filed, Operational
  <2>3. ~stopping[lock]
    BY <1>1, <2>1, <2>2 DEF IInv, Signalled, Operational
  <2> QED BY <1>1, <2>1, <2>2, <2>3 DEF IInv, Counted, Operational
<1>2. IInv => OperationalTrue
  BY <1>1 DEF OperationalTrue
<1> QED BY <1>2, Inductive, PTL

(* A run that has handled a signal starts no tick and shows no state but   *)
(* stopping from then on, not even through a reset command.                *)
THEOREM StoppingIsFinal == Spec => StopIsFinal
<1>1. ASSUME IInv, IInv', [Next]_vars, NEW r \in Runs, stopping[r]
      PROVE  /\ tick'[r] = "live" => tick[r] = "live"
             /\ memory'[r].state = "stopping"
             /\ status' # status /\ status'.run = r => status'.state = "stopping"
  <2>1. stopping'[r]
    BY <1>1 DEF IInv, SupervisorTypeOK, Next, vars, run, bounds, Acquire, Loop, Begin, Top,
       Backoff, Spawn, OnSpawn, Return, RefuseStalls, Rest, Leave, Release, Stall, Stop, TickEnds, Kill,
       Drift, ResetRead, ResetWrite
  <2>2. memory'[r].state = "stopping"
    BY <1>1, <2>1 DEF IInv, Signalled
  <2>3. tick'[r] = "live" => tick[r] = "live"
    <3>1. pc[r] # "spawn"
      BY <1>1 DEF IInv, Signalled
    <3>2. tick \in [Runs -> {"none", "live", "ok", "bad"}]
      BY <1>1 DEF IInv, SupervisorTypeOK
    <3>3. CASE \E q \in Runs : Spawn(q)
      BY <3>1, <3>2, <3>3 DEF Spawn
    <3>4. CASE \E q \in Runs : TickEnds(q)
      BY <3>2, <3>4 DEF TickEnds
    <3>5. CASE UNCHANGED tick
      BY <3>5
    <3> QED BY <1>1, <3>3, <3>4, <3>5
      DEF Next, vars, Acquire, Loop, Begin, Top, Backoff, OnSpawn, Return, RefuseStalls, Rest, Leave,
          Release, Stall, Stop, Kill, Drift, ResetRead, ResetWrite
  <2>4. ASSUME status' # status, status'.run = r PROVE status'.state = "stopping"
    <3>1. CASE ResetWrite
      <4>1. held.run = r
        BY <1>1, <2>4, <3>1 DEF ResetWrite, IInv, SupervisorTypeOK, Statuses
      <4> QED BY <1>1, <3>1, <4>1 DEF ResetWrite, IInv, HeldOfGone
    <3>2. CASE ~ResetWrite
      <4>3. ASSUME NEW q \in Runs, NEW s, NEW label, Goes(q, s, label)
            PROVE  status' = memory'[q]
        BY <1>1, <4>3 DEF Goes, Written, IInv, SupervisorTypeOK
      <4>1. PICK q \in Runs : status' = memory'[q]
        BY <1>1, <2>4, <3>2, <4>3
        DEF Next, vars, Acquire, Loop, Begin, Top, Backoff, Spawn, OnSpawn, Return, RefuseStalls, Rest,
            Leave, Release, Stall, Stop, TickEnds, Kill, Drift, ResetRead, Launch, Refuse
      <4>2. q = r
        BY <1>1, <2>4, <4>1 DEF IInv, Counted
      <4> QED BY <2>2, <4>1, <4>2
    <3> QED BY <3>1, <3>2
  <2> QED BY <2>2, <2>3, <2>4
<1>2. IInv /\ IInv' /\ [Next]_vars => [\A r \in Runs : stopping[r] =>
        /\ tick'[r] = "live" => tick[r] = "live"
        /\ memory'[r].state = "stopping"
        /\ status' # status /\ status'.run = r => status'.state = "stopping"]_vars
  BY <1>1
<1> QED BY <1>2, Inductive, PTL DEF Spec, StopIsFinal
=============================================================================
