----------------------------- MODULE SingleNudge -----------------------------
(***************************************************************************)
(* What the S2 fleet nudge promises of an episode, whichever processes     *)
(* work on it: its message goes out at most once, by a call that is made   *)
(* only for an episode with a journal row and an attempt on record, and    *)
(* never again once the message is out or the attempt is called a success  *)
(* or a failure.  A verdict of success is borne out by the message; one of *)
(* failure says that nobody will call again, not that the message is not   *)
(* out.  Record and row get one verdict each; what is on record of an old  *)
(* episode is forgotten, the row stays.                                    *)
(***************************************************************************)
EXTENDS Naturals

VARIABLES
    record, \* of the attempt: "open", "attempted", a verdict, or "forgotten"
    row,    \* of the journal: "none", "in_flight" or an outcome
    call,   \* "out" while a call that may submit the message is under way
    sends   \* how often the message went out

nudgeVars == <<record, row, call, sends>>

Verdicts == {"SENT", "FAILED_DEFINITIVE", "UNCERTAIN"}
Results == {"dispatched", "send_failed", "dispatch_unknown"}

NudgeInit == record = "open" /\ row = "none" /\ call = "none" /\ sends = 0

Admit == row = "none" /\ row' = "in_flight" /\ UNCHANGED <<record, call, sends>>

Attempt ==
    /\ record = "open" /\ row # "none"
    /\ record' = "attempted"
    /\ UNCHANGED <<row, call, sends>>

(* A slow process may call after others have given its attempt up.         *)
Call ==
    /\ call = "none" /\ sends = 0
    /\ record \in {"attempted", "UNCERTAIN"}
    /\ row \in {"in_flight", "dispatch_unknown"}
    /\ call' = "out"
    /\ UNCHANGED <<record, row, sends>>

(* The call submits the message, whatever its caller has made of it. *)
Deliver ==
    /\ call = "out" /\ sends = 0
    /\ sends' = 1
    /\ call' = "none"
    /\ UNCHANGED <<record, row>>

(* It ends without a message. *)
Drop == call = "out" /\ call' = "none" /\ UNCHANGED <<record, row, sends>>

(* The verdict on the attempt, and the outcome of the row.                 *)
Conclude(v) ==
    /\ record = "attempted"
    /\ v = "SENT" => sends = 1
    /\ record' = v
    /\ UNCHANGED <<row, call, sends>>

Report(r) ==
    /\ row = "in_flight"
    /\ r = "dispatched" => sends = 1
    /\ row' = r
    /\ UNCHANGED <<record, call, sends>>

Forget == record' = "forgotten" /\ UNCHANGED <<row, call, sends>>

NudgeNext ==
    \/ Admit \/ Attempt \/ Call \/ Deliver \/ Drop
    \/ \E v \in Verdicts : Conclude(v)
    \/ \E r \in Results : Report(r)
    \/ Forget

NudgeSpec == NudgeInit /\ [][NudgeNext]_nudgeVars
=============================================================================
