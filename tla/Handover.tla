------------------------------ MODULE Handover ------------------------------
(***************************************************************************)
(* What the cutover of scripts/lib/cutover promises: one change of hands   *)
(* between an old installation and a new one.  Each store has one          *)
(* authoritative content.  The old installation writes while it serves, is *)
(* frozen, and either serves again or hands over; handing over changes no  *)
(* content, and there is no way back from it.                              *)
(***************************************************************************)
EXTENDS Naturals

CONSTANTS
    Stores,
    MaxWrites,  \* bound: contents the old installation writes to a store
    New         \* whatever the new installation writes

VARIABLES serving, content

HandoverInit == serving = "old" /\ content \in [Stores -> 0 .. 1]

(* The old installation writes; content 0 is an absent store. *)
Write(s) ==
    /\ serving = "old"
    /\ content[s] < MaxWrites
    /\ content' = [content EXCEPT ![s] = @ + 1]
    /\ UNCHANGED serving

Freeze == serving = "old" /\ serving' = "frozen" /\ UNCHANGED content
Restore == serving = "frozen" /\ serving' = "old" /\ UNCHANGED content
HandOver == serving = "frozen" /\ serving' = "new" /\ UNCHANGED content

Adopt(s) ==
    /\ serving = "new"
    /\ content' = [content EXCEPT ![s] = New]
    /\ UNCHANGED serving

HandoverNext ==
    \/ Freeze \/ Restore \/ HandOver
    \/ \E s \in Stores : Write(s) \/ Adopt(s)

HandoverSpec == HandoverInit /\ [][HandoverNext]_<<serving, content>>

=============================================================================
