---------------------------- MODULE HciExchange ----------------------------
(* What the bring-up of a controller promises: the commands of a script are  *)
(* sent in order, each after an event was read for the one before, and the   *)
(* program ends only when all of them were.                                  *)
EXTENDS Naturals, Sequences

VARIABLES
    script, \* the commands, in order
    sent,   \* the commands sent so far
    taken,  \* events read so far
    ended   \* nothing more is sent

Init == sent = <<>> /\ taken = 0 /\ ended = FALSE

Ask ==
    /\ ~ended /\ taken = Len(sent) /\ Len(sent) < Len(script)
    /\ sent' = Append(sent, script[Len(sent) + 1])
    /\ UNCHANGED <<script, taken, ended>>

Take ==
    /\ taken < Len(sent) /\ taken' = taken + 1
    /\ UNCHANGED <<script, sent, ended>>

End ==
    /\ sent = script /\ taken = Len(sent) /\ ended' = TRUE
    /\ UNCHANGED <<script, sent, taken>>

Next == Ask \/ Take \/ End
Spec == Init /\ [][Next]_<<script, sent, taken, ended>>
=============================================================================
