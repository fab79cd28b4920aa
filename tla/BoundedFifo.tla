---------------------------- MODULE BoundedFifo ----------------------------
(***************************************************************************)
(* What btusb_cq promises one producer and one consumer: a first-in        *)
(* first-out queue that never holds more than Capacity values.             *)
(***************************************************************************)
EXTENDS Naturals, Sequences

CONSTANTS Vals, Capacity

VARIABLES queue,   \* values put and not yet got, oldest first
          got      \* the value of the last get

Init == queue = <<>> /\ got \in Vals

Put(v) == Len(queue) < Capacity /\ queue' = Append(queue, v) /\ UNCHANGED got

Get == queue # <<>> /\ got' = Head(queue) /\ queue' = Tail(queue)

Next == (\E v \in Vals : Put(v)) \/ Get

Spec == Init /\ [][Next]_<<queue, got>>
=============================================================================
