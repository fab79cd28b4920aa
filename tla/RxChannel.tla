----------------------------- MODULE RxChannel -----------------------------
(***************************************************************************)
(* What the receive path of btusb promises its reader: a first-in          *)
(* first-out channel of messages, one of which the reader may hold.  A     *)
(* message is in the channel or held at most once, and only an open of the *)
(* device or the end of the device discards messages.                      *)
(***************************************************************************)
EXTENDS Sequences

CONSTANTS Msgs, None

VARIABLES pending,  \* messages received and not yet taken, oldest first
          held      \* the message the reader holds

InChannel == {pending[i] : i \in DOMAIN pending} \cup {held}

Init == pending = <<>> /\ held = None

\* a message that is not already somewhere in the channel arrives
Receive(m) == m \notin InChannel /\ pending' = Append(pending, m) /\ UNCHANGED held

\* the reader takes the oldest message
Take == held = None /\ pending # <<>> /\ held' = Head(pending) /\ pending' = Tail(pending)

\* the reader has read the message to its end
Return == held # None /\ held' = None /\ UNCHANGED pending

\* open throws the oldest message away
Discard == pending # <<>> /\ pending' = Tail(pending) /\ UNCHANGED held

\* the device is deleted
Delete == pending' = <<>> /\ UNCHANGED held

Next == (\E m \in Msgs : Receive(m)) \/ Take \/ Return \/ Discard \/ Delete

Spec == Init /\ [][Next]_<<pending, held>>
=============================================================================
