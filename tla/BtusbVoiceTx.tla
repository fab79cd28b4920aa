---------------------------- MODULE BtusbVoiceTx ----------------------------
(***************************************************************************)
(* btusb_submit_voice_tx: a SCO packet that the application writes is cut  *)
(* into bursts, every burst gets a copy of the header, and the bursts are  *)
(* cut into isochronous frames of at most PacketSize bytes, Frames of them *)
(* to an URB.  The data is sent again until LowWater frames are in flight. *)
(* The URBs complete while it runs, and an ioctl or a disconnect in        *)
(* another thread may cancel them.  One call runs at a time: the kick-off  *)
(* of a new setting by that thread during a write is not modelled.         *)
(*                                                                         *)
(* A byte is <<"d", i>>, the i-th byte of the data, or <<"h", n>>, a byte  *)
(* of a header announcing n bytes.  The headers are rebuilt inside the     *)
(* packet, over bytes of it already copied.                                *)
(***************************************************************************)
EXTENDS Integers, FiniteSets, Sequences

CONSTANTS
    Trans,        \* voice_tx_array
    Frames,       \* BTUSB_VOICE_FRAMES_PER_URB
    Burst,        \* BTUSB_VOICE_BURST_SIZE
    Header,       \* BTUSB_VOICE_HEADER_SIZE
    PacketSize,   \* wMaxPacketSize of p_voice_out
    LowWater,     \* frames that must be in flight (30 in the code)
    DataLens,     \* lengths of the data of the packets the application writes
    SubmitFails,  \* usb_submit_urb may fail
    Smp,          \* a completion runs on another processor than the writer
    InCall,       \* how many URBs may complete during one call
    Cancels,      \* another thread cancels the voice URBs
    ActiveBound   \* bound of the model on voice_tx_active, which can drift

ASSUME VoiceTxAssumption ==
    /\ IsFiniteSet(Trans)
    /\ {Frames, Burst, Header, PacketSize, LowWater, ActiveBound} \subseteq Nat \ {0}
    /\ DataLens \subseteq Nat /\ InCall \in Nat
    /\ {SubmitFails, Smp, Cancels} \subseteq BOOLEAN

VARIABLES
    in_use,           \* transactions marked used
    submitted,        \* transactions on voice_tx_submitted
    npkts,            \* p_urb->number_of_packets
    voice_tx_active,  \* frames believed in flight
    p_voice_out,      \* the device is there and the endpoint set
    pc, packet, p_cur, remain, to_send, t, i, \* the writer in btusb_submit_voice_tx
    done,             \* transactions released by a completion that has not ended
    cpc,              \* the thread in btusb_cancel_voice
    completed,        \* URBs completed during the call
    sent,             \* bytes put in frames since the writer last restarted
    lost              \* a submission has failed since then, or the packet was damaged

vars == <<in_use, submitted, npkts, voice_tx_active, p_voice_out, pc, packet, p_cur,
          remain, to_send, t, i, done, cpc, completed, sent, lost>>

urbVars   == <<in_use, submitted, npkts>>
cutVars   == <<packet, p_cur, remain, to_send, sent>>
otherVars == <<p_voice_out, done, cpc, completed>>

NoTrans == "NULL"

Min2(a, b) == IF a < b THEN a ELSE b

HeaderOf(n) == [k \in 1..Header |-> <<"h", n>>]
Data(from, n) == [k \in 1..n |-> <<"d", from + k - 1>>]

Init ==
    /\ in_use = {} /\ submitted = {} /\ npkts = [x \in Trans |-> 0]
    /\ voice_tx_active = 0 /\ p_voice_out = TRUE
    /\ pc = "idle" /\ packet = <<>> /\ p_cur = 1 /\ remain = 0
    /\ to_send = 0 /\ t = NoTrans /\ i = 0
    /\ done = {} /\ cpc = "idle" /\ completed = 0
    /\ sent = <<>> /\ lost = FALSE

----------------------------------------------------------------------------
(* The writer *)

\* the data of the packet, after its header
Start(p) ==
    /\ p_cur' = Header + 1 /\ to_send' = 0
    /\ remain' = Len(p) - Header
    /\ sent' = <<>>

\* A write, or the kick-off of btusb_update_voice_trans, which sends a burst of
\* zeroes for each channel in use.  Without endpoint, or with one of packet size 0,
\* or for a packet shorter than a header, the call returns and changes nothing.
Call(l) ==
    /\ pc = "idle" /\ p_voice_out
    /\ packet' = HeaderOf(l) \o Data(1, l)
    /\ Start(packet') /\ lost' = FALSE
    /\ pc' = "loop" /\ completed' = 0
    /\ UNCHANGED <<urbVars, voice_tx_active, t, i, p_voice_out, done, cpc>>

\* while (remain): find a free transaction
Alloc ==
    /\ pc = "loop" /\ remain > 0
    /\ \E x \in Trans \ in_use : t' = x /\ in_use' = in_use \cup {x}
    /\ pc' = "fill" /\ i' = 0
    /\ UNCHANGED <<submitted, npkts, voice_tx_active, cutVars, otherVars, lost>>

\* none is free: -ENOMEM
NoneFree ==
    /\ pc = "loop" /\ remain > 0 /\ in_use = Trans
    /\ pc' = "idle"
    /\ UNCHANGED <<urbVars, voice_tx_active, cutVars, t, i, otherVars, lost>>

\* the header goes over the Header bytes before the cursor
StartBurst(n) ==
    LET cursor == p_cur - Header
    IN /\ pc = "fill" /\ i < Frames /\ to_send = 0 /\ remain > 0
       /\ p_cur' = cursor
       /\ packet' = [k \in DOMAIN packet |->
                        IF k \in cursor..cursor + Header - 1
                        THEN HeaderOf(n)[k - cursor + 1] ELSE packet[k]]
       /\ to_send' = n + Header /\ remain' = remain - n
       /\ UNCHANGED <<urbVars, voice_tx_active, pc, t, i, otherVars, sent, lost>>

\* mutant of NextBurst: a burst takes all that remains
NextBurstWhole == StartBurst(remain)

NextBurst == StartBurst(Min2(remain, Burst))

\* mutant of FillFrame: an URB takes one frame too many
FillFrameMore ==
    LET pkt_used == Min2(to_send, PacketSize)
    IN /\ pc = "fill" /\ i <= Frames /\ to_send > 0
       /\ sent' = sent \o SubSeq(packet, p_cur, p_cur + pkt_used - 1)
       /\ p_cur' = p_cur + pkt_used /\ to_send' = to_send - pkt_used
       /\ i' = i + 1
       /\ UNCHANGED <<urbVars, voice_tx_active, pc, packet, remain, t, otherVars, lost>>

FillFrame ==
    LET pkt_used == Min2(to_send, PacketSize)
    IN /\ pc = "fill" /\ i < Frames /\ to_send > 0
       /\ sent' = sent \o SubSeq(packet, p_cur, p_cur + pkt_used - 1)
       /\ p_cur' = p_cur + pkt_used /\ to_send' = to_send - pkt_used
       /\ i' = i + 1
       /\ UNCHANGED <<urbVars, voice_tx_active, pc, packet, remain, t, otherVars, lost>>

\* the URB is full, or the packet is at its end
Filled ==
    /\ pc = "fill" /\ (i >= Frames \/ (to_send = 0 /\ remain = 0))
    /\ pc' = "submit" /\ npkts' = [npkts EXCEPT ![t] = i]
    /\ UNCHANGED <<in_use, submitted, voice_tx_active, cutVars, t, i, otherVars, lost>>

Submitted ==
    /\ pc = "submit" /\ pc' = "count"
    /\ submitted' = submitted \cup {t}
    /\ UNCHANGED <<in_use, npkts, voice_tx_active, cutVars, t, i, otherVars, lost>>

\* mutant of Refused: the transaction is not released
RefusedKeeps ==
    /\ SubmitFails /\ pc = "submit" /\ pc' = "loop"
    /\ lost' = TRUE
    /\ UNCHANGED <<urbVars, voice_tx_active, cutVars, t, i, otherVars>>

\* the failure goes into a statistic, and the loop goes on
Refused ==
    /\ SubmitFails /\ pc = "submit" /\ pc' = "loop"
    /\ in_use' = in_use \ {t} /\ lost' = TRUE
    /\ UNCHANGED <<submitted, npkts, voice_tx_active, cutVars, t, i, otherVars>>

SetActive(n) ==
    /\ voice_tx_active' = n
    /\ voice_tx_active' \in -ActiveBound..ActiveBound   \* bound of the model

\* mutant of Count: URBs are counted instead of frames
CountUrb ==
    /\ pc = "count" /\ pc' = "loop"
    /\ SetActive(voice_tx_active + 1)
    /\ UNCHANGED <<urbVars, cutVars, t, i, otherVars, lost>>

Count ==
    /\ pc = "count" /\ pc' = "loop"
    /\ SetActive(voice_tx_active + i)
    /\ UNCHANGED <<urbVars, cutVars, t, i, otherVars, lost>>

\* mutant of Resend: the length is not computed again
ResendKeepsRemain ==
    /\ pc = "loop" /\ remain = 0 /\ voice_tx_active < LowWater
    /\ p_cur' = Header + 1 /\ to_send' = 0 /\ sent' = <<>> /\ lost' = FALSE
    /\ UNCHANGED <<urbVars, voice_tx_active, pc, packet, remain, t, i, otherVars>>

\* too little in flight: goto resend, with the packet as it is now; the header of
\* a second burst has overwritten the end of the first
Resend ==
    /\ pc = "loop" /\ remain = 0 /\ voice_tx_active < LowWater
    /\ Start(packet) /\ lost' = (Len(packet) - Header > Burst)
    /\ UNCHANGED <<urbVars, voice_tx_active, pc, packet, t, i, otherVars>>

Return ==
    /\ pc = "loop" /\ remain = 0 /\ voice_tx_active >= LowWater
    /\ pc' = "idle"
    /\ UNCHANGED <<urbVars, voice_tx_active, cutVars, t, i, otherVars, lost>>

Writer ==
    \/ Alloc \/ NoneFree \/ NextBurst \/ FillFrame \/ Filled
    \/ Submitted \/ Refused \/ Count \/ Resend \/ Return

----------------------------------------------------------------------------
(* btusb_urb_out_complete releases the transaction, then calls               *)
(* btusb_voicetx_complete, which reads number_of_packets.                    *)

writerVars == <<pc, cutVars, t, i, lost>>

\* an isochronous URB lasts Frames milliseconds, a call far less
MayComplete ==
    \/ pc = "idle" /\ UNCHANGED completed
    \/ pc # "idle" /\ completed < InCall /\ completed' = completed + 1

\* on one processor the completion runs to its end before the writer goes on
Complete(x) ==
    /\ ~Smp /\ MayComplete /\ x \in submitted
    /\ submitted' = submitted \ {x} /\ in_use' = in_use \ {x}
    /\ SetActive(voice_tx_active - npkts[x])
    /\ UNCHANGED <<npkts, writerVars, p_voice_out, done, cpc>>

CompleteRelease(x) ==
    /\ Smp /\ MayComplete /\ x \in submitted
    /\ submitted' = submitted \ {x} /\ in_use' = in_use \ {x}
    /\ done' = done \cup {x}
    /\ UNCHANGED <<npkts, voice_tx_active, p_voice_out, writerVars, cpc>>

CompleteCount(x) ==
    /\ x \in done /\ done' = done \ {x}
    /\ SetActive(voice_tx_active - npkts[x])
    /\ UNCHANGED <<urbVars, p_voice_out, writerVars, cpc, completed>>

----------------------------------------------------------------------------
(* btusb_set_voice or btusb_disconnect: clear the endpoint or p_main_intf,   *)
(* kill the URBs until none is anchored, then reset the count.  An URB leaves *)
(* its anchor before its completion is called: one may still be running.     *)

CancelStart ==
    /\ Cancels /\ cpc = "idle"
    /\ cpc' = "killing" /\ p_voice_out' = FALSE
    /\ UNCHANGED <<urbVars, voice_tx_active, writerVars, done, completed>>

CancelKilled ==
    /\ cpc = "killing" /\ submitted = {}
    /\ cpc' = "killed"
    /\ UNCHANGED <<urbVars, voice_tx_active, p_voice_out, writerVars, done, completed>>

\* atomic_set, after which the new setting may have its endpoints; the device of
\* a disconnect is gone, and so are they when the setting fails or has none
CancelReset ==
    /\ cpc = "killed" /\ cpc' = "idle"
    /\ voice_tx_active' = 0 /\ p_voice_out' \in BOOLEAN
    /\ UNCHANGED <<urbVars, writerVars, done, completed>>

Next ==
    \/ \E l \in DataLens : Call(l)
    \/ Writer
    \/ \E x \in Trans : Complete(x) \/ CompleteRelease(x) \/ CompleteCount(x)
    \/ CancelStart \/ CancelKilled \/ CancelReset

Spec == Init /\ [][Next]_vars

\* the processor runs the system call; nothing makes an URB complete
FairSpec == Spec /\ WF_vars(Writer)

----------------------------------------------------------------------------
(* Properties *)

\* what the frames of a packet of l bytes of data must add up to: its bursts, each
\* after a header of its own
Bursts(l) ==
    LET n == (l + Burst - 1) \div Burst
        burst(k) == (k - 1) \div (Header + Burst)
        place(k) == (k - 1) % (Header + Burst)
    IN [k \in 1..l + n * Header |->
            IF place(k) < Header THEN <<"h", Min2(Burst, l - burst(k) * Burst)>>
            ELSE <<"d", burst(k) * Burst + place(k) - Header + 1>>]

\* Every variable has its type, and an URB takes no more frames than it has
\* descriptors.
TypeOK ==
    /\ in_use \subseteq Trans /\ submitted \subseteq Trans /\ done \subseteq Trans
    /\ npkts \in [Trans -> 0..Frames] /\ i \in 0..Frames
    /\ voice_tx_active \in Int /\ p_voice_out \in BOOLEAN
    /\ pc \in {"idle", "loop", "fill", "submit", "count"} /\ t \in Trans \cup {NoTrans}
    /\ cpc \in {"idle", "killing", "killed"} /\ completed \in 0..InCall
    /\ {p_cur, remain, to_send} \subseteq Nat /\ lost \in BOOLEAN

\* A transaction is marked used exactly when its URB is in flight or the writer
\* is filling it: none leaks when a submission fails, none is reused early.
TransHonest ==
    in_use = submitted \cup (IF pc \in {"fill", "submit"} THEN {t} ELSE {})

\* When a packet has been sent, for the first time or again, the frames add up to
\* its bursts: no byte is left behind at the end of an URB or damaged on the way.
\* Packets of several bursts that are sent again are left to SameDataAgain.
PacketSent ==
    pc = "loop" /\ remain = 0 /\ ~lost
        => sent = Bursts(Len(packet) - Header)

\* the frames of the URBs on voice_tx_submitted
InFlight == {f \in submitted \X (1..Frames) : f[2] <= npkts[f[1]]}

\* voice_tx_active counts the frames in flight, but for the URB submitted a
\* moment ago and for completions under way.
ActiveExact ==
    done = {} /\ cpc = "idle" =>
        voice_tx_active + (IF pc = "count" THEN i ELSE 0)
            = Cardinality(InFlight)

\* The system call returns, whatever the length of the data and however few
\* transactions are free, although URBs complete meanwhile.
CallReturns == (pc = "loop") ~> (pc = "idle")

\* btusb_dev.c:1532 "send the same data again": the data sent again is the data of
\* the packet.
SameDataAgain ==
    [][Resend => SubSeq(packet, Header + 1, Len(packet)) = Data(1, Len(packet) - Header)]_vars
=============================================================================
