------------------------------ MODULE BtusbRx ------------------------------
(***************************************************************************)
(* The receive path of the btusb kernel driver: the life of a receive      *)
(* buffer between the USB host controller, the rx_queue and the process    *)
(* that reads /dev/btusbN, together with open, poll, read, release, the    *)
(* power-management callbacks, disconnect and the deletion of the control  *)
(* block.                                                                  *)
(*                                                                         *)
(* A message is a buffer: an URB of event_array, acl_rx_array or           *)
(* diag_rx_array, or a packet of voice_rx_pkts.  Its bytes are abstracted  *)
(* to a length.  The reassembly of isochronous frames into voice packets   *)
(* and the choice of voice channels are abstracted to VoiceRxGet and       *)
(* VoiceRxFull.  Code of two contexts interleaves between actions; the     *)
(* sections under the GKI spinlock and the completion callbacks, which run *)
(* with interrupts off, are one action.                                    *)
(***************************************************************************)
EXTENDS Naturals, Sequences, FiniteSets

CONSTANTS
    Events,     \* URBs of event_array
    Acls,       \* URBs of acl_rx_array
    Diags,      \* URBs of diag_rx_array (empty: no diag interface)
    Pkts,       \* voice_rx_pkts
    Chans,      \* voice_rx.channels
    Procs,      \* processes that open the device node
    None,       \* the NULL message
    MaxLen,     \* bound on the length of a message
    Voice,      \* the controller has a voice interface
    SerialOpen, \* the kernel serialises calls of open (kernels with the BKL)
    Pm,         \* suspend and resume happen
    Faults,     \* USB errors other than -EPROTO and failing submissions happen
    ProbeFails  \* a submission of btusb_probe may fail

Urbs == Events \cup Acls \cup Diags
Msgs == Urbs \cup Pkts
Main == Events \cup Acls          \* the URBs of the main interface

ASSUME BuffersAssumption ==
    /\ IsFiniteSet(Msgs) /\ IsFiniteSet(Procs) /\ IsFiniteSet(Chans)
    /\ Events \cap Acls = {} /\ Main \cap Diags = {} /\ Urbs \cap Pkts = {}
    /\ None \notin Msgs
    /\ MaxLen \in Nat \ {0}
    /\ Voice \in BOOLEAN /\ SerialOpen \in BOOLEAN
    /\ Pm \in BOOLEAN /\ Faults \in BOOLEAN /\ ProbeFails \in BOOLEAN

VARIABLES
    submitted,      \* URBs the host controller owns
    rx_queue,       \* messages queued for user space
    status,         \* gki_hdr.status of every message
    p_rx_msg,       \* message picked for the reader
    len,            \* bytes of a message not yet read
    h4_sent,        \* messages with BTUSB_LS_H4_TYPE_SENT
    voice_rx_list,  \* circular queue of free voice packets
    p_pkt,          \* packet under reassembly on each channel
    voice_used,     \* some voice channel is in use
    voice_live,     \* the voice RX URBs are running
    main_intf,      \* p_main_intf # NULL
    voice_intf,     \* p_voice_intf # NULL
    registered,     \* the minor is registered: the node can be opened
    opened,         \* the flag of the same name
    kref,           \* reference count of the control block
    freed,          \* btusb_delete has run
    pc,             \* where each process is
    woken,          \* process woken since it registered on rx_wait_q
    cancelling,     \* channels an actor in btusb_cancel_voice has left to do
    unsent,         \* URBs btusb_probe has not submitted yet
    dpc,            \* where btusb_probe or btusb_disconnect is
    pm              \* power state, or the interface being (re)suspended

dataVars  == <<submitted, rx_queue, status, p_rx_msg, len, h4_sent>>
voiceVars == <<voice_rx_list, p_pkt, voice_used, voice_live, cancelling>>
devVars   == <<main_intf, voice_intf, registered, opened, kref, freed>>
vars      == <<dataVars, voiceVars, devVars, pc, woken, unsent, dpc, pm>>

Unlinked == "UNLINKED"
Queued   == "QUEUED"
Disc     == "disconnect"          \* the actor of btusb_disconnect
Actors   == Procs \cup {Disc}

\* a process inside btusb_open, and one that holds a reference
Opening(p) == pc[p] \in {"opening", "draining"}
Holds(p)   == pc[p] \in {"idle", "entering", "polling", "asleep", "rasleep", "reading",
                         "clearing", "voice", "relvoice", "relmore", "releasing"}

\* btusb_create: an empty queue, free voice packets, one reference
Create ==
    /\ rx_queue = <<>> /\ p_rx_msg = None
    /\ status = [m \in Msgs |-> Unlinked]
    /\ len = [m \in Msgs |-> 0] /\ h4_sent = {}
    /\ voice_rx_list \in {s \in [1..Cardinality(Pkts) -> Pkts] :
                             \A i, j \in DOMAIN s : s[i] = s[j] => i = j}
    /\ p_pkt = [c \in Chans |-> None]
    /\ voice_used = FALSE /\ voice_live = FALSE
    /\ cancelling = [a \in Actors |-> {}]
    /\ opened = 0 /\ kref = 1 /\ freed = FALSE

\* btusb_probe has registered the device and starts to submit the URBs
Init ==
    /\ Create
    /\ submitted = {} /\ unsent = Urbs
    /\ main_intf = TRUE /\ voice_intf = Voice /\ registered = TRUE
    /\ pc = [p \in Procs |-> "closed"] /\ woken = {}
    /\ dpc = "probing" /\ pm = "active"

----------------------------------------------------------------------------
(* Helpers: each stands for a function or a call of the kernel. *)

\* mutant of WakeUp: the callback forgets to wake the readers
WakeUpNobody == UNCHANGED woken

\* wake_up_interruptible(&p_dev->rx_wait_q)
WakeUp == woken' = woken \cup {p \in Procs : pc[p] \in {"polling", "asleep", "rasleep"}}

\* mutants of Enqueue: without the test of the header; at the wrong end
EnqueueAlways(m) == rx_queue' = Append(rx_queue, m) /\ status' = [status EXCEPT ![m] = Queued]
EnqueueHead(m) == rx_queue' = <<m>> \o rx_queue /\ status' = [status EXCEPT ![m] = Queued]

\* GKI_enqueue: refuses a buffer that is not unlinked
Enqueue(m) ==
    IF status[m] = Unlinked
    THEN rx_queue' = Append(rx_queue, m) /\ status' = [status EXCEPT ![m] = Queued]
    ELSE UNCHANGED <<rx_queue, status>>

\* GKI_dequeue of a non-empty queue
Dequeue ==
    /\ rx_queue # <<>>
    /\ rx_queue' = Tail(rx_queue)
    /\ status' = [status EXCEPT ![Head(rx_queue)] = Unlinked]

\* the endpoints are enabled until the USB core starts to disconnect the device
Enabled == dpc \in {"probing", "bound", "aborting", "aborted", "failed"}

\* usb_submit_urb accepts u: the endpoint is enabled and u is not active
CanSubmit(u) ==
    /\ Enabled /\ pm # "asleep" /\ u \notin submitted
    /\ u \in Diags => dpc \notin {"aborted", "failed"}      \* interface released

\* btusb_submit; a failure is counted in the statistics and forgotten
Submit(u) ==
    \/ CanSubmit(u) /\ submitted' = submitted \cup {u}
    \/ (~CanSubmit(u) \/ Faults) /\ UNCHANGED submitted

\* mutant of CqPut: one slot is kept empty, as in a ring without free counters
CqPutKeepsSlot(m) ==
    voice_rx_list' = IF Len(voice_rx_list) < Cardinality(Pkts) - 1
                     THEN Append(voice_rx_list, m) ELSE voice_rx_list

\* btusb_cq_put(&p_dev->voice_rx_list, m), which fails when the list is full
CqPut(m) ==
    voice_rx_list' = IF Len(voice_rx_list) < Cardinality(Pkts)
                     THEN Append(voice_rx_list, m) ELSE voice_rx_list

\* mutant of RxDequeued: an URB is not submitted again
RxDequeuedForgets(m) ==
    \/ m \in Urbs /\ UNCHANGED <<submitted, voice_rx_list>>
    \/ m \in Pkts /\ CqPut(m) /\ UNCHANGED submitted

\* btusb_rx_dequeued: give the buffer back to where it came from
RxDequeued(m) ==
    \/ m \in Urbs /\ Submit(m) /\ UNCHANGED voice_rx_list
    \/ m \in Pkts /\ CqPut(m) /\ UNCHANGED submitted

\* mutant of HasPacket: a message read in part is forgotten
HasPacketQueued == rx_queue # <<>>

\* btusb_get_rx_packet would find a packet
HasPacket == p_rx_msg # None \/ rx_queue # <<>>

\* mutant of GetRxPacket: the message is read from the queue and left there
GetRxPacketPeek ==
    IF p_rx_msg # None
    THEN UNCHANGED <<p_rx_msg, rx_queue, status>>
    ELSE rx_queue # <<>> /\ p_rx_msg' = Head(rx_queue) /\ UNCHANGED <<rx_queue, status>>

\* btusb_get_rx_packet when it does
GetRxPacket ==
    IF p_rx_msg # None
    THEN UNCHANGED <<p_rx_msg, rx_queue, status>>
    ELSE Dequeue /\ p_rx_msg' = Head(rx_queue)

Goto(p, l) == pc' = [pc EXCEPT ![p] = l]
DeviceSame == UNCHANGED <<main_intf, voice_intf, registered, opened, kref, freed, dpc, pm, unsent>>
VoiceSame  == UNCHANGED voiceVars
----------------------------------------------------------------------------
(* USB completion callbacks. *)

\* A URB completes with data: btusb_acl_read_complete, btusb_event_complete and
\* btusb_diag_read_complete up to btusb_rx_enqueue.  The last diag URB on its
\* anchor is not forwarded.
UrbData(u) ==
    /\ u \in submitted
    /\ u \in Diags => (Diags \cap submitted) \ {u} # {}
    /\ submitted' = submitted \ {u}
    /\ \E l \in 1..MaxLen : len' = [len EXCEPT ![u] = l]
    /\ h4_sent' = h4_sent \ {u}
    /\ Enqueue(u) /\ WakeUp
    /\ UNCHANGED <<p_rx_msg, pc>> /\ VoiceSame /\ DeviceSame

\* A URB that completes with an error other than -EPROTO, or whose resubmission
\* after an empty transfer or a dropped diag fails, is left alone.
UrbIdle(u) ==
    /\ Faults
    /\ u \in submitted /\ submitted' = submitted \ {u}
    /\ UNCHANGED <<rx_queue, status, p_rx_msg, len, h4_sent, pc, woken>>
    /\ VoiceSame /\ DeviceSame

\* btusb_isoc_check_hdr takes a packet for a channel with none
VoiceRxGet(c) ==
    /\ voice_live /\ main_intf
    /\ p_pkt[c] = None /\ voice_rx_list # <<>>
    /\ LET k == Head(voice_rx_list) IN
         /\ p_pkt' = [p_pkt EXCEPT ![c] = k]
         /\ h4_sent' = h4_sent \ {k}
    /\ voice_rx_list' = Tail(voice_rx_list)
    /\ UNCHANGED <<submitted, rx_queue, status, p_rx_msg, len, pc, woken,
                   voice_used, voice_live, cancelling>> /\ DeviceSame

\* btusb_isoc_check_pkt forwards a packet that is complete
VoiceRxFull(c) ==
    /\ voice_live /\ main_intf
    /\ p_pkt[c] # None
    /\ len' = [len EXCEPT ![p_pkt[c]] = MaxLen]
    /\ Enqueue(p_pkt[c]) /\ WakeUp
    /\ p_pkt' = [p_pkt EXCEPT ![c] = None]
    /\ UNCHANGED <<submitted, p_rx_msg, h4_sent, pc,
                   voice_rx_list, voice_used, voice_live, cancelling>> /\ DeviceSame

\* btusb_voicerx_complete does not resubmit on an error
VoiceDies ==
    /\ voice_live /\ (Faults \/ ~Enabled)
    /\ voice_live' = FALSE
    /\ UNCHANGED <<dataVars, pc, woken, voice_rx_list, p_pkt, voice_used, cancelling>>
    /\ DeviceSame

----------------------------------------------------------------------------
(* btusb_cancel_voice.  Its caller kills the voice URBs and lists the        *)
(* channels in cancelling; each loop turn hands one partial packet, marked   *)
(* bad by a length of 0, to the reader.                                      *)

CancelVoice(a) == voice_live' = FALSE /\ cancelling' = [cancelling EXCEPT ![a] = Chans]

CancelTurn(a, c) ==
    /\ c \in cancelling[a]
    /\ cancelling' = [cancelling EXCEPT ![a] = @ \ {c}]
    /\ IF p_pkt[c] # None
       THEN /\ len' = [len EXCEPT ![p_pkt[c]] = 0]
            /\ Enqueue(p_pkt[c]) /\ WakeUp
            /\ p_pkt' = [p_pkt EXCEPT ![c] = None]
       ELSE UNCHANGED <<len, rx_queue, status, woken, p_pkt>>
    /\ UNCHANGED <<submitted, p_rx_msg, h4_sent, pc, voice_rx_list, voice_used, voice_live>>
    /\ DeviceSame

----------------------------------------------------------------------------
(* btusb_open.  usb_open holds minor_rwsem for reading throughout. *)

OpenCheck(p) ==
    /\ pc[p] = "closed" /\ registered
    /\ dpc \in {"probing", "bound", "aborting", "woken"}  \* usb_get_intfdata is not NULL
    /\ SerialOpen => \A q \in Procs : ~Opening(q)
    /\ opened = 0
    /\ Goto(p, "opening")
    /\ UNCHANGED <<dataVars, woken>> /\ VoiceSame /\ DeviceSame

OpenSet(p) ==
    /\ pc[p] = "opening" /\ Goto(p, "draining")
    /\ opened' = 1
    /\ UNCHANGED <<dataVars, woken, main_intf, voice_intf, registered, kref, freed, dpc, pm, unsent>>
    /\ VoiceSame

OpenDrain(p) ==
    /\ pc[p] = "draining"
    /\ Dequeue /\ RxDequeued(Head(rx_queue))
    /\ UNCHANGED <<p_rx_msg, len, h4_sent, pc, woken, p_pkt, voice_used, voice_live, cancelling>>
    /\ DeviceSame

\* mutant of OpenDone: kref_get is forgotten
OpenDoneNoRef(p) ==
    /\ pc[p] = "draining" /\ rx_queue = <<>>
    /\ Goto(p, "idle")
    /\ UNCHANGED <<dataVars, woken>> /\ VoiceSame /\ DeviceSame

OpenDone(p) ==
    /\ pc[p] = "draining" /\ rx_queue = <<>>
    /\ kref' = kref + 1
    /\ Goto(p, "idle")
    /\ UNCHANGED <<dataVars, woken, main_intf, voice_intf, registered, opened, freed, dpc, pm, unsent>>
    /\ VoiceSame

----------------------------------------------------------------------------
(* btusb_poll, as the poll system call drives it: refuse a device that is     *)
(* gone, register on rx_wait_q, test, sleep unless woken since; a process that *)
(* is woken calls btusb_poll again, and stays registered.                     *)

PollEnter(p) ==
    /\ pc[p] = "idle" /\ main_intf
    /\ Goto(p, "entering")
    /\ UNCHANGED <<dataVars, woken>> /\ VoiceSame /\ DeviceSame

\* poll_wait
PollRegister(p) ==
    /\ pc[p] = "entering"
    /\ Goto(p, "polling") /\ woken' = woken \ {p}
    /\ UNCHANGED dataVars /\ VoiceSame /\ DeviceSame

PollTest(p) ==
    /\ pc[p] = "polling"
    /\ \/ HasPacket /\ GetRxPacket /\ Goto(p, "idle")      \* POLLIN
       \/ ~HasPacket /\ Goto(p, "asleep") /\ UNCHANGED <<p_rx_msg, rx_queue, status>>
    /\ UNCHANGED <<submitted, len, h4_sent, woken>> /\ VoiceSame /\ DeviceSame

\* called again: -ENODEV ends the wait when the device is gone
PollWake(p) ==
    /\ pc[p] = "asleep" /\ p \in woken
    /\ woken' = woken \ {p}
    /\ Goto(p, IF main_intf THEN "polling" ELSE "idle")
    /\ UNCHANGED dataVars /\ VoiceSame /\ DeviceSame

\* a timeout of select, or a signal, ends the wait
WaitInterrupted(p) ==
    /\ pc[p] \in {"asleep", "rasleep"} /\ Goto(p, "idle")
    /\ UNCHANGED <<dataVars, woken>> /\ VoiceSame /\ DeviceSame

----------------------------------------------------------------------------
(* btusb_read *)

\* the checks and wait_event_interruptible: sleep only when there is no packet
ReadWait(p) ==
    /\ \/ pc[p] = "idle" /\ main_intf
       \/ pc[p] = "rasleep" /\ p \in woken
    /\ IF HasPacket
       THEN GetRxPacket /\ Goto(p, "reading")
       ELSE UNCHANGED <<p_rx_msg, rx_queue, status>> /\ Goto(p, "rasleep")
    /\ woken' = woken \ {p}
    /\ UNCHANGED <<submitted, len, h4_sent>> /\ VoiceSame /\ DeviceSame

\* mutant of CopyLen: the size of the user buffer is trusted
CopyLenRoom(l, room) == room

\* min(p_rx_msg->len, count)
CopyLen(l, room) == IF l < room THEN l ELSE room

\* the H4 type, then as much as a user buffer of count bytes takes.  A message
\* read to its end goes back before p_rx_msg is cleared.  A second reader could
\* find p_rx_msg NULL and not get past this point; TypeOK says one reader does not.
ReadCopy(p) ==
    /\ pc[p] = "reading" /\ p_rx_msg # None
    /\ \E count \in 0..MaxLen + 1 :
         LET m     == p_rx_msg
             typed == len[m] # 0 /\ m \notin h4_sent
             room  == IF typed THEN count - 1 ELSE count
             n     == CopyLen(len[m], room)
         IN IF typed /\ count = 0
            THEN /\ Goto(p, "idle")
                 /\ UNCHANGED <<len, h4_sent, submitted, voice_rx_list>>
            ELSE /\ h4_sent' = IF typed THEN h4_sent \cup {m} ELSE h4_sent
                 /\ len' = [len EXCEPT ![m] = @ - n]
                 /\ IF len[m] = n
                    THEN RxDequeued(m) /\ Goto(p, "clearing")
                    ELSE Goto(p, "idle") /\ UNCHANGED <<submitted, voice_rx_list>>
    /\ UNCHANGED <<rx_queue, status, p_rx_msg, woken, p_pkt, voice_used, voice_live, cancelling>>
    /\ DeviceSame

\* copy_to_user fails on the data: the type may already be marked as sent
ReadFault(p) ==
    /\ pc[p] = "reading" /\ p_rx_msg # None /\ Goto(p, "idle")
    /\ h4_sent' \in {h4_sent, h4_sent \cup (IF len[p_rx_msg] = 0 THEN {} ELSE {p_rx_msg})}
    /\ UNCHANGED <<submitted, rx_queue, status, p_rx_msg, len, woken>> /\ VoiceSame /\ DeviceSame

ReadClear(p) ==
    /\ pc[p] = "clearing" /\ Goto(p, "idle")
    /\ p_rx_msg' = None
    /\ UNCHANGED <<submitted, rx_queue, status, len, h4_sent, woken>> /\ VoiceSame /\ DeviceSame
----------------------------------------------------------------------------
(* btusb_ioctl adding or removing a voice channel; which channels are in use *)
(* is abstracted to voice_used.                                              *)

VoiceCanRun == main_intf /\ voice_intf /\ Enabled /\ pm # "asleep"

VoiceIoctl(p) ==
    /\ pc[p] = "idle" /\ main_intf /\ voice_intf
    /\ CancelVoice(p) /\ Goto(p, "voice")
    /\ UNCHANGED <<dataVars, woken, voice_rx_list, p_pkt, voice_used>> /\ DeviceSame

VoiceIoctlEnd(p) ==
    /\ pc[p] = "voice" /\ cancelling[p] = {}
    /\ voice_used' \in BOOLEAN
    /\ voice_live' \in {FALSE, voice_used' /\ VoiceCanRun}
    /\ Goto(p, "idle")
    /\ UNCHANGED <<dataVars, woken, voice_rx_list, p_pkt, cancelling>> /\ DeviceSame

----------------------------------------------------------------------------
(* btusb_release: remove the voice channels in use one by one, drop the      *)
(* reference, then clear opened.                                             *)

\* kref_put(&p_dev->kref, btusb_delete); btusb_delete drains the queue (every
\* submission is refused by then), wakes who still waits and frees the block
KrefPut ==
    /\ kref' = kref - 1
    /\ IF kref = 1
       THEN /\ freed' = TRUE /\ rx_queue' = <<>>
            /\ status' = [m \in Msgs |-> Unlinked]
            /\ WakeUp
       ELSE UNCHANGED <<freed, rx_queue, status, woken>>

Release(p) ==
    /\ \/ pc[p] = "idle" /\ WakeUp
       \/ pc[p] = "relmore" /\ UNCHANGED woken
    /\ IF voice_used /\ voice_intf
       THEN CancelVoice(p) /\ Goto(p, "relvoice")
       ELSE Goto(p, "releasing") /\ UNCHANGED <<voice_live, cancelling>>
    /\ UNCHANGED <<dataVars, voice_rx_list, p_pkt, voice_used>> /\ DeviceSame

\* a channel is removed: the last one, or the others are restarted
ReleaseChan(p) ==
    /\ pc[p] = "relvoice" /\ cancelling[p] = {}
    /\ \/ voice_used' = FALSE /\ UNCHANGED voice_live /\ Goto(p, "releasing")
       \/ UNCHANGED voice_used /\ voice_live' \in {FALSE, VoiceCanRun} /\ Goto(p, "relmore")
    /\ UNCHANGED <<dataVars, woken, voice_rx_list, p_pkt, cancelling>> /\ DeviceSame

ReleasePut(p) ==
    /\ pc[p] = "releasing" /\ Goto(p, "closing")
    /\ KrefPut
    /\ UNCHANGED <<submitted, p_rx_msg, len, h4_sent, main_intf, voice_intf,
                   registered, opened, dpc, pm, unsent>> /\ VoiceSame

ReleaseFlag(p) ==
    /\ pc[p] = "closing" /\ Goto(p, "closed")
    /\ opened' = 0
    /\ UNCHANGED <<dataVars, woken, main_intf, voice_intf, registered, kref, freed, dpc, pm, unsent>>
    /\ VoiceSame

----------------------------------------------------------------------------
(* btusb_suspend and btusb_resume.  The USB core suspends the interfaces     *)
(* from the last to the first and resumes them from the first to the last;   *)
(* every call drains rx_queue and drops what it finds.                       *)

Before(i) == CASE i = "s_diag" -> "active"   [] i = "s_voice" -> "s_diag"
               [] i = "s_main" -> "s_voice"  [] i = "r_voice" -> "r_main"
               [] i = "r_diag" -> "r_voice"
PmSame == UNCHANGED <<rx_queue, status, p_rx_msg, len, h4_sent, pc, woken, voice_rx_list,
                      p_pkt, voice_used, cancelling, main_intf, voice_intf, opened, kref,
                      freed, dpc, unsent>>
Draining == /\ pm \notin {"active", "asleep"}
            /\ pm \in {"s_diag", "r_diag"} => Diags # {}   \* the interface is ours
PmEnabled == Pm /\ dpc = "bound" /\ (Draining => rx_queue = <<>>)

PmDrain ==
    /\ Pm /\ dpc = "bound" /\ Draining
    /\ Dequeue
    /\ UNCHANGED <<submitted, p_rx_msg, len, h4_sent, pc, woken>> /\ VoiceSame /\ DeviceSame

\* the call for interface i starts by killing the URBs of that interface
Suspend(i) ==
    /\ PmEnabled /\ i \in {"s_diag", "s_voice", "s_main"} /\ pm = Before(i)
    /\ pm' = i
    /\ submitted' = submitted \ (CASE i = "s_diag" -> Diags [] i = "s_voice" -> {} [] i = "s_main" -> Main)
    /\ voice_live' = (voice_live /\ i # "s_voice")
    /\ PmSame /\ UNCHANGED registered

\* the USB core flushes every endpoint and refuses submissions from now on
Sleep ==
    /\ PmEnabled /\ pm = "s_main" /\ pm' = "asleep"
    /\ submitted' = {} /\ voice_live' = FALSE
    /\ PmSame /\ UNCHANGED registered

ResumeStart ==
    /\ PmEnabled /\ pm = "asleep" /\ pm' = "r_main"
    /\ PmSame /\ UNCHANGED <<submitted, voice_live, registered>>

\* submit all the URBs of an interface; if one is refused, kill all the receive
\* URBs and deregister the device
SubmitAll(S) ==
    \/ /\ \A u \in S : CanSubmit(u)
       /\ submitted' = submitted \cup S /\ UNCHANGED registered
    \/ /\ \E u \in S : Faults \/ ~CanSubmit(u)
       /\ submitted' = {} /\ registered' = FALSE

Resume(i) ==
    /\ PmEnabled /\ i \in {"r_voice", "r_diag"} /\ pm = Before(i)
    /\ pm' = i
    /\ IF i = "r_voice" THEN SubmitAll(Main) ELSE UNCHANGED <<submitted, registered>>
    /\ PmSame /\ UNCHANGED voice_live

ResumeEnd ==
    /\ PmEnabled /\ pm = "r_diag" /\ pm' = "active"
    /\ SubmitAll(Diags)
    /\ PmSame /\ UNCHANGED voice_live

----------------------------------------------------------------------------
(* The end of btusb_probe: the node exists already, and the submission of the *)
(* URBs races with its first open.  No suspend or disconnect starts before    *)
(* probe returns.                                                             *)

ProbeSubmit(u) ==
    /\ dpc = "probing" /\ u \in unsent
    /\ u \in Events \/ unsent \cap Events = {}
    /\ u \in Diags => unsent \subseteq Diags
    /\ \/ submitted' = submitted \cup {u} /\ unsent' = unsent \ {u}
          /\ UNCHANGED <<dpc, voice_live>>
       \/ /\ ProbeFails /\ dpc' = "aborting"
          /\ submitted' = {} /\ voice_live' = FALSE /\ UNCHANGED unsent
    /\ UNCHANGED <<rx_queue, status, p_rx_msg, len, h4_sent, voice_rx_list, p_pkt, voice_used,
                   cancelling, main_intf, voice_intf, registered, opened, kref, freed, pc,
                   woken, pm>>

ProbeEnd ==
    /\ dpc = "probing" /\ unsent = {} /\ dpc' = "bound"
    /\ UNCHANGED <<dataVars, voiceVars, devVars, pc, woken, pm, unsent>>

\* usb_driver_release_interface of the diag and voice interfaces that were
\* claimed: it calls btusb_disconnect for each, which wakes the readers and
\* returns.  (The DFU interface, not modelled, wakes them the same way.)
ReleaseIntfs ==
    /\ voice_intf' = FALSE
    /\ IF voice_intf \/ Diags # {} THEN WakeUp ELSE UNCHANGED woken

\* error_bt_submit: give the minor back, then release the other interfaces,
\* whose endpoints the USB core disables
ProbeDeregister ==
    /\ dpc = "aborting" /\ \A p \in Procs : ~Opening(p)
    /\ dpc' = "aborted"
    /\ registered' = FALSE /\ ReleaseIntfs
    /\ submitted' = submitted \ Diags /\ voice_live' = FALSE
    /\ UNCHANGED <<rx_queue, status, p_rx_msg, len, h4_sent, voice_rx_list, p_pkt, voice_used,
                   cancelling, pc, main_intf, opened, kref, freed, pm, unsent>>

ProbePut ==
    /\ dpc = "aborted" /\ dpc' = "failed"
    /\ KrefPut
    /\ UNCHANGED <<submitted, p_rx_msg, len, h4_sent, pc, main_intf, voice_intf,
                   registered, opened, pm, unsent>> /\ VoiceSame

----------------------------------------------------------------------------
(* btusb_disconnect.  Once the USB core has started it, the endpoints of the *)
(* interface are disabled.                                                   *)

DiscWake ==
    /\ dpc = "bound" /\ pm \in {"active", "asleep"}
    /\ WakeUp /\ dpc' = "woken"
    /\ UNCHANGED <<dataVars, pc, main_intf, voice_intf, registered, opened, kref, freed, pm, unsent>>
    /\ VoiceSame

DiscDown ==
    /\ dpc = "woken" /\ dpc' = "down"
    /\ main_intf' = FALSE
    /\ CancelVoice(Disc)
    /\ UNCHANGED <<dataVars, pc, woken, voice_rx_list, p_pkt, voice_used, voice_intf,
                   registered, opened, kref, freed, pm, unsent>>

\* mutant of DiscCancel: the receive URBs are forgotten
DiscCancelNothing ==
    /\ dpc = "down" /\ cancelling[Disc] = {} /\ dpc' = "cancelled"
    /\ UNCHANGED <<dataVars, pc, woken, main_intf, voice_intf, registered, opened, kref,
                   freed, pm, unsent>>
    /\ VoiceSame

\* btusb_cancel_urbs
DiscCancel ==
    /\ dpc = "down" /\ cancelling[Disc] = {} /\ dpc' = "cancelled"
    /\ submitted' = {}
    /\ UNCHANGED <<rx_queue, status, p_rx_msg, len, h4_sent, pc, woken, main_intf, voice_intf,
                   registered, opened, kref, freed, pm, unsent>>
    /\ VoiceSame

\* mutants of DiscDeregister: wait for the application to close the device;
\* leave the other interfaces to the USB core
DiscDeregisterWaits ==
    /\ dpc = "cancelled" /\ opened = 0
    /\ dpc' = "deregistered"
    /\ registered' = FALSE /\ ReleaseIntfs
    /\ UNCHANGED <<dataVars, pc, main_intf, opened, kref, freed, pm, unsent>> /\ VoiceSame

DiscDeregisterKeepsIntfs ==
    /\ dpc = "cancelled" /\ \A p \in Procs : ~Opening(p)
    /\ dpc' = "deregistered"
    /\ registered' = FALSE
    /\ UNCHANGED <<dataVars, pc, woken, voice_intf, main_intf, opened, kref, freed, pm, unsent>>
    /\ VoiceSame

\* usb_deregister_dev takes minor_rwsem for writing; then the other interfaces
\* are released
DiscDeregister ==
    /\ dpc = "cancelled" /\ \A p \in Procs : ~Opening(p)
    /\ dpc' = "deregistered"
    /\ registered' = FALSE /\ ReleaseIntfs
    /\ UNCHANGED <<dataVars, pc, main_intf, opened, kref, freed, pm, unsent>> /\ VoiceSame

DiscPut ==
    /\ dpc = "deregistered" /\ dpc' = "gone"
    /\ KrefPut
    /\ UNCHANGED <<submitted, p_rx_msg, len, h4_sent, pc, main_intf, voice_intf,
                   registered, opened, pm, unsent>> /\ VoiceSame

----------------------------------------------------------------------------
Proc(p) ==
    \/ OpenCheck(p) \/ OpenSet(p) \/ OpenDrain(p) \/ OpenDone(p)
    \/ PollEnter(p) \/ PollRegister(p) \/ PollTest(p) \/ PollWake(p) \/ WaitInterrupted(p)
    \/ ReadWait(p) \/ ReadCopy(p) \/ ReadFault(p) \/ ReadClear(p)
    \/ VoiceIoctl(p) \/ VoiceIoctlEnd(p)
    \/ Release(p) \/ ReleaseChan(p) \/ ReleasePut(p) \/ ReleaseFlag(p)

Usb ==
    \/ \E u \in Urbs : UrbData(u) \/ UrbIdle(u)
    \/ \E c \in Chans : VoiceRxGet(c) \/ VoiceRxFull(c)
    \/ VoiceDies

Power ==
    \/ PmDrain \/ Sleep \/ ResumeStart \/ ResumeEnd
    \/ \E i \in {"s_diag", "s_voice", "s_main"} : Suspend(i)
    \/ \E i \in {"r_voice", "r_diag"} : Resume(i)

Probe == (\E u \in Urbs : ProbeSubmit(u)) \/ ProbeEnd \/ ProbeDeregister \/ ProbePut

Disconnect == DiscWake \/ DiscDown \/ DiscCancel \/ DiscDeregister \/ DiscPut

Next ==
    \/ \E p \in Procs : Proc(p)
    \/ \E a \in Actors, c \in Chans : CancelTurn(a, c)
    \/ Usb \/ Power \/ Probe \/ Disconnect

Spec == Init /\ [][Next]_vars

\* A process in a system call is scheduled, and so is the kernel thread that
\* runs btusb_disconnect; nothing obliges the device, the application or the
\* user to do anything.
Fairness ==
    /\ \A p \in Procs : WF_vars(PollTest(p) \/ PollWake(p))
    /\ \A c \in Chans : WF_vars(CancelTurn(Disc, c))
    /\ WF_vars(DiscDown \/ DiscCancel \/ DiscDeregister \/ DiscPut)

FairSpec == Spec /\ Fairness
----------------------------------------------------------------------------
(* Properties *)

ProcStates == {"closed", "opening", "draining", "idle", "entering", "polling", "asleep",
               "rasleep", "reading", "clearing", "voice", "relvoice", "relmore", "releasing",
               "closing"}
PmStates   == {"active", "s_diag", "s_voice", "s_main", "asleep", "r_main", "r_voice", "r_diag"}
ProbeStates == {"probing", "bound", "aborting", "aborted", "failed"}
DiscStates == {"woken", "down", "cancelled", "deregistered", "gone"}
\* probe or disconnect has dropped the reference of the device
Unbound == dpc \in {"failed", "gone"}

InQueue == {rx_queue[i] : i \in DOMAIN rx_queue}
FreePkts == {voice_rx_list[i] : i \in DOMAIN voice_rx_list}
\* the message of the reader, until it has been given back
Picked == IF \E p \in Procs : pc[p] = "clearing" THEN {} ELSE {p_rx_msg} \ {None}

MessageWaits == p_rx_msg # None \/ rx_queue # <<>>

\* Every variable has its type, and no message is read past its end.
Types ==
    /\ submitted \in SUBSET Urbs
    /\ rx_queue \in Seq(Msgs)
    /\ status \in [Msgs -> {Unlinked, Queued}]
    /\ p_rx_msg \in Msgs \cup {None}
    /\ len \in [Msgs -> 0..MaxLen] /\ h4_sent \in SUBSET Msgs
    /\ voice_rx_list \in Seq(Pkts)
    /\ p_pkt \in [Chans -> Pkts \cup {None}]
    /\ voice_used \in BOOLEAN /\ voice_live \in BOOLEAN
    /\ cancelling \in [Actors -> SUBSET Chans]
    /\ main_intf \in BOOLEAN /\ voice_intf \in BOOLEAN /\ registered \in BOOLEAN
    /\ opened \in {0, 1} /\ kref \in Nat /\ freed \in BOOLEAN
    /\ pc \in [Procs -> ProcStates] /\ woken \in SUBSET Procs
    /\ unsent \in SUBSET Urbs
    /\ dpc \in ProbeStates \cup DiscStates /\ pm \in PmStates

\* Every variable has its type, and a process that copies a message has one.
TypeOK == Types /\ \A p \in Procs : pc[p] = "reading" => p_rx_msg # None

\* The GKI header tells the truth about rx_queue: a message is marked queued
\* exactly when it is in the queue, and it is there once.  This is what the test
\* of GKI_enqueue keeps true when an URB is submitted behind the reader's back.
QueueHonest ==
    /\ \A m \in Msgs : status[m] = Queued <=> m \in InQueue
    /\ \A i, j \in DOMAIN rx_queue : rx_queue[i] = rx_queue[j] => i = j

\* A receive buffer has one owner: the host controller never writes into a buffer
\* that is queued or that the reader copies from.
UrbOneOwner ==
    /\ submitted \cap InQueue = {}
    /\ submitted \cap Picked = {}
    /\ InQueue \cap Picked = {}

\* No receive buffer leaks: as long as the device is bound and USB does not fail,
\* each one is with the host controller, queued, or with the reader.
UrbConserved == dpc = "bound" => Urbs \subseteq submitted \cup InQueue \cup Picked

\* Voice packets are conserved whatever disconnect, release, the voice ioctls and
\* the reader do: each is free, under reassembly on one channel, queued, or
\* picked, and in one of these places only; so btusb_cq_put never meets a full list.
PktConserved ==
    LET assembled == {p_pkt[c] : c \in Chans} \ {None}
        queued    == InQueue \cap Pkts
        picked    == Picked \cap Pkts
    IN ~freed =>
        /\ Pkts \subseteq FreePkts \cup assembled \cup queued \cup picked
        /\ \A i, j \in DOMAIN voice_rx_list : voice_rx_list[i] = voice_rx_list[j] => i = j
        /\ \A c, d \in Chans : p_pkt[c] = p_pkt[d] /\ p_pkt[c] # None => c = d
        /\ FreePkts \cap (assembled \cup queued \cup picked) = {}
        /\ assembled \cap (queued \cup picked) = {}

\* The reference count is what it counts: the open files and the bound device.
KrefExact ==
    kref = Cardinality({p \in Procs : Holds(p)}) + (IF Unbound THEN 0 ELSE 1)

\* btusb_delete frees the control block when nothing can use it any more: no file
\* is open or being opened, probe or disconnect is over, the host controller owns
\* no URB,
\* and no voice URB runs.
FreedUnused ==
    freed => /\ \A p \in Procs : ~Holds(p) /\ ~Opening(p)
             /\ Unbound /\ submitted = {} /\ ~voice_live

\* A process asleep in select while a message waits has been woken: the message
\* cannot have been queued between its test and its sleep unnoticed.
NoLostWakeup == \A p \in Procs : pc[p] = "asleep" /\ MessageWaits => p \in woken

\* When a process sleeps in select and a message is queued, it returns.
SleeperServed == \A p \in Procs : (pc[p] = "asleep" /\ MessageWaits) ~> (pc[p] # "asleep")

\* An unplugged device ends: disconnect completes, and its control block is freed
\* once the files are closed, unless a process stays in open.
UnplugCompletes ==
    (dpc = "woken") ~> (dpc = "gone" \/ \E p \in Procs : Opening(p))

\* Without suspends the receive path implements the channel it promises: first in
\* first out, nothing twice, nothing dropped but by open and deletion.
Channel == INSTANCE RxChannel WITH pending <- rx_queue,
               held <- IF \E p \in Procs : pc[p] = "clearing" THEN None ELSE p_rx_msg
ImplementsChannel == Channel!Spec

\* btusb.c:1045 "send a notification to select() in userial_read_dev_usb": a
\* process asleep in select when the device is unplugged returns, unless another
\* stays in open.  The wake-up of that line comes before p_main_intf is cleared,
\* and the process may sleep again on it; the one that ends its sleep comes from
\* the release of the other interfaces.
UnplugNotifiesSelect ==
    \A p \in Procs :
        (dpc \in {"woken", "down", "cancelled"} /\ pc[p] = "asleep")
            ~> (pc[p] = "idle" \/ \E q \in Procs : Opening(q))

----------------------------------------------------------------------------
(* What comments of the driver say and the code does not do. *)

\* btusb_dev.c:373 "Don't allow more than one application to open a BTUSB
\* Instance": at most one process is past the test of opened.
OneApplication ==
    \A p, q \in Procs : pc[p] # "closed" /\ pc[q] # "closed" => p = q

\* btusb.c:203 "Do not resubmit since it was forwarded to the user": the message
\* the reader holds is not with the host controller.
ForwardedNotSubmitted ==
    \A p \in Procs : p_rx_msg # None /\ pc[p] = "reading" => p_rx_msg \notin submitted

\* btusb.c:1436 "Fully remove the elements for a device": nothing is left that
\* will access the control block after btusb_delete.
DeleteIsLast == freed => \A p \in Procs : pc[p] = "closed"

\* btusb_dev.c:388 "dequeued all remaining buffers from RX Q": a process that has
\* opened the device is not handed the rest of a message of the process before it.
OpenDiscards ==
    [][\A p \in Procs : pc[p] = "draining" /\ pc'[p] = "idle" => p_rx_msg = None]_vars
=============================================================================
