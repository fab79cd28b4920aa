--------------------------- MODULE BtusbRx_proofs ---------------------------
(***************************************************************************)
(* Proofs about BtusbRx, for any numbers of buffers, channels and          *)
(* processes.  First, whatever opens race, suspends happen and USB faults  *)
(* occur: the reference count, the GKI headers and the wake-ups.  Then,    *)
(* when the kernel serialises the calls of open (see rx_two_opens.cfg) and *)
(* without suspends (a resume submits URBs whose messages are with the     *)
(* reader; see rx_resume_resubmits.cfg): every receive buffer has one      *)
(* owner, none leaks, and the receive path is a first-in first-out         *)
(* channel.                                                                *)
(***************************************************************************)
EXTENDS BtusbRx, FiniteSetTheorems, SequenceTheorems, TLAPS

----------------------------------------------------------------------------
(* The helpers preserve the types of what they change. *)

\* GKI_enqueue keeps rx_queue a queue of messages with well-formed headers.
LEMMA EnqueueType ==
    ASSUME Types, NEW m \in Msgs, Enqueue(m)
    PROVE  rx_queue' \in Seq(Msgs) /\ status' \in [Msgs -> {Unlinked, Queued}]
<1>1. rx_queue \in Seq(Msgs) /\ status \in [Msgs -> {Unlinked, Queued}]
  BY DEF Types
<1>2. CASE status[m] = Unlinked
  <2>1. rx_queue' = Append(rx_queue, m) /\ status' = [status EXCEPT ![m] = Queued]
    BY <1>2 DEF Enqueue
  <2>2. rx_queue' \in Seq(Msgs)
    BY <1>1, <2>1, AppendProperties
  <2>3. status' \in [Msgs -> {Unlinked, Queued}]
    BY <1>1, <2>1
  <2> QED BY <2>2, <2>3
<1>3. CASE status[m] # Unlinked
  BY <1>1, <1>3 DEF Enqueue
<1> QED BY <1>2, <1>3

\* GKI_dequeue returns a message and leaves a queue of messages.
LEMMA DequeueType ==
    ASSUME Types, Dequeue
    PROVE  /\ Head(rx_queue) \in Msgs /\ rx_queue' \in Seq(Msgs)
           /\ status' \in [Msgs -> {Unlinked, Queued}]
BY HeadTailProperties DEF Types, Dequeue

\* Every wake-up wakes processes only.
LEMMA WakeUpType ==
    ASSUME Types, WakeUp PROVE woken' \in SUBSET Procs
BY DEF Types, WakeUp

\* Releasing the other interfaces wakes processes only.
LEMMA ReleaseType ==
    ASSUME Types, ReleaseIntfs PROVE woken' \in SUBSET Procs /\ voice_intf' \in BOOLEAN
BY WakeUpType DEF Types, ReleaseIntfs

\* btusb_rx_dequeued gives an URB to the host controller or a packet to the ring.
LEMMA RxDequeuedType ==
    ASSUME Types, NEW m, RxDequeued(m)
    PROVE  submitted' \in SUBSET Urbs /\ voice_rx_list' \in Seq(Pkts)
<1>1. CASE m \in Urbs /\ Submit(m) /\ UNCHANGED voice_rx_list
  BY <1>1 DEF Types, Submit
<1>2. CASE m \in Pkts /\ CqPut(m) /\ UNCHANGED submitted
  BY <1>2, AppendProperties DEF Types, CqPut
<1> QED BY <1>1, <1>2 DEF RxDequeued

\* btusb_get_rx_packet, when there is a packet, picks a message.
LEMMA GetRxPacketType ==
    ASSUME Types, GetRxPacket
    PROVE  /\ p_rx_msg' \in Msgs /\ rx_queue' \in Seq(Msgs)
           /\ status' \in [Msgs -> {Unlinked, Queued}]
<1>1. CASE p_rx_msg # None
  BY <1>1 DEF Types, GetRxPacket
<1>2. CASE p_rx_msg = None
  BY <1>2, DequeueType DEF GetRxPacket
<1> QED BY <1>1, <1>2
----------------------------------------------------------------------------
(* The reference count. *)

Holders == {p \in Procs : Holds(p)}

\* There are finitely many holders, and there are some when one is known.
LEMMA HoldersFinite ==
    /\ IsFiniteSet(Holders) /\ Cardinality(Holders) \in Nat
    /\ \A p \in Procs : Holds(p) => Cardinality(Holders) > 0
<1>1. IsFiniteSet(Holders)
  BY BuffersAssumption, FS_Subset DEF Holders
<1>2. Cardinality(Holders) \in Nat
  BY <1>1, FS_CardinalityType
<1>3. Cardinality(Holders) = 0 => Holders = {}
  BY <1>1, FS_EmptySet
<1> QED BY <1>1, <1>2, <1>3 DEF Holders

\* A holder, or a device that is still bound, keeps the count above zero.
LEMMA KrefPositive ==
    ASSUME KrefExact
    PROVE  /\ ~Unbound => kref > 0
           /\ \A p \in Procs : Holds(p) => kref > 0
           /\ kref = 0 => Unbound /\ \A p \in Procs : ~Holds(p)
BY HoldersFinite DEF KrefExact, Holders

----------------------------------------------------------------------------
(* Types *)

\* No step breaks a type: no message is read beyond its length, no action works
\* on the NULL message, and the reference count stays a natural number.
LEMMA TypeStep ==
    ASSUME Types, KrefExact, [Next]_vars
    PROVE  Types'
<1> USE DEF Goto
<1>1. ASSUME NEW p \in Procs, OpenCheck(p) \/ OpenSet(p) \/ OpenDone(p) PROVE Types'
  <2>1. CASE OpenCheck(p)
    BY <2>1 DEF Types, OpenCheck, ProcStates, dataVars, VoiceSame, voiceVars, DeviceSame
  <2>2. CASE OpenSet(p)
    BY <2>2 DEF Types, OpenSet, ProcStates, dataVars, VoiceSame, voiceVars
  <2>3. CASE OpenDone(p)
    BY <2>3 DEF Types, OpenDone, ProcStates, dataVars, VoiceSame, voiceVars
  <2> QED BY <1>1, <2>1, <2>2, <2>3
<1>2. ASSUME NEW p \in Procs, OpenDrain(p) PROVE Types'
  <2>1. /\ rx_queue' \in Seq(Msgs) /\ status' \in [Msgs -> {Unlinked, Queued}]
        /\ submitted' \in SUBSET Urbs /\ voice_rx_list' \in Seq(Pkts)
    BY <1>2, DequeueType, RxDequeuedType DEF OpenDrain
  <2> QED BY <1>2, <2>1 DEF OpenDrain, Types, DeviceSame
<1>3. ASSUME NEW p \in Procs, PollEnter(p) \/ PollRegister(p) \/ PollWake(p) \/ WaitInterrupted(p)
      PROVE  Types'
  <2>0. CASE PollEnter(p)
    BY <2>0 DEF Types, PollEnter, ProcStates, dataVars, VoiceSame, voiceVars, DeviceSame
  <2>1. CASE PollRegister(p)
    BY <2>1 DEF Types, PollRegister, ProcStates, dataVars, VoiceSame, voiceVars, DeviceSame
  <2>2. CASE PollWake(p)
    BY <2>2 DEF Types, PollWake, ProcStates, dataVars, VoiceSame, voiceVars, DeviceSame
  <2>3. CASE WaitInterrupted(p)
    BY <2>3 DEF Types, WaitInterrupted, ProcStates, dataVars, VoiceSame, voiceVars, DeviceSame
  <2> QED BY <1>3, <2>0, <2>1, <2>2, <2>3
<1>4. ASSUME NEW p \in Procs, PollTest(p) \/ ReadWait(p) PROVE Types'
  <2>1. /\ p_rx_msg' \in Msgs \cup {None} /\ rx_queue' \in Seq(Msgs)
        /\ status' \in [Msgs -> {Unlinked, Queued}]
    BY <1>4, GetRxPacketType DEF PollTest, ReadWait, Types
  <2>2. woken' \in SUBSET Procs /\ pc' \in [Procs -> ProcStates]
    BY <1>4 DEF PollTest, ReadWait, Types, ProcStates
  <2>3. UNCHANGED <<submitted, len, h4_sent>> /\ VoiceSame /\ DeviceSame
    BY <1>4 DEF PollTest, ReadWait
  <2> QED BY <2>1, <2>2, <2>3 DEF Types, VoiceSame, voiceVars, DeviceSame
<1>5. ASSUME NEW p \in Procs, ReadCopy(p) PROVE Types'
  <2> DEFINE m == p_rx_msg
  <2>1. m \in Msgs /\ len[m] \in 0..MaxLen
    BY <1>5 DEF ReadCopy, Types
  <2>2. PICK count \in 0..MaxLen + 1 :
          LET typed == len[m] # 0 /\ m \notin h4_sent
              room  == IF typed THEN count - 1 ELSE count
              n     == CopyLen(len[m], room)
          IN IF typed /\ count = 0
             THEN /\ Goto(p, "idle")
                  /\ UNCHANGED <<len, h4_sent, submitted, voice_rx_list>>
             ELSE /\ h4_sent' = IF typed THEN h4_sent \cup {m} ELSE h4_sent
                  /\ len' = [len EXCEPT ![m] = @ - n]
                  /\ IF len[m] = n
                     THEN RxDequeued(m) /\ Goto(p, "clearing")
                     ELSE Goto(p, "idle") /\ UNCHANGED <<submitted, voice_rx_list>>
    BY <1>5 DEF ReadCopy
  <2>3. submitted' \in SUBSET Urbs /\ voice_rx_list' \in Seq(Pkts)
    BY <2>2, RxDequeuedType DEF Types
  <2>4. h4_sent' \in SUBSET Msgs
    BY <2>1, <2>2 DEF Types
  <2>5. len' \in [Msgs -> 0..MaxLen]
    <3>1. len \in [Msgs -> 0..MaxLen] /\ MaxLen \in Nat
      BY BuffersAssumption DEF Types
    <3>2. ASSUME NEW room \in Nat PROVE len[m] - CopyLen(len[m], room) \in 0..MaxLen
      BY <2>1, <3>1 DEF CopyLen
    <3>3. \/ UNCHANGED len
          \/ \E room \in Nat : len' = [len EXCEPT ![m] = len[m] - CopyLen(len[m], room)]
      <4>1. CASE (len[m] # 0 /\ m \notin h4_sent) /\ count = 0
        BY <2>2, <4>1
      <4>2. CASE (len[m] # 0 /\ m \notin h4_sent) /\ count # 0
        BY <2>2, <3>1, <4>2, count - 1 \in Nat
      <4>3. CASE ~(len[m] # 0 /\ m \notin h4_sent)
        BY <2>2, <3>1, <4>3, count \in Nat
      <4> QED BY <4>1, <4>2, <4>3
    <3> QED BY <2>1, <3>1, <3>2, <3>3
  <2>6. pc' \in [Procs -> ProcStates]
    BY <2>2 DEF Types, ProcStates
  <2> QED BY <1>5, <2>3, <2>4, <2>5, <2>6 DEF ReadCopy, Types, DeviceSame
<1>6. ASSUME NEW p \in Procs, ReadFault(p) PROVE Types'
  <2>1. h4_sent' \in SUBSET Msgs
    BY <1>6 DEF ReadFault, Types
  <2> QED BY <1>6, <2>1 DEF ReadFault, Types, ProcStates, VoiceSame, voiceVars, DeviceSame
<1>7. ASSUME NEW p \in Procs, ReadClear(p) PROVE Types'
  BY <1>7 DEF ReadClear, Types, ProcStates, VoiceSame, voiceVars, DeviceSame
<1>8. ASSUME NEW p \in Procs, VoiceIoctl(p) \/ VoiceIoctlEnd(p) PROVE Types'
  <2>1. /\ pc' \in [Procs -> ProcStates]
        /\ voice_live' \in BOOLEAN /\ voice_used' \in BOOLEAN
        /\ cancelling' \in [Actors -> SUBSET Chans]
    <3>1. CASE VoiceIoctl(p)
      BY <3>1 DEF VoiceIoctl, CancelVoice, VoiceCanRun, Types, ProcStates, Actors
    <3>2. CASE VoiceIoctlEnd(p)
      BY <3>2 DEF VoiceIoctlEnd, VoiceCanRun, Types, ProcStates
    <3> QED BY <1>8, <3>1, <3>2
  <2>2. /\ UNCHANGED <<dataVars, voice_rx_list, p_pkt, woken>> /\ DeviceSame
    BY <1>8 DEF VoiceIoctl, VoiceIoctlEnd, CancelVoice
  <2> QED BY <2>1, <2>2 DEF Types, dataVars, DeviceSame
<1>9. ASSUME NEW p \in Procs, Release(p) \/ ReleaseChan(p) \/ ReleaseFlag(p) PROVE Types'
  <2>1. CASE Release(p)
    <3>1. /\ woken' \in SUBSET Procs /\ pc' \in [Procs -> ProcStates]
          /\ voice_live' \in BOOLEAN /\ cancelling' \in [Actors -> SUBSET Chans]
      <4>1. woken' \in SUBSET Procs
        BY <2>1, WakeUpType DEF Release, Types
      <4>2. PICK l \in {"relvoice", "releasing"} : Goto(p, l)
        BY <2>1 DEF Release
      <4>3. pc' \in [Procs -> ProcStates]
        BY <4>2 DEF Goto, Types, ProcStates
      <4>4. voice_live' \in BOOLEAN /\ cancelling' \in [Actors -> SUBSET Chans]
        BY <2>1 DEF Release, CancelVoice, Types, Actors
      <4> QED BY <4>1, <4>3, <4>4
    <3>2. UNCHANGED <<dataVars, voice_rx_list, p_pkt, voice_used>> /\ DeviceSame
      BY <2>1 DEF Release
    <3> QED BY <3>1, <3>2 DEF Types, dataVars, DeviceSame
  <2>2. CASE ReleaseChan(p)
    <3>1. /\ pc' \in [Procs -> ProcStates]
          /\ voice_live' \in BOOLEAN /\ voice_used' \in BOOLEAN
      BY <2>2 DEF ReleaseChan, VoiceCanRun, Types, ProcStates
    <3> QED BY <2>2, <3>1 DEF ReleaseChan, Types, dataVars, DeviceSame
  <2>3. CASE ReleaseFlag(p)
    BY <2>3 DEF ReleaseFlag, Types, ProcStates, dataVars, VoiceSame, voiceVars
  <2> QED BY <1>9, <2>1, <2>2, <2>3
<1>10. ASSUME KrefPut, kref > 0
       PROVE  /\ kref' \in Nat /\ freed' \in BOOLEAN /\ rx_queue' \in Seq(Msgs)
              /\ status' \in [Msgs -> {Unlinked, Queued}] /\ woken' \in SUBSET Procs
  <2>1. kref' \in Nat
    BY <1>10 DEF KrefPut, Types
  <2>2. CASE kref = 1
    BY <1>10, <2>1, <2>2, WakeUpType DEF KrefPut
  <2>3. CASE kref # 1
    BY <1>10, <2>1, <2>3 DEF KrefPut, Types
  <2> QED BY <2>2, <2>3
<1>11. ASSUME NEW p \in Procs, ReleasePut(p) PROVE Types'
  <2>1. kref > 0
    BY <1>11, KrefPositive DEF ReleasePut, Holds
  <2> QED BY <1>10, <1>11, <2>1 DEF ReleasePut, Types, ProcStates, VoiceSame, voiceVars
<1>12. ASSUME NEW a \in Actors, NEW c \in Chans, CancelTurn(a, c) PROVE Types'
  <2>1. CASE p_pkt[c] # None
    <3>1. p_pkt[c] \in Msgs
      BY <2>1 DEF Types, Msgs
    <3>2. Enqueue(p_pkt[c]) /\ WakeUp
      BY <1>12, <2>1 DEF CancelTurn
    <3>3. /\ rx_queue' \in Seq(Msgs) /\ status' \in [Msgs -> {Unlinked, Queued}]
          /\ woken' \in SUBSET Procs
      BY <3>1, <3>2, EnqueueType, WakeUpType
    <3>4. /\ len' \in [Msgs -> 0..MaxLen] /\ p_pkt' \in [Chans -> Pkts \cup {None}]
          /\ cancelling' \in [Actors -> SUBSET Chans]
      <4>1. 0 \in 0..MaxLen
        BY BuffersAssumption
      <4>2. len' = [len EXCEPT ![p_pkt[c]] = 0] /\ p_pkt' = [p_pkt EXCEPT ![c] = None]
        BY <1>12, <2>1 DEF CancelTurn
      <4>3. cancelling' \in [Actors -> SUBSET Chans]
        BY <1>12 DEF CancelTurn, Types
      <4> QED BY <4>1, <4>2, <4>3 DEF Types
    <3> QED BY <1>12, <3>3, <3>4 DEF CancelTurn, Types, DeviceSame
  <2>2. CASE p_pkt[c] = None
    BY <1>12, <2>2 DEF CancelTurn, Types, DeviceSame
  <2> QED BY <2>1, <2>2
<1>13. ASSUME NEW u \in Urbs, UrbData(u) \/ UrbIdle(u) PROVE Types'
  <2>1. CASE UrbData(u)
    <3>1. u \in Msgs
      BY DEF Msgs
    <3>2. len' \in [Msgs -> 0..MaxLen]
      BY <2>1, <3>1 DEF UrbData, Types
    <3> QED BY <2>1, <3>1, <3>2, EnqueueType, WakeUpType
            DEF UrbData, Types, VoiceSame, voiceVars, DeviceSame
  <2>2. CASE UrbIdle(u)
    BY <2>2 DEF UrbIdle, Types, VoiceSame, voiceVars, DeviceSame
  <2> QED BY <1>13, <2>1, <2>2
<1>14. ASSUME NEW c \in Chans, VoiceRxGet(c) PROVE Types'
  <2>1. Head(voice_rx_list) \in Pkts /\ Tail(voice_rx_list) \in Seq(Pkts)
    BY <1>14, HeadTailProperties DEF VoiceRxGet, Types
  <2> QED BY <1>14, <2>1 DEF VoiceRxGet, Types, DeviceSame
<1>15. ASSUME NEW c \in Chans, VoiceRxFull(c) PROVE Types'
  <2>1. p_pkt[c] \in Msgs
    BY <1>15 DEF VoiceRxFull, Types, Msgs
  <2> QED BY <1>15, <2>1, EnqueueType, WakeUpType, BuffersAssumption
          DEF VoiceRxFull, Types, DeviceSame
<1>16. CASE VoiceDies
  BY <1>16 DEF VoiceDies, Types, dataVars, DeviceSame
<1>17. CASE PmDrain
  BY <1>17, DequeueType DEF PmDrain, Types, VoiceSame, voiceVars, DeviceSame
<1>18. ASSUME NEW S \in SUBSET Urbs, SubmitAll(S)
       PROVE  submitted' \in SUBSET Urbs /\ registered' \in BOOLEAN
  BY <1>18 DEF SubmitAll, Types
<1>19. CASE Sleep \/ ResumeStart \/ ResumeEnd
  <2>1. submitted' \in SUBSET Urbs /\ registered' \in BOOLEAN
    <3>1. Main \subseteq Urbs /\ Diags \in SUBSET Urbs
      BY DEF Urbs, Main
    <3>2. CASE Sleep
      BY <3>2 DEF Sleep, Types
    <3>3. CASE ResumeStart
      BY <3>3 DEF ResumeStart, Types
    <3>4. CASE ResumeEnd
      BY <1>18, <3>1, <3>4 DEF ResumeEnd, Types
    <3> QED BY <1>19, <3>2, <3>3, <3>4
  <2>2. pm' \in PmStates /\ voice_live' \in BOOLEAN
    BY <1>19 DEF Sleep, ResumeStart, ResumeEnd, Types, PmStates
  <2>3. PmSame
    BY <1>19 DEF Sleep, ResumeStart, ResumeEnd
  <2> QED BY <2>1, <2>2, <2>3 DEF PmSame, Types
<1>20. ASSUME NEW i \in {"s_diag", "s_voice", "s_main"}, Suspend(i) PROVE Types'
  BY <1>20 DEF Suspend, PmSame, Types, PmStates
<1>21. ASSUME NEW i \in {"r_voice", "r_diag"}, Resume(i) PROVE Types'
  BY <1>18, <1>21 DEF Resume, PmSame, Types, PmStates, Urbs, Main
<1>22. CASE Probe
  <2>1. CASE ProbePut
    <3>1. /\ kref' \in Nat /\ freed' \in BOOLEAN /\ rx_queue' \in Seq(Msgs)
          /\ status' \in [Msgs -> {Unlinked, Queued}] /\ woken' \in SUBSET Procs
      BY <1>10, <2>1, KrefPositive DEF ProbePut, Unbound
    <3>2. dpc' \in ProbeStates
      BY <2>1 DEF ProbePut, ProbeStates
    <3>3. /\ UNCHANGED <<submitted, p_rx_msg, len, h4_sent, pc, main_intf, voice_intf,
                         registered, opened, pm, unsent>>
          /\ VoiceSame
      BY <2>1 DEF ProbePut
    <3> QED BY <3>1, <3>2, <3>3 DEF Types, VoiceSame, voiceVars
  <2>2. ASSUME NEW u \in Urbs, ProbeSubmit(u) PROVE Types'
    BY <2>2 DEF ProbeSubmit, Types, ProbeStates
  <2>3. CASE ProbeEnd
    BY <2>3 DEF ProbeEnd, Types, ProbeStates, DiscStates, dataVars, voiceVars, devVars
  <2>4. CASE ProbeDeregister
    BY <2>4, ReleaseType DEF ProbeDeregister, Types, ProbeStates
  <2> QED BY <1>22, <2>1, <2>2, <2>3, <2>4 DEF Probe
<1>23. CASE DiscWake \/ DiscDown \/ DiscCancel \/ DiscDeregister
  <2>1. CASE DiscWake
    BY <2>1, WakeUpType DEF DiscWake, Types, DiscStates, dataVars, VoiceSame, voiceVars
  <2>2. CASE DiscDown
    BY <2>2 DEF DiscDown, CancelVoice, Types, DiscStates, Actors, dataVars
  <2>3. CASE DiscCancel
    BY <2>3 DEF DiscCancel, Types, DiscStates, VoiceSame, voiceVars
  <2>4. CASE DiscDeregister
    BY <2>4, ReleaseType DEF DiscDeregister, Types, DiscStates, dataVars, VoiceSame, voiceVars
  <2> QED BY <1>23, <2>1, <2>2, <2>3, <2>4
<1>24. CASE DiscPut
  <2>1. /\ kref' \in Nat /\ freed' \in BOOLEAN /\ rx_queue' \in Seq(Msgs)
        /\ status' \in [Msgs -> {Unlinked, Queued}] /\ woken' \in SUBSET Procs
    BY <1>10, <1>24, KrefPositive DEF DiscPut, Unbound
  <2> QED BY <1>24, <2>1 DEF DiscPut, Types, DiscStates, VoiceSame, voiceVars
<1>25. CASE UNCHANGED vars
  BY <1>25 DEF Types, vars, dataVars, voiceVars, devVars
<1> QED
  BY <1>1, <1>2, <1>3, <1>4, <1>5, <1>6, <1>7, <1>8, <1>9, <1>11, <1>12, <1>13, <1>14, <1>15,
     <1>16, <1>17, <1>19, <1>20, <1>21, <1>22, <1>23, <1>24, <1>25
  DEF Next, Proc, Usb, Power, Disconnect

----------------------------------------------------------------------------
(* The reference count counts, and the end of the device is orderly. *)

HoldStates == {"idle", "entering", "polling", "asleep", "rasleep", "reading", "clearing", "voice",
               "relvoice", "relmore", "releasing"}

\* The control block is freed at count zero; a process is in open only until the
\* minor is deregistered; after btusb_cancel_urbs no URB is submitted, and after
\* btusb_cancel_voice no voice URB runs.  A failing probe cannot promise as much.
Teardown ==
    /\ freed => kref = 0
    /\ dpc \in {"aborted", "failed", "deregistered", "gone"} => \A p \in Procs : ~Opening(p)
    /\ dpc \in {"cancelled", "deregistered", "gone"} => submitted = {}
    /\ dpc \notin {"woken"} \cup ProbeStates => ~voice_live

\* Every step keeps kref equal to the number of open files plus the device.
LEMMA KrefStep ==
    ASSUME Types, KrefExact, [Next]_vars
    PROVE  KrefExact'
<1> USE DEF Goto
<1>0. pc \in [Procs -> ProcStates] /\ dpc \in ProbeStates \cup DiscStates /\ kref \in Nat
  BY DEF Types
<1>1. KrefExact <=> kref = Cardinality(Holders) + (IF Unbound THEN 0 ELSE 1)
  BY DEF KrefExact, Holders
<1>2. KrefExact' <=> kref' = Cardinality(Holders') + (IF Unbound' THEN 0 ELSE 1)
  BY DEF KrefExact, Holders
<1>3. ASSUME Holders' = Holders, kref' = kref, Unbound' <=> Unbound PROVE KrefExact'
  BY <1>1, <1>2, <1>3
<1>4. ASSUME NEW p \in Procs, NEW l, Goto(p, l), pc[p] \in HoldStates <=> l \in HoldStates,
             kref' = kref, dpc' = dpc
      PROVE  KrefExact'
  BY <1>0, <1>3, <1>4 DEF Holders, Holds, HoldStates, Unbound
<1>5. ASSUME pc' = pc, kref' = kref, dpc' = dpc PROVE KrefExact'
  BY <1>3, <1>5 DEF Holders, Holds, Unbound
<1>6. ASSUME NEW p \in Procs, OpenDone(p) PROVE KrefExact'
  <2>1. p \notin Holders /\ Holders' = Holders \cup {p}
    BY <1>0, <1>6 DEF OpenDone, Holders, Holds
  <2>2. Cardinality(Holders') = Cardinality(Holders) + 1
    BY <2>1, HoldersFinite, FS_AddElement
  <2> QED BY <1>1, <1>2, <1>6, <2>2, HoldersFinite DEF OpenDone, Unbound
<1>7. ASSUME NEW p \in Procs, ReleasePut(p) PROVE KrefExact'
  <2>1. p \in Holders /\ Holders' = Holders \ {p}
    BY <1>0, <1>7 DEF ReleasePut, Holders, Holds
  <2>2. Cardinality(Holders') = Cardinality(Holders) - 1
    BY <2>1, HoldersFinite, FS_RemoveElement
  <2> QED BY <1>1, <1>2, <1>7, <2>2, HoldersFinite DEF ReleasePut, KrefPut, Unbound
<1>8. CASE ProbePut \/ DiscPut
  <2>1. Holders' = Holders /\ ~Unbound /\ Unbound' /\ kref' = kref - 1
    BY <1>8 DEF ProbePut, DiscPut, KrefPut, Holders, Holds, Unbound
  <2> QED BY <1>0, <1>1, <1>2, <2>1, HoldersFinite
<1>9. ASSUME NEW p \in Procs, Proc(p) PROVE KrefExact'
  <2>1. CASE OpenCheck(p) \/ OpenSet(p) \/ OpenDrain(p)
    BY <1>4, <1>5, <2>1 DEF OpenCheck, OpenSet, OpenDrain, DeviceSame, HoldStates
  <2>2. CASE PollEnter(p) \/ PollRegister(p) \/ PollTest(p) \/ PollWake(p) \/ WaitInterrupted(p)
    BY <1>4, <2>2 DEF PollEnter, PollRegister, PollTest, PollWake, WaitInterrupted, DeviceSame, HoldStates
  <2>3. CASE ReadWait(p) \/ ReadFault(p) \/ ReadClear(p)
    BY <1>4, <2>3 DEF ReadWait, ReadFault, ReadClear, DeviceSame, HoldStates
  <2>4. CASE ReadCopy(p)
    BY <1>4, <2>4 DEF ReadCopy, DeviceSame, HoldStates
  <2>5. CASE VoiceIoctl(p) \/ VoiceIoctlEnd(p)
    BY <1>4, <2>5 DEF VoiceIoctl, VoiceIoctlEnd, DeviceSame, HoldStates
  <2>6. CASE Release(p) \/ ReleaseChan(p) \/ ReleaseFlag(p)
    BY <1>4, <2>6 DEF Release, ReleaseChan, ReleaseFlag, DeviceSame, HoldStates
  <2> QED BY <1>6, <1>7, <1>9, <2>1, <2>2, <2>3, <2>4, <2>5, <2>6 DEF Proc
<1>10. CASE \E a \in Actors, c \in Chans : CancelTurn(a, c)
  BY <1>5, <1>10 DEF CancelTurn, DeviceSame
<1>11. CASE Usb
  BY <1>5, <1>11 DEF Usb, UrbData, UrbIdle, VoiceRxGet, VoiceRxFull, VoiceDies, DeviceSame
<1>12. CASE Power
  BY <1>5, <1>12 DEF Power, PmDrain, Sleep, ResumeStart, ResumeEnd, Suspend, Resume, PmSame,
                     DeviceSame
<1>13. CASE \/ (\E u \in Urbs : ProbeSubmit(u)) \/ ProbeEnd \/ ProbeDeregister
            \/ DiscWake \/ DiscDown \/ DiscCancel \/ DiscDeregister
  <2>1. pc' = pc /\ kref' = kref /\ ~Unbound /\ ~Unbound'
    BY <1>13 DEF ProbeSubmit, ProbeEnd, ProbeDeregister, devVars, DiscWake, DiscDown, DiscCancel,
                 DiscDeregister, Unbound
  <2> QED BY <1>3, <2>1 DEF Holders, Holds
<1>14. CASE UNCHANGED vars
  BY <1>5, <1>14 DEF vars, devVars
<1> QED BY <1>8, <1>9, <1>10, <1>11, <1>12, <1>13, <1>14 DEF Next, Probe, Disconnect

\* Every step keeps the end of the device orderly.
LEMMA TeardownStep ==
    ASSUME Types, KrefExact, Teardown, [Next]_vars
    PROVE  Teardown'
<1> DEFINE Openable == {"probing", "bound", "aborting", "woken"}
<1> USE DEF Goto, Opening
<1>0. pc \in [Procs -> ProcStates] /\ dpc \in ProbeStates \cup DiscStates /\ kref \in Nat
  BY DEF Types
<1>1. ASSUME dpc' = dpc, ~Enabled => submitted' \subseteq submitted,
             ~Enabled /\ voice_live' => voice_live,
             \A q \in Procs : Opening(q)' => Opening(q) \/ dpc \in Openable,
             freed' => kref' = 0
      PROVE  Teardown'
  BY <1>0, <1>1 DEF Teardown, ProbeStates, DiscStates, Enabled
<1>2. ASSUME NEW m, RxDequeued(m) PROVE ~Enabled => submitted' \subseteq submitted
  BY <1>2 DEF RxDequeued, Submit, CanSubmit
<1>3. ASSUME NEW p \in Procs, Proc(p) PROVE Teardown'
  <2> USE DEF DeviceSame, VoiceSame, voiceVars, dataVars, Teardown
  <2>1. CASE OpenCheck(p) \/ OpenSet(p) \/ OpenDrain(p)
    BY <1>0, <1>1, <1>2, <2>1 DEF OpenCheck, OpenSet, OpenDrain
  <2>2. CASE OpenDone(p)
    <3>1. kref > 0
      BY <2>2, KrefPositive DEF OpenDone, Unbound
    <3> QED BY <1>0, <1>1, <2>2, <3>1 DEF OpenDone
  <2>3. CASE PollEnter(p) \/ PollRegister(p) \/ PollTest(p) \/ PollWake(p) \/ WaitInterrupted(p)
    BY <1>0, <1>1, <2>3 DEF PollEnter, PollRegister, PollTest, PollWake, WaitInterrupted
  <2>4. CASE ReadWait(p) \/ ReadFault(p) \/ ReadClear(p)
    BY <1>0, <1>1, <2>4 DEF ReadWait, ReadFault, ReadClear
  <2>5. CASE ReadCopy(p)
    <3>1. ~Enabled => submitted' \subseteq submitted
      BY <1>2, <2>5 DEF ReadCopy
    <3> QED BY <1>0, <1>1, <2>5, <3>1 DEF ReadCopy
  <2>6. CASE VoiceIoctl(p) \/ VoiceIoctlEnd(p)
    BY <1>0, <1>1, <2>6 DEF VoiceIoctl, VoiceIoctlEnd, CancelVoice, VoiceCanRun
  <2>7. CASE Release(p) \/ ReleaseChan(p) \/ ReleaseFlag(p)
    BY <1>0, <1>1, <2>7 DEF Release, ReleaseChan, ReleaseFlag, CancelVoice, VoiceCanRun
  <2>8. CASE ReleasePut(p)
    <3>1. kref > 0
      BY <2>8, KrefPositive DEF ReleasePut, Holds
    <3> QED BY <1>0, <1>1, <2>8, <3>1 DEF ReleasePut, KrefPut
  <2> QED BY <1>3, <2>1, <2>2, <2>3, <2>4, <2>5, <2>6, <2>7, <2>8 DEF Proc
<1>4. CASE \E a \in Actors, c \in Chans : CancelTurn(a, c)
  BY <1>1, <1>4 DEF CancelTurn, DeviceSame, Teardown
<1>5. CASE Usb
  BY <1>1, <1>5 DEF Usb, UrbData, UrbIdle, VoiceRxGet, VoiceRxFull, VoiceDies, DeviceSame,
                    VoiceSame, voiceVars, dataVars, Teardown
<1>6. CASE Power
  BY <1>1, <1>6 DEF Power, PmDrain, Sleep, ResumeStart, ResumeEnd, Suspend, Resume, PmSame,
                    PmEnabled, Enabled, DeviceSame, VoiceSame, voiceVars, Teardown
<1>7. CASE DiscWake \/ DiscDown \/ DiscCancel \/ DiscDeregister
  BY <1>0, <1>7 DEF DiscWake, DiscDown, DiscCancel, DiscDeregister, CancelVoice, dataVars,
                    VoiceSame, voiceVars, Teardown, ProbeStates
<1>8. CASE ProbePut \/ DiscPut
  <2>1. kref > 0
    BY <1>8, KrefPositive DEF ProbePut, DiscPut, Unbound
  <2> QED BY <1>0, <1>8, <2>1
          DEF ProbePut, DiscPut, KrefPut, VoiceSame, voiceVars, Teardown, ProbeStates
<1>9. CASE UNCHANGED vars
  BY <1>1, <1>9 DEF vars, dataVars, voiceVars, devVars, Teardown
<1>10. CASE (\E u \in Urbs : ProbeSubmit(u)) \/ ProbeEnd \/ ProbeDeregister
  BY <1>0, <1>10 DEF ProbeSubmit, ProbeEnd, ProbeDeregister, dataVars, voiceVars, devVars,
                     Teardown, ProbeStates
<1> QED BY <1>3, <1>4, <1>5, <1>6, <1>7, <1>8, <1>9, <1>10 DEF Next, Probe, Disconnect

----------------------------------------------------------------------------
(* The GKI headers and rx_queue. *)

\* GKI_enqueue keeps the headers honest: the test of the status makes a second
\* enqueue of a queued message a no-operation.
LEMMA EnqueueHonest ==
    ASSUME Types, QueueHonest, NEW m \in Msgs, Enqueue(m)
    PROVE  QueueHonest'
<1>1. rx_queue \in Seq(Msgs) /\ status \in [Msgs -> {Unlinked, Queued}]
  BY DEF Types
<1>2. CASE status[m] = Unlinked
  <2> DEFINE n == Len(rx_queue)
  <2>1. rx_queue' = Append(rx_queue, m) /\ status' = [status EXCEPT ![m] = Queued]
    BY <1>2 DEF Enqueue
  <2>2. /\ n \in Nat /\ DOMAIN rx_queue = 1..n /\ DOMAIN rx_queue' = 1..(n + 1)
        /\ \A i \in 1..n : rx_queue'[i] = rx_queue[i]
        /\ rx_queue'[n + 1] = m
    <3>1. n \in Nat /\ DOMAIN rx_queue = 1..n
      BY <1>1, LenProperties
    <3>2. /\ rx_queue' \in Seq(Msgs) /\ Len(rx_queue') = n + 1
          /\ \A i \in 1..n : rx_queue'[i] = rx_queue[i]
        /\ rx_queue'[n + 1] = m
      BY <1>1, <2>1, <3>1, AppendProperties
    <3>3. DOMAIN rx_queue' = 1..(n + 1)
      BY <3>2, LenProperties
    <3> QED BY <3>1, <3>2, <3>3
  <2>3. InQueue' = InQueue \cup {m}
    BY <2>2 DEF InQueue
  <2>4. m \notin InQueue
    BY <1>2 DEF QueueHonest, Unlinked, Queued
  <2>5. \A i, j \in DOMAIN rx_queue' : rx_queue'[i] = rx_queue'[j] => i = j
    BY <2>2, <2>4 DEF QueueHonest, InQueue
  <2> QED BY <1>1, <2>1, <2>3, <2>5 DEF QueueHonest
<1>3. CASE status[m] # Unlinked
  BY <1>3 DEF Enqueue, QueueHonest, InQueue
<1> QED BY <1>2, <1>3

\* GKI_dequeue keeps the headers honest.
LEMMA DequeueHonest ==
    ASSUME Types, QueueHonest, Dequeue
    PROVE  QueueHonest'
<1> DEFINE n == Len(rx_queue)
<1>1. rx_queue \in Seq(Msgs) /\ status \in [Msgs -> {Unlinked, Queued}] /\ rx_queue # <<>>
  BY DEF Types, Dequeue
<1>2. rx_queue' = Tail(rx_queue) /\ status' = [status EXCEPT ![Head(rx_queue)] = Unlinked]
  BY DEF Dequeue
<1>3. /\ n \in Nat \ {0} /\ DOMAIN rx_queue = 1..n /\ DOMAIN rx_queue' = 1..(n - 1)
      /\ \A i \in 1..(n - 1) : rx_queue'[i] = rx_queue[i + 1]
      /\ Head(rx_queue) = rx_queue[1] /\ Head(rx_queue) \in Msgs
  BY <1>1, <1>2, HeadTailProperties, LenProperties
<1> HIDE DEF n
<1>4. \A i, j \in DOMAIN rx_queue' : rx_queue'[i] = rx_queue'[j] => i = j
  <2>1. SUFFICES ASSUME NEW i \in 1..(n - 1), NEW j \in 1..(n - 1),
                        rx_queue'[i] = rx_queue'[j]
                 PROVE  i = j
    BY <1>3
  <2>2. i + 1 \in DOMAIN rx_queue /\ j + 1 \in DOMAIN rx_queue
    BY <1>3
  <2>3. rx_queue[i + 1] = rx_queue[j + 1]
    BY <1>3, <2>1
  <2>4. i + 1 = j + 1
    BY <2>2, <2>3 DEF QueueHonest
  <2> QED BY <1>3, <2>4
<1>5. InQueue' = InQueue \ {Head(rx_queue)}
  <2>1. \A i \in 1..n : i = 1 \/ (i - 1 \in 1..(n - 1) /\ rx_queue'[i - 1] = rx_queue[i])
    BY <1>3
  <2>2. \A i \in 1..(n - 1) : i + 1 \in 1..n /\ rx_queue[i + 1] # rx_queue[1]
    BY <1>3 DEF QueueHonest
  <2>3. ASSUME NEW x \in InQueue' PROVE x \in InQueue \ {Head(rx_queue)}
    BY <1>3, <2>2, <2>3 DEF InQueue
  <2>4. ASSUME NEW x \in InQueue, x # Head(rx_queue) PROVE x \in InQueue'
    <3>1. PICK i \in 1..n : x = rx_queue[i]
      BY <1>3 DEF InQueue
    <3>2. i - 1 \in 1..(n - 1) /\ rx_queue'[i - 1] = x
      BY <1>3, <2>1, <2>4, <3>1
    <3> QED BY <1>3, <3>2 DEF InQueue
  <2> QED BY <2>3, <2>4
<1> QED BY <1>1, <1>2, <1>3, <1>4, <1>5 DEF QueueHonest, Unlinked, Queued

\* Every step keeps the headers honest, whatever is submitted, suspended or freed.
LEMMA QueueStep ==
    ASSUME Types, QueueHonest, [Next]_vars
    PROVE  QueueHonest'
<1>1. ASSUME UNCHANGED <<rx_queue, status>> PROVE QueueHonest'
  BY <1>1 DEF QueueHonest, InQueue
<1>2. ASSUME GetRxPacket PROVE QueueHonest'
  BY <1>1, <1>2, DequeueHonest DEF GetRxPacket
<1>3. ASSUME KrefPut PROVE QueueHonest'
  <2>1. CASE kref = 1
    BY <1>3, <2>1 DEF KrefPut, QueueHonest, InQueue, Unlinked, Queued
  <2> QED BY <1>1, <1>3, <2>1 DEF KrefPut
<1>4. ASSUME NEW c \in Chans, p_pkt[c] # None PROVE p_pkt[c] \in Msgs
  BY <1>4 DEF Types, Msgs
<1>5. ASSUME NEW p \in Procs, Proc(p) PROVE QueueHonest'
  <2> USE DEF dataVars
  <2>1. CASE OpenCheck(p) \/ OpenSet(p) \/ OpenDone(p)
    BY <1>1, <2>1 DEF OpenCheck, OpenSet, OpenDone
  <2>2. CASE OpenDrain(p)
    BY <2>2, DequeueHonest DEF OpenDrain
  <2>3. CASE PollEnter(p) \/ PollRegister(p) \/ PollWake(p) \/ WaitInterrupted(p)
    BY <1>1, <2>3 DEF PollEnter, PollRegister, PollWake, WaitInterrupted
  <2>4. CASE PollTest(p) \/ ReadWait(p)
    BY <1>1, <1>2, <2>4 DEF PollTest, ReadWait
  <2>5. CASE ReadCopy(p) \/ ReadFault(p) \/ ReadClear(p)
    BY <1>1, <2>5 DEF ReadCopy, ReadFault, ReadClear
  <2>6. CASE VoiceIoctl(p) \/ VoiceIoctlEnd(p)
    BY <1>1, <2>6 DEF VoiceIoctl, VoiceIoctlEnd
  <2>7. CASE Release(p) \/ ReleaseChan(p) \/ ReleaseFlag(p)
    BY <1>1, <2>7 DEF Release, ReleaseChan, ReleaseFlag
  <2>8. CASE ReleasePut(p)
    BY <1>3, <2>8 DEF ReleasePut
  <2> QED BY <1>5, <2>1, <2>2, <2>3, <2>4, <2>5, <2>6, <2>7, <2>8 DEF Proc
<1>6. CASE \E a \in Actors, c \in Chans : CancelTurn(a, c)
  BY <1>1, <1>4, <1>6, EnqueueHonest DEF CancelTurn
<1>7. CASE Usb
  <2>1. ASSUME NEW u \in Urbs, UrbData(u) \/ UrbIdle(u) PROVE QueueHonest'
    BY <1>1, <2>1, EnqueueHonest DEF UrbData, UrbIdle, Msgs
  <2>2. ASSUME NEW c \in Chans, VoiceRxGet(c) \/ VoiceRxFull(c) PROVE QueueHonest'
    BY <1>1, <1>4, <2>2, EnqueueHonest DEF VoiceRxGet, VoiceRxFull
  <2> QED BY <1>1, <1>7, <2>1, <2>2 DEF Usb, VoiceDies, dataVars
<1>8. CASE Power
  BY <1>1, <1>8, DequeueHonest
     DEF Power, PmDrain, Sleep, ResumeStart, ResumeEnd, Suspend, Resume, PmSame
<1>9. CASE Probe \/ Disconnect
  BY <1>1, <1>3, <1>9
     DEF Probe, ProbeSubmit, ProbeEnd, ProbeDeregister, ProbePut, Disconnect, DiscWake,
         DiscDown, DiscCancel, DiscDeregister, DiscPut, dataVars
<1>10. CASE UNCHANGED vars
  BY <1>1, <1>10 DEF vars, dataVars
<1> QED BY <1>5, <1>6, <1>7, <1>8, <1>9, <1>10 DEF Next

----------------------------------------------------------------------------
(* Wake-ups *)

\* Every step that gives a sleeper something to read wakes it.
LEMMA WakeupStep ==
    ASSUME Types, NoLostWakeup, [Next]_vars
    PROVE  NoLostWakeup'
<1> USE DEF Goto, NoLostWakeup, MessageWaits
<1>0. pc \in [Procs -> ProcStates]
  BY DEF Types
<1>1. ASSUME pc' = pc, WakeUp PROVE NoLostWakeup'
  BY <1>0, <1>1 DEF WakeUp
<1>2. ASSUME pc' = pc, woken \subseteq woken', MessageWaits' => MessageWaits
      PROVE  NoLostWakeup'
  BY <1>2
<1>3. ASSUME NEW p \in Procs, NEW l, l # "asleep", Goto(p, l),
             woken \ {p} \subseteq woken', MessageWaits' => MessageWaits
      PROVE  NoLostWakeup'
  BY <1>0, <1>3
<1>4. ASSUME Dequeue PROVE rx_queue' # <<>> => rx_queue # <<>>
  BY <1>4 DEF Dequeue
<1>5. ASSUME NEW p \in Procs, Proc(p) PROVE NoLostWakeup'
  <2> USE DEF dataVars
  <2>1. CASE OpenCheck(p) \/ OpenSet(p)
    BY <1>3, <2>1 DEF OpenCheck, OpenSet
  <2>2. CASE OpenDone(p)
    BY <1>3, <2>2 DEF OpenDone
  <2>3. CASE OpenDrain(p)
    BY <1>2, <1>4, <2>3 DEF OpenDrain
  <2>4. CASE PollEnter(p) \/ PollRegister(p) \/ PollWake(p) \/ WaitInterrupted(p)
    BY <1>3, <2>4 DEF PollEnter, PollRegister, PollWake, WaitInterrupted
  <2>5. CASE PollTest(p)
    BY <1>3, <2>5 DEF PollTest, HasPacket
  <2>6. CASE ReadWait(p)
    BY <1>3, <2>6 DEF ReadWait, HasPacket
  <2>7. CASE ReadCopy(p) \/ ReadFault(p) \/ ReadClear(p)
    BY <1>3, <2>7 DEF ReadCopy, ReadFault, ReadClear
  <2>8. CASE VoiceIoctl(p) \/ VoiceIoctlEnd(p)
    BY <1>3, <2>8 DEF VoiceIoctl, VoiceIoctlEnd
  <2>9. CASE Release(p) \/ ReleaseChan(p) \/ ReleaseFlag(p)
    BY <1>3, <2>9 DEF Release, ReleaseChan, ReleaseFlag, WakeUp
  <2>10. CASE ReleasePut(p)
    BY <1>3, <2>10 DEF ReleasePut, KrefPut, WakeUp
  <2> QED BY <1>5, <2>1, <2>2, <2>3, <2>4, <2>5, <2>6, <2>7, <2>8, <2>9, <2>10 DEF Proc
<1>6. CASE \E a \in Actors, c \in Chans : CancelTurn(a, c)
  BY <1>1, <1>2, <1>6 DEF CancelTurn
<1>7. CASE Usb
  BY <1>1, <1>2, <1>7 DEF Usb, UrbData, UrbIdle, VoiceRxGet, VoiceRxFull, VoiceDies, dataVars
<1>8. CASE Power
  BY <1>2, <1>4, <1>8 DEF Power, PmDrain, Sleep, ResumeStart, ResumeEnd, Suspend, Resume, PmSame
<1>9. CASE Probe \/ Disconnect
  <2>1. CASE DiscWake
    BY <1>1, <2>1 DEF DiscWake
  <2>2. CASE DiscDown \/ DiscCancel \/ DiscDeregister
    BY <1>2, <2>2 DEF DiscDown, DiscCancel, DiscDeregister, ReleaseIntfs, WakeUp, dataVars
  <2>3. CASE ProbePut \/ DiscPut
    BY <1>2, <2>3 DEF ProbePut, DiscPut, KrefPut, WakeUp
  <2>4. CASE (\E u \in Urbs : ProbeSubmit(u)) \/ ProbeEnd \/ ProbeDeregister
    BY <1>2, <2>4 DEF ProbeSubmit, ProbeEnd, ProbeDeregister, ReleaseIntfs, WakeUp, dataVars
  <2> QED BY <1>9, <2>1, <2>2, <2>3, <2>4 DEF Probe, Disconnect
<1>10. CASE UNCHANGED vars
  BY <1>2, <1>10 DEF vars, dataVars
<1> QED BY <1>5, <1>6, <1>7, <1>8, <1>9, <1>10 DEF Next

----------------------------------------------------------------------------
(* Exclusion, when the calls of open are serialised.  A reader copies         *)
(* p_rx_msg without a test, so that it has a message rests on there being one *)
(* process.                                                                   *)

\* While opened is clear, no process is past the check of btusb_open.
OpenFlag == opened = 0 => \A p \in Procs : pc[p] \in {"closed", "opening"}

\* Each step of the system keeps the exclusion of the applications.
LEMMA ExclusionStep ==
    ASSUME SerialOpen, Types, OneApplication, OpenFlag, [Next]_vars
    PROVE  OneApplication' /\ OpenFlag'
<1> USE DEF OneApplication, OpenFlag, Goto
<1>0. pc \in [Procs -> ProcStates] /\ opened \in {0, 1}
  BY DEF Types
<1>1. ASSUME NEW p \in Procs, OpenCheck(p) PROVE OneApplication' /\ OpenFlag'
  BY <1>0, <1>1 DEF OpenCheck, Opening, DeviceSame
<1>2. ASSUME NEW p \in Procs, OpenSet(p) PROVE OneApplication' /\ OpenFlag'
  BY <1>0, <1>2 DEF OpenSet
<1>3. ASSUME NEW p \in Procs, ReleaseFlag(p) PROVE OneApplication' /\ OpenFlag'
  BY <1>0, <1>3 DEF ReleaseFlag
<1>4. ASSUME NEW p \in Procs, pc[p] \notin {"closed", "opening"},
             NEW l, l # "closed", Goto(p, l), opened' = opened
      PROVE  OneApplication' /\ OpenFlag'
  BY <1>0, <1>4
<1>5. ASSUME NEW p \in Procs, Proc(p) PROVE OneApplication' /\ OpenFlag'
  <2>1. CASE OpenDrain(p)
    BY <2>1 DEF OpenDrain, DeviceSame
  <2>2. CASE OpenDone(p) \/ PollEnter(p) \/ PollRegister(p) \/ PollTest(p) \/ PollWake(p)
    BY <2>2, <1>4 DEF OpenDone, PollEnter, PollRegister, PollTest, PollWake, DeviceSame
  <2>3. CASE WaitInterrupted(p) \/ ReadWait(p) \/ ReadFault(p) \/ ReadClear(p)
    BY <2>3, <1>4 DEF WaitInterrupted, ReadWait, ReadFault, ReadClear, DeviceSame
  <2>4. CASE ReadCopy(p)
    BY <2>4, <1>4 DEF ReadCopy, DeviceSame
  <2>5. CASE VoiceIoctl(p) \/ VoiceIoctlEnd(p)
    BY <2>5, <1>4 DEF VoiceIoctl, VoiceIoctlEnd, DeviceSame
  <2>6. CASE Release(p) \/ ReleaseChan(p) \/ ReleasePut(p)
    BY <2>6, <1>4 DEF Release, ReleaseChan, ReleasePut, DeviceSame
  <2> QED BY <1>1, <1>2, <1>3, <1>5, <2>1, <2>2, <2>3, <2>4, <2>5, <2>6 DEF Proc
<1>6. ASSUME pc' = pc, opened' = opened PROVE OneApplication' /\ OpenFlag'
  BY <1>6
<1>7. CASE \E a \in Actors, c \in Chans : CancelTurn(a, c)
  BY <1>6, <1>7 DEF CancelTurn, DeviceSame
<1>8. CASE Usb
  BY <1>6, <1>8 DEF Usb, UrbData, UrbIdle, VoiceRxGet, VoiceRxFull, VoiceDies, DeviceSame
<1>9. CASE Power
  BY <1>6, <1>9 DEF Power, PmDrain, Sleep, ResumeStart, ResumeEnd, Suspend, Resume, PmSame,
                    DeviceSame
<1>10. CASE Probe \/ Disconnect
  BY <1>6, <1>10 DEF Probe, ProbeSubmit, ProbeEnd, ProbeDeregister, ProbePut, devVars, Disconnect,
                     DiscWake, DiscDown, DiscCancel, DiscDeregister, DiscPut
<1>11. CASE UNCHANGED vars
  BY <1>6, <1>11 DEF vars, devVars
<1> QED BY <1>5, <1>7, <1>8, <1>9, <1>10, <1>11 DEF Next

\* A process that copies a message has one.
ReaderHasMessage == \A p \in Procs : pc[p] = "reading" => p_rx_msg # None

\* Each step keeps the message of the reader.
LEMMA ReaderStep ==
    ASSUME Types, OneApplication, ReaderHasMessage, [Next]_vars
    PROVE  ReaderHasMessage'
<1> USE DEF ReaderHasMessage, Goto
<1>0. pc \in [Procs -> ProcStates]
  BY DEF Types
<1>1. ASSUME NEW p \in Procs, NEW l, l # "reading", Goto(p, l), p_rx_msg' = p_rx_msg
      PROVE  ReaderHasMessage'
  BY <1>0, <1>1
<1>2. ASSUME pc' = pc, p_rx_msg' = p_rx_msg PROVE ReaderHasMessage'
  BY <1>2
<1>3. ASSUME GetRxPacket PROVE p_rx_msg' # None
  BY <1>3, GetRxPacketType, BuffersAssumption
<1>4. ASSUME NEW p \in Procs, Proc(p) PROVE ReaderHasMessage'
  <2> USE DEF dataVars
  <2>1. CASE OpenCheck(p) \/ OpenSet(p) \/ OpenDrain(p) \/ OpenDone(p)
    BY <1>1, <1>2, <2>1 DEF OpenCheck, OpenSet, OpenDrain, OpenDone
  <2>2. CASE PollEnter(p) \/ PollRegister(p) \/ PollWake(p) \/ WaitInterrupted(p)
    BY <1>1, <2>2 DEF PollEnter, PollRegister, PollWake, WaitInterrupted
  <2>3. CASE PollTest(p) \/ ReadWait(p)
    BY <1>1, <1>3, <2>3 DEF PollTest, ReadWait
  <2>4. CASE ReadCopy(p) \/ ReadFault(p)
    BY <1>1, <2>4 DEF ReadCopy, ReadFault
  <2>5. CASE ReadClear(p)
    BY <1>0, <2>5 DEF ReadClear, OneApplication
  <2>6. CASE VoiceIoctl(p) \/ VoiceIoctlEnd(p)
    BY <1>1, <2>6 DEF VoiceIoctl, VoiceIoctlEnd
  <2>7. CASE Release(p) \/ ReleaseChan(p) \/ ReleasePut(p) \/ ReleaseFlag(p)
    BY <1>1, <2>7 DEF Release, ReleaseChan, ReleasePut, ReleaseFlag
  <2> QED BY <1>4, <2>1, <2>2, <2>3, <2>4, <2>5, <2>6, <2>7 DEF Proc
<1>5. CASE \E a \in Actors, c \in Chans : CancelTurn(a, c)
  BY <1>2, <1>5 DEF CancelTurn
<1>6. CASE Usb
  BY <1>2, <1>6 DEF Usb, UrbData, UrbIdle, VoiceRxGet, VoiceRxFull, VoiceDies, dataVars
<1>7. CASE Power
  BY <1>2, <1>7 DEF Power, PmDrain, Sleep, ResumeStart, ResumeEnd, Suspend, Resume, PmSame
<1>8. CASE Probe \/ Disconnect
  BY <1>2, <1>8 DEF Probe, ProbeSubmit, ProbeEnd, ProbeDeregister, ProbePut, Disconnect,
                    DiscWake, DiscDown, DiscCancel, DiscDeregister, DiscPut, dataVars
<1>9. CASE UNCHANGED vars
  BY <1>2, <1>9 DEF vars, dataVars
<1> QED BY <1>4, <1>5, <1>6, <1>7, <1>8, <1>9 DEF Next

----------------------------------------------------------------------------
(* The theorems *)

\* The inductive invariant, whether the calls of open are serialised or not.
Base == Types /\ KrefExact /\ Teardown /\ QueueHonest /\ NoLostWakeup

\* The inductive invariant when they are.
IInv == Base /\ OneApplication /\ OpenFlag /\ ReaderHasMessage

\* A device that has just been probed satisfies both.
LEMMA InitIInv == Init => IInv
<1> SUFFICES ASSUME Init PROVE IInv
  OBVIOUS
<1>1. Types
  <2>1. voice_rx_list \in Seq(Pkts)
    <3>1. Cardinality(Pkts) \in Nat
      BY BuffersAssumption, FS_Subset, FS_CardinalityType DEF Msgs
    <3>2. voice_rx_list \in [1..Cardinality(Pkts) -> Pkts]
      BY DEF Init, Create
    <3> QED BY <3>1, <3>2
  <2>2. rx_queue \in Seq(Msgs)
    BY DEF Init, Create
  <2>3. len \in [Msgs -> 0..MaxLen]
    BY BuffersAssumption DEF Init, Create
  <2>4. /\ pc \in [Procs -> ProcStates] /\ dpc \in ProbeStates /\ pm \in PmStates
    BY DEF Init, Create, ProcStates, ProbeStates, PmStates
  <2>5. /\ status \in [Msgs -> {Unlinked, Queued}] /\ p_pkt \in [Chans -> Pkts \cup {None}]
        /\ cancelling \in [Actors -> SUBSET Chans]
    BY DEF Init, Create
  <2>6. /\ submitted \in SUBSET Urbs /\ unsent \in SUBSET Urbs /\ h4_sent \in SUBSET Msgs
        /\ woken \in SUBSET Procs /\ kref \in Nat /\ opened \in {0, 1} /\ p_rx_msg \in Msgs \cup {None}
        /\ voice_used \in BOOLEAN /\ voice_live \in BOOLEAN /\ freed \in BOOLEAN
        /\ main_intf \in BOOLEAN /\ voice_intf \in BOOLEAN /\ registered \in BOOLEAN
    BY BuffersAssumption DEF Init, Create
  <2> QED BY <2>1, <2>2, <2>3, <2>4, <2>5, <2>6 DEF Types
<1>2. OneApplication /\ OpenFlag /\ ReaderHasMessage
  BY DEF Init, Create, OneApplication, OpenFlag, ReaderHasMessage
<1>3. KrefExact
  <2>1. {p \in Procs : Holds(p)} = {}
    BY DEF Init, Create, Holds
  <2>2. kref = 1 /\ ~Unbound
    BY DEF Init, Create, Unbound
  <2>3. Cardinality({p \in Procs : Holds(p)}) = 0
    BY <2>1, FS_EmptySet
  <2> QED BY <2>2, <2>3 DEF KrefExact
<1>4. Teardown
  BY DEF Init, Create, Teardown
<1>5. QueueHonest /\ NoLostWakeup
  BY DEF Init, Create, QueueHonest, InQueue, NoLostWakeup, Unlinked, Queued
<1> QED BY <1>1, <1>2, <1>3, <1>4, <1>5 DEF IInv, Base

\* Every step keeps the first.
LEMMA NextBase ==
    ASSUME Base, [Next]_vars
    PROVE  Base'
BY TypeStep, KrefStep, TeardownStep, QueueStep, WakeupStep DEF Base

\* The first is invariant.
THEOREM BaseInvariance == Spec => []Base
<1>1. Init => Base
  BY InitIInv DEF IInv
<1>2. Base /\ [Next]_vars => Base'
  BY NextBase
<1> QED BY <1>1, <1>2, PTL DEF Spec

\* Every step keeps the second, when the calls of open are serialised.
LEMMA NextIInv ==
    ASSUME SerialOpen, IInv, [Next]_vars
    PROVE  IInv'
BY NextBase, ExclusionStep, ReaderStep DEF IInv, Base

\* The second is invariant.
THEOREM Invariance == ASSUME SerialOpen PROVE Spec => []IInv
<1>1. IInv /\ [Next]_vars => IInv'
  BY NextIInv
<1> QED BY <1>1, InitIInv, PTL DEF Spec

\* Types: no action works on the NULL message or reads a message past its end.
THEOREM TypeCorrect == ASSUME SerialOpen PROVE Spec => []TypeOK
<1>1. IInv => TypeOK
  BY DEF IInv, Base, TypeOK, ReaderHasMessage
<1> QED BY <1>1, Invariance, PTL

\* kref counts the open files and the bound device, through opens, releases and
\* disconnects in any order, even when two opens both pass the test of opened.
THEOREM KrefCounts == Spec => []KrefExact
<1>1. Base => KrefExact
  BY DEF Base
<1> QED BY <1>1, BaseInvariance, PTL

\* When a probe has not failed, btusb_delete runs when no file is open or being
\* opened, disconnect is over and the host controller owns no URB of the device,
\* however the opens race;
\* the run rx_probe_fails shows that a failing probe is different.
THEOREM FreeIsSafe == ASSUME ~ProbeFails PROVE Spec => []FreedUnused
<1> DEFINE Succeeds == dpc \notin {"aborting", "aborted", "failed"}
<1>1. Init => Succeeds
  BY DEF Init
<1>2. ASSUME Succeeds, [Next]_vars PROVE Succeeds'
  <2>1. ASSUME dpc' = dpc PROVE Succeeds'
    BY <1>2, <2>1
  <2>2. CASE \E p \in Procs : Proc(p)
    BY <2>1, <2>2 DEF Proc, OpenCheck, OpenSet, OpenDrain, OpenDone, PollEnter, PollRegister, PollTest,
       PollWake, WaitInterrupted, ReadWait, ReadCopy, ReadFault, ReadClear, VoiceIoctl,
       VoiceIoctlEnd, Release, ReleaseChan, ReleasePut, ReleaseFlag, DeviceSame
  <2>3. CASE (\E a \in Actors, c \in Chans : CancelTurn(a, c)) \/ Usb
    BY <2>1, <2>3 DEF CancelTurn, Usb, UrbData, UrbIdle, VoiceRxGet, VoiceRxFull, VoiceDies,
       DeviceSame
  <2>4. CASE Power
    BY <2>1, <2>4 DEF Power, PmDrain, Sleep, ResumeStart, ResumeEnd, Suspend, Resume, PmSame,
       DeviceSame
  <2>5. CASE Probe \/ Disconnect
    BY <1>2, <2>5 DEF Probe, ProbeSubmit, ProbeEnd, ProbeDeregister, ProbePut, Disconnect,
       DiscWake, DiscDown, DiscCancel, DiscDeregister, DiscPut
  <2>6. CASE UNCHANGED vars
    BY <2>1, <2>6 DEF vars
  <2> QED BY <1>2, <2>2, <2>3, <2>4, <2>5, <2>6 DEF Next
<1>3. ASSUME Base, Succeeds PROVE FreedUnused
  <2> SUFFICES ASSUME freed
               PROVE  /\ \A p \in Procs : ~Holds(p) /\ ~Opening(p)
                      /\ Unbound /\ submitted = {} /\ ~voice_live
    BY DEF FreedUnused
  <2>1. kref = 0 /\ KrefExact /\ Teardown
    BY <1>3 DEF Base, Teardown
  <2>2. Unbound /\ dpc = "gone" /\ \A p \in Procs : ~Holds(p)
    BY <1>3, <2>1, KrefPositive DEF Unbound
  <2> QED BY <2>1, <2>2 DEF Teardown, ProbeStates
<1> QED BY <1>1, <1>2, <1>3, BaseInvariance, PTL DEF Spec

\* A message is marked queued exactly when it is in rx_queue, and is there once,
\* even when resume submits the URB of a message that was never given back.
THEOREM HeadersHonest == Spec => []QueueHonest
<1>1. Base => QueueHonest
  BY DEF Base
<1> QED BY <1>1, BaseInvariance, PTL

\* A process does not sleep in select on a message it was not woken for.
THEOREM WakeupsKept == Spec => []NoLostWakeup
<1>1. Base => NoLostWakeup
  BY DEF Base
<1> QED BY <1>1, BaseInvariance, PTL
----------------------------------------------------------------------------
(* Who owns each buffer *)

Assembled == {p_pkt[c] : c \in Chans} \ {None}
Clearing  == \E p \in Procs : pc[p] = "clearing"

\* No buffer has two owners: the host controller, the queue, the reader, the free
\* list and the channels, and, for URBs, what btusb_probe has still to submit.
Exclusive ==
    /\ submitted \cap InQueue = {} /\ submitted \cap Picked = {}
    /\ InQueue \cap Picked = {}
    /\ unsent \cap submitted = {} /\ unsent \cap InQueue = {} /\ unsent \cap Picked = {}
    /\ FreePkts \cap InQueue = {} /\ FreePkts \cap Picked = {}
    /\ Assembled \cap InQueue = {} /\ Assembled \cap Picked = {}
    /\ FreePkts \cap Assembled = {}

\* No voice packet is twice in the free list or on two channels.
Once ==
    /\ \A i, j \in DOMAIN voice_rx_list : voice_rx_list[i] = voice_rx_list[j] => i = j
    /\ \A c, d \in Chans : p_pkt[c] = p_pkt[d] /\ p_pkt[c] # None => c = d

\* No buffer is without an owner, while the device is bound or the control block
\* exists.
Kept ==
    /\ ~Faults /\ dpc \in {"probing", "bound"} =>
           Urbs \subseteq submitted \cup unsent \cup InQueue \cup Picked
    /\ dpc = "bound" => unsent = {}
    /\ ~freed => Pkts \subseteq FreePkts \cup Assembled \cup InQueue \cup Picked

Owned == Exclusive /\ Once /\ Kept /\ pm = "active"

----------------------------------------------------------------------------
(* What each movement of a buffer does to the sets of owners. *)

\* Each set of owners holds buffers of the right kind.
LEMMA Kinds ==
    ASSUME Types
    PROVE  /\ submitted \subseteq Urbs /\ unsent \subseteq Urbs
           /\ InQueue \subseteq Msgs /\ FreePkts \subseteq Pkts /\ Assembled \subseteq Pkts
           /\ Picked \subseteq Msgs
           /\ Urbs \cap Pkts = {} /\ Msgs = Urbs \cup Pkts /\ None \notin Msgs
<1>1. InQueue \subseteq Msgs
  BY LenProperties DEF Types, InQueue
<1>2. FreePkts \subseteq Pkts
  BY LenProperties DEF Types, FreePkts
<1>3. Assembled \subseteq Pkts
  BY DEF Types, Assembled
<1>4. Picked \subseteq Msgs
  BY DEF Types, Picked
<1> QED BY <1>1, <1>2, <1>3, <1>4, BuffersAssumption DEF Types, Msgs

\* GKI_enqueue of a message that is not queued.
LEMMA EnqueueMoves ==
    ASSUME Types, QueueHonest, NEW m \in Msgs, m \notin InQueue, Enqueue(m)
    PROVE  InQueue' = InQueue \cup {m} /\ rx_queue' = Append(rx_queue, m)
<1> DEFINE n == Len(rx_queue)
<1>1. rx_queue' = Append(rx_queue, m) /\ rx_queue \in Seq(Msgs)
  <2>1. status[m] = Unlinked
    BY DEF QueueHonest, Types, Queued, Unlinked
  <2> QED BY <2>1 DEF Enqueue, Types
<1>2. /\ n \in Nat /\ DOMAIN rx_queue = 1..n
      /\ rx_queue' \in Seq(Msgs) /\ Len(rx_queue') = n + 1
      /\ \A i \in 1..n : rx_queue'[i] = rx_queue[i]
      /\ rx_queue'[n + 1] = m
  BY <1>1, LenProperties, AppendProperties
<1>3. DOMAIN rx_queue' = 1..(n + 1)
  BY <1>2, LenProperties
<1>4. InQueue' = InQueue \cup {m}
  <2> HIDE DEF n
  <2> QED BY <1>2, <1>3 DEF InQueue
<1> QED BY <1>1, <1>4

\* What the head and the tail of a sequence without repetitions hold.
LEMMA HeadOut ==
    ASSUME NEW S, NEW s \in Seq(S), s # <<>>,
           \A i, j \in DOMAIN s : s[i] = s[j] => i = j
    PROVE  /\ Head(s) \in {s[i] : i \in DOMAIN s} /\ Head(s) \in S
           /\ {Tail(s)[i] : i \in DOMAIN Tail(s)} = {s[i] : i \in DOMAIN s} \ {Head(s)}
           /\ \A i, j \in DOMAIN Tail(s) : Tail(s)[i] = Tail(s)[j] => i = j
<1> DEFINE n == Len(s)
           t == Tail(s)
<1>1. /\ n \in Nat \ {0} /\ DOMAIN s = 1..n /\ DOMAIN t = 1..(n - 1)
      /\ \A i \in 1..(n - 1) : t[i] = s[i + 1]
      /\ Head(s) = s[1] /\ Head(s) \in S
  BY HeadTailProperties, LenProperties
<1> HIDE DEF n, t
<1>2. ASSUME NEW x \in {t[i] : i \in DOMAIN t} PROVE x \in {s[i] : i \in DOMAIN s} \ {Head(s)}
  <2>1. PICK i \in 1..(n - 1) : x = s[i + 1]
    BY <1>1, <1>2
  <2>2. i + 1 \in 1..n /\ i + 1 # 1 /\ 1 \in 1..n
    BY <1>1
  <2> QED BY <1>1, <2>1, <2>2
<1>3. ASSUME NEW x \in {s[i] : i \in DOMAIN s}, x # Head(s) PROVE x \in {t[i] : i \in DOMAIN t}
  <2>1. PICK i \in 1..n : x = s[i]
    BY <1>1
  <2>2. i - 1 \in 1..(n - 1) /\ (i - 1) + 1 = i
    BY <1>1, <1>3, <2>1
  <2>3. t[i - 1] = x
    BY <1>1, <2>1, <2>2
  <2> QED BY <1>1, <2>2, <2>3
<1>4. ASSUME NEW i \in 1..(n - 1), NEW j \in 1..(n - 1), t[i] = t[j] PROVE i = j
  <2>1. s[i + 1] = s[j + 1] /\ i + 1 \in 1..n /\ j + 1 \in 1..n
    BY <1>1, <1>4
  <2>2. i + 1 = j + 1
    BY <1>1, <2>1
  <2> QED BY <2>2
<1>5. Head(s) \in {s[i] : i \in DOMAIN s} /\ Head(s) \in S
  BY <1>1
<1>6. {t[i] : i \in DOMAIN t} = {s[i] : i \in DOMAIN s} \ {Head(s)}
  BY <1>2, <1>3
<1>7. \A i, j \in DOMAIN t : t[i] = t[j] => i = j
  BY <1>1, <1>4
<1> QED BY <1>5, <1>6, <1>7 DEF t

\* GKI_dequeue.
LEMMA DequeueMoves ==
    ASSUME Types, QueueHonest, Dequeue
    PROVE  Head(rx_queue) \in InQueue /\ InQueue' = InQueue \ {Head(rx_queue)}
<1>1. /\ rx_queue \in Seq(Msgs) /\ rx_queue # <<>> /\ rx_queue' = Tail(rx_queue)
      /\ \A i, j \in DOMAIN rx_queue : rx_queue[i] = rx_queue[j] => i = j
  BY DEF Types, QueueHonest, Dequeue
<1>2. /\ Head(rx_queue) \in {rx_queue[i] : i \in DOMAIN rx_queue}
      /\ {Tail(rx_queue)[i] : i \in DOMAIN Tail(rx_queue)}
             = {rx_queue[i] : i \in DOMAIN rx_queue} \ {Head(rx_queue)}
  <2> HIDE DEF InQueue
  <2> QED BY <1>1, HeadOut
<1> QED BY <1>1, <1>2 DEF InQueue

\* btusb_cq_get.
LEMMA GetMoves ==
    ASSUME Types, Once, voice_rx_list # <<>>, voice_rx_list' = Tail(voice_rx_list)
    PROVE  /\ Head(voice_rx_list) \in FreePkts
           /\ FreePkts' = FreePkts \ {Head(voice_rx_list)}
           /\ \A i, j \in DOMAIN voice_rx_list' : voice_rx_list'[i] = voice_rx_list'[j] => i = j
<1> DEFINE l == voice_rx_list
<1>1. l \in Seq(Pkts) /\ l # <<>> /\ \A i, j \in DOMAIN l : l[i] = l[j] => i = j
  BY DEF Types, Once
<1>2. /\ Head(l) \in {l[i] : i \in DOMAIN l}
      /\ {Tail(l)[i] : i \in DOMAIN Tail(l)} = {l[i] : i \in DOMAIN l} \ {Head(l)}
      /\ \A i, j \in DOMAIN Tail(l) : Tail(l)[i] = Tail(l)[j] => i = j
  <2> HIDE DEF l
  <2> QED BY <1>1, HeadOut
<1> QED BY <1>2 DEF FreePkts

\* The free list has room for a packet that is not in it.
LEMMA ListHasRoom ==
    ASSUME Types, Once, NEW m \in Pkts, m \notin FreePkts
    PROVE  Len(voice_rx_list) < Cardinality(Pkts)
<1> DEFINE n == Len(voice_rx_list)
           Rest == Pkts \ {m}
<1>1. n \in Nat /\ DOMAIN voice_rx_list = 1..n /\ voice_rx_list \in [1..n -> Pkts]
  BY LenProperties DEF Types
<1>2. IsFiniteSet(Pkts)
  <2>1. Pkts \subseteq Msgs
    BY DEF Msgs
  <2> QED BY <2>1, BuffersAssumption, FS_Subset
<1>3. IsFiniteSet(Rest) /\ Cardinality(Rest) = Cardinality(Pkts) - 1 /\ Cardinality(Pkts) \in Nat
  BY <1>2, FS_RemoveElement, FS_CardinalityType
<1> HIDE DEF n
<1>4. IsFiniteSet(1..n) /\ Cardinality(1..n) = n
  <2>1. n \in Int /\ 1 \in Int
    BY <1>1
  <2>2. Cardinality(1..n) = IF 1 > n THEN 0 ELSE n - 1 + 1
    BY <2>1, FS_Interval
  <2>3. IsFiniteSet(1..n)
    BY <2>1, FS_Interval
  <2> QED BY <1>1, <2>2, <2>3
<1>5. voice_rx_list \in [1..n -> Rest]
  <2>1. \A i \in 1..n : voice_rx_list[i] \in Rest
    BY <1>1 DEF FreePkts
  <2> QED BY <1>1, <2>1
<1>6. \A i, j \in 1..n : voice_rx_list[i] = voice_rx_list[j] => i = j
  BY <1>1 DEF Once
<1> HIDE DEF n, Rest
<1>7. voice_rx_list \in Injection(1..n, Rest)
  BY <1>5, <1>6 DEF Injection, IsInjective
<1>8. Cardinality(1..n) <= Cardinality(Rest)
  BY <1>3, <1>4, <1>7, FS_Injection
<1> QED BY <1>1, <1>3, <1>4, <1>8 DEF n

\* btusb_cq_put of a packet that is not in the list.
LEMMA PutMoves ==
    ASSUME Types, Once, NEW m \in Pkts, m \notin FreePkts, CqPut(m)
    PROVE  /\ FreePkts' = FreePkts \cup {m}
           /\ \A i, j \in DOMAIN voice_rx_list' : voice_rx_list'[i] = voice_rx_list'[j] => i = j
<1> DEFINE n == Len(voice_rx_list)
<1>1. voice_rx_list' = Append(voice_rx_list, m) /\ voice_rx_list \in Seq(Pkts)
  BY ListHasRoom DEF CqPut, Types
<1>2. /\ n \in Nat /\ DOMAIN voice_rx_list = 1..n
      /\ voice_rx_list' \in Seq(Pkts) /\ Len(voice_rx_list') = n + 1
      /\ \A i \in 1..n : voice_rx_list'[i] = voice_rx_list[i]
      /\ voice_rx_list'[n + 1] = m
  BY <1>1, LenProperties, AppendProperties
<1>3. DOMAIN voice_rx_list' = 1..(n + 1)
  BY <1>2, LenProperties
<1> HIDE DEF n
<1>4. FreePkts' = FreePkts \cup {m}
  BY <1>2, <1>3 DEF FreePkts
<1>5. \A i, j \in DOMAIN voice_rx_list' : voice_rx_list'[i] = voice_rx_list'[j] => i = j
  BY <1>2, <1>3 DEF Once, FreePkts
<1> QED BY <1>4, <1>5

\* A packet leaves a channel, or enters an idle one.
LEMMA ChannelMoves ==
    ASSUME Types, Once, NEW c \in Chans
    PROVE  /\ p_pkt[c] # None /\ p_pkt' = [p_pkt EXCEPT ![c] = None] =>
                  Assembled' = Assembled \ {p_pkt[c]}
           /\ \A k \in Pkts \ Assembled :
                  p_pkt[c] = None /\ p_pkt' = [p_pkt EXCEPT ![c] = k] =>
                      /\ Assembled' = Assembled \cup {k}
                      /\ \A d, e \in Chans : p_pkt'[d] = p_pkt'[e] /\ p_pkt'[d] # None => d = e
<1>1. p_pkt \in [Chans -> Pkts \cup {None}] /\ None \notin Pkts
  BY BuffersAssumption DEF Types, Msgs
<1>2. \A d, e \in Chans : p_pkt[d] = p_pkt[e] /\ p_pkt[d] # None => d = e
  BY DEF Once
<1>3. ASSUME p_pkt[c] # None, p_pkt' = [p_pkt EXCEPT ![c] = None]
      PROVE  Assembled' = Assembled \ {p_pkt[c]}
  <2>1. \A d \in Chans : p_pkt'[d] = IF d = c THEN None ELSE p_pkt[d]
    BY <1>1, <1>3
  <2> QED BY <1>2, <1>3, <2>1 DEF Assembled
<1>4. ASSUME NEW k \in Pkts \ Assembled, p_pkt[c] = None, p_pkt' = [p_pkt EXCEPT ![c] = k]
      PROVE  /\ Assembled' = Assembled \cup {k}
             /\ \A d, e \in Chans : p_pkt'[d] = p_pkt'[e] /\ p_pkt'[d] # None => d = e
  <2>1. \A d \in Chans : p_pkt'[d] = IF d = c THEN k ELSE p_pkt[d]
    BY <1>1, <1>4
  <2>2. \A d \in Chans : p_pkt[d] # k
    BY <1>1, <1>4 DEF Assembled
  <2> QED BY <1>1, <1>2, <1>4, <2>1, <2>2 DEF Assembled
<1> QED BY <1>3, <1>4

----------------------------------------------------------------------------
(* Steps that move no buffer. *)

Holding == <<submitted, rx_queue, voice_rx_list, p_pkt, p_rx_msg, unsent, pm>>

\* A step of a process that is not at the end of a message and does not reach it.
LEMMA ClearingSame ==
    ASSUME Types, NEW p \in Procs, pc[p] # "clearing", NEW l, l # "clearing", Goto(p, l)
    PROVE  Clearing' <=> Clearing
<1>1. \A q \in Procs : pc'[q] = IF q = p THEN l ELSE pc[q]
  BY DEF Types, Goto
<1> QED BY <1>1 DEF Clearing

\* The sets of owners depend on nothing else.
LEMMA SetsSame ==
    ASSUME UNCHANGED Holding, Clearing' <=> Clearing
    PROVE  /\ submitted' = submitted /\ unsent' = unsent /\ InQueue' = InQueue
           /\ FreePkts' = FreePkts /\ Assembled' = Assembled /\ Picked' = Picked
BY DEF Holding, InQueue, FreePkts, Assembled, Picked, Clearing

\* A step that moves no buffer, does not revive the device and binds it only when
\* every URB has been submitted.
LEMMA Still ==
    ASSUME Owned, UNCHANGED Holding, Clearing' <=> Clearing,
           dpc' \in {"probing", "bound"} => dpc \in {"probing", "bound"},
           dpc' = "bound" => unsent = {},
           freed => freed'
    PROVE  Owned'
<1>1. Exclusive'
  BY SetsSame, Zenon DEF Owned, Exclusive
<1>2. Once' /\ pm' = "active"
  BY DEF Owned, Once, Holding
<1>3. Kept'
  BY SetsSame DEF Owned, Kept
<1> QED BY <1>1, <1>2, <1>3 DEF Owned

----------------------------------------------------------------------------
(* Completions and cancellations: from the controller or a channel to the     *)
(* queue, and from the free list to a channel.                                *)

OthersStill == UNCHANGED <<p_rx_msg, pc, unsent, dpc, freed, pm>>

\* A URB that completes is queued, or lost to a fault.
LEMMA UrbStep ==
    ASSUME Types, QueueHonest, Owned, NEW u \in Urbs, UrbData(u) \/ UrbIdle(u)
    PROVE  Owned'
<1> USE DEF VoiceSame, DeviceSame, voiceVars
<1>1. u \in submitted /\ submitted' = submitted \ {u} /\ u \in Msgs /\ u \notin InQueue
  BY DEF UrbData, UrbIdle, Owned, Exclusive, Msgs
<1>2. /\ FreePkts' = FreePkts /\ Assembled' = Assembled /\ Picked' = Picked /\ Once'
      /\ OthersStill
  <2>1. UNCHANGED <<p_rx_msg, pc, unsent, dpc, freed, pm, voice_rx_list, p_pkt>>
    BY DEF UrbData, UrbIdle
  <2>2. OthersStill
    BY <2>1 DEF OthersStill
  <2>3. FreePkts' = FreePkts /\ Assembled' = Assembled /\ Picked' = Picked
    BY <2>1 DEF FreePkts, Assembled, Picked
  <2>4. Once'
    BY <2>1 DEF Owned, Once
  <2> QED BY <2>2, <2>3, <2>4
<1>3. CASE UrbData(u)
  <2>1. InQueue' = InQueue \cup {u}
    BY <1>1, <1>3, EnqueueMoves DEF UrbData
  <2>2. u \notin Picked /\ u \notin FreePkts /\ u \notin Assembled /\ u \notin unsent
    BY <1>1, Kinds DEF Owned, Exclusive
  <2>3. Exclusive'
    BY <1>1, <1>2, <2>1, <2>2 DEF OthersStill, Owned, Exclusive
  <2>4. Kept'
    BY <1>1, <1>2, <2>1 DEF OthersStill, Owned, Kept
  <2> QED BY <1>2, <2>3, <2>4 DEF OthersStill, Owned
<1>4. CASE UrbIdle(u)
  <2>1. InQueue' = InQueue /\ Faults
    BY <1>4 DEF UrbIdle, InQueue
  <2>2. Exclusive'
    BY <1>1, <1>2, <2>1 DEF OthersStill, Owned, Exclusive
  <2>3. Kept'
    BY <1>1, <1>2, <2>1 DEF OthersStill, Owned, Kept
  <2> QED BY <1>2, <2>2, <2>3 DEF OthersStill, Owned
<1> QED BY <1>3, <1>4

\* A channel takes a free packet.
LEMMA VoiceGetStep ==
    ASSUME Types, Owned, NEW c \in Chans, VoiceRxGet(c)
    PROVE  Owned'
<1> DEFINE k == Head(voice_rx_list)
<1> USE DEF DeviceSame
<1>1. /\ p_pkt[c] = None /\ p_pkt' = [p_pkt EXCEPT ![c] = k]
      /\ voice_rx_list # <<>> /\ voice_rx_list' = Tail(voice_rx_list) /\ Once
  BY DEF VoiceRxGet, Owned
<1>2. /\ k \in FreePkts /\ FreePkts' = FreePkts \ {k}
      /\ \A i, j \in DOMAIN voice_rx_list' : voice_rx_list'[i] = voice_rx_list'[j] => i = j
  BY <1>1, GetMoves
<1>3. k \in Pkts \ Assembled
  BY <1>2, Kinds DEF Owned, Exclusive
<1> HIDE DEF k
<1>4. Assembled' = Assembled \cup {k} /\ Once'
  BY <1>1, <1>2, <1>3, ChannelMoves DEF Once
<1>5. InQueue' = InQueue /\ Picked' = Picked /\ submitted' = submitted /\ OthersStill
  BY DEF VoiceRxGet, InQueue, Picked, OthersStill
<1>6. Exclusive'
  BY <1>2, <1>3, <1>4, <1>5 DEF OthersStill, Owned, Exclusive
<1>7. Kept'
  BY <1>2, <1>4, <1>5 DEF OthersStill, Owned, Kept
<1> QED BY <1>4, <1>5, <1>6, <1>7 DEF OthersStill, Owned

\* A packet under reassembly is queued, complete or cut short.
LEMMA VoicePktStep ==
    ASSUME Types, QueueHonest, Owned, NEW c \in Chans, p_pkt[c] # None,
           Enqueue(p_pkt[c]), p_pkt' = [p_pkt EXCEPT ![c] = None],
           UNCHANGED <<submitted, voice_rx_list>>, OthersStill
    PROVE  Owned'
<1> DEFINE k == p_pkt[c]
<1>1. k \in Assembled /\ k \in Msgs /\ k \in Pkts
  BY Kinds DEF Assembled
<1>2. /\ k \notin InQueue /\ k \notin Picked /\ k \notin FreePkts
      /\ k \notin submitted /\ k \notin unsent
  BY <1>1, Kinds DEF Owned, Exclusive
<1>3. InQueue' = InQueue \cup {k}
  BY <1>1, <1>2, EnqueueMoves
<1>4. Assembled' = Assembled \ {k}
  BY ChannelMoves DEF Owned
<1>5. Once'
  <2>1. \A d \in Chans : p_pkt'[d] = IF d = c THEN None ELSE p_pkt[d]
    BY DEF Types
  <2> QED BY <2>1 DEF Owned, Once
<1>6. Picked' = Picked /\ FreePkts' = FreePkts
  BY DEF OthersStill, Picked, FreePkts
<1> HIDE DEF k
<1>7. Exclusive'
  BY <1>1, <1>2, <1>3, <1>4, <1>6 DEF OthersStill, Owned, Exclusive
<1>8. Kept'
  BY <1>1, <1>3, <1>4, <1>6 DEF OthersStill, Owned, Kept
<1> QED BY <1>5, <1>7, <1>8 DEF OthersStill, Owned

----------------------------------------------------------------------------
(* The reader: from the queue to the reader, and back to where it came from. *)

\* The reader, or an open that drains, gives a buffer back that nobody has now.
LEMMA GiveBack ==
    ASSUME Types, Owned, NEW m \in Msgs, RxDequeued(m),
           m \in InQueue \/ m \in Picked,
           InQueue' = InQueue \ {m}, Picked' = Picked \ {m},
           UNCHANGED <<p_pkt, unsent, dpc, freed, pm>>
    PROVE  Owned'
<1>1. Assembled' = Assembled /\ m \notin Assembled
  BY DEF Assembled, Owned, Exclusive
<1>2. m \notin FreePkts /\ m \notin submitted /\ m \notin unsent
  BY DEF Owned, Exclusive
<1>3. CASE m \in Urbs
  <2>1. Submit(m) /\ voice_rx_list' = voice_rx_list /\ m \notin Pkts
    BY <1>3, Kinds DEF RxDequeued
  <2>2. FreePkts' = FreePkts /\ Once'
    BY <2>1 DEF FreePkts, Owned, Once
  <2>3. submitted' \in {submitted, submitted \cup {m}}
    BY <2>1 DEF Submit
  <2>4. m \notin FreePkts' /\ m \notin InQueue' /\ m \notin Picked'
    BY <1>2, <2>2
  <2>5. Exclusive'
    BY <1>1, <1>2, <2>2, <2>3, <2>4 DEF Owned, Exclusive
  <2>6. ~Faults /\ dpc \in {"probing", "bound"} => submitted' = submitted \cup {m}
    BY <1>2, <2>1 DEF Submit, CanSubmit, Enabled, Owned
  <2>7. Kept'
    BY <1>1, <2>1, <2>2, <2>6 DEF Owned, Kept
  <2> QED BY <2>2, <2>5, <2>7 DEF Owned
<1>4. CASE m \in Pkts
  <2>1. CqPut(m) /\ submitted' = submitted /\ m \notin Urbs
    BY <1>4, Kinds DEF RxDequeued
  <2>2. FreePkts' = FreePkts \cup {m} /\ Once'
    BY <1>2, <1>4, <2>1, PutMoves DEF Owned, Once
  <2>3. Exclusive'
    BY <1>1, <1>2, <2>1, <2>2 DEF Owned, Exclusive
  <2>4. Kept'
    BY <1>1, <2>1, <2>2 DEF Owned, Kept
  <2> QED BY <2>2, <2>3, <2>4 DEF Owned
<1> QED BY <1>3, <1>4, Kinds

\* The reader picks the oldest message, unless it has one.
LEMMA PickStep ==
    ASSUME Types, QueueHonest, Owned, GetRxPacket, ~Clearing, ~Clearing',
           UNCHANGED <<submitted, voice_rx_list, p_pkt, unsent, dpc, freed, pm>>
    PROVE  Owned'
<1>1. CASE p_rx_msg # None
  BY <1>1, Still DEF GetRxPacket, Holding, Owned, Kept
<1>2. CASE p_rx_msg = None
  <2> DEFINE h == Head(rx_queue)
  <2>1. Dequeue /\ p_rx_msg' = h
    BY <1>2 DEF GetRxPacket
  <2>2. h \in InQueue /\ InQueue' = InQueue \ {h} /\ h # None
    BY <2>1, DequeueMoves, Kinds
  <2> HIDE DEF h
  <2>3. Picked = {} /\ Picked' = {h}
    BY <1>2, <2>1, <2>2 DEF Picked, Clearing
  <2>4. FreePkts' = FreePkts /\ Assembled' = Assembled /\ Once'
    BY DEF FreePkts, Assembled, Owned, Once
  <2>5. Exclusive'
    BY <2>2, <2>3, <2>4 DEF Owned, Exclusive
  <2>6. Kept'
    BY <2>2, <2>3, <2>4 DEF Owned, Kept
  <2> QED BY <2>4, <2>5, <2>6 DEF Owned
<1> QED BY <1>1, <1>2

\* btusb_open drains the queue.
LEMMA DrainStep ==
    ASSUME Types, QueueHonest, Owned, NEW p \in Procs, OpenDrain(p)
    PROVE  Owned'
<1> DEFINE h == Head(rx_queue)
<1> USE DEF DeviceSame
<1>1. Dequeue /\ RxDequeued(h)
  BY DEF OpenDrain
<1>2. h \in InQueue /\ InQueue' = InQueue \ {h} /\ h \in Msgs
  BY <1>1, DequeueMoves, Kinds
<1>3. UNCHANGED <<p_pkt, unsent, dpc, freed, pm>>
  BY DEF OpenDrain
<1>4. Picked' = Picked /\ h \notin Picked
  BY <1>2 DEF OpenDrain, Picked, Owned, Exclusive
<1> HIDE DEF h
<1> QED BY <1>1, <1>2, <1>3, <1>4, GiveBack

\* A process at the end of a message is the only one.
LEMMA AloneAtEnd ==
    ASSUME OneApplication, NEW p \in Procs, pc[p] # "closed", pc[p] # "clearing"
    PROVE  ~Clearing
BY DEF OneApplication, Clearing

\* btusb_read copies a part of the message, or its end.
LEMMA CopyStep ==
    ASSUME Types, OneApplication, QueueHonest, Owned, NEW p \in Procs, ReadCopy(p)
    PROVE  Owned'
<1> USE DEF DeviceSame
<1>1. /\ pc[p] = "reading" /\ p_rx_msg \in Msgs /\ ~Clearing
      /\ UNCHANGED <<p_rx_msg, rx_queue, p_pkt, unsent, dpc, freed, pm>>
  BY AloneAtEnd DEF ReadCopy, Types
<1>2. \/ Goto(p, "idle") /\ UNCHANGED <<submitted, voice_rx_list>>
      \/ Goto(p, "clearing") /\ RxDequeued(p_rx_msg)
  BY DEF ReadCopy
<1>3. CASE Goto(p, "idle") /\ UNCHANGED <<submitted, voice_rx_list>>
  <2>1. Clearing' <=> Clearing
    BY <1>1, <1>3, ClearingSame
  <2> QED BY <1>1, <1>3, <2>1, Still DEF Holding, Owned, Kept
<1>4. CASE Goto(p, "clearing") /\ RxDequeued(p_rx_msg)
  <2>1. Clearing'
    BY <1>4 DEF Clearing, Goto, Types
  <2>2. Picked = {p_rx_msg} /\ Picked' = {}
    BY <1>1, <2>1, Kinds DEF Picked, Clearing
  <2>3. InQueue' = InQueue /\ p_rx_msg \notin InQueue
    BY <1>1, <2>2 DEF InQueue, Owned, Exclusive
  <2> QED BY <1>1, <1>4, <2>2, <2>3, GiveBack
<1> QED BY <1>2, <1>3, <1>4

\* btusb_read forgets the message it has given back.
LEMMA ClearStep ==
    ASSUME Types, OneApplication, Owned, NEW p \in Procs, ReadClear(p)
    PROVE  Owned'
<1> USE DEF DeviceSame, VoiceSame, voiceVars
<1>1. Picked = {} /\ Picked' = {}
  BY DEF ReadClear, Picked
<1>2. /\ UNCHANGED <<submitted, unsent, dpc, freed, pm>>
      /\ InQueue' = InQueue /\ FreePkts' = FreePkts /\ Assembled' = Assembled /\ Once'
  BY DEF ReadClear, InQueue, FreePkts, Assembled, Owned, Once
<1>3. Exclusive'
  BY <1>1, <1>2 DEF Owned, Exclusive
<1>4. Kept'
  BY <1>1, <1>2 DEF Owned, Kept
<1> QED BY <1>2, <1>3, <1>4 DEF Owned

----------------------------------------------------------------------------
(* The device *)

\* The controller loses URBs, or all of them, once probe or disconnect ends the device.
LEMMA LoseUrbs ==
    ASSUME Owned, submitted' \subseteq submitted, dpc' \notin {"probing", "bound"},
           UNCHANGED <<rx_queue, voice_rx_list, p_pkt, p_rx_msg, pc, unsent, pm>>,
           freed => freed'
    PROVE  Owned'
<1>1. /\ InQueue' = InQueue /\ FreePkts' = FreePkts /\ Assembled' = Assembled
      /\ Picked' = Picked /\ Once'
  BY DEF InQueue, FreePkts, Assembled, Picked, Owned, Once
<1>2. Exclusive'
  BY <1>1 DEF Owned, Exclusive
<1>3. Kept'
  BY <1>1 DEF Owned, Kept
<1> QED BY <1>1, <1>2, <1>3 DEF Owned

\* btusb_probe submits a URB.
LEMMA ProbeSubmitStep ==
    ASSUME Types, Owned, NEW u \in Urbs, ProbeSubmit(u)
    PROVE  Owned'
<1>1. CASE submitted' = submitted \cup {u} /\ unsent' = unsent \ {u} /\ u \in unsent
           /\ UNCHANGED dpc
  <2>1. /\ InQueue' = InQueue /\ FreePkts' = FreePkts /\ Assembled' = Assembled
        /\ Picked' = Picked /\ Once' /\ UNCHANGED <<freed, pm>> /\ dpc = "probing"
    BY DEF ProbeSubmit, InQueue, FreePkts, Assembled, Picked, Owned, Once
  <2>2. Exclusive'
    BY <1>1, <2>1 DEF Owned, Exclusive
  <2>3. Kept'
    BY <1>1, <2>1 DEF Owned, Kept
  <2> QED BY <2>1, <2>2, <2>3 DEF Owned
<1>2. CASE dpc' = "aborting" /\ submitted' = {} /\ UNCHANGED unsent
  BY <1>2, LoseUrbs DEF ProbeSubmit
<1> QED BY <1>1, <1>2 DEF ProbeSubmit

\* A reference is dropped; the last one empties the queue and frees the device.
LEMMA PutStep ==
    ASSUME Owned, KrefPut, kref = 1 => dpc' \notin {"probing", "bound"},
           dpc' \in {"probing", "bound"} => dpc' = dpc,
           UNCHANGED <<submitted, voice_rx_list, p_pkt, p_rx_msg, unsent, pm>>,
           Clearing' <=> Clearing
    PROVE  Owned'
<1>1. /\ FreePkts' = FreePkts /\ Assembled' = Assembled /\ Picked' = Picked /\ Once'
      /\ InQueue' \in {{}, InQueue} /\ (InQueue' = InQueue \/ kref = 1)
  BY DEF KrefPut, InQueue, FreePkts, Assembled, Picked, Clearing, Owned, Once
<1>2. Exclusive'
  BY <1>1 DEF Owned, Exclusive
<1>3. Kept'
  <2>1. CASE kref = 1
    <3>1. freed'
      BY <2>1 DEF KrefPut
    <3> QED BY <2>1, <3>1 DEF Kept
  <2>2. CASE kref # 1
    BY <1>1, <2>2 DEF KrefPut, Kept, Owned
  <2> QED BY <2>1, <2>2
<1> QED BY <1>1, <1>2, <1>3 DEF Owned

----------------------------------------------------------------------------
(* Every step *)

LEMMA OwnedInit == Init => Owned
<1> SUFFICES ASSUME Init PROVE Owned
  OBVIOUS
<1>1. rx_queue = <<>> /\ p_rx_msg = None /\ submitted = {} /\ unsent = Urbs /\ dpc = "probing"
  BY DEF Init, Create
<1>2. InQueue = {} /\ Picked = {}
  BY <1>1 DEF InQueue, Picked
<1>3. Assembled = {}
  BY DEF Init, Create, Assembled
<1>4. Once
  BY DEF Init, Create, Once
<1>5. Pkts \subseteq FreePkts
  <2> DEFINE n == Cardinality(Pkts)
  <2>1. IsFiniteSet(Pkts) /\ n \in Nat
    <3>1. Pkts \subseteq Msgs
      BY DEF Msgs
    <3> QED BY <3>1, BuffersAssumption, FS_Subset, FS_CardinalityType
  <2>2. voice_rx_list \in [1..n -> Pkts] /\ \A i, j \in 1..n : voice_rx_list[i] = voice_rx_list[j] => i = j
    BY DEF Init, Create
  <2>3. IsFiniteSet(1..n) /\ Cardinality(1..n) = n
    BY <2>1, FS_Interval
  <2>4. Cardinality(Pkts) = n
    OBVIOUS
  <2> HIDE DEF n
  <2>5. voice_rx_list \in Injection(1..n, Pkts)
    BY <2>2 DEF Injection, IsInjective
  <2>6. voice_rx_list \in Surjection(1..n, Pkts)
    BY <2>1, <2>3, <2>4, <2>5, FS_Injection
  <2>7. \A m \in Pkts : \E i \in 1..n : voice_rx_list[i] = m
    BY <2>6 DEF Surjection
  <2> QED BY <2>2, <2>7 DEF FreePkts
<1> QED BY <1>1, <1>2, <1>3, <1>4, <1>5 DEF Owned, Exclusive, Kept, Init

\* Steps of the processes.
LEMMA OwnedProc ==
    ASSUME Types, OneApplication, KrefExact, QueueHonest, Owned, NEW p \in Procs, Proc(p)
    PROVE  Owned'
<1> USE DEF DeviceSame, VoiceSame, voiceVars, dataVars, Holding
<1>1. ASSUME pc[p] # "clearing", NEW l, l # "clearing", Goto(p, l), UNCHANGED Holding,
             UNCHANGED <<dpc, freed>>
      PROVE  Owned'
  <2>1. Clearing' <=> Clearing
    BY <1>1, ClearingSame
  <2> QED BY <1>1, <2>1, Still DEF Owned, Kept
<1>2. ASSUME pc[p] \notin {"closed", "clearing"}, NEW l, l # "clearing", Goto(p, l), GetRxPacket,
             UNCHANGED <<submitted, voice_rx_list, p_pkt, unsent, dpc, freed, pm>>
      PROVE  Owned'
  <2>1. ~Clearing /\ ~Clearing'
    BY <1>2, AloneAtEnd, ClearingSame
  <2> QED BY <1>2, <2>1, PickStep
<1>3. CASE OpenCheck(p) \/ OpenSet(p) \/ OpenDone(p)
  BY <1>1, <1>3 DEF OpenCheck, OpenSet, OpenDone
<1>4. CASE OpenDrain(p)
  BY <1>4, DrainStep
<1>5. CASE PollEnter(p) \/ PollRegister(p) \/ PollWake(p) \/ WaitInterrupted(p)
  BY <1>1, <1>5 DEF PollEnter, PollRegister, PollWake, WaitInterrupted
<1>6. CASE PollTest(p)
  BY <1>1, <1>2, <1>6 DEF PollTest
<1>7. CASE ReadWait(p)
  BY <1>1, <1>2, <1>7 DEF ReadWait
<1>8. CASE ReadCopy(p)
  BY <1>8, CopyStep
<1>9. CASE ReadFault(p)
  BY <1>1, <1>9 DEF ReadFault
<1>10. CASE ReadClear(p)
  BY <1>10, ClearStep
<1>11. CASE VoiceIoctl(p) \/ VoiceIoctlEnd(p)
  BY <1>1, <1>11 DEF VoiceIoctl, VoiceIoctlEnd
<1>12. CASE Release(p) \/ ReleaseChan(p) \/ ReleaseFlag(p)
  BY <1>1, <1>12 DEF Release, ReleaseChan, ReleaseFlag
<1>13. CASE ReleasePut(p)
  <2>1. Cardinality(Holders) \in Nat /\ Cardinality(Holders) > 0
    BY <1>13, HoldersFinite DEF ReleasePut, Holds
  <2>2. kref = 1 => Unbound
    BY <2>1 DEF KrefExact, Holders
  <2>3. Clearing' <=> Clearing
    BY <1>13, ClearingSame DEF ReleasePut
  <2> QED BY <1>13, <2>2, <2>3, PutStep DEF ReleasePut, Unbound
<1> QED BY <1>3, <1>4, <1>5, <1>6, <1>7, <1>8, <1>9, <1>10, <1>11, <1>12, <1>13 DEF Proc

\* Every step of a device that is not suspended keeps the owners.
LEMMA OwnedNext ==
    ASSUME ~Pm, IInv, Owned, [Next]_vars
    PROVE  Owned'
<1> USE DEF IInv, Base, DeviceSame, VoiceSame, voiceVars, dataVars, devVars, Holding
<1>1. ASSUME UNCHANGED Holding, UNCHANGED <<pc, freed>>,
             dpc' = dpc \/ dpc' \notin {"probing", "bound"}
      PROVE  Owned'
  BY <1>1, Still DEF Owned, Kept, Clearing
<1>2. ASSUME NEW a \in Actors, NEW c \in Chans, CancelTurn(a, c) PROVE Owned'
  <2>1. CASE p_pkt[c] # None
    BY <1>2, <2>1, VoicePktStep DEF CancelTurn, OthersStill
  <2>2. CASE p_pkt[c] = None
    BY <1>1, <1>2, <2>2 DEF CancelTurn
  <2> QED BY <2>1, <2>2
<1>3. CASE Usb
  <2>1. ASSUME NEW c \in Chans, VoiceRxFull(c) PROVE Owned'
    BY <2>1, VoicePktStep DEF VoiceRxFull, OthersStill
  <2>2. CASE VoiceDies
    BY <1>1, <2>2 DEF VoiceDies
  <2> QED BY <1>3, <2>1, <2>2, UrbStep, VoiceGetStep DEF Usb
<1>4. CASE Power
  BY <1>4 DEF Power, PmDrain, Sleep, ResumeStart, ResumeEnd, Suspend, Resume, PmEnabled
<1>5. CASE \E u \in Urbs : ProbeSubmit(u)
  BY <1>5, ProbeSubmitStep
<1>6. CASE ProbeEnd
  BY <1>6, Still DEF ProbeEnd, Clearing
<1>7. CASE DiscWake \/ DiscDown \/ DiscDeregister
  BY <1>1, <1>7 DEF DiscWake, DiscDown, DiscDeregister
<1>8. CASE ProbeDeregister \/ DiscCancel
  BY <1>8, LoseUrbs DEF ProbeDeregister, DiscCancel
<1>9. CASE ProbePut \/ DiscPut
  BY <1>9, PutStep DEF ProbePut, DiscPut, Clearing
<1>10. CASE UNCHANGED vars
  BY <1>1, <1>10 DEF vars
<1> QED BY <1>2, <1>3, <1>4, <1>5, <1>6, <1>7, <1>8, <1>9, <1>10, OwnedProc
        DEF Next, Probe, Disconnect

----------------------------------------------------------------------------
(* What the runs check, for every value of the constants. *)

\* The owners are exact in every reachable state.
THEOREM Ownership == ASSUME SerialOpen, ~Pm PROVE Spec => []Owned
<1>1. Spec => []IInv
  BY Invariance
<1>2. IInv /\ Owned /\ [Next]_vars => Owned'
  BY OwnedNext
<1> QED BY <1>1, <1>2, OwnedInit, PTL DEF Spec

\* A receive buffer is with the controller, in rx_queue or with the reader, never in
\* two of these places: btusb_rx_dequeued submits a URB only when nobody reads it.
THEOREM OneOwner == ASSUME SerialOpen, ~Pm PROVE Spec => []UrbOneOwner
<1>1. Owned => UrbOneOwner
  BY DEF Owned, Exclusive, UrbOneOwner
<1> QED BY <1>1, Ownership, PTL

\* No receive buffer leaks while the device is bound and USB does not fail.
THEOREM UrbsKept == ASSUME SerialOpen, ~Pm, ~Faults PROVE Spec => []UrbConserved
<1>1. Owned => UrbConserved
  BY DEF Owned, Kept, UrbConserved
<1> QED BY <1>1, Ownership, PTL

\* No voice packet leaks or is in two places, whatever disconnect, release, the
\* ioctls and the reader do; so btusb_cq_put always has room.
THEOREM PktsKept == ASSUME SerialOpen, ~Pm PROVE Spec => []PktConserved
<1>1. ASSUME IInv, Owned PROVE PktConserved
  <2> SUFFICES ASSUME ~freed
               PROVE  /\ Pkts \subseteq FreePkts \cup Assembled \cup (InQueue \cap Pkts)
                                             \cup (Picked \cap Pkts)
                      /\ Once
                      /\ FreePkts \cap (Assembled \cup (InQueue \cap Pkts) \cup (Picked \cap Pkts)) = {}
                      /\ Assembled \cap ((InQueue \cap Pkts) \cup (Picked \cap Pkts)) = {}
    BY DEF PktConserved, Once, Assembled
  <2> QED BY <1>1 DEF Owned, Exclusive, Kept
<1> QED BY <1>1, Ownership, Invariance, PTL

----------------------------------------------------------------------------
(* The receive path implements RxChannel. *)

\* The message the reader holds, and the steps of the channel, over the code's state.
Held       == IF Clearing THEN None ELSE p_rx_msg
Receives   == \E m \in Msgs : /\ m \notin InQueue \cup {Held} /\ Held' = Held
                              /\ rx_queue' = Append(rx_queue, m)
Takes      == Held = None /\ rx_queue # <<>> /\ Held' = Head(rx_queue) /\ rx_queue' = Tail(rx_queue)
Returns    == Held # None /\ Held' = None /\ rx_queue' = rx_queue
Discards   == rx_queue # <<>> /\ rx_queue' = Tail(rx_queue) /\ Held' = Held
Deletes    == rx_queue' = <<>> /\ Held' = Held
Stutters   == rx_queue' = rx_queue /\ Held' = Held
ChannelStep == Receives \/ Takes \/ Returns \/ Discards \/ Deletes \/ Stutters

\* A message of the controller or of a channel arrives.
LEMMA ReceiveMaps ==
    ASSUME Types, QueueHonest, Owned, NEW m \in Msgs, Enqueue(m), UNCHANGED <<p_rx_msg, pc>>,
           m \in submitted \/ m \in Assembled
    PROVE  ChannelStep
<1>1. m \notin InQueue /\ m \notin Picked /\ m # None
  BY Kinds DEF Owned, Exclusive
<1>2. m # Held /\ Held' = Held
  BY <1>1 DEF Held, Picked, Clearing
<1>3. rx_queue' = Append(rx_queue, m)
  BY <1>1, EnqueueMoves
<1> QED BY <1>1, <1>2, <1>3 DEF ChannelStep, Receives

\* A process at work on no message, or on one it keeps, takes the next one or none.
LEMMA PickMaps ==
    ASSUME ~Clearing, ~Clearing', GetRxPacket
    PROVE  ChannelStep
BY DEF GetRxPacket, Dequeue, Held, ChannelStep, Takes, Stutters

\* Steps of the processes.
LEMMA ProcMaps ==
    ASSUME Types, OneApplication, NEW p \in Procs, Proc(p)
    PROVE  ChannelStep
<1> USE DEF DeviceSame, VoiceSame, voiceVars, dataVars
<1>1. ASSUME pc[p] # "clearing", NEW l, l # "clearing", Goto(p, l), UNCHANGED <<rx_queue, p_rx_msg>>
      PROVE  ChannelStep
  <2>1. Clearing' <=> Clearing
    BY <1>1, ClearingSame
  <2> QED BY <1>1, <2>1 DEF ChannelStep, Stutters, Held
<1>2. ASSUME pc[p] \notin {"closed", "clearing"}, NEW l, l # "clearing", Goto(p, l), GetRxPacket
      PROVE  ChannelStep
  <2>1. ~Clearing /\ ~Clearing'
    BY <1>2, AloneAtEnd, ClearingSame
  <2> QED BY <1>2, <2>1, PickMaps
<1>3. CASE OpenCheck(p) \/ OpenSet(p) \/ OpenDone(p)
  BY <1>1, <1>3 DEF OpenCheck, OpenSet, OpenDone
<1>4. CASE OpenDrain(p)
  BY <1>4 DEF OpenDrain, Dequeue, Held, Clearing, ChannelStep, Discards
<1>5. CASE PollEnter(p) \/ PollRegister(p) \/ PollWake(p) \/ WaitInterrupted(p)
  BY <1>1, <1>5 DEF PollEnter, PollRegister, PollWake, WaitInterrupted
<1>6. CASE PollTest(p) \/ ReadWait(p)
  BY <1>1, <1>2, <1>6 DEF PollTest, ReadWait
<1>7. CASE ReadCopy(p)
  <2>1. /\ pc[p] = "reading" /\ p_rx_msg # None /\ ~Clearing
        /\ UNCHANGED <<p_rx_msg, rx_queue>>
        /\ Goto(p, "idle") \/ Goto(p, "clearing")
    BY <1>7, AloneAtEnd DEF ReadCopy, Types
  <2>2. CASE Goto(p, "clearing")
    <3>1. Clearing'
      BY <2>2 DEF Clearing, Goto, Types
    <3> QED BY <2>1, <3>1 DEF ChannelStep, Returns, Held
  <2> QED BY <1>1, <2>1, <2>2
<1>8. CASE ReadFault(p)
  BY <1>1, <1>8 DEF ReadFault
<1>9. CASE ReadClear(p)
  <2>1. Clearing /\ p_rx_msg' = None /\ rx_queue' = rx_queue
    BY <1>9 DEF ReadClear, Clearing
  <2> QED BY <2>1 DEF ChannelStep, Stutters, Held
<1>10. CASE VoiceIoctl(p) \/ VoiceIoctlEnd(p)
  BY <1>1, <1>10 DEF VoiceIoctl, VoiceIoctlEnd
<1>11. CASE Release(p) \/ ReleaseChan(p) \/ ReleaseFlag(p)
  BY <1>1, <1>11 DEF Release, ReleaseChan, ReleaseFlag
<1>12. CASE ReleasePut(p)
  <2>1. (Clearing' <=> Clearing) /\ p_rx_msg' = p_rx_msg
    BY <1>12, ClearingSame DEF ReleasePut
  <2> QED BY <1>12, <2>1 DEF ReleasePut, KrefPut, Held, ChannelStep, Deletes, Stutters
<1> QED BY <1>3, <1>4, <1>5, <1>6, <1>7, <1>8, <1>9, <1>10, <1>11, <1>12 DEF Proc

\* Every step of a device that is not suspended is one of the channel, or none.
LEMMA StepMaps ==
    ASSUME ~Pm, IInv, Owned, [Next]_vars
    PROVE  ChannelStep
<1> USE DEF IInv, Base, DeviceSame, VoiceSame, voiceVars, dataVars, devVars
<1>1. ASSUME UNCHANGED <<rx_queue, p_rx_msg, pc>> PROVE ChannelStep
  BY <1>1 DEF ChannelStep, Stutters, Held, Clearing
<1>2. ASSUME NEW c \in Chans, p_pkt[c] # None PROVE p_pkt[c] \in Assembled /\ p_pkt[c] \in Msgs
  BY <1>2, Kinds DEF Assembled
<1>3. ASSUME NEW a \in Actors, NEW c \in Chans, CancelTurn(a, c) PROVE ChannelStep
  <2>1. CASE p_pkt[c] # None
    BY <1>2, <1>3, <2>1, ReceiveMaps DEF CancelTurn
  <2>2. CASE p_pkt[c] = None
    BY <1>1, <1>3, <2>2 DEF CancelTurn
  <2> QED BY <2>1, <2>2
<1>4. CASE Usb
  <2>1. ASSUME NEW u \in Urbs, UrbData(u) PROVE ChannelStep
    BY <2>1, ReceiveMaps DEF UrbData, Msgs
  <2>2. ASSUME NEW u \in Urbs, UrbIdle(u) PROVE ChannelStep
    BY <1>1, <2>2 DEF UrbIdle
  <2>3. ASSUME NEW c \in Chans, VoiceRxGet(c) PROVE ChannelStep
    BY <1>1, <2>3 DEF VoiceRxGet
  <2>4. ASSUME NEW c \in Chans, VoiceRxFull(c) PROVE ChannelStep
    BY <1>2, <2>4, ReceiveMaps DEF VoiceRxFull
  <2>5. CASE VoiceDies
    BY <1>1, <2>5 DEF VoiceDies
  <2> QED BY <1>4, <2>1, <2>2, <2>3, <2>4, <2>5 DEF Usb
<1>5. CASE Power
  BY <1>5 DEF Power, PmDrain, Sleep, ResumeStart, ResumeEnd, Suspend, Resume, PmEnabled
<1>6. CASE (\E u \in Urbs : ProbeSubmit(u)) \/ ProbeEnd \/ ProbeDeregister
  BY <1>1, <1>6 DEF ProbeSubmit, ProbeEnd, ProbeDeregister
<1>7. CASE DiscWake \/ DiscDown \/ DiscCancel \/ DiscDeregister
  BY <1>1, <1>7 DEF DiscWake, DiscDown, DiscCancel, DiscDeregister
<1>8. CASE ProbePut \/ DiscPut
  <2>1. Held' = Held
    BY <1>8 DEF ProbePut, DiscPut, Held, Clearing
  <2> QED BY <1>8, <2>1 DEF ProbePut, DiscPut, KrefPut, ChannelStep, Deletes, Stutters
<1>9. CASE UNCHANGED vars
  BY <1>1, <1>9 DEF vars
<1> QED BY <1>3, <1>4, <1>5, <1>6, <1>7, <1>8, <1>9, ProcMaps DEF Next, Probe, Disconnect

\* The receive path is the channel it promises: first in first out, nothing twice,
\* nothing dropped but by an open and by the deletion of the device.
THEOREM ImplementsRxChannel == ASSUME SerialOpen, ~Pm PROVE Spec => ImplementsChannel
<1>1. Init => Channel!Init
  <2>1. Init => rx_queue = <<>> /\ p_rx_msg = None
    BY DEF Init, Create
  <2> QED BY <2>1 DEF Channel!Init
<1>2. ChannelStep => [Channel!Next]_<<rx_queue, Held>>
  BY DEF ChannelStep, Receives, Takes, Returns, Discards, Deletes, Stutters, Held, Clearing,
         InQueue, Channel!Next, Channel!Receive, Channel!Take, Channel!Return,
         Channel!Discard, Channel!Delete, Channel!InChannel
<1>3. IInv /\ Owned /\ [Next]_vars => [Channel!Next]_<<rx_queue, Held>>
  BY <1>2, StepMaps
<1>4. Spec => []IInv /\ []Owned
  BY Invariance, Ownership, PTL
<1> QED BY <1>1, <1>3, <1>4, PTL DEF Spec, ImplementsChannel, Channel!Spec, Held, Clearing
=============================================================================
