------------------------ MODULE BtusbVoiceTx_proofs ------------------------
(* The types of the voice pipe, its transactions, the count of frames in    *)
(* flight and the bytes sent, for every number of transactions, every size  *)
(* of burst, frame and packet, and every interleaving.                      *)
EXTENDS BtusbVoiceTx, FiniteSetTheorems, SequenceTheorems, TLAPS

TransType == in_use \subseteq Trans /\ submitted \subseteq Trans /\ done \subseteq Trans

\* The transaction being filled is not in flight: without it, releasing it when its
\* submission fails could release one in flight.
FillingIsFree == pc \in {"fill", "submit"} => t \in Trans /\ t \notin submitted

IInv == TransType /\ TransHonest /\ FillingIsFree

LEMMA InitIInv == Init => IInv
  BY DEF Init, IInv, TransType, TransHonest, FillingIsFree

\* A step of the writer in the call.
LEMMA WriterIInv == IInv /\ Writer => IInv'
<1> SUFFICES ASSUME IInv, Writer PROVE IInv'
  OBVIOUS
<1> USE DEF IInv, TransType, TransHonest, FillingIsFree, urbVars, cutVars, otherVars
<1>1. CASE Alloc
  BY <1>1 DEF Alloc
<1>2. CASE NoneFree
  BY <1>2 DEF NoneFree
<1>3. CASE NextBurst
  BY <1>3 DEF NextBurst, StartBurst
<1>4. CASE FillFrame
  BY <1>4 DEF FillFrame
<1>5. CASE Filled
  BY <1>5 DEF Filled
<1>6. CASE Submitted
  BY <1>6 DEF Submitted
<1>7. CASE Refused
  BY <1>7 DEF Refused
<1>8. CASE Count
  BY <1>8 DEF Count
<1>9. CASE Resend
  BY <1>9 DEF Resend
<1>10. CASE Return
  BY <1>10 DEF Return
<1> QED
  BY <1>1, <1>2, <1>3, <1>4, <1>5, <1>6, <1>7, <1>8, <1>9, <1>10 DEF Writer

\* A completion, on this processor or on another.
LEMMA CompleteIInv ==
    ASSUME NEW x \in Trans, IInv, Complete(x) \/ CompleteRelease(x) \/ CompleteCount(x)
    PROVE  IInv'
<1> USE DEF IInv, TransType, TransHonest, FillingIsFree, urbVars, cutVars, otherVars, writerVars
<1>1. CASE Complete(x)
  BY <1>1 DEF Complete
<1>2. CASE CompleteRelease(x)
  BY <1>2 DEF CompleteRelease
<1>3. CASE CompleteCount(x)
  BY <1>3 DEF CompleteCount
<1> QED
  BY <1>1, <1>2, <1>3

LEMMA NextIInv == IInv /\ [Next]_vars => IInv'
<1> SUFFICES ASSUME IInv, [Next]_vars PROVE IInv'
  OBVIOUS
<1> USE DEF IInv, TransType, TransHonest, FillingIsFree
<1>1. CASE \E l \in DataLens : Call(l)
  BY <1>1 DEF Call, urbVars, otherVars
<1>2. CASE Writer
  BY <1>2, WriterIInv
<1>3. CASE \E x \in Trans : Complete(x) \/ CompleteRelease(x) \/ CompleteCount(x)
  BY <1>3, CompleteIInv
<1>4. CASE CancelStart \/ CancelKilled \/ CancelReset
  BY <1>4 DEF CancelStart, CancelKilled, CancelReset, urbVars, writerVars, cutVars
<1>5. CASE UNCHANGED vars
  BY <1>5 DEF vars
<1> QED
  BY <1>1, <1>2, <1>3, <1>4, <1>5 DEF Next

THEOREM Invariance == Spec => []IInv
  BY InitIInv, NextIInv, PTL DEF Spec

\* A transaction is marked used exactly when its URB is in flight or the writer is
\* filling it, whatever fails and whenever the URBs complete or are cancelled.
THEOREM TransAccounted == Spec => []TransHonest
<1>1. IInv => TransHonest
  BY DEF IInv
<1> QED
  BY <1>1, Invariance, PTL

----------------------------------------------------------------------------
(* Types *)

Bytes == {"d", "h"} \X Int

\* The cursor stays behind the first header, so that StartBurst finds room before it.
CutInv ==
    /\ packet \in Seq(Bytes)
    /\ pc # "idle" => Len(packet) >= Header /\ p_cur + to_send > Header
    /\ p_cur \in Nat /\ remain \in Nat /\ to_send \in Nat

SlotInv ==
    /\ npkts \in [Trans -> 0..Frames] /\ i \in 0..Frames
    /\ voice_tx_active \in Int /\ p_voice_out \in BOOLEAN
    /\ pc \in {"idle", "loop", "fill", "submit", "count"} /\ t \in Trans \cup {NoTrans}
    /\ cpc \in {"idle", "killing", "killed"} /\ completed \in 0..InCall
    /\ lost \in BOOLEAN

LEMMA InitTypes == Init => CutInv /\ SlotInv
<1> SUFFICES ASSUME Init PROVE CutInv /\ SlotInv
  OBVIOUS
<1>1. CutInv
  BY DEF Init, CutInv
<1>2. npkts \in [Trans -> 0..Frames] /\ i \in 0..Frames /\ completed \in 0..InCall
  BY VoiceTxAssumption DEF Init
<1>3. p_voice_out \in BOOLEAN /\ lost \in BOOLEAN
  BY Zenon DEF Init
<1>4. /\ voice_tx_active \in Int /\ pc \in {"idle", "loop", "fill", "submit", "count"}
      /\ t \in Trans \cup {NoTrans} /\ cpc \in {"idle", "killing", "killed"}
  BY DEF Init
<1>5. SlotInv
  BY <1>2, <1>3, <1>4 DEF SlotInv
<1> QED
  BY <1>1, <1>5

LEMMA PartsOf ==
    ASSUME NEW l \in Nat
    PROVE  /\ HeaderOf(l) \in Seq(Bytes) /\ Len(HeaderOf(l)) = Header
           /\ Data(1, l) \in Seq(Bytes) /\ Len(Data(1, l)) = l
<1>1. \A k \in 1..Header : <<"h", l>> \in Bytes
  BY DEF Bytes
<1>2. HeaderOf(l) \in Seq(Bytes) /\ Len(HeaderOf(l)) = Header
  <2> DEFINE h(k) == <<"h", l>>
  <2>1. Header \in Nat /\ \A k \in 1..Header : h(k) \in Bytes
    BY <1>1, VoiceTxAssumption
  <2> HIDE DEF h
  <2>2. [k \in 1..Header |-> h(k)] \in Seq(Bytes)
    BY <2>1, IsASeq
  <2>3. HeaderOf(l) = [k \in 1..Header |-> h(k)]
    BY DEF HeaderOf, h
  <2> QED
    BY <2>1, <2>2, <2>3
<1>3. \A k \in 1..l : <<"d", 1 + k - 1>> \in Bytes
  BY DEF Bytes
<1>4. Data(1, l) \in Seq(Bytes) /\ Len(Data(1, l)) = l
  BY <1>3, IsASeq DEF Data
<1> QED
  BY <1>2, <1>4

LEMMA PacketOf ==
    ASSUME NEW l \in Nat
    PROVE  /\ HeaderOf(l) \o Data(1, l) \in Seq(Bytes)
           /\ Len(HeaderOf(l) \o Data(1, l)) = Header + l
<1>1. /\ HeaderOf(l) \in Seq(Bytes) /\ Len(HeaderOf(l)) = Header
      /\ Data(1, l) \in Seq(Bytes) /\ Len(Data(1, l)) = l
  BY PartsOf
<1> QED
  BY <1>1, ConcatProperties

\* A header rebuilt inside the packet changes no length.
LEMMA Rebuilt ==
    ASSUME packet \in Seq(Bytes), p_cur \in Nat, NEW n \in Nat, StartBurst(n)
    PROVE  packet' \in Seq(Bytes) /\ Len(packet') = Len(packet)
<1>1. /\ Len(packet) \in Nat /\ DOMAIN packet = 1..Len(packet)
      /\ \A k \in 1..Len(packet) : packet[k] \in Bytes
  BY ElementOfSeq, LenProperties
<1>2. Header \in Nat
  BY VoiceTxAssumption
<1> DEFINE c == p_cur - Header
           new(k) == IF k \in c..c + Header - 1 THEN HeaderOf(n)[k - c + 1] ELSE packet[k]
<1>3. packet' = [k \in 1..Len(packet) |-> new(k)]
  BY <1>1 DEF StartBurst
<1>4. \A k \in 1..Len(packet) : new(k) \in Bytes
  <2> SUFFICES ASSUME NEW k \in 1..Len(packet) PROVE new(k) \in Bytes
    OBVIOUS
  <2>1. CASE k \in c..c + Header - 1
    <3>1. k - c + 1 \in 1..Header
      BY <1>2, <2>1 
    <3>2. HeaderOf(n)[k - c + 1] = <<"h", n>>
      BY <3>1 DEF HeaderOf
    <3> QED
      BY <2>1, <3>2 DEF Bytes
  <2>2. CASE k \notin c..c + Header - 1
    BY <1>1, <2>2
  <2> QED
    BY <2>1, <2>2
<1> HIDE DEF new
<1> QED
  BY <1>1, <1>3, <1>4, IsASeq

LEMMA WriterTypes == ASSUME IInv, CutInv, SlotInv, Writer PROVE CutInv' /\ SlotInv'
<1> USE DEF urbVars, cutVars, otherVars
<1>0. /\ {Header, Burst, Frames, PacketSize} \subseteq Nat \ {0} /\ Len(packet) \in Nat
      /\ pc \in {"fill", "submit"} => t \in Trans
  BY VoiceTxAssumption, LenProperties DEF IInv, FillingIsFree, CutInv
<1>1. CASE Alloc
  BY <1>0, <1>1 DEF Alloc, CutInv, SlotInv, IInv, TransType
<1>2. CASE NoneFree
  BY <1>2 DEF NoneFree, CutInv, SlotInv
<1>3. CASE NextBurst
  <2> DEFINE n == Min2(remain, Burst)
  <2>1. n \in Nat /\ n <= remain
    BY <1>0 DEF CutInv, Min2
  <2>2. StartBurst(n)
    BY <1>3 DEF NextBurst
  <2> HIDE DEF n
  <2>3. packet' \in Seq(Bytes) /\ Len(packet') = Len(packet)
    BY <2>1, <2>2, Rebuilt DEF CutInv
  <2>4. /\ p_cur' = p_cur - Header /\ to_send = 0 /\ to_send' = n + Header /\ remain' = remain - n
        /\ UNCHANGED <<pc, npkts, i, voice_tx_active, p_voice_out, t, cpc, completed, lost>>
        /\ pc = "fill"
    BY <2>2 DEF StartBurst
  <2>5. CutInv'
    BY <1>0, <2>1, <2>3, <2>4, SMTT(20) DEF CutInv
  <2>6. SlotInv'
    BY <2>4, SMTT(20) DEF SlotInv
  <2> QED
    BY <2>5, <2>6
<1>4. CASE FillFrame
  <2> DEFINE n == Min2(to_send, PacketSize)
  <2>1. n \in Nat /\ n <= to_send
    BY <1>0 DEF CutInv, Min2
  <2>2. /\ p_cur' = p_cur + n /\ to_send' = to_send - n /\ i' = i + 1 /\ i < Frames /\ pc = "fill"
        /\ UNCHANGED <<pc, packet, remain, npkts, voice_tx_active, p_voice_out, t, cpc, completed, lost>>
    BY <1>4 DEF FillFrame
  <2> HIDE DEF n
  <2>3. CutInv'
    BY <1>0, <2>1, <2>2 DEF CutInv
  <2>4. SlotInv'
    BY <1>0, <2>2 DEF SlotInv
  <2> QED
    BY <2>3, <2>4
<1>5. CASE Filled
  BY <1>0, <1>5 DEF Filled, CutInv, SlotInv
<1>6. CASE Submitted
  BY <1>6 DEF Submitted, CutInv, SlotInv
<1>7. CASE Refused
  BY <1>7 DEF Refused, CutInv, SlotInv
<1>8. CASE Count
  BY <1>8 DEF Count, SetActive, CutInv, SlotInv
<1>9. CASE Resend
  BY <1>0, <1>9, SMTT(20) DEF Resend, Start, CutInv, SlotInv
<1>10. CASE Return
  BY <1>10 DEF Return, CutInv, SlotInv
<1> QED
  BY <1>1, <1>2, <1>3, <1>4, <1>5, <1>6, <1>7, <1>8, <1>9, <1>10 DEF Writer

LEMMA NextTypes == ASSUME IInv, CutInv, SlotInv, [Next]_vars PROVE CutInv' /\ SlotInv'
<1>1. ASSUME NEW l \in DataLens, Call(l) PROVE CutInv' /\ SlotInv'
  <2>1. l \in Nat /\ Header \in Nat /\ InCall \in Nat
    BY VoiceTxAssumption
  <2>2. packet' \in Seq(Bytes) /\ Len(packet') = Header + l
    BY <1>1, <2>1, PacketOf DEF Call
  <2>3. CutInv'
    BY <1>1, <2>1, <2>2 DEF Call, Start, CutInv
  <2>4. SlotInv'
    <3>1. p_voice_out' \in BOOLEAN /\ lost' \in BOOLEAN
      BY <1>1, Zenon DEF Call, SlotInv
    <3>2. /\ pc' = "loop" /\ completed' \in 0..InCall
          /\ UNCHANGED <<npkts, i, voice_tx_active, t, cpc>>
      BY <1>1, <2>1 DEF Call, urbVars
    <3> QED
      BY <3>1, <3>2 DEF SlotInv
  <2> QED
    BY <2>3, <2>4
<1>2. CASE Writer
  BY <1>2, WriterTypes
<1>3. ASSUME NEW x \in Trans, Complete(x) \/ CompleteRelease(x) \/ CompleteCount(x)
      PROVE  CutInv' /\ SlotInv'
  <2>1. completed' \in 0..InCall
    BY <1>3, VoiceTxAssumption DEF Complete, CompleteRelease, CompleteCount, MayComplete, SlotInv
  <2>2. npkts[x] \in Int
    BY VoiceTxAssumption DEF SlotInv
  <2>3. /\ UNCHANGED <<pc, packet, p_cur, remain, to_send, npkts, i, t, p_voice_out, cpc, lost>>
        /\ voice_tx_active' \in {voice_tx_active, voice_tx_active - npkts[x]}
    BY <1>3 DEF Complete, CompleteRelease, CompleteCount, SetActive, writerVars, cutVars, urbVars
  <2>4. voice_tx_active' \in Int
    BY <2>2, <2>3 DEF SlotInv
  <2> QED
    BY <2>1, <2>3, <2>4, SMTT(20) DEF CutInv, SlotInv
<1>4. CASE CancelStart \/ CancelKilled \/ CancelReset
  <2>1. /\ UNCHANGED <<pc, packet, p_cur, remain, to_send, npkts, i, t, completed, lost>>
        /\ cpc' \in {"idle", "killing", "killed"} 
        /\ voice_tx_active' \in {0, voice_tx_active}
    BY <1>4 DEF CancelStart, CancelKilled, CancelReset, urbVars, writerVars, cutVars
  <2>2. p_voice_out' \in BOOLEAN
    BY <1>4, Zenon DEF CancelStart, CancelKilled, CancelReset, SlotInv
  <2> QED
    BY <2>1, <2>2, SMTT(20) DEF CutInv, SlotInv
<1>5. CASE UNCHANGED vars
  BY <1>5 DEF vars, CutInv, SlotInv
<1> QED
  BY <1>1, <1>2, <1>3, <1>4, <1>5 DEF Next

\* Every variable keeps its type: no URB takes more frames than it has descriptors, and
\* the cursor of the writer never runs in front of the packet.
THEOREM TypeCorrect == Spec => []TypeOK
<1>1. IInv /\ CutInv /\ SlotInv /\ [Next]_vars => CutInv' /\ SlotInv'
  BY NextTypes
<1>2. IInv /\ CutInv /\ SlotInv => TypeOK
  BY DEF IInv, TransType, CutInv, SlotInv, TypeOK
<1> QED
  BY <1>1, <1>2, InitTypes, Invariance, PTL DEF Spec

----------------------------------------------------------------------------
(* The frames in flight *)

FramesIn(S, n) == {f \in S \X (1..Frames) : f[2] <= n[f[1]]}

LEMMA FramesFinite ==
    ASSUME NEW S \in SUBSET Trans, NEW n
    PROVE  IsFiniteSet(FramesIn(S, n)) /\ Cardinality(FramesIn(S, n)) \in Nat
<1>1. IsFiniteSet(S)
  BY VoiceTxAssumption, FS_Subset
<1>2. IsFiniteSet(1..Frames)
  BY VoiceTxAssumption, FS_Interval
<1>3. IsFiniteSet(S \X (1..Frames))
  BY <1>1, <1>2, FS_Product
<1>4. FramesIn(S, n) \in SUBSET (S \X (1..Frames))
  BY DEF FramesIn
<1>5. IsFiniteSet(FramesIn(S, n))
  BY <1>3, <1>4, FS_Subset
<1> QED
  BY <1>5, FS_CardinalityType

\* One more transaction adds the frames of its URB.
LEMMA FramesAdd ==
    ASSUME NEW S \in SUBSET Trans, NEW x \in Trans, x \notin S, NEW n \in [Trans -> 0..Frames]
    PROVE  Cardinality(FramesIn(S \cup {x}, n)) = Cardinality(FramesIn(S, n)) + n[x]
<1> DEFINE A == FramesIn(S, n)
           B == {x} \X (1..n[x])
<1>1. n[x] \in 0..Frames /\ Frames \in Nat
  BY VoiceTxAssumption
<1>2. FramesIn(S \cup {x}, n) = A \cup B
  <2>1. \A y, k : <<y, k>> \in FramesIn(S \cup {x}, n) <=> <<y, k>> \in A \cup B
    BY <1>1 DEF FramesIn
  <2>2. FramesIn(S \cup {x}, n) \subseteq Trans \X Int /\ A \cup B \subseteq Trans \X Int
    BY <1>1 DEF FramesIn
  <2> HIDE DEF A, B
  <2>3. \A f \in Trans \X Int : \E y, k : f = <<y, k>>
    OBVIOUS
  <2> QED
    BY <2>1, <2>2, <2>3
<1>3. A \cap B = {}
  BY DEF FramesIn
<1>4. IsFiniteSet(A) /\ Cardinality(A) \in Nat
  BY FramesFinite
<1>5. IsFiniteSet(B) /\ Cardinality(B) = n[x]
  <2>1. IsFiniteSet({x}) /\ Cardinality({x}) = 1
    BY FS_Singleton
  <2>2. IsFiniteSet(1..n[x]) /\ Cardinality(1..n[x]) = n[x]
    BY <1>1, FS_Interval
  <2>3. IsFiniteSet(B) /\ Cardinality(B) = 1 * n[x]
    BY <2>1, <2>2, FS_Product
  <2> QED
    BY <1>1, <2>3
<1> HIDE DEF A, B
<1>6. Cardinality(A \cup B) = Cardinality(A) + Cardinality(B) - Cardinality(A \cap B)
  BY <1>4, <1>5, FS_Union
<1>7. Cardinality(A \cap B) = 0
  BY <1>3, FS_EmptySet
<1>8. Cardinality(A \cup B) = Cardinality(A) + n[x]
  BY <1>1, <1>4, <1>5, <1>6, <1>7
<1> QED
  BY <1>2, <1>8, Zenon DEF A

LEMMA FramesRemove ==
    ASSUME NEW S \in SUBSET Trans, NEW x \in S, NEW n \in [Trans -> 0..Frames]
    PROVE  Cardinality(FramesIn(S \ {x}, n)) = Cardinality(FramesIn(S, n)) - n[x]
<1> DEFINE T == S \ {x}
<1>1. T \in SUBSET Trans /\ x \in Trans /\ x \notin T /\ T \cup {x} = S
  OBVIOUS
<1> HIDE DEF T
<1>2. Cardinality(FramesIn(S, n)) = Cardinality(FramesIn(T, n)) + n[x]
  BY <1>1, FramesAdd
<1>3. Cardinality(FramesIn(T, n)) \in Nat /\ n[x] \in Nat
  BY <1>1, FramesFinite, VoiceTxAssumption
<1> QED
  BY <1>2, <1>3 DEF T

\* Another transaction's number of frames does not count.
LEMMA FramesElse ==
    ASSUME NEW S \in SUBSET Trans, NEW x, x \notin S, NEW n, NEW m,
           \A y \in S : m[y] = n[y]
    PROVE  FramesIn(S, m) = FramesIn(S, n)
  BY DEF FramesIn

\* voice_tx_active is the number of frames in flight, less the URB just submitted, and
\* npkts has the number of frames of the URB the writer hands over.
ActiveInv ==
    /\ voice_tx_active \in Int /\ npkts \in [Trans -> 0..Frames] /\ i \in 0..Frames
    /\ pc \in {"submit", "count"} => npkts[t] = i
    /\ done = {} /\ cpc = "idle"
    /\ voice_tx_active + (IF pc = "count" THEN i ELSE 0) = Cardinality(FramesIn(submitted, npkts))

LEMMA InitActive == Init => ActiveInv
<1> SUFFICES ASSUME Init PROVE ActiveInv
  OBVIOUS
<1>1. FramesIn({}, npkts) = {}
  BY DEF FramesIn
<1>2. Cardinality(FramesIn(submitted, npkts)) = 0
  BY <1>1, FS_EmptySet DEF Init
<1> QED
  BY <1>2, VoiceTxAssumption DEF Init, ActiveInv

LEMMA WriterActive == ASSUME IInv, ActiveInv, Writer PROVE ActiveInv'
<1> DEFINE C(S, n) == Cardinality(FramesIn(S, n))
<1> USE DEF urbVars, cutVars, otherVars
<1>0. /\ submitted \in SUBSET Trans /\ Frames \in Nat /\ C(submitted, npkts) \in Nat
      /\ pc \in {"fill", "submit"} => t \in Trans /\ t \notin submitted
      /\ voice_tx_active \in Int /\ npkts \in [Trans -> 0..Frames] /\ i \in 0..Frames
      /\ pc \in {"submit", "count"} => npkts[t] = i
      /\ done = {} /\ cpc = "idle"
      /\ voice_tx_active + (IF pc = "count" THEN i ELSE 0) = C(submitted, npkts)
  BY FramesFinite, VoiceTxAssumption DEF IInv, TransType, FillingIsFree, ActiveInv
<1> HIDE DEF C
<1> SUFFICES /\ voice_tx_active' \in Int /\ npkts' \in [Trans -> 0..Frames] /\ i' \in 0..Frames
             /\ pc' \in {"submit", "count"} => npkts'[t'] = i'
             /\ done' = {} /\ cpc' = "idle"
             /\ voice_tx_active' + (IF pc' = "count" THEN i' ELSE 0) = C(submitted', npkts')
  BY DEF ActiveInv, C, FramesIn
<1>1. CASE Alloc
  BY <1>0, <1>1 DEF Alloc
<1>2. CASE NoneFree
  BY <1>0, <1>2 DEF NoneFree
<1>3. CASE NextBurst
  BY <1>0, <1>3 DEF NextBurst, StartBurst
<1>4. CASE FillFrame
  BY <1>0, <1>4 DEF FillFrame
<1>5. CASE Filled
  <2>1. /\ npkts' = [npkts EXCEPT ![t] = i] /\ t \in Trans /\ t \notin submitted
        /\ UNCHANGED <<submitted, voice_tx_active, t, i, done, cpc>> /\ pc = "fill" /\ pc' = "submit"
    BY <1>0, <1>5 DEF Filled
  <2>2. npkts' \in [Trans -> 0..Frames] /\ npkts'[t] = i
    BY <1>0, <2>1
  <2>3. \A y \in submitted : npkts'[y] = npkts[y]
    BY <1>0, <2>1
  <2>4. C(submitted, npkts') = C(submitted, npkts)
    BY <1>0, <2>1, <2>3, FramesElse DEF C
  <2> QED
    BY <1>0, <2>1, <2>2, <2>4
<1>6. CASE Submitted
  <2>1. /\ submitted' = submitted \cup {t} /\ t \in Trans /\ t \notin submitted /\ npkts[t] = i
        /\ UNCHANGED <<npkts, voice_tx_active, t, i, done, cpc>> /\ pc = "submit" /\ pc' = "count"
    BY <1>0, <1>6 DEF Submitted
  <2>2. C(submitted', npkts) = C(submitted, npkts) + i
    BY <1>0, <2>1, FramesAdd DEF C
  <2> QED
    BY <1>0, <2>1, <2>2
<1>7. CASE Refused
  BY <1>0, <1>7 DEF Refused
<1>8. CASE Count
  BY <1>0, <1>8 DEF Count, SetActive
<1>9. CASE Resend
  BY <1>0, <1>9 DEF Resend, Start
<1>10. CASE Return
  BY <1>0, <1>10 DEF Return
<1> QED
  BY <1>1, <1>2, <1>3, <1>4, <1>5, <1>6, <1>7, <1>8, <1>9, <1>10 DEF Writer

LEMMA NextActive == ASSUME ~Smp, ~Cancels, IInv, ActiveInv, [Next]_vars PROVE ActiveInv'
<1>1. CASE \E l \in DataLens : Call(l)
  BY <1>1 DEF Call, urbVars, ActiveInv, FramesIn
<1>2. CASE Writer
  BY <1>2, WriterActive
<1>3. ASSUME NEW x \in Trans, Complete(x) PROVE ActiveInv'
  <2>1. /\ x \in submitted /\ submitted' = submitted \ {x} /\ voice_tx_active' = voice_tx_active - npkts[x]
        /\ UNCHANGED <<npkts, pc, t, i, done, cpc>>
    BY <1>3 DEF Complete, SetActive, writerVars
  <2>2. submitted \in SUBSET Trans /\ npkts \in [Trans -> 0..Frames]
    BY DEF IInv, TransType, ActiveInv
  <2>3. Cardinality(FramesIn(submitted \ {x}, npkts)) = Cardinality(FramesIn(submitted, npkts)) - npkts[x]
    BY <2>1, <2>2, FramesRemove
  <2>4. npkts[x] \in Nat /\ Cardinality(FramesIn(submitted, npkts)) \in Nat /\ i \in Nat
    BY <2>2, FramesFinite, VoiceTxAssumption DEF ActiveInv
  <2>5. FramesIn(submitted, npkts)' = FramesIn(submitted \ {x}, npkts)
    BY <2>1 DEF FramesIn
  <2> QED
    BY <2>1, <2>3, <2>4, <2>5 DEF ActiveInv
<1>4. ~\E x \in Trans : CompleteRelease(x) \/ CompleteCount(x)
  BY DEF CompleteRelease, CompleteCount, ActiveInv
<1>5. ~(CancelStart \/ CancelKilled \/ CancelReset)
  BY DEF CancelStart, CancelKilled, CancelReset, ActiveInv
<1>6. CASE UNCHANGED vars
  BY <1>6 DEF vars, ActiveInv, FramesIn
<1> QED
  BY <1>1, <1>2, <1>3, <1>4, <1>5, <1>6 DEF Next

\* On one processor, and unless another thread cancels the URBs, voice_tx_active is the
\* number of frames in flight whatever fails and whenever the URBs complete.
THEOREM ActiveCounted == ASSUME ~Smp, ~Cancels PROVE Spec => []ActiveExact
<1>1. ActiveInv => ActiveExact
  BY DEF ActiveInv, ActiveExact, InFlight, FramesIn
<1>2. IInv /\ ActiveInv /\ [Next]_vars => ActiveInv'
  BY NextActive
<1> QED
  BY <1>1, <1>2, InitActive, Invariance, PTL DEF Spec

----------------------------------------------------------------------------
(* The bytes of a packet *)

\* Division of a sum of whole strides and a rest.
LEMMA DivOf ==
    ASSUME NEW s \in Nat, s > 0, NEW b \in Nat, NEW o \in Nat, o < s
    PROVE  (b * s + o) \div s = b /\ (b * s + o) % s = o
<1> DEFINE x == b * s + o
           q == x \div s
           r == x % s
<1>1. b * s \in Nat
  OBVIOUS
<1>2. x \in Nat
  BY <1>1
<1>3. q \in Int /\ r \in Int
  BY <1>2
<1>4. x = s * q + r /\ 0 <= r /\ r < s
  BY <1>2
<1>5. s * (q - b) = o - r
  BY <1>3, <1>4
<1>6. q = b
  BY <1>3, <1>4, <1>5
<1> QED
  BY <1>3, <1>4, <1>6

\* The k-th byte of the bursts of a packet of l bytes of data.
Byte(l, k) ==
    LET b == (k - 1) \div (Header + Burst)
        o == (k - 1) % (Header + Burst)
    IN IF o < Header THEN <<"h", Min2(Burst, l - b * Burst)>>
       ELSE <<"d", b * Burst + o - Header + 1>>

LEMMA ByteAt ==
    ASSUME NEW l \in Nat, NEW b \in Nat, NEW o \in Nat, o < Header + Burst
    PROVE  Byte(l, b * (Header + Burst) + o + 1)
             = IF o < Header THEN <<"h", Min2(Burst, l - b * Burst)>>
               ELSE <<"d", b * Burst + o - Header + 1>>
<1> DEFINE s == Header + Burst
           k == b * s + o + 1
<1>1. Header \in Nat /\ Burst \in Nat /\ s \in Nat /\ s > 0
  BY VoiceTxAssumption
<1>2. b * s \in Nat
  BY <1>1
<1>3. k - 1 = b * s + o
  BY <1>1, <1>2
<1>4. (k - 1) \div s = b /\ (k - 1) % s = o
  BY <1>1, <1>3, DivOf
<1> HIDE DEF k
<1>5. Byte(l, k) = IF o < Header THEN <<"h", Min2(Burst, l - b * Burst)>>
                   ELSE <<"d", b * Burst + o - Header + 1>>
  BY <1>4, Zenon DEF Byte
<1> QED
  BY <1>5 DEF k

\* The bursts of a packet whose data ends in its j-th burst.
LEMMA BurstsAre ==
    ASSUME NEW l \in Nat, NEW j \in Nat, l <= j * Burst, (j - 1) * Burst < l
    PROVE  Bursts(l) = [k \in 1..l + j * Header |-> Byte(l, k)]
<1>1. Header \in Nat /\ Burst \in Nat /\ Burst > 0
  BY VoiceTxAssumption
<1> DEFINE o == l + Burst - 1 - j * Burst
<1>2. j * Burst \in Nat /\ (j - 1) * Burst = j * Burst - Burst
  BY <1>1
<1>3. o \in Nat /\ o < Burst /\ l + Burst - 1 = j * Burst + o
  BY <1>1, <1>2
<1> HIDE DEF o
<1>4. (l + Burst - 1) \div Burst = j
  BY <1>1, <1>3, DivOf
<1> QED
  BY <1>4, Zenon DEF Bursts, Byte

----------------------------------------------------------------------------
(* The bytes sent *)

DataLen == Len(packet) - Header

\* j bursts are started: the bytes sent and the pending ones are the data taken so far
\* and j headers, and the cursor is as far in the packet as that data.
CutAt(j) ==
    /\ remain <= DataLen /\ p_cur > 0
    /\ Len(sent) + to_send = DataLen - remain + j * Header
    /\ p_cur + to_send = Header + 1 + DataLen - remain
    /\ remain > 0 => DataLen - remain = j * Burst
    /\ remain = 0 => DataLen <= j * Burst /\ (j - 1) * Burst < DataLen
    /\ DataLen <= Burst => remain \in {0, DataLen}

PlaceInv == sent \in Seq(Bytes) /\ (pc # "idle" => \E j \in Nat : CutAt(j))

\* What is sent and what is pending are the bytes of the bursts, and the data ahead is
\* the one that was written; a packet of one burst keeps its data whatever happens.
Sound == DataLen <= Burst \/ ~lost

ByteInv == pc # "idle" =>
    /\ Sound => \A k \in 1..Len(sent) : sent[k] = Byte(DataLen, k)
    /\ Sound => \A y \in 0..to_send - 1 : packet[p_cur + y] = Byte(DataLen, Len(sent) + 1 + y)
    /\ Sound => \A k \in p_cur + to_send..Len(packet) : packet[k] = <<"d", k - Header>>
    /\ DataLen <= Burst => \A k \in Header + 1..Len(packet) : packet[k] = <<"d", k - Header>>

\* The frames of an URB hold a whole number m of bursts, of kk frames each.
WholeBursts(kk, m) ==
    /\ Frames = m * kk
    /\ Header + Burst <= kk * PacketSize /\ (kk - 1) * PacketSize < Header + Burst

\* The frames of the URB up to the end of the pending burst are those of n bursts, and
\* q of them are not filled yet, every one of which takes a byte if another burst follows.
FitsAt(kk, n, q) ==
    /\ i + q = n * kk /\ to_send <= q * PacketSize
    /\ remain > 0 => (q - 1) * PacketSize < to_send

FrameInv(kk, m) ==
    /\ pc = "fill" => \E n \in 0..m, q \in Nat : FitsAt(kk, n, q)
    /\ pc \in {"loop", "submit", "count"} => to_send = 0

\* A step that leaves the packet alone.
LEMMA PlaceKept ==
    ASSUME UNCHANGED cutVars, pc' # "idle" => pc # "idle", ~lost' => ~lost, PlaceInv, ByteInv
    PROVE  PlaceInv' /\ ByteInv'
<1>1. PlaceInv'
  BY DEF PlaceInv, CutAt, DataLen, cutVars
<1>2. ByteInv'
  BY DEF ByteInv, Sound, DataLen, cutVars
<1> QED
  BY <1>1, <1>2

\* The writer starts, or starts again.
LEMMA PlaceStarts ==
    ASSUME packet' \in Seq(Bytes), Len(packet') >= Header, Start(packet'),
           Sound' => \A k \in Header + 1..Len(packet') : packet'[k] = <<"d", k - Header>>
    PROVE  PlaceInv' /\ ByteInv'
<1>1. /\ Len(packet') \in Nat /\ Header \in Nat /\ Burst \in Nat /\ Burst > 0
  BY LenProperties, VoiceTxAssumption
<1>2. /\ p_cur' = Header + 1 /\ to_send' = 0 /\ remain' = Len(packet') - Header
      /\ sent' = <<>> /\ Len(sent') = 0
  BY DEF Start
<1>3. sent' \in Seq(Bytes)
  BY <1>2
<1>4. 0 * Header = 0 /\ 0 * Burst = 0 /\ (0 - 1) * Burst = 0 - Burst
  BY <1>1
<1>5. CutAt(0)'
  BY <1>1, <1>2, <1>4 DEF CutAt, DataLen
<1>6. PlaceInv'
  BY <1>3, <1>5 DEF PlaceInv
<1>7. ByteInv'
  BY <1>1, <1>2, SMTT(20) DEF ByteInv, Sound, DataLen
<1> QED
  BY <1>6, <1>7

\* The next burst: its header goes over bytes already sent.
LEMMA PlaceBurst ==
    ASSUME CutInv, PlaceInv, ByteInv, NextBurst
    PROVE  PlaceInv' /\ ByteInv'
<1> DEFINE n == Min2(remain, Burst)
           c == p_cur - Header
<1>1. /\ Len(packet) \in Nat /\ Header \in Nat /\ Burst \in Nat /\ Burst > 0
      /\ p_cur \in Nat /\ remain \in Nat /\ to_send \in Nat
      /\ packet \in Seq(Bytes) /\ sent \in Seq(Bytes) /\ Len(sent) \in Nat
      /\ DataLen = Len(packet) - Header
  BY LenProperties, VoiceTxAssumption DEF CutInv, PlaceInv, DataLen
<1>2. StartBurst(n)
  BY DEF NextBurst
<1>3. /\ to_send = 0 /\ remain > 0 /\ p_cur' = c /\ to_send' = n + Header /\ remain' = remain - n
      /\ pc = "fill" /\ pc' = "fill" /\ UNCHANGED <<sent, lost>>
  BY <1>2 DEF StartBurst
<1>4. PICK j \in Nat : CutAt(j)
  BY <1>3 DEF PlaceInv
<1>5. n \in Nat /\ 0 < n /\ n <= Burst /\ n <= remain /\ (n < Burst => n = remain)
  BY <1>1, <1>3 DEF Min2
<1> DEFINE jb == j * Burst
           jh == j * Header
<1>6. /\ jb \in Nat /\ jh \in Nat
      /\ (j + 1) * Burst = jb + Burst /\ (j + 1) * Header = jh + Header
      /\ ((j + 1) - 1) * Burst = jb /\ j * (Header + Burst) = jh + jb
  BY <1>1
<1>7. /\ remain <= DataLen /\ DataLen - remain = jb /\ p_cur = Header + 1 + jb
      /\ Len(sent) = jb + jh /\ (DataLen <= Burst => remain \in {0, DataLen})
  BY <1>1, <1>3, <1>4, SMTT(20) DEF CutAt
<1>8. packet' \in Seq(Bytes) /\ Len(packet') = Len(packet) /\ DataLen' = DataLen
  BY <1>1, <1>2, <1>5, Rebuilt DEF DataLen
<1>9. c = jb + 1 /\ c + Header = p_cur
  BY <1>1, <1>6, <1>7
<1>10. /\ \A y \in 0..Header - 1 : packet'[c + y] = <<"h", n>>
       /\ \A k \in p_cur..Len(packet) : packet'[k] = packet[k]
  <2>1. packet' = [k \in DOMAIN packet |-> IF k \in c..c + Header - 1 THEN HeaderOf(n)[k - c + 1]
                                           ELSE packet[k]]
    BY <1>2 DEF StartBurst
  <2>2. DOMAIN packet = 1..Len(packet)
    BY <1>1
  <2>3. ASSUME NEW y \in 0..Header - 1 PROVE packet'[c + y] = <<"h", n>>
    <3>1. c + y \in 1..Len(packet) /\ c + y \in c..c + Header - 1 /\ (c + y) - c + 1 = y + 1 /\ y + 1 \in 1..Header
      BY <1>1, <1>3, <1>6, <1>7, <1>9
    <3>2. packet'[c + y] = HeaderOf(n)[y + 1]
      BY <2>1, <2>2, <3>1, Zenon
    <3> QED
      BY <3>1, <3>2 DEF HeaderOf
  <2>4. ASSUME NEW k \in p_cur..Len(packet) PROVE packet'[k] = packet[k]
    <3>1. k \in 1..Len(packet) /\ k \notin c..c + Header - 1
      BY <1>1, <1>6, <1>7, <1>9
    <3> QED
      BY <2>1, <2>2, <3>1, Zenon
  <2> QED
    BY <2>3, <2>4
<1> HIDE DEF n, c, jb, jh
<1>11. CutAt(j + 1)'
  <2> DEFINE d == DataLen
             r == remain - n
             ls == Len(sent)
  <2>1. d \in Nat /\ r \in Nat /\ ls \in Nat /\ c \in Nat
    BY <1>1, <1>5, <1>6, <1>7, <1>9
  <2>2. r <= d /\ c > 0 /\ (d <= Burst => r \in {0, d})
    <3>1. r <= d /\ c > 0
      BY <1>1, <1>3, <1>5, <1>6, <1>7, <1>9
    <3>2. d <= Burst => remain = d
      BY <1>3, <1>7
    <3>3. d <= Burst => r = 0
      BY <1>1, <1>5, <3>2
    <3> QED
      BY <3>1, <3>3
  <2>3. ls + (n + Header) = d - r + (jh + Header)
    BY <1>1, <1>5, <1>6, <1>7, SMTT(20)
  <2>4. c + (n + Header) = Header + 1 + d - r
    BY <1>1, <1>5, <1>6, <1>7, <1>9
  <2>5. (r > 0 => d - r = jb + Burst) /\ (r = 0 => d <= jb + Burst /\ jb < d)
    BY <1>1, <1>3, <1>5, <1>6, <1>7, SMTT(20)
  <2>6. DataLen' = d /\ remain' = r /\ Len(sent') = ls /\ p_cur' = c /\ to_send' = n + Header
    BY <1>3, <1>8
  <2> HIDE DEF d, r, ls
  <2> QED
    BY <1>6, <2>2, <2>3, <2>4, <2>5, <2>6 DEF CutAt
<1>12. PlaceInv'
  <2>1. j + 1 \in Nat
    OBVIOUS
  <2> QED
    BY <1>1, <1>3, <1>11, <2>1 DEF PlaceInv
<1>13. ASSUME Sound, NEW y \in 0..to_send' - 1
       PROVE  packet'[p_cur' + y] = Byte(DataLen, Len(sent) + 1 + y)
  <2>1. y \in Nat /\ y < Header + Burst /\ DataLen \in Nat /\ Len(sent) + 1 + y = j * (Header + Burst) + y + 1
        /\ y < n + Header
    BY <1>1, <1>3, <1>5, <1>6, <1>7
  <2>2. Byte(DataLen, Len(sent) + 1 + y)
          = IF y < Header THEN <<"h", Min2(Burst, DataLen - j * Burst)>>
            ELSE <<"d", j * Burst + y - Header + 1>>
    BY <2>1, ByteAt
  <2>3. Min2(Burst, DataLen - j * Burst) = n
    BY <1>1, <1>7, SMTT(20) DEF Min2, n, jb
  <2>4. CASE y < Header
    <3>1. y \in 0..Header - 1
      BY <1>1, <2>1, <2>4
    <3> QED
      BY <1>3, <1>10, <2>2, <2>3, <2>4, <3>1
  <2>5. CASE ~(y < Header)
    <3> DEFINE k == p_cur + (y - Header)
    <3>1. k \in p_cur..Len(packet) /\ c + y = k /\ k - Header = jb + y - Header + 1
      BY <1>1, <1>5, <1>6, <1>7, <1>9, <2>1, <2>5
    <3> HIDE DEF k
    <3>2. p_cur + to_send = p_cur
      BY <1>1, <1>3
    <3>3. packet[k] = <<"d", k - Header>>
      BY <1>3, <1>13, <3>1, <3>2 DEF ByteInv
    <3> QED
      BY <1>3, <1>10, <2>2, <2>5, <3>1, <3>3 DEF jb
  <2> QED
    BY <2>4, <2>5
<1>14. ByteInv'
  <2>1. Sound' <=> Sound
    BY <1>3, <1>8 DEF Sound
  <2>2. p_cur' + to_send' = p_cur + n /\ p_cur + to_send = p_cur
    BY <1>1, <1>3, <1>5, <1>9, SMTT(20)
  <2>3. ASSUME Sound, NEW k \in p_cur' + to_send'..Len(packet') PROVE packet'[k] = <<"d", k - Header>>
    <3>1. k \in p_cur..Len(packet)
      BY <1>1, <1>5, <1>8, <2>2
    <3> QED
      BY <1>3, <1>10, <2>2, <2>3, <3>1 DEF ByteInv
  <2>4. ASSUME DataLen <= Burst, NEW k \in Header + 1..Len(packet') PROVE packet'[k] = <<"d", k - Header>>
    <3>1. jb = 0
      BY <1>1, <1>3, <1>6, <1>7, <2>4, SMTT(20)
    <3>2. k \in p_cur..Len(packet)
      BY <1>1, <1>7, <1>8, <3>1
    <3> QED
      BY <1>3, <1>8, <1>10, <2>4, <3>2 DEF ByteInv
  <2>5. Sound => \A k \in 1..Len(sent) : sent[k] = Byte(DataLen, k)
    BY <1>3 DEF ByteInv
  <2>6. UNCHANGED <<sent, DataLen>>
    BY <1>3, <1>8
  <2> QED
    BY <1>13, <2>1, <2>3, <2>4, <2>5, <2>6 DEF ByteInv
<1> QED
  BY <1>12, <1>14

\* The next frame takes the pending bytes in order.
LEMMA PlaceFrame ==
    ASSUME CutInv, PlaceInv, ByteInv, FillFrame
    PROVE  PlaceInv' /\ ByteInv'
<1> DEFINE n == Min2(to_send, PacketSize)
           piece == SubSeq(packet, p_cur, p_cur + n - 1)
<1>1. /\ Len(packet) \in Nat /\ Header \in Nat /\ Burst \in Nat
      /\ p_cur \in Nat /\ remain \in Nat /\ to_send \in Nat
      /\ packet \in Seq(Bytes) /\ sent \in Seq(Bytes) /\ Len(sent) \in Nat
      /\ DataLen = Len(packet) - Header
  BY LenProperties, VoiceTxAssumption DEF CutInv, PlaceInv, DataLen
<1>2. /\ to_send > 0 /\ p_cur' = p_cur + n /\ to_send' = to_send - n /\ sent' = sent \o piece
      /\ pc = "fill" /\ pc' = "fill" /\ UNCHANGED <<packet, remain, lost>>
  BY DEF FillFrame
<1>3. PICK j \in Nat : CutAt(j)
  BY <1>2 DEF PlaceInv
<1>4. n \in Nat /\ 0 < n /\ n <= to_send
  BY <1>1, <1>2, VoiceTxAssumption, SMTT(20) DEF Min2
<1> HIDE DEF n
<1>5. p_cur > 0 /\ p_cur + to_send <= Len(packet) + 1
  BY <1>1, <1>3 DEF CutAt
<1>6. /\ piece \in Seq(Bytes) /\ Len(piece) = n
      /\ \A k \in 1..n : piece[k] = packet[p_cur + (k - 1)]
  <2>1. \A k \in p_cur..p_cur + n - 1 : packet[k] \in Bytes
    <3> SUFFICES ASSUME NEW k \in p_cur..p_cur + n - 1 PROVE packet[k] \in Bytes
      OBVIOUS
    <3>1. k \in 1..Len(packet)
      BY <1>1, <1>4, <1>5
    <3> QED
      BY <1>1, <3>1, ElementOfSeq
  <2> DEFINE e == p_cur + n - 1
  <2>2. p_cur \in Int /\ e \in Int
    BY <1>1, <1>4
  <2> HIDE DEF e, piece
  <2>3. /\ piece \in Seq(Bytes)
        /\ Len(piece) = IF p_cur <= e THEN e - p_cur + 1 ELSE 0
        /\ \A k \in 1..e - p_cur + 1 : piece[k] = packet[p_cur + k - 1]
    <3>1. \A k \in p_cur..e : packet[k] \in Bytes
      BY <2>1 DEF e
    <3>2. piece = SubSeq(packet, p_cur, e)
      BY DEF piece, e
    <3> QED
      BY <2>2, <3>1, <3>2, SubSeqProperties
  <2>4. p_cur <= e /\ e - p_cur + 1 = n
    BY <1>1, <1>4 DEF e
  <2>5. \A k \in 1..n : p_cur + k - 1 = p_cur + (k - 1)
    BY <1>1, <1>4
  <2> QED
    BY <2>3, <2>4, <2>5
<1> HIDE DEF piece
<1>7. /\ sent' \in Seq(Bytes) /\ Len(sent') = Len(sent) + n
      /\ \A k \in 1..Len(sent) + n : sent'[k] = IF k <= Len(sent) THEN sent[k] ELSE piece[k - Len(sent)]
  BY <1>1, <1>2, <1>6, ConcatProperties
<1>8. DataLen' = DataLen /\ (Sound' <=> Sound)
  BY <1>2 DEF DataLen, Sound
<1>9. p_cur' + to_send' = p_cur + to_send /\ Len(sent') + to_send' = Len(sent) + to_send /\ p_cur' > 0
  BY <1>1, <1>2, <1>4, <1>5, <1>7
<1>10. PlaceInv'
  <2>1. CutAt(j)'
    BY <1>2, <1>3, <1>8, <1>9 DEF CutAt
  <2> QED
    BY <1>7, <2>1 DEF PlaceInv
<1>11. ASSUME Sound, NEW k \in 1..Len(sent') PROVE sent'[k] = Byte(DataLen, k)
  <2>1. CASE k <= Len(sent)
    BY <1>1, <1>2, <1>4, <1>7, <1>11, <2>1 DEF ByteInv
  <2>2. CASE ~(k <= Len(sent))
    <3> DEFINE y == k - Len(sent) - 1
    <3>1. /\ y \in 0..to_send - 1 /\ k - Len(sent) \in 1..n /\ k - Len(sent) - 1 = y
          /\ Len(sent) + 1 + y = k /\ k \in 1..Len(sent) + n
      BY <1>1, <1>4, <1>7, <2>2
    <3> HIDE DEF y
    <3>2. sent'[k] = packet[p_cur + y]
      BY <1>6, <1>7, <2>2, <3>1
    <3>3. packet[p_cur + y] = Byte(DataLen, Len(sent) + 1 + y)
      BY <1>2, <1>11, <3>1, Zenon DEF ByteInv
    <3> QED
      BY <3>1, <3>2, <3>3
  <2> QED
    BY <2>1, <2>2
<1>12. ASSUME Sound, NEW y \in 0..to_send' - 1
       PROVE  packet[p_cur' + y] = Byte(DataLen, Len(sent') + 1 + y)
  <2>1. n + y \in 0..to_send - 1 /\ p_cur' + y = p_cur + (n + y) /\ Len(sent') + 1 + y = Len(sent) + 1 + (n + y)
    BY <1>1, <1>2, <1>4, <1>7
  <2> QED
    BY <1>2, <1>12, <2>1, Zenon DEF ByteInv
<1>13. ByteInv'
  BY <1>2, <1>8, <1>9, <1>11, <1>12 DEF ByteInv
<1> QED
  BY <1>10, <1>13

\* An URB has room for whole bursts, so that none is open when it is full.
LEMMA FrameKept ==
    ASSUME NEW kk \in Nat, NEW m \in Nat, WholeBursts(kk, m), CutInv, SlotInv, FrameInv(kk, m),
           NextBurst \/ FillFrame \/ Filled
    PROVE  FrameInv(kk, m)'
<1>1. /\ {Frames, PacketSize, Header, Burst} \subseteq Nat \ {0} /\ i \in Nat
      /\ remain \in Nat /\ to_send \in Nat /\ pc = "fill"
  BY VoiceTxAssumption DEF CutInv, SlotInv, NextBurst, StartBurst, FillFrame, Filled
<1>2. PICK n \in 0..m, q \in Nat : FitsAt(kk, n, q)
  BY <1>1 DEF FrameInv
<1> DEFINE nk == n * kk
           qp == q * PacketSize
<1>3. /\ nk \in Nat /\ qp \in Nat /\ i + q = nk /\ to_send <= qp
      /\ (remain > 0 => qp - PacketSize < to_send)
      /\ (q - 1) * PacketSize = qp - PacketSize /\ ((q - 1) - 1) * PacketSize = qp - PacketSize - PacketSize
  BY <1>1, <1>2 DEF FitsAt
<1>4. /\ Frames = m * kk /\ (n < m => nk + kk <= m * kk /\ (n + 1) * kk = nk + kk) /\ nk <= m * kk
      /\ (nk < m * kk => n < m)
  BY <1>1, <1>2 DEF WholeBursts
<1>5. (q = 0 => qp = 0) /\ (q > 0 => qp >= PacketSize) /\ (q > 1 => qp >= PacketSize + PacketSize)
  BY <1>1
<1> HIDE DEF nk, qp
<1>6. CASE NextBurst
  <2> DEFINE x == Min2(remain, Burst)
  <2>1. x \in Nat /\ x <= Burst /\ (remain - x > 0 => x = Burst)
    <3>1. remain \in Nat /\ Burst \in Nat
      BY <1>1
    <3> QED
      BY <3>1 DEF Min2
  <2>2. /\ to_send = 0 /\ remain > 0 /\ i < Frames /\ to_send' = x + Header /\ remain' = remain - x
        /\ pc' = "fill" /\ i' = i
    BY <1>6 DEF NextBurst, StartBurst
  <2> HIDE DEF x
  <2>3. q = 0 /\ i = nk
    BY <1>1, <1>3, <1>5, <2>2
  <2>4. n < m
    BY <1>4, <2>2, <2>3
  <2>5. i + kk = (n + 1) * kk
    BY <1>4, <2>3, <2>4
  <2>6. x + Header <= kk * PacketSize /\ (remain' > 0 => (kk - 1) * PacketSize < x + Header)
    BY <1>1, <2>1, <2>2 DEF WholeBursts
  <2>7. FitsAt(kk, n + 1, kk)'
    BY <2>2, <2>5, <2>6 DEF FitsAt
  <2>8. n + 1 \in 0..m
    BY <2>4
  <2> QED
    BY <2>2, <2>7, <2>8 DEF FrameInv
<1>7. CASE FillFrame
  <2> DEFINE x == Min2(to_send, PacketSize)
  <2>1. IF to_send <= PacketSize THEN x = to_send ELSE x = PacketSize
    <3>1. to_send \in Nat /\ PacketSize \in Nat
      BY <1>1
    <3> QED
      BY <3>1 DEF Min2
  <2>2. /\ to_send > 0 /\ to_send' = to_send - x /\ remain' = remain /\ pc' = "fill" /\ i' = i + 1
    BY <1>7 DEF FillFrame
  <2> HIDE DEF x
  <2>3. q > 0
    BY <1>1, <1>3, <1>5, <2>2
  <2>4. i + 1 + (q - 1) = nk /\ q - 1 \in Nat
    BY <1>1, <1>3, <2>3
  <2>5. to_send - x <= qp - PacketSize
    BY <1>1, <1>3, <1>5, <2>1, <2>3
  <2>6. remain > 0 => qp - PacketSize - PacketSize < to_send - x
    BY <1>1, <1>3, <1>5, <2>1
  <2>7. FitsAt(kk, n, q - 1)'
    BY <1>3, <2>2, <2>4, <2>5, <2>6 DEF FitsAt, nk
  <2> QED
    BY <2>2, <2>4, <2>7 DEF FrameInv
<1>8. CASE Filled
  <2>1. pc' = "submit" /\ to_send' = to_send /\ (i >= Frames \/ to_send = 0)
    BY <1>8 DEF Filled, cutVars
  <2>2. i >= Frames => to_send = 0
    BY <1>1, <1>3, <1>4, <1>5
  <2> QED
    BY <2>1, <2>2 DEF FrameInv
<1> QED
  BY <1>6, <1>7, <1>8

LEMMA WriterSent ==
    ASSUME NEW kk \in Nat, NEW m \in Nat, WholeBursts(kk, m), CutInv, SlotInv,
           PlaceInv, ByteInv, FrameInv(kk, m), Writer
    PROVE  PlaceInv' /\ ByteInv' /\ FrameInv(kk, m)'
<1> USE DEF urbVars, otherVars
<1>1. CASE Alloc
  <2>1. /\ UNCHANGED cutVars /\ pc = "loop" /\ pc' = "fill" /\ lost' = lost /\ i' = 0
    BY <1>1 DEF Alloc
  <2>2. FrameInv(kk, m)'
    <3>1. to_send' = 0 /\ PacketSize \in Nat /\ PacketSize > 0
      BY <2>1, VoiceTxAssumption DEF FrameInv, cutVars
    <3>2. FitsAt(kk, 0, 0)'
      BY <2>1, <3>1 DEF FitsAt
    <3> QED
      BY <2>1, <3>2 DEF FrameInv
  <2> QED
    BY <2>1, <2>2, PlaceKept
<1>2. CASE NextBurst
  BY <1>2, PlaceBurst, FrameKept
<1>3. CASE FillFrame
  BY <1>3, PlaceFrame, FrameKept
<1>4. CASE Filled
  <2>1. UNCHANGED cutVars /\ pc = "fill" /\ lost' = lost
    BY <1>4 DEF Filled
  <2> QED
    BY <1>4, <2>1, PlaceKept, FrameKept
<1>5. CASE NoneFree \/ Submitted \/ Refused \/ Count \/ Return
  <2>1. /\ UNCHANGED cutVars /\ pc \in {"loop", "submit", "count"} /\ pc' \in {"idle", "loop", "count"}
        /\ (~lost' => ~lost)
    BY <1>5 DEF NoneFree, Submitted, Refused, Count, Return
  <2>2. FrameInv(kk, m)'
    BY <2>1 DEF FrameInv, cutVars
  <2> QED
    BY <2>1, <2>2, PlaceKept
<1>6. CASE Resend
  <2>1. /\ Start(packet') /\ packet' = packet /\ lost' = (DataLen > Burst) /\ pc = "loop" /\ pc' = "loop"
        /\ to_send' = 0
    BY <1>6 DEF Resend, Start, DataLen
  <2>2. packet' \in Seq(Bytes) /\ Len(packet') >= Header /\ DataLen' = DataLen
    BY <2>1 DEF CutInv, DataLen
  <2>3. Sound' => DataLen <= Burst
    <3>1. DataLen \in Int /\ Burst \in Int
      BY VoiceTxAssumption, LenProperties DEF CutInv, DataLen
    <3>2. ~(DataLen <= Burst) => DataLen > Burst
      BY <3>1
    <3>3. DataLen > Burst => lost'
      BY <2>1, Zenon
    <3> QED
      BY <2>2, <3>2, <3>3, Zenon DEF Sound
  <2>4. Sound' => \A k \in Header + 1..Len(packet') : packet'[k] = <<"d", k - Header>>
    BY <2>1, <2>3 DEF ByteInv
  <2>5. FrameInv(kk, m)'
    BY <2>1 DEF FrameInv
  <2> QED
    BY <2>1, <2>2, <2>4, <2>5, PlaceStarts
<1> QED
  BY <1>1, <1>2, <1>3, <1>4, <1>5, <1>6 DEF Writer

LEMMA NextSent ==
    ASSUME NEW kk \in Nat, NEW m \in Nat, WholeBursts(kk, m), CutInv, SlotInv,
           PlaceInv, ByteInv, FrameInv(kk, m), [Next]_vars
    PROVE  PlaceInv' /\ ByteInv' /\ FrameInv(kk, m)'
<1>1. ASSUME NEW l \in DataLens, Call(l) PROVE PlaceInv' /\ ByteInv' /\ FrameInv(kk, m)'
  <2>1. l \in Nat /\ Header \in Nat
    BY VoiceTxAssumption
  <2>2. packet' = HeaderOf(l) \o Data(1, l) /\ Start(packet') /\ pc' = "loop" /\ to_send' = 0
    BY <1>1 DEF Call, Start
  <2>3. packet' \in Seq(Bytes) /\ Len(packet') = Header + l
    BY <2>1, <2>2, PacketOf
  <2>4. \A k \in Header + 1..Len(packet') : packet'[k] = <<"d", k - Header>>
    <3> SUFFICES ASSUME NEW k \in Header + 1..Header + l PROVE packet'[k] = <<"d", k - Header>>
      BY <2>3
    <3>1. /\ HeaderOf(l) \in Seq(Bytes) /\ Len(HeaderOf(l)) = Header
          /\ Data(1, l) \in Seq(Bytes) /\ Len(Data(1, l)) = l
      BY <2>1, PartsOf
    <3>2. k \in 1..Len(HeaderOf(l)) + Len(Data(1, l)) /\ ~(k <= Len(HeaderOf(l))) /\ k - Header \in 1..l
          /\ 1 + (k - Header) - 1 = k - Header
      BY <2>1, <3>1
    <3>3. packet'[k] = Data(1, l)[k - Header]
      BY <2>2, <3>1, <3>2, ConcatProperties
    <3> QED
      BY <3>2, <3>3 DEF Data
  <2>5. FrameInv(kk, m)'
    BY <2>2 DEF FrameInv
  <2>6. Len(packet') >= Header
    BY <2>1, <2>3
  <2> QED
    BY <2>2, <2>3, <2>4, <2>5, <2>6, PlaceStarts
<1>2. CASE Writer
  BY <1>2, WriterSent
<1>3. ASSUME UNCHANGED writerVars PROVE PlaceInv' /\ ByteInv' /\ FrameInv(kk, m)'
  <2>1. UNCHANGED <<cutVars, pc, i, lost>>
    BY <1>3 DEF writerVars
  <2>2. FrameInv(kk, m)'
    BY <2>1 DEF FrameInv, FitsAt, cutVars
  <2> QED
    BY <2>1, <2>2, PlaceKept
<1>4. CASE \E x \in Trans : Complete(x) \/ CompleteRelease(x) \/ CompleteCount(x)
  BY <1>3, <1>4 DEF Complete, CompleteRelease, CompleteCount
<1>5. CASE CancelStart \/ CancelKilled \/ CancelReset
  BY <1>3, <1>5 DEF CancelStart, CancelKilled, CancelReset
<1>6. CASE UNCHANGED vars
  BY <1>3, <1>6 DEF vars, writerVars, cutVars
<1> QED
  BY <1>1, <1>2, <1>4, <1>5, <1>6 DEF Next

\* The packet is sent when the loop has taken all of its data.
LEMMA SentIs ==
    ASSUME NEW kk \in Nat, NEW m \in Nat, CutInv, PlaceInv, ByteInv, FrameInv(kk, m)
    PROVE  PacketSent
<1> SUFFICES ASSUME pc = "loop", remain = 0, ~lost PROVE sent = Bursts(DataLen)
  BY DEF PacketSent, DataLen
<1>1. PICK j \in Nat : CutAt(j)
  BY DEF PlaceInv
<1>2. DataLen \in Nat
  BY LenProperties, VoiceTxAssumption DEF CutInv, DataLen
<1>3. Bursts(DataLen) = [k \in 1..DataLen + j * Header |-> Byte(DataLen, k)]
  BY <1>1, <1>2, BurstsAre DEF CutAt
<1>4. sent \in Seq(Bytes) /\ Len(sent) \in Nat
  BY LenProperties DEF PlaceInv
<1>5. j * Header \in Nat
  BY VoiceTxAssumption
<1>6. Len(sent) = DataLen + j * Header
  <2>1. to_send = 0 /\ Len(sent) + to_send = DataLen - remain + j * Header
    BY <1>1 DEF CutAt, FrameInv
  <2> QED
    BY <1>2, <1>4, <1>5, <2>1
<1>7. \A k \in 1..Len(sent) : sent[k] = Byte(DataLen, k)
  BY DEF ByteInv, Sound
<1>8. sent = [k \in 1..Len(sent) |-> sent[k]]
  BY <1>4
<1>9. sent = [k \in 1..Len(sent) |-> Byte(DataLen, k)]
  BY <1>7, <1>8
<1> QED
  BY <1>3, <1>6, <1>9

\* Where an URB holds a whole number of bursts, every packet goes out whole, each of its
\* bursts after its own header, however the packet is cut, whatever is refused,
\* completed or cancelled meanwhile and however often a packet of one burst is sent.
THEOREM SentWhole ==
    ASSUME NEW kk \in Nat, NEW m \in Nat, WholeBursts(kk, m)
    PROVE  Spec => []PacketSent
<1> DEFINE I == PlaceInv /\ ByteInv /\ FrameInv(kk, m)
<1>1. Init => I
  BY DEF Init, PlaceInv, ByteInv, FrameInv
<1>2. IInv /\ CutInv /\ SlotInv /\ I /\ [Next]_vars => I'
  BY NextSent
<1>3. CutInv /\ I => PacketSent
  BY SentIs
<1>4. IInv /\ CutInv /\ SlotInv /\ [Next]_vars => CutInv' /\ SlotInv'
  BY NextTypes
<1> HIDE DEF I
<1> QED
  BY <1>1, <1>2, <1>3, <1>4, InitTypes, Invariance, PTL DEF Spec
=============================================================================
