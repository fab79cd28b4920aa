------------------------- MODULE BtusbWrite_proofs -------------------------
(***************************************************************************)
(* Proofs about the write path, for any packets, any cutting into writes   *)
(* and any pool, with failures and completions at any time.                *)
(*                                                                         *)
(* First the transactions and the usage count of the interface, when the   *)
(* writer is the only thread that takes transactions; then the bytes: the  *)
(* stream reaches the controller as it was written, and in whole packets;  *)
(* last the types, with the lite thread too, and the size of write_msg.    *)
(***************************************************************************)
EXTENDS BtusbWrite, FiniteSetTheorems, SequenceTheorems, WellFoundedInduction, TLAPS

\* Without the lite build there is no lite thread.
LiteIdle == lpc = "idle"

\* A transaction the writer has found is free until it marks it, and one it has
\* marked is not in flight until it submits it.
FoundIsFree == wpc = "take" => wt \notin in_use

\* From the moment the interface is requested it is held for the packet, even
\* before a transaction is found: PmHeld alone does not know this.
Requested == wpc \in {"alloc", "take", "submit"}
HeldSinceRequest ==
    /\ IsFiniteSet(flying) /\ pm \in Int
    /\ autopm => pm >= Cardinality(flying) + (IF Requested THEN 1 ELSE 0)

IInv == LiteIdle /\ TransHonest /\ FoundIsFree /\ HeldSinceRequest

----------------------------------------------------------------------------
\* A non-empty finite set of indices has a least one: a smallest initial segment of
\* the set ends at it.
LEMMA LeastExists ==
    ASSUME NEW S, IsFiniteSet(S), S \subseteq Nat, S # {}
    PROVE  \E i \in S : \A j \in S : i <= j
<1> DEFINE Seg(i) == {j \in S : j <= i}
           Segs == {Seg(i) : i \in S}
<1>1. Segs \subseteq FiniteSubsetsOf(S) /\ Segs # {}
  <2>1. \A i \in S : Seg(i) \in SUBSET S
    OBVIOUS
  <2>2. FiniteSubsetsOf(S) = SUBSET S
    BY FS_FiniteSubsetsOfFinite
  <2>3. Segs \subseteq SUBSET S /\ Segs # {}
    <3> HIDE DEF Seg
    <3> QED BY <2>1
  <2> QED BY <2>2, <2>3, Zenon
<1>2. PICK A \in Segs : \A B \in Segs : <<B, A>> \notin StrictSubsetOrdering(S)
  <2> HIDE DEF Segs
  <2>1. IsWellFoundedOn(StrictSubsetOrdering(S), FiniteSubsetsOf(S))
    BY FS_StrictSubsetOrderingWellFounded
  <2> QED BY <1>1, <2>1, WFMin, Zenon
<1>3. PICK i \in S : A = Seg(i)
  OBVIOUS
<1>4. ASSUME NEW j \in S, ~(i <= j) PROVE FALSE
  <2>1. Seg(j) \subseteq Seg(i)
    <3>1. \A k \in S : k <= j => k <= i
      BY <1>4
    <3> QED BY <3>1
  <2>2. i \in Seg(i) /\ i \notin Seg(j)
    BY <1>4
  <2>3. <<Seg(j), A>> \in StrictSubsetOrdering(S)
    <3>1. Seg(j) \in SUBSET S /\ A \in SUBSET S
      BY <1>3
    <3>2. Seg(j) \subseteq A /\ Seg(j) # A
      BY <1>3, <2>1, <2>2
    <3> HIDE DEF Seg
    <3> QED BY <3>1, <3>2 DEF StrictSubsetOrdering
  <2> QED BY <1>2, <2>3
<1> QED BY <1>4

\* btusb_alloc_tx_trans returns a transaction of the pipe that is not in use.
LEMMA FirstIsFree ==
    ASSUME NEW pipe, Free(pipe) # {}
    PROVE  First(pipe) \notin in_use /\ First(pipe) \in {pipe} \X (1..Pool)
<1>1. IsFiniteSet(1..Pool)
  BY FS_Interval, WriteAssumption
<1>2. IsFiniteSet(Free(pipe)) /\ Free(pipe) \subseteq Nat
  <2>1. Free(pipe) \subseteq 1..Pool
    BY DEF Free
  <2>2. 1..Pool \subseteq Nat
    OBVIOUS
  <2>3. IsFiniteSet(Free(pipe))
    BY <1>1, <2>1, FS_Subset
  <2> QED BY <2>1, <2>2, <2>3, Zenon
<1>3. \E i \in Free(pipe) : \A j \in Free(pipe) : i <= j
  BY <1>2, LeastExists
<1>4. (CHOOSE i \in Free(pipe) : \A j \in Free(pipe) : i <= j) \in Free(pipe)
  BY <1>3
<1>5. PICK i \in Free(pipe) : First(pipe) = <<pipe, i>>
  BY <1>4 DEF First
<1>6. i \in 1..Pool /\ <<pipe, i>> \notin in_use
  BY DEF Free
<1> QED BY <1>5, <1>6

----------------------------------------------------------------------------
(* The steps of the writer that touch neither a transaction nor the interface *)
(* leave the invariant alone, whatever they do to the packet.                  *)

LEMMA Initially == Init => IInv
<1> SUFFICES ASSUME Init PROVE IInv
  OBVIOUS
<1>1. LiteIdle /\ TransHonest /\ FoundIsFree
  BY DEF Init, LiteIdle, TransHonest, FoundIsFree
<1>2. IsFiniteSet(flying) /\ Cardinality(flying) = 0 /\ pm = 0 /\ ~Requested
  BY FS_EmptySet DEF Init, Requested
<1>3. HeldSinceRequest
  BY <1>2 DEF HeldSinceRequest
<1> QED BY <1>1, <1>3 DEF IInv

\* A step that leaves the transactions alone and does not ask for the interface.
LEMMA Elsewhere ==
    ASSUME IInv, UNCHANGED <<liteVars, in_use, flying, pmVars, wt>>,
           wpc' \in {"idle", "append", "pm"}, wpc # "submit"
    PROVE  IInv'
<1> USE DEF IInv, liteVars, pmVars
<1>1. (LiteIdle /\ TransHonest /\ FoundIsFree)'
  BY DEF LiteIdle, TransHonest, FoundIsFree
<1>2. Cardinality(flying) \in Nat
  BY FS_CardinalityType DEF HeldSinceRequest
<1>3. HeldSinceRequest'
  BY <1>2 DEF HeldSinceRequest, Requested
<1> QED BY <1>1, <1>3

\* Asking for the interface holds it before a transaction is looked for.
LEMMA GetHolds == ASSUME IInv, AutopmGet PROVE IInv'
<1> USE DEF IInv, AutopmGet, liteVars, pmVars, msgVars, logVars
<1>1. (LiteIdle /\ TransHonest /\ FoundIsFree)'
  BY DEF LiteIdle, TransHonest, FoundIsFree
<1>2. Cardinality(flying) \in Nat
  BY FS_CardinalityType DEF HeldSinceRequest
<1>3. HeldSinceRequest'
  BY <1>2 DEF HeldSinceRequest, Requested
<1> QED BY <1>1, <1>3

\* A transaction goes from free to found, to marked, to the controller, or back.
LEMMA TransStep ==
    ASSUME IInv, AllocFind \/ AllocTake \/ Submitted \/ Refused
    PROVE  IInv'
<1> USE DEF IInv, liteVars, pmVars, msgVars, logVars
<1>1. IsFiniteSet(flying) /\ Cardinality(flying) \in Nat
  BY FS_CardinalityType DEF HeldSinceRequest
<1>2. CASE AllocFind
  <2>1. wt' \notin in_use
    BY <1>2, FirstIsFree DEF AllocFind
  <2>2. (LiteIdle /\ TransHonest /\ FoundIsFree)'
    BY <1>2, <2>1 DEF AllocFind, ToPipe, LiteIdle, TransHonest, FoundIsFree
  <2>3. HeldSinceRequest'
    BY <1>1, <1>2 DEF AllocFind, ToPipe, HeldSinceRequest, Requested
  <2> QED BY <2>2, <2>3
<1>3. CASE AllocTake
  <2>1. (LiteIdle /\ TransHonest /\ FoundIsFree)'
    BY <1>3 DEF AllocTake, LiteIdle, TransHonest, FoundIsFree
  <2>2. HeldSinceRequest'
    BY <1>1, <1>3 DEF AllocTake, HeldSinceRequest, Requested
  <2> QED BY <2>1, <2>2
<1>4. CASE Submitted
  <2>1. wt \notin flying
    BY <1>4 DEF Submitted, TransHonest
  <2>2. (LiteIdle /\ TransHonest /\ FoundIsFree)'
    BY <1>4 DEF Submitted, MsgDone, LiteIdle, TransHonest, FoundIsFree
  <2>3. IsFiniteSet(flying') /\ Cardinality(flying') = Cardinality(flying) + 1
    BY <1>1, <1>4, <2>1, FS_AddElement DEF Submitted
  <2>4. HeldSinceRequest'
    BY <1>1, <1>4, <2>3 DEF Submitted, MsgDone, HeldSinceRequest, Requested
  <2> QED BY <2>2, <2>4
<1>5. CASE Refused
  <2>1. (LiteIdle /\ TransHonest /\ FoundIsFree)'
    BY <1>5 DEF Refused, Error, LiteIdle, TransHonest, FoundIsFree
  <2>2. HeldSinceRequest'
    BY <1>1, <1>5 DEF Refused, Error, HeldSinceRequest, Requested
  <2> QED BY <2>1, <2>2
<1> QED BY <1>2, <1>3, <1>4, <1>5

\* A completion releases its own transaction and lets the interface go once.
LEMMA CompleteStep == ASSUME IInv, NEW x \in Trans, Complete(x) PROVE IInv'
<1> USE DEF IInv, Complete, liteVars, msgVars, logVars
<1>1. (LiteIdle /\ TransHonest /\ FoundIsFree)'
  BY DEF LiteIdle, TransHonest, FoundIsFree
<1>2. IsFiniteSet(flying) /\ Cardinality(flying) \in Nat
  BY FS_CardinalityType DEF HeldSinceRequest
<1>3. IsFiniteSet(flying') /\ Cardinality(flying') = Cardinality(flying) - 1
  BY <1>2, FS_RemoveElement
<1>4. HeldSinceRequest'
  BY <1>2, <1>3 DEF HeldSinceRequest, Requested
<1> QED BY <1>1, <1>4

LEMMA Inductive == ASSUME ~Lite PROVE IInv /\ [Next]_vars => IInv'
<1> SUFFICES ASSUME IInv, [Next]_vars PROVE IInv'
  OBVIOUS
<1> USE DEF liteVars, pmVars, logVars, msgVars
<1>1. CASE Write \/ Return
  BY <1>1, Elsewhere DEF Write, Return
<1>2. CASE CopyFault \/ Unsupported \/ TooLong
  BY <1>2, Elsewhere DEF CopyFault, Unsupported, TooLong, Appending, Error
<1>3. CASE AppendPart \/ AppendWhole
  BY <1>3, Elsewhere DEF AppendPart, AppendWhole, Appending
<1>4. CASE AutopmGet
  BY <1>4, GetHolds
<1>5. CASE Filtered \/ NoDiag
  BY <1>5, Elsewhere DEF Filtered, NoDiag, MsgDone, Error
<1>6. CASE AllocNone
  BY <1>6, Elsewhere DEF AllocNone, ToPipe, Error
<1>7. CASE AllocFind \/ AllocTake \/ Submitted \/ Refused
  BY <1>7, TransStep
<1>8. CASE LiteFind \/ LiteTake \/ LiteSubmit \/ LiteRefused
  BY <1>8 DEF LiteFind, LiteTake, LiteSubmit, LiteRefused, IInv, LiteIdle
<1>9. ASSUME NEW x \in Trans, Complete(x) PROVE IInv'
  BY <1>9, CompleteStep
<1>10. CASE UNCHANGED vars
  <2>1. (LiteIdle /\ TransHonest /\ FoundIsFree)'
    BY <1>10 DEF vars, IInv, LiteIdle, TransHonest, FoundIsFree
  <2>2. HeldSinceRequest'
    BY <1>10 DEF vars, IInv, HeldSinceRequest, Requested
  <2> QED BY <2>1, <2>2 DEF IInv
<1> QED
  BY <1>1, <1>2, <1>3, <1>4, <1>5, <1>6, <1>7, <1>8, <1>9, <1>10 DEF Next, Writer

----------------------------------------------------------------------------
(* What the runs check, for every value of the constants. *)

\* The strengthening the two theorems rest on.
THEOREM Invariance == ASSUME ~Lite PROVE Spec => []IInv
BY Initially, Inductive, PTL DEF Spec

\* btusb_alloc_tx_trans and the completions account for every transaction.
THEOREM TransAccounted == ASSUME ~Lite PROVE Spec => []TransHonest
<1>1. IInv => TransHonest
  BY DEF IInv
<1> QED BY <1>1, Invariance, PTL

\* usb_autopm_get_interface of btusb_write and the put of the completion keep the
\* interface awake while a packet is in flight.
THEOREM InterfaceHeld == ASSUME ~Lite PROVE Spec => []PmHeld
<1>1. ASSUME IInv PROVE PmHeld
  <2>1. Cardinality(flying) \in Nat /\ pm \in Int
    BY <1>1, FS_CardinalityType DEF IInv, HeldSinceRequest
  <2> QED BY <1>1, <2>1 DEF IInv, HeldSinceRequest, Requested, PmHeld
<1> QED BY <1>1, Invariance, PTL

----------------------------------------------------------------------------
(* Slices of the stream *)

StreamBytes == Nat \X Nat
Slice(a, b) == SubSeq(Stream, a + 1, b)

LEMMA SubSeqIs ==
    ASSUME NEW S, NEW s \in Seq(S), NEW a \in Nat, NEW b \in Nat, a <= b, b <= Len(s)
    PROVE  /\ SubSeq(s, a + 1, b) \in Seq(S) /\ Len(SubSeq(s, a + 1, b)) = b - a
           /\ \A j \in 1..b - a : SubSeq(s, a + 1, b)[j] = s[a + j]
<1> DEFINE t == SubSeq(s, a + 1, b)
<1>1. \A j \in a + 1..b : s[j] \in S
  BY ElementOfSeq
<1>2. a + 1 \in Int /\ b \in Int
  OBVIOUS
<1>3. /\ t \in Seq(S) /\ Len(t) = IF a + 1 <= b THEN b - (a + 1) + 1 ELSE 0
      /\ \A j \in 1..b - (a + 1) + 1 : t[j] = s[a + 1 + j - 1]
  BY <1>1, <1>2, SubSeqProperties, SMTT(20)
<1> HIDE DEF t
<1>4. \A j \in 1..b - a : t[j] = s[a + j]
  <2> SUFFICES ASSUME NEW j \in 1..b - a PROVE t[j] = s[a + j]
    OBVIOUS
  <2>1. a + 1 + j - 1 = a + j /\ j \in 1..b - (a + 1) + 1
    OBVIOUS
  <2> QED
    BY <1>3, <2>1
<1>5. Len(t) = b - a
  BY <1>3
<1> QED
  BY <1>3, <1>4, <1>5 DEF t

LEMMA SliceIs ==
    ASSUME NEW a \in Nat, NEW b \in Nat, a <= b, b <= Len(Stream)
    PROVE  /\ Slice(a, b) \in Seq(StreamBytes) /\ Len(Slice(a, b)) = b - a
           /\ \A j \in 1..b - a : Slice(a, b)[j] = Stream[a + j]
  BY SubSeqIs, StreamAssumption, SMTT(20) DEF Slice, StreamBytes

\* The rest of a slice, a slice of it, and two that are adjacent.
LEMMA SliceOfSlice ==
    ASSUME NEW a \in Nat, NEW b \in Nat, a <= b, b <= Len(Stream),
           NEW k \in Nat, NEW l \in Nat, k <= l, l <= b - a
    PROVE  SubSeq(Slice(a, b), k + 1, l) = Slice(a + k, a + l)
<1> DEFINE t == Slice(a, b)
           u == SubSeq(t, k + 1, l)
           v == Slice(a + k, a + l)
<1>1. t \in Seq(StreamBytes) /\ Len(t) = b - a /\ \A j \in 1..b - a : t[j] = Stream[a + j]
  BY SliceIs
<1>2. u \in Seq(StreamBytes) /\ Len(u) = l - k /\ \A j \in 1..l - k : u[j] = t[k + j]
  <2> HIDE DEF t
  <2> QED
    BY <1>1, SubSeqIs
<1>3. /\ v \in Seq(StreamBytes) /\ Len(v) = l - k
      /\ \A j \in 1..l - k : v[j] = Stream[(a + k) + j]
  <2>1. a + k \in Nat /\ a + l \in Nat /\ a + k <= a + l /\ a + l <= Len(Stream) /\ (a + l) - (a + k) = l - k
    BY StreamAssumption
  <2> QED
    BY <2>1, SliceIs
<1> HIDE DEF t, u, v
<1>4. \A j \in 1..l - k : u[j] = v[j]
  <2> SUFFICES ASSUME NEW j \in 1..l - k PROVE u[j] = v[j]
    OBVIOUS
  <2>1. k + j \in 1..b - a /\ a + (k + j) = (a + k) + j
    OBVIOUS
  <2> QED
    BY <1>1, <1>2, <1>3, <2>1
<1>5. u = v
  BY <1>2, <1>3, <1>4, SeqEqual
<1> QED
  BY <1>5 DEF t, u, v

LEMMA SliceStart ==
    ASSUME NEW a \in Nat, NEW b \in Nat, a <= b, b <= Len(Stream), NEW l \in Nat, l <= b - a
    PROVE  SubSeq(Slice(a, b), 1, l) = Slice(a, a + l)
<1>1. \A k \in Nat : k <= l => SubSeq(Slice(a, b), k + 1, l) = Slice(a + k, a + l)
  BY SliceOfSlice
<1>2. 0 \in Nat /\ 0 <= l
  OBVIOUS
<1>3. SubSeq(Slice(a, b), 0 + 1, l) = Slice(a + 0, a + l)
  BY <1>1, <1>2, Zenon
<1>4. 0 + 1 = 1 /\ a + 0 = a
  OBVIOUS
<1> QED
  BY <1>3, <1>4

LEMMA SliceJoin ==
    ASSUME NEW a \in Nat, NEW b \in Nat, NEW c \in Nat, a <= b, b <= c, c <= Len(Stream)
    PROVE  Slice(a, b) \o Slice(b, c) = Slice(a, c)
<1> DEFINE s == Slice(a, b)
           t == Slice(b, c)
           u == Slice(a, c)
<1>1. s \in Seq(StreamBytes) /\ Len(s) = b - a /\ \A j \in 1..b - a : s[j] = Stream[a + j]
  <2>1. Len(Stream) \in Nat
    BY LenProperties, StreamAssumption
  <2>2. b <= Len(Stream)
    BY <2>1
  <2> QED
    BY <2>2, SliceIs, Zenon
<1>2. t \in Seq(StreamBytes) /\ Len(t) = c - b /\ \A j \in 1..c - b : t[j] = Stream[b + j]
  BY SliceIs, Zenon
<1>3. u \in Seq(StreamBytes) /\ Len(u) = c - a /\ \A j \in 1..c - a : u[j] = Stream[a + j]
  <2>1. a <= c
    OBVIOUS
  <2> QED
    BY <2>1, SliceIs, Zenon
<1> HIDE DEF s, t, u
<1>4. /\ s \o t \in Seq(StreamBytes) /\ Len(s \o t) = (b - a) + (c - b)
      /\ \A j \in 1..(b - a) + (c - b) : (s \o t)[j] = IF j <= b - a THEN s[j] ELSE t[j - (b - a)]
  <2>1. /\ s \o t \in Seq(StreamBytes) /\ Len(s \o t) = Len(s) + Len(t)
        /\ \A j \in 1..Len(s) + Len(t) : (s \o t)[j] = IF j <= Len(s) THEN s[j] ELSE t[j - Len(s)]
    BY <1>1, <1>2, ConcatProperties, Zenon
  <2>2. Len(s) = b - a /\ Len(t) = c - b
    BY <1>1, <1>2
  <2> HIDE <1>1, <1>2
  <2> QED
    BY <2>1, <2>2, Zenon
<1>5. \A j \in 1..c - a : (s \o t)[j] = u[j]
  <2> SUFFICES ASSUME NEW j \in 1..c - a PROVE (s \o t)[j] = u[j]
    OBVIOUS
  <2>1. j \in 1..(b - a) + (c - b)
    OBVIOUS
  <2>2. CASE j <= b - a
    BY <1>1, <1>3, <1>4, <2>1, <2>2
  <2>3. CASE ~(j <= b - a)
    <3>1. j - (b - a) \in 1..c - b /\ b + (j - (b - a)) = a + j
      BY <2>3
    <3> QED
      BY <1>2, <1>3, <1>4, <2>1, <2>3, <3>1
  <2> QED
    BY <2>2, <2>3
<1>6. Len(s \o t) = c - a
  BY <1>4
<1>7. s \o t = u
  BY <1>3, <1>4, <1>5, <1>6, SeqEqual
<1> QED
  BY <1>7 DEF s, t, u

----------------------------------------------------------------------------
(* Packets in the stream *)

N == Len(Packets)
Size(p) == Packets[p].size

LEMMA PacketFacts ==
    /\ N \in Nat /\ DOMAIN Packets = 1..N /\ Len(Stream) \in Nat
    /\ Start[N + 1] = Len(Stream) /\ Start[1] = 0
    /\ \A p \in 1..N + 1 : Start[p] \in Nat /\ Start[p] <= Len(Stream)
    /\ \A p \in 1..N : /\ Size(p) \in Nat /\ Size(p) > 0 /\ Hdr <= Size(p)
                       /\ Packets[p].kind # "long" => Size(p) <= MaxSize
                       /\ Packets[p].kind = "long" => MaxSize < Size(p)
                       /\ Packets[p].kind \in Kinds
                       /\ Start[p + 1] = Start[p] + Size(p)
<1>1. N \in Nat /\ DOMAIN Packets = 1..N /\ Len(Stream) \in Nat
  BY LenProperties, WriteAssumption, StreamAssumption DEF N
<1>2. Start[N + 1] = Len(Stream) /\ Start[1] = 0 /\ \A p \in 1..N + 1 : Start[p] \in Nat /\ Start[p] <= Len(Stream)
  <2>1. Start[N + 1] = Len(Stream) /\ Start[1] = 0
    BY StreamAssumption, Zenon DEF N
  <2>2. \A p \in 1..N + 1 : Start[p] \in 0..Len(Stream)
    BY StreamAssumption, Zenon DEF N
  <2> QED
    BY <1>1, <2>1, <2>2
<1>3. ASSUME NEW p \in 1..N
      PROVE  /\ Size(p) \in Nat /\ Size(p) > 0 /\ Hdr <= Size(p)
             /\ Packets[p].kind # "long" => Size(p) <= MaxSize
             /\ Packets[p].kind = "long" => MaxSize < Size(p)
             /\ Packets[p].kind \in Kinds
             /\ Start[p + 1] = Start[p] + Size(p)
  <2>1. Packets[p] \in [kind : Kinds, size : Nat] /\ p \in DOMAIN Packets
    BY <1>1, ElementOfSeq, WriteAssumption DEF N
  <2>2. Size(p) \in Nat /\ Packets[p].kind \in Kinds
    BY <2>1 DEF Size
  <2>3. Start[p + 1] = Start[p] + Size(p)
    BY <2>1, StreamAssumption DEF Size
  <2>4. IF Packets[p].kind = "long" THEN Size(p) > MaxSize ELSE Size(p) \in Hdr..MaxSize
    BY <2>1, WriteAssumption DEF Size
  <2>5. Hdr \in Nat /\ MaxSize \in Nat /\ Hdr > 0 /\ Hdr <= MaxSize
    BY WriteAssumption
  <2> QED
    BY <2>2, <2>3, <2>4, <2>5
<1> QED
  BY <1>1, <1>2, <1>3

\* The k-th byte of the p-th packet.
LEMMA ByteIs ==
    ASSUME NEW p \in 1..N, NEW k \in 1..Size(p)
    PROVE  Stream[Start[p] + k] = <<p, k>>
  BY PacketFacts, StreamAssumption DEF Size

LEMMA ByteOf ==
    ASSUME NEW j \in 1..Len(Stream)
    PROVE  \E p \in 1..N : \E k \in 1..Size(p) : j = Start[p] + k /\ Stream[j] = <<p, k>>
<1>1. PICK p \in 1..N : j \in Start[p] + 1..Start[p + 1]
  <2>1. j \in DOMAIN Stream /\ DOMAIN Packets = 1..N
    BY PacketFacts, StreamAssumption
  <2> QED
    BY <2>1, StreamAssumption, Zenon
<1>2. Start[p] \in Nat /\ Size(p) \in Nat /\ Start[p + 1] = Start[p] + Size(p)
  BY PacketFacts
<1>3. j - Start[p] \in 1..Size(p) /\ j = Start[p] + (j - Start[p])
  BY <1>1, <1>2, SMTT(20)
<1>4. Stream[j] = <<p, j - Start[p]>>
  BY <1>3, ByteIs
<1> QED
  BY <1>3, <1>4

\* A whole packet is a slice.
LEMMA BytesSlice ==
    ASSUME NEW p \in 1..N
    PROVE  Slice(Start[p], Start[p] + Size(p)) = Bytes(p) /\ Start[p] + Size(p) <= Len(Stream)
<1> DEFINE a == Start[p]
           n == Size(p)
<1>1. a \in Nat /\ n \in Nat /\ a + n <= Len(Stream) /\ Len(Stream) \in Nat
  <2>1. p \in 1..N + 1 /\ p + 1 \in 1..N + 1
    BY PacketFacts
  <2>2. Start[p + 1] = a + n /\ Start[p + 1] <= Len(Stream) /\ a \in Nat /\ n \in Nat /\ Len(Stream) \in Nat
    BY <2>1, PacketFacts, Zenon
  <2> QED
    BY <2>2
<1>2. \A k \in 1..n : Stream[a + k] = <<p, k>>
  BY ByteIs
<1>3. Bytes(p) = [k \in 1..n |-> <<p, k>>]
  BY DEF Bytes, Size
<1> HIDE DEF a, n
<1> DEFINE t == Slice(a, a + n)
<1>4. t \in Seq(StreamBytes) /\ Len(t) = n /\ \A j \in 1..n : t[j] = Stream[a + j]
  <2>1. a + n \in Nat /\ a <= a + n /\ (a + n) - a = n
    BY <1>1
  <2>2. t \in Seq(StreamBytes) /\ Len(t) = (a + n) - a /\ \A j \in 1..(a + n) - a : t[j] = Stream[a + j]
    BY <1>1, <2>1, SliceIs, Zenon
  <2> HIDE DEF t
  <2> QED
    BY <2>1, <2>2
<1> HIDE DEF t
<1>5. t = [k \in 1..n |-> t[k]]
  BY <1>4
<1>6. t = [k \in 1..n |-> <<p, k>>]
  BY <1>2, <1>4, <1>5
<1> QED
  BY <1>1, <1>3, <1>6 DEF t, a, n

----------------------------------------------------------------------------
(* Gathering *)

Whole == wpc \in {"pm", "alloc", "take", "submit"}

\* The writer has gathered m bytes of packet p, and the user's buffer holds the bytes
\* that follow; a packet that is written alone is all that was written.
Gathers(p, m) ==
    LET u == Start[p] + m
    IN /\ next \in Nat /\ u <= next - 1 /\ next - 1 <= Len(Stream)
       /\ write_msg = Slice(Start[p], u) /\ user = Slice(u, next - 1)
       /\ Whole \/ m > 0 => p <= N
       /\ Whole => m = Size(p)
       /\ ~Whole /\ m > 0 => m < Size(p)
       /\ wpc = "idle" => u = next - 1
       /\ \/ \A j \in u + 1..next - 1 : ~Alone(Stream[j][1])
          \/ wpc = "append" /\ m = 0 /\ p <= N /\ next - 1 = Start[p] + Size(p)

\* No packet is thrown away without an error.
Carried ==
    \A p \in 1..N : /\ Packets[p].kind # "bad"
                    /\ Packets[p].kind = "vsc" => ~Lite
                    /\ Packets[p].kind = "diag" => DiagOut

Counted(p) == p = Len(handed) + 1 /\ \A q \in DOMAIN handed : handed[q] = Bytes(q)

PlaceInv ==
    failed = {} => \E p \in 1..N + 1, m \in Nat : Gathers(p, m) /\ (Carried => Counted(p))

LEMMA GatherFacts ==
    ASSUME NEW p \in 1..N + 1, NEW m \in Nat, Gathers(p, m)
    PROVE  /\ Start[p] \in Nat /\ next \in Nat /\ Len(Stream) \in Nat /\ N \in Nat
           /\ Start[p] + m <= next - 1 /\ next - 1 <= Len(Stream)
           /\ write_msg \in Seq(StreamBytes) /\ Len(write_msg) = m
           /\ user \in Seq(StreamBytes) /\ Len(user) = next - 1 - (Start[p] + m)
<1> DEFINE a == Start[p]
           u == a + m
           b == next - 1
<1>1. a \in Nat /\ Len(Stream) \in Nat /\ N \in Nat
  BY PacketFacts
<1>2. next \in Nat /\ u <= b /\ b <= Len(Stream) /\ write_msg = Slice(a, u) /\ user = Slice(u, b)
  BY DEF Gathers
<1>3. u \in Nat /\ b \in Nat /\ a <= u /\ u <= Len(Stream) /\ u - a = m
  BY <1>1, <1>2
<1> HIDE DEF a, u, b
<1>4. Slice(a, u) \in Seq(StreamBytes) /\ Len(Slice(a, u)) = u - a
  BY <1>1, <1>3, SliceIs, Zenon
<1>5. Slice(u, b) \in Seq(StreamBytes) /\ Len(Slice(u, b)) = b - u
  BY <1>2, <1>3, SliceIs, Zenon
<1> QED
  BY <1>1, <1>2, <1>3, <1>4, <1>5 DEF a, u, b

\* The byte that follows is the next one of the packet.
LEMMA FollowFacts ==
    ASSUME NEW p \in 1..N + 1, NEW m \in Nat, Gathers(p, m), ~Whole, NEW j, j = Start[p] + m + 1,
           j <= Len(Stream)
    PROVE  p \in 1..N /\ m < Size(p) /\ Stream[j] = <<p, m + 1>>
<1>1. /\ Start[p] \in Nat /\ N \in Nat /\ Len(Stream) \in Nat /\ Start[N + 1] = Len(Stream)
  BY PacketFacts
<1>2. (m > 0 => p <= N) /\ (m > 0 => m < Size(p))
  BY DEF Gathers
<1>3. p # N + 1
  BY <1>1, <1>2
<1>4. p \in 1..N
  BY <1>1, <1>3
<1>5. Size(p) \in Nat /\ Size(p) > 0
  BY <1>4, PacketFacts
<1>6. m < Size(p) /\ m + 1 \in 1..Size(p) /\ j = Start[p] + (m + 1)
  BY <1>1, <1>2, <1>5
<1>7. Stream[Start[p] + (m + 1)] = <<p, m + 1>>
  BY <1>4, <1>6, ByteIs, Zenon
<1> QED
  BY <1>4, <1>6, <1>7

LEMMA KindIs ==
    ASSUME NEW p \in 1..N, NEW n \in Nat, n > 0, Start[p] + n <= Len(Stream)
    PROVE  /\ Slice(Start[p], Start[p] + n)[1] = <<p, 1>>
           /\ KindOf(Slice(Start[p], Start[p] + n)) = Packets[p].kind
           /\ Len(Slice(Start[p], Start[p] + n)) = n
<1> DEFINE a == Start[p]
           b == a + n
<1>1. a \in Nat /\ Size(p) \in Nat /\ Size(p) > 0
  BY PacketFacts
<1>2. b \in Nat /\ a <= b /\ b - a = n /\ 1 \in 1..b - a /\ a + 1 = Start[p] + 1
  BY <1>1
<1>3. Stream[Start[p] + 1] = <<p, 1>>
  <2>1. 1 \in 1..Size(p)
    BY <1>1
  <2> QED
    BY <2>1, ByteIs, Zenon
<1> HIDE DEF a, b
<1>4. Len(Slice(a, b)) = b - a /\ Slice(a, b)[1] = Stream[a + 1]
  <2>1. b <= Len(Stream)
    BY DEF a, b
  <2> QED
    BY <1>1, <1>2, <2>1, SliceIs, Zenon
<1>5. Slice(a, b)[1] = <<p, 1>> /\ Len(Slice(a, b)) = n
  BY <1>2, <1>3, <1>4
<1>6. KindOf(Slice(a, b)) = Packets[p].kind
  BY <1>5 DEF KindOf
<1> QED
  BY <1>5, <1>6 DEF a, b

\* What is appended in a turn of the loop.
LEMMA MsgFacts ==
    ASSUME NEW p \in 1..N + 1, NEW m \in Nat, Gathers(p, m), Appending
    PROVE  /\ p \in 1..N /\ m < Size(p)
           /\ Appended \in Nat /\ Appended > 0 /\ Appended <= Len(user)
           /\ Appended = Len(user) \/ Appended = MaxSize - m
           /\ Msg = Slice(Start[p], Start[p] + m + Appended) /\ Len(Msg) = m + Appended
           /\ Msg[1] = <<p, 1>> /\ KindOf(Msg) = Packets[p].kind
           /\ Alone(p) => m = 0 /\ Len(user) = Size(p)
<1> DEFINE a == Start[p]
           u == a + m
           b == next - 1
<1>1. /\ a \in Nat /\ next \in Nat /\ Len(Stream) \in Nat /\ N \in Nat /\ u <= b /\ b <= Len(Stream)
      /\ write_msg \in Seq(StreamBytes) /\ Len(write_msg) = m
      /\ user \in Seq(StreamBytes) /\ Len(user) = b - u
      /\ MaxSize \in Nat /\ MaxSize > 0
  BY GatherFacts, WriteAssumption
<1>2. /\ wpc = "append" /\ ~Whole /\ user # <<>> /\ write_msg = Slice(a, u) /\ user = Slice(u, b)
  BY DEF Appending, Whole, Gathers
<1>3. Len(user) > 0 /\ u + 1 <= b
  <2>1. Len(user) # 0
    BY <1>1, <1>2, EmptySeq
  <2> QED
    BY <1>1, <2>1, SMTT(20)
<1>4. p \in 1..N /\ m < Size(p) /\ Stream[u + 1] = <<p, m + 1>>
  <2>1. u + 1 = Start[p] + m + 1 /\ u + 1 <= Len(Stream)
    BY <1>1, <1>3, SMTT(20)
  <2> QED
    BY <1>2, <2>1, FollowFacts
<1>5. Size(p) \in Nat /\ (Packets[p].kind # "long" => Size(p) <= MaxSize)
  BY <1>4, PacketFacts
<1>6. Alone(p) => m = 0 /\ b = a + Size(p)
  <2>1. u + 1 \in u + 1..b
    BY <1>1, <1>3, SMTT(20)
  <2>2. Alone(Stream[u + 1][1]) => m = 0 /\ b = a + Size(p)
    BY <2>1 DEF Gathers
  <2>3. Stream[u + 1][1] = p
    BY <1>4
  <2> QED
    BY <2>2, <2>3
<1>7. MaxSize - m > 0
  <2>1. CASE m = 0
    BY <1>1, <2>1
  <2>2. CASE m > 0
    <3>1. ~Alone(p)
      BY <1>6, <2>2
    <3>2. Size(p) <= MaxSize
      BY <1>5, <3>1 DEF Alone
    <3> QED
      BY <1>1, <1>4, <1>5, <3>2
  <2> QED
    BY <2>1, <2>2
<1> DEFINE x == Appended
<1>8. /\ x \in Nat /\ x > 0 /\ x <= Len(user) /\ (x = Len(user) \/ x = MaxSize - m)
  BY <1>1, <1>3, <1>7, SMTT(20) DEF Appended
<1> HIDE DEF x
<1>9. Msg = Slice(a, u + x)
  <2>1. Msg = Slice(a, u) \o SubSeq(Slice(u, b), 1, x)
    BY <1>2 DEF Msg, x
  <2>2. u \in Nat /\ b \in Nat /\ a <= u /\ u <= b /\ b <= Len(Stream) /\ x <= b - u
    BY <1>1, <1>8, SMTT(20)
  <2> HIDE DEF a, u, b
  <2>3. u + x \in Nat /\ u <= u + x /\ u + x <= Len(Stream)
    BY <1>1, <1>8, <2>2
  <2>4. SubSeq(Slice(u, b), 1, x) = Slice(u, u + x)
    BY <1>8, <2>2, SliceStart, Zenon
  <2>5. Slice(a, u) \o Slice(u, u + x) = Slice(a, u + x)
    BY <1>1, <2>2, <2>3, SliceJoin, Zenon
  <2> QED
    BY <2>1, <2>4, <2>5
<1>10. Msg[1] = <<p, 1>> /\ KindOf(Msg) = Packets[p].kind /\ Len(Msg) = m + x
  <2>1. m + x \in Nat /\ m + x > 0 /\ a + (m + x) <= Len(Stream) /\ a + (m + x) = u + x
    BY <1>1, <1>8, SMTT(20)
  <2>2. /\ Slice(a, a + (m + x))[1] = <<p, 1>> /\ Len(Slice(a, a + (m + x))) = m + x
        /\ KindOf(Slice(a, a + (m + x))) = Packets[p].kind
    BY <1>4, <2>1, KindIs, Zenon
  <2> QED
    BY <1>9, <2>1, <2>2
<1>11. Alone(p) => m = 0 /\ Len(user) = Size(p)
  BY <1>1, <1>4, <1>5, <1>6
<1> QED
  BY <1>4, <1>8, <1>9, <1>10, <1>11 DEF x, a, u

LEMMA InitPlace == Init => PlaceInv
<1> SUFFICES ASSUME Init PROVE PlaceInv
  OBVIOUS
<1>1. /\ N \in Nat /\ 1 \in 1..N + 1 /\ Start[1] = 0 /\ Len(Stream) \in Nat
  BY PacketFacts
<1>2. Slice(0, 0) = <<>>
  BY SubSeqEmpty DEF Slice
<1>3. Gathers(1, 0)
  BY <1>1, <1>2 DEF Init, Gathers, Whole
<1>4. Counted(1)
  BY DEF Init, Counted
<1> QED
  BY <1>1, <1>3, <1>4 DEF PlaceInv

LEMMA WritePlace == ASSUME PlaceInv, failed = {}, Write PROVE PlaceInv'
<1>1. PICK p \in 1..N + 1, m \in Nat : Gathers(p, m) /\ (Carried => Counted(p))
  BY DEF PlaceInv
<1> DEFINE a == Start[p]
           u == a + m
           b == next - 1
<1>2. /\ a \in Nat /\ next \in Nat /\ Len(Stream) \in Nat /\ N \in Nat /\ u <= b /\ b <= Len(Stream)
  BY <1>1, GatherFacts
<1>3. wpc = "idle" /\ ~Whole /\ u = b /\ wpc' = "append" /\ ~Whole'
  BY <1>1 DEF Gathers, Write, Whole
<1>4. PICK n \in Chunks : user' = SubSeq(Stream, next, next + n - 1) /\ next' = next + n
  BY DEF Write
<1>5. UNCHANGED <<write_msg, handed, failed>>
  BY DEF Write, logVars
<1> DEFINE c == next + n - 1
<1>6. n \in Nat /\ c \in Nat /\ n > 0 /\ c <= Len(Stream)
  BY <1>2, <1>4 DEF Chunks
<1>7. next' \in Nat /\ next' - 1 = c /\ u <= c /\ next = u + 1 /\ next <= c
  BY <1>2, <1>3, <1>4, <1>6
<1>8. user' = Slice(u, c)
  BY <1>4, <1>7 DEF Slice
<1>9. p \in 1..N /\ m < Size(p) /\ Stream[next] = <<p, m + 1>>
  <2>1. next = Start[p] + m + 1 /\ next <= Len(Stream)
    BY <1>2, <1>6, <1>7, SMTT(20)
  <2> QED
    BY <1>1, <1>3, <2>1, FollowFacts
<1>10. ASSUME NEW j \in u + 1..c, Alone(Stream[j][1]) PROVE m = 0 /\ c = a + Size(p)
  <2>1. j \in next..c
    BY <1>7
  <2>2. Stream[next][1] = Stream[c][1] /\ n = Packets[Stream[next][1]].size
    BY <1>4, <1>10, <2>1 DEF Chunks
  <2> HIDE DEF c
  <2>3. n = Size(p) /\ Stream[c][1] = p
    <3>1. Stream[next][1] = p
      BY <1>9
    <3> QED
      BY <2>2, <3>1 DEF Size
  <2>4. c \in 1..Len(Stream)
    BY <1>2, <1>6, <1>7, SMTT(20)
  <2>5. PICK q \in 1..N : \E k \in 1..Size(q) : c = Start[q] + k /\ Stream[c] = <<q, k>>
    BY <2>4, ByteOf
  <2>6. PICK k \in 1..Size(q) : c = Start[q] + k /\ Stream[c] = <<q, k>>
    BY <2>5
  <2>7. q = p
    BY <2>3, <2>6
  <2>8. Size(p) \in Nat
    BY <1>9, PacketFacts
  <2>9. c = a + k /\ k <= Size(p) /\ k \in Nat
    BY <2>6, <2>7, <2>8
  <2>10. c = u + n
    <3>1. u \in Nat
      BY <1>2, SMTT(20)
    <3> HIDE DEF u
    <3> QED
      BY <1>6, <1>7, <3>1 DEF c
  <2> HIDE DEF a
  <2>11. c = a + m + Size(p)
    BY <1>2, <2>3, <2>10
  <2> QED
    BY <1>2, <2>8, <2>9, <2>11, SMTT(20)
<1>11. Gathers(p, m)'
  <2> HIDE DEF c
  <2>1. write_msg' = Slice(a, u) /\ p <= N /\ a + m = u
    BY <1>1, <1>5, <1>9 DEF Gathers
  <2>2. \/ \A j \in u + 1..c : ~Alone(Stream[j][1])
        \/ m = 0 /\ c = a + Size(p)
    BY <1>10
  <2> QED
    BY <1>3, <1>6, <1>7, <1>8, <1>9, <2>1, <2>2 DEF Gathers
<1>12. Carried => Counted(p)'
  BY <1>1, <1>5 DEF Counted
<1> QED
  BY <1>1, <1>11, <1>12 DEF PlaceInv

LEMMA ReturnPlace == ASSUME PlaceInv, failed = {}, Return PROVE PlaceInv'
<1>1. PICK p \in 1..N + 1, m \in Nat : Gathers(p, m) /\ (Carried => Counted(p))
  BY DEF PlaceInv
<1>2. /\ Start[p] \in Nat /\ next \in Nat /\ Len(user) = next - 1 - (Start[p] + m)
      /\ Start[p] + m <= next - 1 /\ user \in Seq(StreamBytes)
  BY <1>1, GatherFacts
<1>3. /\ wpc = "append" /\ wpc' = "idle" /\ ~Whole /\ ~Whole' /\ user = <<>>
      /\ UNCHANGED <<next, user, write_msg, handed, failed>>
  BY DEF Return, msgVars, logVars, Whole
<1>4. Start[p] + m = next - 1
  <2>1. Len(user) = 0
    BY <1>3
  <2> QED
    BY <1>2, <2>1
<1>5. \A j \in Start[p] + m + 1..next - 1 : ~Alone(Stream[j][1])
  BY <1>2, <1>4
<1>6. Gathers(p, m)'
  BY <1>1, <1>3, <1>4, <1>5 DEF Gathers
<1>7. Carried => Counted(p)'
  BY <1>1, <1>3 DEF Counted
<1> QED
  BY <1>1, <1>6, <1>7 DEF PlaceInv

\* A step of the submission, or of another thread.
LEMMA KeptPlace ==
    ASSUME PlaceInv, failed = {}, UNCHANGED <<next, user, write_msg, handed, failed>>,
           \/ wpc' = wpc
           \/ Whole /\ Whole'
    PROVE  PlaceInv'
<1>1. PICK p \in 1..N + 1, m \in Nat : Gathers(p, m) /\ (Carried => Counted(p))
  BY DEF PlaceInv
<1>2. Gathers(p, m)'
  BY <1>1 DEF Gathers, Whole
<1>3. Carried => Counted(p)'
  BY <1>1 DEF Counted
<1> QED
  BY <1>1, <1>2, <1>3 DEF PlaceInv

\* What is submitted is the packet.
LEMMA WholeIs ==
    ASSUME NEW p \in 1..N + 1, NEW m \in Nat, Gathers(p, m), Whole
    PROVE  p \in 1..N /\ m = Size(p) /\ write_msg = Bytes(p) /\ Kind = Packets[p].kind
<1>1. N \in Nat /\ p <= N /\ m = Size(p) /\ write_msg = Slice(Start[p], Start[p] + m)
  BY PacketFacts DEF Gathers
<1>2. p \in 1..N
  BY <1>1
<1>3. write_msg = Bytes(p) /\ Start[p] + m <= Len(Stream)
  BY <1>1, <1>2, BytesSlice
<1>4. m > 0
  BY <1>1, <1>2, PacketFacts
<1>5. KindOf(write_msg) = Packets[p].kind
  BY <1>1, <1>2, <1>3, <1>4, KindIs
<1> QED
  BY <1>1, <1>2, <1>3, <1>5 DEF Kind

\* A packet is done with.
LEMMA DonePlace ==
    ASSUME PlaceInv, failed = {}, Whole, MsgDone, UNCHANGED <<next, user, failed>>,
           \/ handed' = Append(handed, write_msg)
           \/ handed' = handed /\ (\A p \in 1..N : Kind = Packets[p].kind => ~Carried)
    PROVE  PlaceInv'
<1>1. PICK p \in 1..N + 1, m \in Nat : Gathers(p, m) /\ (Carried => Counted(p))
  BY DEF PlaceInv
<1>2. p \in 1..N /\ m = Size(p) /\ write_msg = Bytes(p) /\ Kind = Packets[p].kind
  BY <1>1, WholeIs
<1>3. /\ Start[p] \in Nat /\ next \in Nat /\ Start[p] + m <= next - 1 /\ next - 1 <= Len(Stream)
      /\ N \in Nat
  BY <1>1, GatherFacts
<1>4. Start[p + 1] = Start[p] + m /\ p + 1 \in 1..N + 1
  BY <1>2, <1>3, PacketFacts
<1>5. wpc' = "append" /\ ~Whole' /\ write_msg' = <<>>
  BY DEF MsgDone, Whole
<1>6. user = Slice(Start[p] + m, next - 1) /\ \A j \in Start[p] + m + 1..next - 1 : ~Alone(Stream[j][1])
  BY <1>1 DEF Gathers, Whole
<1>7. Gathers(p + 1, 0)'
  <2> DEFINE v == Start[p] + m
  <2>1. v \in Nat /\ v + 0 = v /\ ~(0 > 0)
    BY <1>3
  <2>2. Slice(v, v) = <<>>
    BY <2>1, SubSeqEmpty DEF Slice
  <2>3. v <= next - 1 /\ user = Slice(v, next - 1) /\ \A j \in v + 1..next - 1 : ~Alone(Stream[j][1])
    BY <1>3, <1>6
  <2>4. Start[p + 1] = v
    BY <1>4
  <2> HIDE DEF v
  <2> QED
    BY <1>3, <1>5, <2>1, <2>2, <2>3, <2>4 DEF Gathers
<1>8. ASSUME Carried PROVE Counted(p + 1)'
  <2>1. handed' = Append(handed, write_msg)
    BY <1>2, <1>8
  <2>2. p = Len(handed) + 1 /\ \A q \in DOMAIN handed : handed[q] = Bytes(q)
    BY <1>1, <1>8 DEF Counted
  <2> QED
    BY <1>2, <1>8, <2>1, <2>2 DEF Counted
<1> QED
  BY <1>4, <1>7, <1>8 DEF PlaceInv

\* Arithmetic of the slices.
LEMMA PartSums ==
    ASSUME NEW a \in Nat, NEW m \in Nat, NEW x \in Nat, NEW b \in Nat, NEW u, u = a + m,
           NEW l, l = b - u, x <= l
    PROVE  /\ a + (m + x) \in Nat /\ a + (m + x) <= b /\ u + x = a + (m + x)
           /\ b - u \in Nat /\ u + (b - u) = b /\ x <= b - u
  OBVIOUS

LEMMA WholeSums ==
    ASSUME NEW a \in Nat, NEW m \in Nat, NEW x \in Nat, NEW b \in Nat, NEW u, u = a + m,
           NEW l, l = b - u, x <= l, NEW s \in Nat, m < s, s <= m + x, NEW n, n = m + x
    PROVE  /\ a + s \in Nat /\ a + s <= b /\ (u + x) - a = m + x /\ a <= u + x /\ u + x <= b
           /\ u + x \in Nat /\ s - m \in Nat /\ u + (s - m) = a + s /\ u <= a + s
           /\ b - u \in Nat /\ u + (b - u) = b /\ s - m <= b - u /\ x - (n - s) = s - m
  OBVIOUS

\* SliceOfSlice, with its hypotheses in one.
Cuts(from, to, i, j) ==
    /\ from \in Nat /\ to \in Nat /\ i \in Nat /\ j \in Nat
    /\ from <= to /\ to <= Len(Stream) /\ i <= j /\ j <= to - from

LEMMA SliceRest ==
    ASSUME NEW from, NEW to, NEW i, NEW j, Cuts(from, to, i, j)
    PROVE  SubSeq(Slice(from, to), i + 1, j) = Slice(from + i, from + j)
  BY SliceOfSlice, Zenon DEF Cuts

\* The length that PacketLen finds, once enough of the packet is there to know it.
LEMMA LengthIs ==
    ASSUME NEW p \in 1..N + 1, NEW m \in Nat, Gathers(p, m), Appending
    PROVE  /\ Packets[p].kind = "diag" => PacketLen(Msg) = Len(Msg)
           /\ Packets[p].kind # "diag" /\ Len(Msg) >= Hdr => PacketLen(Msg) = Size(p)
           /\ Packets[p].kind # "diag" /\ ~(Len(Msg) >= Hdr) => PacketLen(Msg) = MaxSize + 1
<1>1. Msg[1][1] = p /\ KindOf(Msg) = Packets[p].kind /\ Len(Msg) \in Nat /\ Hdr \in Nat
  <2>1. /\ Msg[1] = <<p, 1>> /\ KindOf(Msg) = Packets[p].kind /\ Len(Msg) = m + Appended /\ Appended \in Nat
    BY MsgFacts
  <2> QED
    BY <2>1, WriteAssumption
<1>2. Len(Msg) >= Hdr <=> ~(Len(Msg) < Hdr)
  BY <1>1
<1> QED
  BY <1>1, <1>2 DEF PacketLen, Incomplete, Size

LEMMA PartPlace == ASSUME PlaceInv, failed = {}, AppendPart PROVE PlaceInv'
<1>1. PICK p \in 1..N + 1, m \in Nat : Gathers(p, m) /\ (Carried => Counted(p))
  BY DEF PlaceInv
<1>2. Appending
  BY DEF AppendPart
<1> DEFINE a == Start[p]
           u == a + m
           b == next - 1
           x == Appended
<1>3. /\ a \in Nat /\ next \in Nat /\ Len(Stream) \in Nat /\ N \in Nat /\ u <= b /\ b <= Len(Stream)
      /\ Len(user) = b - u
  BY <1>1, GatherFacts
<1>4. /\ p \in 1..N /\ m < Size(p)
      /\ x \in Nat /\ x > 0 /\ x <= Len(user) /\ (x = Len(user) \/ x = MaxSize - m)
      /\ Msg = Slice(a, u + x) /\ Len(Msg) = m + x /\ KindOf(Msg) = Packets[p].kind
      /\ (Alone(p) => m = 0 /\ Len(user) = Size(p))
  BY <1>1, <1>2, MsgFacts
<1>5. /\ Size(p) \in Nat /\ Hdr <= Size(p) /\ Hdr \in Nat /\ MaxSize \in Nat /\ Hdr <= MaxSize
      /\ (Packets[p].kind # "long" => Size(p) <= MaxSize)
      /\ (Packets[p].kind = "long" => MaxSize < Size(p))
  BY <1>4, PacketFacts, WriteAssumption
<1>6. /\ Packets[p].kind = "diag" => PacketLen(Msg) = Len(Msg)
      /\ Packets[p].kind # "diag" /\ Len(Msg) >= Hdr => PacketLen(Msg) = Size(p)
  BY <1>1, <1>2, LengthIs
<1>7. /\ Packets[p].kind # "bad" /\ Len(Msg) < PacketLen(Msg)
      /\ (Packets[p].kind = "long" => Len(Msg) < Hdr)
      /\ write_msg' = Msg /\ user' = SubSeq(user, x + 1, Len(user)) /\ wpc = "append"
      /\ UNCHANGED <<next, wpc, handed, failed>>
  BY <1>4 DEF AppendPart, Appending, logVars
<1>8. user = Slice(u, b)
  BY <1>1 DEF Gathers
<1>0. u = a + m /\ u \in Nat /\ b \in Nat /\ u <= b /\ Len(user) = b - u
  BY <1>3, SMTT(20)
<1>17. \/ \A j \in u + 1..b : ~Alone(Stream[j][1])
       \/ m = 0 /\ b = a + Size(p)
  BY <1>1 DEF Gathers
<1> HIDE DEF x, b, u, a
<1>9. Packets[p].kind # "diag" /\ Len(Msg) < Size(p)
  <2>1. Packets[p].kind # "diag"
    BY <1>4, <1>6, <1>7
  <2> QED
    BY <1>4, <1>5, <1>6, <1>7, <2>1
<1>10. ~Alone(p)
  <2> SUFFICES ASSUME Alone(p) PROVE FALSE
    OBVIOUS
  <2>1. m = 0 /\ Len(user) = Size(p)
    BY <1>4
  <2>2. (x = Size(p) \/ x = MaxSize) /\ Len(Msg) = x
    BY <1>4, <1>5, <2>1
  <2> QED
    BY <1>4, <1>5, <1>7, <1>9, <2>1, <2>2
<1>11. \A j \in u + 1..b : ~Alone(Stream[j][1])
  <2>1. CASE \A j \in u + 1..b : ~Alone(Stream[j][1])
    BY <2>1
  <2>2. CASE m = 0 /\ b = a + Size(p)
    <3> SUFFICES ASSUME NEW j \in u + 1..b PROVE ~Alone(Stream[j][1])
      OBVIOUS
    <3>1. j - a \in 1..Size(p) /\ a + (j - a) = j
      BY <1>0, <1>3, <1>5, <2>2
    <3>2. Stream[a + (j - a)] = <<p, j - a>>
      BY <1>4, <3>1, ByteIs, Zenon DEF a
    <3> QED
      BY <1>10, <3>1, <3>2
  <2> QED
    BY <1>17, <2>1, <2>2
<1>18. PICK k \in Nat : k = m + x
  BY <1>4
<1> DEFINE v == a + k
<1>12. v \in Nat /\ v <= b /\ u + x = v /\ k \in Nat /\ k < Size(p) /\ b \in Nat
  <2>1. x <= Len(user) /\ m + x = Len(Msg) /\ a \in Nat
    BY <1>3, <1>4
  <2>2. v \in Nat /\ v <= b /\ u + x = v
    BY <1>0, <1>4, <1>18, <2>1, PartSums
  <2> QED
    BY <1>0, <1>4, <1>9, <2>1, <2>2
<1> HIDE DEF v
<1>13. write_msg' = Slice(a, v)
  BY <1>4, <1>7, <1>12
<1>14. user' = Slice(v, b)
  <2>1. u \in Nat /\ x <= b - u /\ b - u \in Nat /\ u + (b - u) = b
    <3>1. x <= Len(user) /\ a \in Nat
      BY <1>3, <1>4
    <3> QED
      BY <1>0, <1>4, <3>1, PartSums
  <2> DEFINE l == b - u
  <2>3. l \in Nat /\ x <= l /\ l <= b - u /\ u \in Nat /\ b \in Nat /\ u <= b /\ b <= Len(Stream)
    BY <1>0, <1>3, <2>1
  <2> HIDE DEF l
  <2>4. SubSeq(Slice(u, b), x + 1, l) = Slice(u + x, u + l)
    <3>1. x \in Nat
      BY <1>4
    <3>2. Cuts(u, b, x, l)
      BY <2>3, <3>1 DEF Cuts
    <3> QED
      BY <3>2, SliceRest
  <2>2. SubSeq(Slice(u, b), x + 1, b - u) = Slice(u + x, u + (b - u))
    BY <2>4 DEF l
  <2> QED
    BY <1>0, <1>7, <1>8, <1>12, <2>1, <2>2
<1>15. Gathers(p, k)'
  <2>1. \A j \in v + 1..b : ~Alone(Stream[j][1])
    <3> SUFFICES ASSUME NEW j \in v + 1..b PROVE ~Alone(Stream[j][1])
      OBVIOUS
    <3>1. j \in u + 1..b
      BY <1>0, <1>4, <1>12, SMTT(20)
    <3> QED
      BY <1>11, <3>1
  <2>2. p <= N /\ ~Whole' /\ next' = next /\ next - 1 = b /\ wpc' = "append"
    BY <1>4, <1>7 DEF Whole, b
  <2>3. Start[p] + k = v /\ Start[p] = a
    BY DEF v, a
  <2>4. b <= Len(Stream) /\ next' \in Nat
    BY <1>3, <1>7
  <2> QED
    <3>1. (~Whole /\ k > 0 => k < Size(p))'
      BY <1>12
    <3>2. (\A j \in Start[p] + k + 1..next - 1 : ~Alone(Stream[j][1]))'
      BY <2>1, <2>2, <2>3
    <3>3. (/\ next \in Nat /\ Start[p] + k <= next - 1 /\ next - 1 <= Len(Stream)
           /\ write_msg = Slice(Start[p], Start[p] + k) /\ user = Slice(Start[p] + k, next - 1))'
      BY <1>12, <1>13, <1>14, <2>2, <2>3, <2>4
    <3>4. (wpc # "idle" /\ ~Whole)'
      BY <2>2
    <3> QED
      BY <2>2, <3>1, <3>2, <3>3, <3>4, Zenon DEF Gathers
<1>16. Carried => Counted(p)'
  BY <1>1, <1>7 DEF Counted
<1> QED
  BY <1>1, <1>7, <1>12, <1>15, <1>16 DEF PlaceInv

LEMMA WholePlace == ASSUME PlaceInv, failed = {}, AppendWhole PROVE PlaceInv'
<1>1. PICK p \in 1..N + 1, m \in Nat : Gathers(p, m) /\ (Carried => Counted(p))
  BY DEF PlaceInv
<1>2. Appending
  BY DEF AppendWhole
<1> DEFINE a == Start[p]
           u == a + m
           b == next - 1
           x == Appended
           s == Size(p)
<1>3. /\ a \in Nat /\ next \in Nat /\ Len(Stream) \in Nat /\ N \in Nat /\ u <= b /\ b <= Len(Stream)
      /\ Len(user) = b - u
  BY <1>1, GatherFacts
<1>4. /\ p \in 1..N /\ m < s
      /\ x \in Nat /\ x > 0 /\ x <= Len(user) /\ (x = Len(user) \/ x = MaxSize - m)
      /\ Msg = Slice(a, u + x) /\ Len(Msg) = m + x /\ KindOf(Msg) = Packets[p].kind
      /\ (Alone(p) => m = 0 /\ Len(user) = s)
  BY <1>1, <1>2, MsgFacts
<1>5. /\ s \in Nat /\ Hdr <= s /\ Hdr \in Nat /\ MaxSize \in Nat /\ Hdr <= MaxSize
      /\ (Packets[p].kind # "long" => s <= MaxSize)
  BY <1>4, PacketFacts, WriteAssumption
<1>6. /\ Packets[p].kind = "diag" => PacketLen(Msg) = Len(Msg)
      /\ Packets[p].kind # "diag" /\ Len(Msg) >= Hdr => PacketLen(Msg) = s
      /\ Packets[p].kind # "diag" /\ ~(Len(Msg) >= Hdr) => PacketLen(Msg) = MaxSize + 1
  BY <1>1, <1>2, LengthIs
<1>7. /\ Packets[p].kind \notin {"bad", "long"} /\ Len(Msg) >= PacketLen(Msg)
      /\ write_msg' = SubSeq(Msg, 1, PacketLen(Msg))
      /\ user' = SubSeq(user, (x - (Len(Msg) - PacketLen(Msg))) + 1, Len(user))
      /\ wpc' = "pm" /\ UNCHANGED <<next, handed, failed>>
  BY <1>4 DEF AppendWhole, logVars
<1>8. user = Slice(u, b)
  BY <1>1 DEF Gathers
<1>0. u = a + m /\ u \in Nat /\ b \in Nat /\ u <= b /\ Len(user) = b - u
  BY <1>3
<1>16. (\A j \in u + 1..b : ~Alone(Stream[j][1])) \/ b = a + s
  BY <1>1 DEF Gathers
<1> HIDE DEF x, b, s, u, a
<1>9. PacketLen(Msg) = s /\ s <= m + x
  <2>1. CASE Packets[p].kind = "diag"
    <3>1. Alone(p)
      BY <2>1 DEF Alone
    <3>2. m = 0 /\ x = s
      BY <1>4, <1>5, <2>1, <3>1
    <3> QED
      BY <1>4, <1>5, <1>6, <2>1, <3>2
  <2>2. CASE Packets[p].kind # "diag"
    <3>1. Len(Msg) >= Hdr
      <4> SUFFICES ASSUME ~(Len(Msg) >= Hdr) PROVE FALSE
        OBVIOUS
      <4>1. PacketLen(Msg) = MaxSize + 1 /\ Len(Msg) >= MaxSize + 1
        BY <1>6, <1>7, <2>2
      <4> QED
        BY <1>4, <1>5, <4>1
    <3> QED
      BY <1>4, <1>6, <1>7, <2>2, <3>1
  <2> QED
    BY <2>1, <2>2
<1> DEFINE v == a + s
<1>10. /\ v \in Nat /\ v <= b /\ u + x \in Nat /\ u + x <= Len(Stream)
       /\ (u + x) - a = m + x /\ a <= u + x
       /\ s - m \in Nat /\ u + (s - m) = v /\ b - u \in Nat /\ u + (b - u) = b /\ s - m <= b - u
       /\ x - (Len(Msg) - s) = s - m /\ u <= v
  <2>1. x <= Len(user) /\ a \in Nat /\ s \in Nat /\ s <= m + x /\ Len(Msg) = m + x /\ m < s /\ x \in Nat
    BY <1>3, <1>4, <1>5, <1>9
  <2>2. u + x <= b
    BY <1>0, <2>1, WholeSums
  <2>3. /\ v \in Nat /\ v <= b /\ u + x \in Nat /\ (u + x) - a = m + x /\ a <= u + x
        /\ s - m \in Nat /\ u + (s - m) = v /\ b - u \in Nat /\ u + (b - u) = b /\ s - m <= b - u
        /\ x - (Len(Msg) - s) = s - m /\ u <= v
    BY <1>0, <2>1, WholeSums
  <2>4. u + x <= Len(Stream)
    BY <1>0, <1>3, <2>2, <2>3
  <2> QED
    BY <2>3, <2>4
<1> HIDE DEF v
<1>11. write_msg' = Slice(a, v)
  <2> DEFINE e == u + x
  <2>1. e \in Nat /\ a <= e /\ e <= Len(Stream) /\ s <= e - a
    BY <1>9, <1>10
  <2>2. Msg = Slice(a, e)
    BY <1>4
  <2> HIDE DEF e
  <2>3. SubSeq(Slice(a, e), 1, s) = Slice(a, a + s)
    BY <1>3, <1>5, <2>1, SliceStart, Zenon
  <2>4. a + s = v
    BY DEF v
  <2> QED
    BY <1>7, <1>9, <2>2, <2>3, <2>4
<1>12. user' = Slice(v, b)
  <2> DEFINE k == s - m
             l == b - u
  <2>1. k \in Nat /\ l \in Nat /\ k <= l /\ l <= b - u /\ u + k = v /\ u + l = b
    BY <1>10
  <2>2. user' = SubSeq(Slice(u, b), k + 1, l)
    BY <1>0, <1>7, <1>8, <1>9, <1>10
  <2> HIDE DEF k, l
  <2>3. SubSeq(Slice(u, b), k + 1, l) = Slice(u + k, u + l)
    <3>1. b <= Len(Stream) /\ u <= b
      BY <1>0, <1>3
    <3> QED
      <4>1. u \in Nat /\ b \in Nat
        BY <1>0
      <4>2. Cuts(u, b, k, l)
        BY <2>1, <3>1, <4>1 DEF Cuts
      <4> QED
        BY <4>2, SliceRest
  <2> QED
    BY <2>1, <2>2, <2>3
<1>13. Gathers(p, s)'
  <2>1. \A j \in v + 1..b : ~Alone(Stream[j][1])
    <3> SUFFICES ASSUME NEW j \in v + 1..b PROVE ~Alone(Stream[j][1])
      OBVIOUS
    <3>1. CASE \A k \in u + 1..b : ~Alone(Stream[k][1])
      <4>1. j \in u + 1..b
        BY <1>0, <1>10, SMTT(20)
      <4> QED
        BY <3>1, <4>1
    <3>2. CASE b = a + s
      BY <1>10, <3>2 DEF v
    <3> QED
      BY <1>16, <3>1, <3>2
  <2>2. p <= N /\ Whole' /\ next' = next /\ next - 1 = b /\ wpc' = "pm" /\ s = Size(p)
    BY <1>4, <1>7 DEF Whole, b, s
  <2>3. Start[p] + s = v /\ Start[p] = a
    BY DEF v, a
  <2>4. b <= Len(Stream) /\ next' \in Nat
    BY <1>3, <1>7
  <2> QED
    BY <1>5, <1>10, <1>11, <1>12, <2>1, <2>2, <2>3, <2>4 DEF Gathers
<1>14. Carried => Counted(p)'
  BY <1>1, <1>7 DEF Counted
<1> QED
  BY <1>1, <1>5, <1>7, <1>13, <1>14 DEF PlaceInv

LEMMA UnsupportedPlace == ASSUME PlaceInv, failed = {}, Unsupported PROVE PlaceInv'
<1>1. PICK p \in 1..N + 1, m \in Nat : Gathers(p, m) /\ (Carried => Counted(p))
  BY DEF PlaceInv
<1>2. /\ Appending /\ KindOf(Msg) = "bad" /\ write_msg' = <<>> /\ user' = <<>> /\ wpc' = "idle" /\ ~Whole'
      /\ UNCHANGED <<next, handed, failed>>
  BY DEF Unsupported, logVars, Whole
<1>3. p \in 1..N /\ Packets[p].kind = "bad" /\ (Alone(p) => m = 0 /\ Len(user) = Size(p))
  BY <1>1, <1>2, MsgFacts
<1>4. m = 0 /\ Len(user) = Size(p)
  BY <1>3 DEF Alone
<1>5. /\ Start[p] \in Nat /\ next \in Nat /\ Len(Stream) \in Nat /\ N \in Nat
      /\ next - 1 <= Len(Stream) /\ Len(user) = next - 1 - (Start[p] + m)
  BY <1>1, GatherFacts
<1>6. Start[p + 1] = Start[p] + Size(p) /\ Size(p) \in Nat /\ p + 1 \in 1..N + 1
  BY <1>3, <1>5, PacketFacts
<1> DEFINE v == next - 1
<1>7. Start[p + 1] = v /\ v \in Nat /\ v + 0 = v
  <2> DEFINE l == Len(user)
             a == Start[p]
  <2>1. l = Size(p) /\ l = v - (a + m) /\ v \in Int /\ m = 0
    BY <1>4, <1>5
  <2>2. Start[p + 1] = a + Size(p) /\ a \in Nat /\ Size(p) \in Nat
    BY <1>5, <1>6
  <2> HIDE DEF l, a, v
  <2>3. v = a + Size(p)
    BY <2>1, <2>2
  <2> QED
    BY <2>2, <2>3
<1>8. Slice(v, v) = <<>>
  BY <1>7, SubSeqEmpty DEF Slice
<1>9. Gathers(p + 1, 0)'
  <2>1. next' - 1 = v /\ ~(0 > 0) /\ v <= Len(Stream) /\ next' \in Nat /\ \A j \in v + 1..v : FALSE
    BY <1>2, <1>5, <1>7
  <2> HIDE DEF v
  <2> QED
    BY <1>2, <1>7, <1>8, <2>1 DEF Gathers
<1>10. ~Carried
  BY <1>3 DEF Carried
<1> QED
  BY <1>6, <1>9, <1>10 DEF PlaceInv

LEMMA OtherPlace ==
    ASSUME PlaceInv, failed = {},
           AutopmGet \/ AllocFind \/ AllocTake \/ LiteFind \/ LiteTake \/ LiteSubmit \/ LiteRefused
             \/ (\E x \in Trans : Complete(x)) \/ UNCHANGED vars
    PROVE  PlaceInv'
<1>1. UNCHANGED <<next, user, write_msg, handed, failed>>
  BY DEF AutopmGet, AllocFind, AllocTake, LiteFind, LiteTake, LiteSubmit, LiteRefused, Complete, vars,
         msgVars, logVars
<1>2. \/ wpc' = wpc
      \/ Whole /\ Whole'
  BY DEF AutopmGet, AllocFind, AllocTake, LiteFind, LiteTake, LiteSubmit, LiteRefused, Complete, vars,
         ToPipe, Whole
<1> QED
  BY <1>1, <1>2, KeptPlace

LEMMA HandPlace == ASSUME PlaceInv, failed = {}, Submitted PROVE PlaceInv'
<1>1. Whole /\ MsgDone /\ handed' = Append(handed, write_msg) /\ UNCHANGED <<next, user, failed>>
  BY DEF Submitted, Whole
<1> QED
  BY <1>1, DonePlace

\* A packet that is thrown away without an error.
LEMMA DroppedPlace ==
    ASSUME PlaceInv, failed = {}, failed' = {}, Filtered \/ NoDiag
    PROVE  PlaceInv'
<1>1. Whole /\ MsgDone /\ handed' = handed /\ UNCHANGED <<next, user, failed>>
  BY DEF Filtered, NoDiag, Error, Whole, logVars
<1>2. \A p \in 1..N : Kind = Packets[p].kind => ~Carried
  <2>1. \/ Lite /\ Kind = "vsc"
        \/ Kind = "diag" /\ ~DiagOut
    BY DEF Filtered, NoDiag
  <2> HIDE DEF Kind
  <2> QED
    BY <2>1 DEF Carried
<1> QED
  BY <1>1, <1>2, DonePlace

LEMMA FailedGrows == [Next]_vars => failed \subseteq failed'
<1> SUFFICES ASSUME [Next]_vars PROVE failed \subseteq failed'
  OBVIOUS
<1> USE DEF Error, logVars, vars
<1>1. CASE Write
  BY <1>1 DEF Write
<1>2. CASE Return \/ CopyFault \/ Unsupported \/ TooLong \/ AppendPart \/ AppendWhole
  BY <1>2 DEF Return, CopyFault, Unsupported, TooLong, AppendPart, AppendWhole
<1>3. CASE AutopmGet \/ Filtered \/ NoDiag \/ AllocFind \/ AllocNone \/ AllocTake \/ Submitted \/ Refused
  BY <1>3 DEF AutopmGet, Filtered, NoDiag, AllocFind, AllocNone, AllocTake, Submitted, Refused
<1>4. CASE LiteFind \/ LiteTake \/ LiteSubmit \/ LiteRefused \/ \E x \in Trans : Complete(x)
  BY <1>4 DEF LiteFind, LiteTake, LiteSubmit, LiteRefused, Complete
<1>5. CASE UNCHANGED vars
  BY <1>5
<1> QED
  BY <1>1, <1>2, <1>3, <1>4, <1>5 DEF Next, Writer

LEMMA NextPlace == PlaceInv /\ [Next]_vars => PlaceInv'
<1> SUFFICES ASSUME PlaceInv, [Next]_vars, failed' = {} PROVE PlaceInv'
  BY DEF PlaceInv
<1>0. failed = {}
  BY FailedGrows
<1>1. CASE Write
  BY <1>0, <1>1, WritePlace
<1>2. CASE Return
  BY <1>0, <1>2, ReturnPlace
<1>3. CASE AppendPart
  BY <1>0, <1>3, PartPlace
<1>4. CASE AppendWhole
  BY <1>0, <1>4, WholePlace
<1>5. CASE Unsupported
  BY <1>0, <1>5, UnsupportedPlace
<1>6. CASE Submitted
  BY <1>0, <1>6, HandPlace
<1>7. CASE Filtered \/ NoDiag
  BY <1>0, <1>7, DroppedPlace
<1>8. CASE CopyFault \/ TooLong \/ AllocNone \/ Refused
  <2>1. failed' # {}
    BY <1>8 DEF CopyFault, TooLong, AllocNone, Refused, Error
  <2> QED
    BY <2>1
<1>9. CASE \/ AutopmGet \/ AllocFind \/ AllocTake \/ LiteFind \/ LiteTake \/ LiteSubmit \/ LiteRefused
           \/ (\E x \in Trans : Complete(x)) \/ UNCHANGED vars
  BY <1>0, <1>9, OtherPlace
<1> QED
  BY <1>1, <1>2, <1>3, <1>4, <1>5, <1>6, <1>7, <1>8, <1>9 DEF Next, Writer

\* The place of the writer in the stream, and of each packet submitted, gives the bytes.
LEMMA PlaceKept == ASSUME Carried, PlaceInv PROVE StreamKept
<1> SUFFICES ASSUME failed = {}
             PROVE  /\ Len(handed) <= Len(Packets)
                    /\ \A p \in DOMAIN handed : handed[p] = Bytes(p)
                    /\ write_msg \o user = SubSeq(Stream, Start[Len(handed) + 1] + 1, next - 1)
  BY DEF StreamKept
<1>1. PICK p \in 1..N + 1, m \in Nat : Gathers(p, m) /\ Counted(p)
  BY DEF PlaceInv
<1>2. p = Len(handed) + 1 /\ \A q \in DOMAIN handed : handed[q] = Bytes(q)
  BY <1>1 DEF Counted
<1> DEFINE a == Start[p]
           u == a + m
           b == next - 1
<1>3. a \in Nat /\ next \in Nat /\ Len(Stream) \in Nat /\ N \in Nat /\ u <= b /\ b <= Len(Stream)
  BY <1>1, GatherFacts
<1>4. u \in Nat /\ b \in Nat /\ a <= u
  BY <1>3
<1>5. write_msg = Slice(a, u) /\ user = Slice(u, b)
  BY <1>1 DEF Gathers
<1> HIDE DEF a, u, b
<1>6. Slice(a, u) \o Slice(u, b) = Slice(a, b)
  BY <1>3, <1>4, SliceJoin, Zenon
<1>7. write_msg \o user = SubSeq(Stream, Start[p] + 1, next - 1)
  BY <1>5, <1>6 DEF Slice, a, b
<1>8. Len(handed) <= N
  BY <1>2, <1>3
<1> QED
  BY <1>2, <1>7, <1>8 DEF N

\* The packets reach the controller as they were written, for every stream, every way
\* of cutting it and every interleaving with the lite thread and the completions,
\* when no packet is of a kind that the driver drops without an error.
THEOREM StreamIsKept == ASSUME Carried PROVE Spec => []StreamKept
<1>1. Spec => []PlaceInv
  BY InitPlace, NextPlace, PTL DEF Spec
<1>2. PlaceInv => StreamKept
  BY PlaceKept
<1> QED
  BY <1>1, <1>2, PTL

----------------------------------------------------------------------------
(* Whole packets, whatever fails *)

\* An application that writes its packets one by one leaves no packet whose length the
\* driver does not know.
Settled == Split \/ ~DiagOut \/ \A p \in 1..N : Packets[p].kind # "diag"

NextInv == next \in Nat /\ next > 0 /\ next - 1 <= Len(Stream)
UserWhole == user = <<>> \/ \E p \in 1..N : user = Bytes(p)

\* The packet in write_msg, which may be left over from a call that failed.
Kept(p) ==
    /\ write_msg = Bytes(p) /\ Packets[p].kind \in {"cmd", "vsc", "acl", "diag"}
    /\ Packets[p].kind = "diag" => wpc \in {"pm", "alloc"}
MsgWhole ==
    \/ ~Whole /\ write_msg = <<>>
    \/ \E p \in 1..N : Kept(p)

HandedWhole == \A j \in DOMAIN handed : \E p \in 1..N : handed[j] = Bytes(p)

\* An application that splits packets stops when one fails.
Stopped == failed # {} => wpc = "idle"

WholeInv ==
    /\ PlaceInv /\ NextInv /\ HandedWhole
    /\ IF Split THEN Stopped ELSE UserWhole /\ MsgWhole

LEMMA BytesIs ==
    ASSUME NEW p \in 1..N
    PROVE  /\ Bytes(p) \in Seq(Nat \X Nat) /\ Len(Bytes(p)) = Size(p) /\ Size(p) \in Nat /\ Size(p) > 0
           /\ Bytes(p)[1] = <<p, 1>> /\ KindOf(Bytes(p)) = Packets[p].kind /\ Bytes(p) # <<>>
<1>1. N \in Nat /\ Size(p) \in Nat /\ Size(p) > 0 /\ p \in Nat
  BY PacketFacts
<1>2. Bytes(p) = [k \in 1..Size(p) |-> <<p, k>>]
  BY DEF Bytes, Size
<1> DEFINE a == Start[p]
           n == Size(p)
<1>5. Bytes(p) = Slice(a, a + n) /\ a \in Nat /\ a + n <= Len(Stream)
  BY <1>1, BytesSlice, PacketFacts
<1>6. n \in Nat /\ a + n \in Nat /\ a <= a + n /\ (a + n) - a = n
  BY <1>1, <1>5
<1> HIDE DEF a, n
<1> DEFINE b == a + n
<1>7. b \in Nat /\ a <= b /\ b <= Len(Stream) /\ b - a = n /\ Bytes(p) = Slice(a, b)
  BY <1>5, <1>6
<1> HIDE DEF b
<1>8. Bytes(p) \in Seq(Nat \X Nat) /\ Len(Bytes(p)) = n
  BY <1>5, <1>7, SliceIs DEF StreamBytes
<1>9. Bytes(p)[1] = <<p, 1>>
  BY <1>1, <1>2
<1>3. Bytes(p) \in Seq(Nat \X Nat) /\ Len(Bytes(p)) = Size(p) /\ Bytes(p)[1] = <<p, 1>>
  BY <1>8, <1>9 DEF n
<1>4. KindOf(Bytes(p)) = Packets[p].kind
  BY <1>3 DEF KindOf
<1> QED
  BY <1>1, <1>3, <1>4

LEMMA PrefixIs ==
    ASSUME NEW S, NEW s \in Seq(S), NEW n \in Nat, n <= Len(s)
    PROVE  /\ SubSeq(s, 1, n) \in Seq(S) /\ Len(SubSeq(s, 1, n)) = n
           /\ \A j \in 1..n : SubSeq(s, 1, n)[j] = s[j]
<1> DEFINE t == SubSeq(s, 1, n)
<1>1. \A j \in 1..n : s[j] \in S
  BY ElementOfSeq
<1>2. 1 \in Int /\ n \in Int
  OBVIOUS
<1>3. /\ t \in Seq(S) /\ Len(t) = IF 1 <= n THEN n - 1 + 1 ELSE 0
      /\ \A j \in 1..n - 1 + 1 : t[j] = s[1 + j - 1]
  BY <1>1, <1>2, SubSeqProperties
<1> HIDE DEF t
<1>4. \A j \in 1..n : t[j] = s[j]
  <2> SUFFICES ASSUME NEW j \in 1..n PROVE t[j] = s[j]
    OBVIOUS
  <2>1. 1 + j - 1 = j /\ j \in 1..n - 1 + 1
    OBVIOUS
  <2> QED
    BY <1>3, <2>1
<1>5. Len(t) = n
  BY <1>3
<1> QED
  BY <1>3, <1>4, <1>5 DEF t

\* A chunk of an application that writes its packets one by one.
LEMMA ChunkWhole ==
    ASSUME ~Split, NextInv, NEW n \in Chunks
    PROVE  /\ \E p \in 1..N : SubSeq(Stream, next, next + n - 1) = Bytes(p)
           /\ n \in Nat /\ next + n - 1 <= Len(Stream)
<1> DEFINE c == next + n - 1
<1>1. n \in Nat /\ n > 0 /\ c <= Len(Stream) /\ c \in Nat /\ next \in Nat /\ next > 0 /\ next <= c
      /\ Len(Stream) \in Nat
  BY PacketFacts DEF Chunks, NextInv
<1>2. Stream[next][1] = Stream[c][1] /\ n = Packets[Stream[next][1]].size
  <2>1. \A j \in next..c : Alone(Stream[j][1]) =>
           Stream[next][1] = Stream[c][1] /\ n = Packets[Stream[next][1]].size
    BY DEF Chunks
  <2>2. next \in next..c
    BY <1>1
  <2> QED
    BY <2>1, <2>2 DEF Alone
<1>3. PICK p \in 1..N : \E k \in 1..Size(p) : next = Start[p] + k /\ Stream[next] = <<p, k>>
  <2>1. next \in 1..Len(Stream)
    BY <1>1
  <2> QED
    BY <2>1, ByteOf
<1>4. PICK k \in 1..Size(p) : next = Start[p] + k /\ Stream[next] = <<p, k>>
  BY <1>3
<1>5. PICK q \in 1..N : \E l \in 1..Size(q) : c = Start[q] + l /\ Stream[c] = <<q, l>>
  <2>1. c \in 1..Len(Stream)
    BY <1>1
  <2> HIDE DEF c
  <2> QED
    BY <2>1, ByteOf
<1>6. PICK l \in 1..Size(q) : c = Start[q] + l /\ Stream[c] = <<q, l>>
  BY <1>5
<1> HIDE DEF c
<1>7. q = p /\ n = Size(p)
  BY <1>2, <1>4, <1>6 DEF Size
<1>8. Start[p] \in Nat /\ Size(p) \in Nat
  BY PacketFacts, SMTT(20)
<1>9. next = Start[p] + 1 /\ c = Start[p] + Size(p)
  <2>1. c = next + n - 1
    BY DEF c
  <2>2. c = Start[p] + l /\ l <= Size(p) /\ l \in Nat /\ k \in Nat /\ k >= 1 /\ next = Start[p] + k
    BY <1>4, <1>6, <1>7, <1>8
  <2> DEFINE a == Start[p]
             s == Size(p)
  <2>3. a \in Nat /\ s \in Nat /\ c = a + l /\ l <= s /\ l \in Nat /\ k \in Nat /\ k >= 1 /\ next = a + k /\ n = s
    BY <1>7, <1>8, <2>2
  <2> HIDE DEF a, s
  <2>4. k = 1 /\ l = s
    <3>1. a + l = a + k + s - 1
      BY <2>1, <2>3
    <3> HIDE <1>4, <1>6
    <3> QED
      BY <2>3, <3>1
  <2> QED
    BY <2>3, <2>4 DEF a, s
<1>10. SubSeq(Stream, next, c) = Bytes(p)
  BY <1>9, BytesSlice DEF Slice
<1> QED
  BY <1>1, <1>10 DEF c

\* What is appended, with nothing left over.
LEMMA FreshMsg ==
    ASSUME Appending, NEW p \in 1..N, user = Bytes(p), write_msg = <<>>
    PROVE  /\ KindOf(Msg) = Packets[p].kind /\ Msg[1] = <<p, 1>>
           /\ Appended = Len(Msg) /\ Len(Msg) \in Nat
           /\ IF Packets[p].kind = "long" THEN Len(Msg) >= Hdr ELSE Len(Msg) = Size(p) /\ Msg = Bytes(p)
<1>1. /\ Bytes(p) \in Seq(Nat \X Nat) /\ Len(Bytes(p)) = Size(p) /\ Size(p) \in Nat /\ Size(p) > 0
      /\ Bytes(p)[1] = <<p, 1>>
  BY BytesIs
<1>2. /\ MaxSize \in Nat /\ Hdr \in Nat /\ Hdr <= MaxSize /\ MaxSize > 0
      /\ Packets[p].kind # "long" => Size(p) <= MaxSize
      /\ Packets[p].kind = "long" => MaxSize < Size(p)
  BY PacketFacts, WriteAssumption
<1> DEFINE x == Appended
<1>3. x = (IF Size(p) < MaxSize THEN Size(p) ELSE MaxSize)
  BY <1>1, <1>2 DEF Appended
<1>4. Msg = <<>> \o SubSeq(Bytes(p), 1, x)
  BY DEF Msg
<1> HIDE DEF x
<1>5. x \in Nat /\ x > 0 /\ x <= Len(Bytes(p))
  BY <1>1, <1>2, <1>3
<1> DEFINE t == SubSeq(Bytes(p), 1, x)
<1>6. t \in Seq(Nat \X Nat) /\ Len(t) = x /\ t[1] = Bytes(p)[1]
  BY <1>1, <1>5, SMTT(20)
<1>7. Packets[p].kind # "long" => t = Bytes(p)
  <2>1. Packets[p].kind # "long" => x = Size(p)
    BY <1>1, <1>2, <1>3
  <2>2. SubSeq(Bytes(p), 1, Len(Bytes(p))) = Bytes(p)
    BY <1>1, SubSeqFull
  <2> QED
    BY <1>1, <2>1, <2>2
<1>8. <<>> \o t = t
  <2> HIDE DEF t
  <2> QED
    BY <1>6, ConcatEmptySeq
<1>9. Msg = t
  BY <1>4, <1>8
<1> HIDE DEF t
<1>10. Msg[1] = <<p, 1>> /\ KindOf(Msg) = Packets[p].kind
  BY <1>1, <1>6, <1>9 DEF KindOf
<1>11. x = Len(Msg) /\ Len(Msg) \in Nat
  BY <1>5, <1>6, <1>9
<1>12. IF Packets[p].kind = "long" THEN Len(Msg) >= Hdr ELSE Len(Msg) = Size(p) /\ Msg = Bytes(p)
  BY <1>1, <1>2, <1>3, <1>7, <1>9, <1>11, SMTT(20)
<1> QED
  BY <1>10, <1>11, <1>12 DEF x

\* ... and behind a packet that is left over.
LEMMA LeftMsg ==
    ASSUME Appending, NEW p \in 1..N, user = Bytes(p), NEW q \in 1..N, Kept(q)
    PROVE  /\ KindOf(Msg) = Packets[q].kind /\ Packets[q].kind \in {"cmd", "vsc", "acl"}
           /\ Msg[1] = <<q, 1>> /\ Len(Msg) = Size(q) + Appended /\ Appended \in Nat
           /\ SubSeq(Msg, 1, Size(q)) = Bytes(q)
<1>1. /\ Bytes(p) \in Seq(Nat \X Nat) /\ Len(Bytes(p)) = Size(p) /\ Size(p) \in Nat /\ Size(p) > 0
  BY BytesIs
<1>2. /\ Bytes(q) \in Seq(Nat \X Nat) /\ Len(Bytes(q)) = Size(q) /\ Size(q) \in Nat /\ Size(q) > 0
      /\ Bytes(q)[1] = <<q, 1>>
  BY BytesIs
<1>3. Packets[q].kind \in {"cmd", "vsc", "acl"} /\ write_msg = Bytes(q)
  BY DEF Kept, Appending
<1>4. MaxSize \in Nat /\ Size(q) <= MaxSize
  BY <1>3, PacketFacts, WriteAssumption
<1> DEFINE x == Appended
<1>5. x = IF Size(p) < MaxSize - Size(q) THEN Size(p) ELSE MaxSize - Size(q)
  BY <1>1, <1>2, <1>3 DEF Appended
<1> DEFINE t == SubSeq(Bytes(p), 1, x)
<1>6. Msg = Bytes(q) \o t
  BY <1>3 DEF Msg
<1> HIDE DEF x
<1>7. x \in Nat /\ x <= Len(Bytes(p))
  BY <1>1, <1>2, <1>4, <1>5, SMTT(20)
<1>8. t \in Seq(Nat \X Nat) /\ Len(t) = x
  BY <1>1, <1>7, SMTT(20)
<1> HIDE DEF t
<1>9. /\ Bytes(q) \o t \in Seq(Nat \X Nat) /\ Len(Bytes(q) \o t) = Size(q) + x
      /\ \A j \in 1..Size(q) : (Bytes(q) \o t)[j] = Bytes(q)[j]
  <2> DEFINE w == Bytes(q)
             n == Size(q)
  <2>1. w \in Seq(Nat \X Nat) /\ Len(w) = n /\ n \in Nat
    BY <1>2
  <2> HIDE DEF w, n
  <2>2. /\ w \o t \in Seq(Nat \X Nat) /\ Len(w \o t) = Len(w) + Len(t)
        /\ \A j \in 1..Len(w) + Len(t) : (w \o t)[j] = IF j <= Len(w) THEN w[j] ELSE t[j - Len(w)]
    BY <1>8, <2>1, ConcatProperties, Zenon
  <2>3. Len(w \o t) = n + x /\ \A j \in 1..n : (w \o t)[j] = w[j]
    BY <1>7, <1>8, <2>1, <2>2
  <2> QED
    BY <2>2, <2>3 DEF w, n
<1>10. Msg[1] = <<q, 1>> /\ KindOf(Msg) = Packets[q].kind /\ Len(Msg) = Size(q) + x
  BY <1>2, <1>6, <1>9 DEF KindOf
<1>11. SubSeq(Msg, 1, Size(q)) = Bytes(q)
  <2> DEFINE m == Bytes(q) \o t
             v == SubSeq(m, 1, Size(q))
             w == Bytes(q)
             n == Size(q)
  <2>1. /\ m \in Seq(Nat \X Nat) /\ Len(m) = n + x /\ n \in Nat /\ w \in Seq(Nat \X Nat) /\ Len(w) = n
        /\ \A j \in 1..n : m[j] = w[j]
    BY <1>2, <1>9
  <2> HIDE DEF m, w, n
  <2>2. SubSeq(m, 1, n) \in Seq(Nat \X Nat) /\ Len(SubSeq(m, 1, n)) = n /\ \A j \in 1..n : SubSeq(m, 1, n)[j] = m[j]
    <3>1. n <= Len(m)
      BY <1>7, <2>1
    <3> QED
      BY <2>1, <3>1, PrefixIs
  <2> DEFINE s == SubSeq(m, 1, n)
  <2> HIDE DEF s
  <2>3. s = w
    <3>1. s \in Seq(Nat \X Nat) /\ Len(s) = Len(w) /\ \A j \in 1..Len(w) : s[j] = w[j]
      BY <2>1, <2>2 DEF s
    <3> QED
      BY <2>1, <3>1, SeqEqual
  <2> QED
    BY <1>6, <2>3 DEF s, m, w, n
<1> QED
  BY <1>3, <1>7, <1>10, <1>11 DEF x

LEMMA InitWhole == Init => WholeInv
<1> SUFFICES ASSUME Init PROVE WholeInv
  OBVIOUS
<1>1. PlaceInv
  BY InitPlace
<1>2. NextInv
  BY PacketFacts DEF Init, NextInv
<1>3. HandedWhole /\ Stopped /\ UserWhole /\ MsgWhole
  BY DEF Init, HandedWhole, Stopped, UserWhole, MsgWhole, Whole
<1> QED
  BY <1>1, <1>2, <1>3 DEF WholeInv

LEMMA NextKept == NextInv /\ [Next]_vars => NextInv'
<1> SUFFICES ASSUME NextInv, [Next]_vars PROVE NextInv'
  OBVIOUS
<1> USE DEF vars, msgVars
<1>1. CASE Write
  <2>1. PICK n \in Chunks : next' = next + n
    BY <1>1 DEF Write
  <2>2. n \in Nat /\ n > 0 /\ n <= Len(Stream) - next + 1 /\ Len(Stream) \in Nat
    BY PacketFacts DEF Chunks, NextInv
  <2> QED
    BY <2>1, <2>2 DEF NextInv
<1>2. CASE UNCHANGED next
  BY <1>2 DEF NextInv
<1>3. CASE Return \/ CopyFault \/ Unsupported \/ TooLong \/ AppendPart \/ AppendWhole
  BY <1>2, <1>3 DEF Return, CopyFault, Unsupported, TooLong, AppendPart, AppendWhole
<1>4. CASE AutopmGet \/ Filtered \/ NoDiag \/ AllocFind \/ AllocNone \/ AllocTake \/ Submitted \/ Refused
  BY <1>2, <1>4 DEF AutopmGet, Filtered, NoDiag, AllocFind, AllocNone, AllocTake, Submitted, Refused
<1>5. CASE LiteFind \/ LiteTake \/ LiteSubmit \/ LiteRefused \/ \E x \in Trans : Complete(x)
  BY <1>2, <1>5 DEF LiteFind, LiteTake, LiteSubmit, LiteRefused, Complete
<1>6. CASE UNCHANGED vars
  BY <1>2, <1>6
<1> QED
  BY <1>1, <1>3, <1>4, <1>5, <1>6 DEF Next, Writer

\* An application that splits packets submits nothing after a failure, and before
\* one its packets are where they should be.
LEMMA SubmitWhole == ASSUME WholeInv, Whole PROVE \E p \in 1..N : write_msg = Bytes(p)
<1>1. CASE Split
  <2>1. failed = {}
    BY <1>1 DEF WholeInv, Stopped, Whole
  <2>2. PICK p \in 1..N + 1, m \in Nat : Gathers(p, m)
    BY <2>1 DEF WholeInv, PlaceInv
  <2> QED
    BY <2>2, WholeIs
<1>2. CASE ~Split
  BY <1>2 DEF WholeInv, MsgWhole, Kept
<1> QED
  BY <1>1, <1>2

LEMMA HandedKept == WholeInv /\ [Next]_vars => HandedWhole'
<1> SUFFICES ASSUME WholeInv, [Next]_vars PROVE HandedWhole'
  OBVIOUS
<1> USE DEF vars, logVars
<1>1. CASE Submitted
  <2>1. PICK p \in 1..N : write_msg = Bytes(p)
    BY <1>1, SubmitWhole DEF Submitted, Whole
  <2>2. handed' = Append(handed, Bytes(p))
    BY <1>1, <2>1 DEF Submitted
  <2> QED
    BY <2>2 DEF WholeInv, HandedWhole
<1>2. CASE UNCHANGED handed
  BY <1>2 DEF WholeInv, HandedWhole
<1>3. CASE Write \/ Return \/ CopyFault \/ Unsupported \/ TooLong \/ AppendPart \/ AppendWhole
  BY <1>2, <1>3 DEF Write, Return, CopyFault, Unsupported, TooLong, AppendPart, AppendWhole
<1>4. CASE AutopmGet \/ Filtered \/ NoDiag \/ AllocFind \/ AllocNone \/ AllocTake \/ Refused
  BY <1>2, <1>4 DEF AutopmGet, Filtered, NoDiag, AllocFind, AllocNone, AllocTake, Refused
<1>5. CASE LiteFind \/ LiteTake \/ LiteSubmit \/ LiteRefused \/ \E x \in Trans : Complete(x)
  BY <1>2, <1>5 DEF LiteFind, LiteTake, LiteSubmit, LiteRefused, Complete
<1>6. CASE UNCHANGED vars
  BY <1>2, <1>6
<1> QED
  BY <1>1, <1>3, <1>4, <1>5, <1>6 DEF Next, Writer

LEMMA StoppedKept == ASSUME Split, Stopped, [Next]_vars PROVE Stopped'
<1> USE DEF vars, logVars, Error, Stopped
<1>1. CASE Write
  BY <1>1 DEF Write
<1>2. CASE Return \/ CopyFault \/ Unsupported \/ TooLong \/ AppendPart \/ AppendWhole
  BY <1>2 DEF Return, CopyFault, Unsupported, TooLong, AppendPart, AppendWhole, Appending
<1>3. CASE AutopmGet \/ Filtered \/ NoDiag \/ AllocFind \/ AllocNone \/ AllocTake \/ Submitted \/ Refused
  BY <1>3 DEF AutopmGet, Filtered, NoDiag, AllocFind, AllocNone, AllocTake, Submitted, Refused, ToPipe, MsgDone
<1>4. CASE LiteFind \/ LiteTake \/ LiteSubmit \/ LiteRefused \/ \E x \in Trans : Complete(x)
  BY <1>4 DEF LiteFind, LiteTake, LiteSubmit, LiteRefused, Complete
<1>5. CASE UNCHANGED vars
  BY <1>5
<1> QED
  BY <1>1, <1>2, <1>3, <1>4, <1>5 DEF Next, Writer

\* The packets of an application that writes them one by one.
LEMMA AppendKept ==
    ASSUME UserWhole, MsgWhole, AppendPart \/ AppendWhole
    PROVE  UserWhole' /\ MsgWhole'
<1>1. Appending
  BY DEF AppendPart, AppendWhole
<1>2. PICK p \in 1..N : user = Bytes(p)
  BY <1>1 DEF UserWhole, Appending
<1>3. CASE write_msg = <<>>
  <2>1. /\ KindOf(Msg) = Packets[p].kind /\ Msg[1] = <<p, 1>> /\ Appended = Len(Msg) /\ Len(Msg) \in Nat
        /\ IF Packets[p].kind = "long" THEN Len(Msg) >= Hdr ELSE Len(Msg) = Size(p) /\ Msg = Bytes(p)
    BY <1>1, <1>2, <1>3, FreshMsg
  <2>2. Hdr <= Size(p) /\ Size(p) \in Nat /\ Hdr \in Nat
    BY PacketFacts, WriteAssumption
  <2>3. Packets[p].kind \in Kinds /\ Packets[p].kind # "bad"
    BY <2>1, PacketFacts DEF AppendPart, AppendWhole
  <2>4. Packets[p].kind # "long"
    <3>1. CASE AppendPart
      BY <2>1, <2>2, <3>1 DEF AppendPart
    <3>2. CASE AppendWhole
      BY <2>1, <3>2 DEF AppendWhole
    <3> QED
      BY <3>1, <3>2
  <2>5. Len(Msg) = Size(p) /\ Msg = Bytes(p)
    BY <2>1, <2>4
  <2>6. PacketLen(Msg) = Size(p)
    <3>1. Msg[1][1] = p
      BY <2>1
    <3>2. Len(Msg) >= Hdr /\ ~(Len(Msg) < Hdr)
      BY <2>2, <2>5
    <3> HIDE DEF Msg
    <3> QED
      BY <2>1, <2>5, <3>1, <3>2 DEF PacketLen, Size
  <2>7. AppendWhole
    BY <2>2, <2>5, <2>6 DEF AppendPart
  <2>8. user' = <<>> /\ write_msg' = Bytes(p) /\ wpc' = "pm"
    <3>1. /\ write_msg' = SubSeq(Bytes(p), 1, Size(p)) /\ wpc' = "pm"
          /\ user' = SubSeq(user, Size(p) - (Size(p) - Size(p)) + 1, Len(user))
      BY <2>1, <2>5, <2>6, <2>7 DEF AppendWhole
    <3>2. Bytes(p) \in Seq(Nat \X Nat) /\ Len(Bytes(p)) = Size(p)
      BY BytesIs
    <3>3. SubSeq(Bytes(p), 1, Len(Bytes(p))) = Bytes(p)
      BY <3>2, SubSeqFull
    <3>4. Size(p) - (Size(p) - Size(p)) + 1 = Size(p) + 1 /\ Len(user) = Size(p)
      BY <1>2, <2>2, <3>2
    <3>5. SubSeq(user, Size(p) + 1, Size(p)) = <<>>
      BY <2>2, SubSeqEmpty
    <3> QED
      BY <3>1, <3>2, <3>3, <3>4, <3>5
  <2>9. Packets[p].kind \in {"cmd", "vsc", "acl", "diag"}
    BY <2>3, <2>4 DEF Kinds
  <2> QED
    BY <2>8, <2>9 DEF UserWhole, MsgWhole, Kept
<1>4. CASE write_msg # <<>>
  <2>1. PICK q \in 1..N : Kept(q)
    BY <1>4 DEF MsgWhole
  <2>2. /\ KindOf(Msg) = Packets[q].kind /\ Packets[q].kind \in {"cmd", "vsc", "acl"}
        /\ Msg[1] = <<q, 1>> /\ Len(Msg) = Size(q) + Appended /\ Appended \in Nat
        /\ SubSeq(Msg, 1, Size(q)) = Bytes(q)
    BY <1>1, <1>2, <2>1, LeftMsg
  <2>3. Hdr <= Size(q) /\ Size(q) \in Nat /\ Hdr \in Nat
    BY PacketFacts, WriteAssumption
  <2>4. PacketLen(Msg) = Size(q)
    <3>1. Msg[1][1] = q /\ KindOf(Msg) # "diag"
      BY <2>2
    <3>2. Len(Msg) >= Hdr /\ ~(Len(Msg) < Hdr)
      BY <2>2, <2>3
    <3> HIDE DEF Msg
    <3> QED
      BY <3>1, <3>2 DEF PacketLen, Size
  <2>5. AppendWhole
    BY <2>2, <2>3, <2>4 DEF AppendPart
  <2>6. write_msg' = Bytes(q) /\ user' = Bytes(p) /\ wpc' = "pm"
    <3>1. /\ write_msg' = SubSeq(Msg, 1, Size(q)) /\ wpc' = "pm"
          /\ user' = SubSeq(user, Appended - (Len(Msg) - Size(q)) + 1, Len(user))
      BY <2>4, <2>5 DEF AppendWhole
    <3>2. Appended - (Len(Msg) - Size(q)) + 1 = 1
      <4> DEFINE x == Appended
                 n == Size(q)
                 l == Len(Msg)
      <4>1. l = n + x /\ n \in Nat /\ x \in Nat
        BY <2>2, <2>3
      <4> HIDE DEF l, x, n
      <4>2. x - (l - n) + 1 = 1
        BY <4>1
      <4> QED
        BY <4>2 DEF l, x, n
    <3>3. Bytes(p) \in Seq(Nat \X Nat)
      BY BytesIs
    <3>4. SubSeq(user, 1, Len(user)) = Bytes(p)
      BY <1>2, <3>3, SubSeqFull
    <3> QED
      BY <2>2, <3>1, <3>2, <3>4
  <2> QED
    BY <2>2, <2>6 DEF UserWhole, MsgWhole, Kept
<1> QED
  BY <1>3, <1>4

LEMMA OneByOne ==
    ASSUME Settled, ~Split, NextInv, UserWhole, MsgWhole, [Next]_vars
    PROVE  UserWhole' /\ MsgWhole'
<1> USE DEF vars, msgVars
<1>1. CASE Write
  <2>1. PICK n \in Chunks : user' = SubSeq(Stream, next, next + n - 1)
    BY <1>1 DEF Write
  <2>2. \E p \in 1..N : user' = Bytes(p)
    BY <2>1, ChunkWhole
  <2>3. write_msg' = write_msg /\ ~Whole /\ ~Whole' /\ wpc \notin {"pm", "alloc"}
    BY <1>1 DEF Write, Whole
  <2> QED
    BY <2>2, <2>3 DEF UserWhole, MsgWhole, Kept
<1>2. CASE AppendPart \/ AppendWhole
  BY <1>2, AppendKept
<1>3. CASE Return \/ CopyFault
  <2>1. write_msg' = write_msg /\ user' = <<>> /\ ~Whole /\ ~Whole' /\ wpc \notin {"pm", "alloc"}
    BY <1>3 DEF Return, CopyFault, Appending, Error, Whole
  <2> QED
    BY <2>1 DEF UserWhole, MsgWhole, Kept
<1>4. CASE Unsupported \/ TooLong
  <2>1. write_msg' = <<>> /\ user' = <<>> /\ ~Whole'
    BY <1>4 DEF Unsupported, TooLong, Error, Whole
  <2> QED
    BY <2>1 DEF UserWhole, MsgWhole
<1>5. CASE AutopmGet
  BY <1>5 DEF AutopmGet, UserWhole, MsgWhole, Kept, Whole
<1>6. CASE AllocFind \/ AllocNone
  <2>1. PICK p \in 1..N : Kept(p) /\ Whole
    BY <1>6 DEF AllocFind, AllocNone, ToPipe, MsgWhole, Whole
  <2>2. Kind = Packets[p].kind
    BY <2>1, BytesIs DEF Kept, Kind
  <2>3. Packets[p].kind # "diag"
    BY <1>6, <2>2 DEF AllocFind, AllocNone, ToPipe, Settled
  <2>4. write_msg' = write_msg /\ (user' = user \/ user' = <<>>)
    BY <1>6 DEF AllocFind, AllocNone, Error
  <2> QED
    BY <2>1, <2>3, <2>4 DEF Kept, UserWhole, MsgWhole
<1>7. CASE AllocTake \/ Refused
  <2>1. PICK p \in 1..N : Kept(p)
    BY <1>7 DEF AllocTake, Refused, MsgWhole, Whole
  <2>2. write_msg' = write_msg /\ (user' = user \/ user' = <<>>) /\ wpc \notin {"pm", "alloc"}
    BY <1>7 DEF AllocTake, Refused, Error
  <2> QED
    BY <2>1, <2>2 DEF Kept, UserWhole, MsgWhole
<1>8. CASE Submitted \/ NoDiag
  <2>1. write_msg' = <<>> /\ user' = user /\ ~Whole'
    BY <1>8 DEF Submitted, NoDiag, MsgDone, Whole
  <2> QED
    BY <2>1 DEF UserWhole, MsgWhole
<1>9. CASE Filtered
  <2>1. PICK p \in 1..N : Kept(p)
    BY <1>9 DEF Filtered, MsgWhole, Whole
  <2>2. Packets[p].kind # "diag"
    <3>1. Kind = Packets[p].kind
      BY <2>1, BytesIs DEF Kept, Kind
    <3> QED
      BY <1>9, <3>1 DEF Filtered
  <2>3. CASE MsgDone /\ UNCHANGED user
    BY <2>3 DEF MsgDone, UserWhole, MsgWhole, Whole
  <2>4. CASE Error /\ UNCHANGED write_msg
    BY <2>1, <2>2, <2>4 DEF Error, UserWhole, MsgWhole, Kept
  <2> QED
    BY <1>9, <2>3, <2>4 DEF Filtered
<1>10. CASE \/ LiteFind \/ LiteTake \/ LiteSubmit \/ LiteRefused
            \/ (\E x \in Trans : Complete(x)) \/ UNCHANGED vars
  <2>1. UNCHANGED <<user, write_msg, wpc>>
    BY <1>10 DEF LiteFind, LiteTake, LiteSubmit, LiteRefused, Complete
  <2> QED
    BY <2>1 DEF UserWhole, MsgWhole, Kept, Whole
<1> QED
  BY <1>1, <1>2, <1>3, <1>4, <1>5, <1>6, <1>7, <1>8, <1>9, <1>10 DEF Next, Writer

LEMMA NextWhole == ASSUME Settled PROVE WholeInv /\ [Next]_vars => WholeInv'
<1> SUFFICES ASSUME WholeInv, [Next]_vars PROVE WholeInv'
  OBVIOUS
<1>1. PlaceInv' /\ NextInv' /\ HandedWhole'
  BY NextPlace, NextKept, HandedKept DEF WholeInv
<1>2. Split => Stopped'
  BY StoppedKept DEF WholeInv
<1>3. ~Split => UserWhole' /\ MsgWhole'
  BY OneByOne DEF WholeInv
<1> QED
  BY <1>1, <1>2, <1>3 DEF WholeInv

\* Whatever fails, and for every interleaving, only whole packets of the application are
\* submitted: when it splits packets and stops at the first error, or when it writes
\* them one by one and none is a diagnostic packet that may be left in write_msg.
THEOREM PacketsWhole == ASSUME Settled PROVE Spec => []WholePackets
<1>1. Spec => []WholeInv
  BY InitWhole, NextWhole, PTL DEF Spec
<1>2. WholeInv => WholePackets
  BY PacketFacts DEF WholeInv, HandedWhole, WholePackets
<1> QED
  BY <1>1, <1>2, PTL

----------------------------------------------------------------------------
(* Types, and the size of write_msg *)

PacketByte == (1..N) \X Nat

\* The transactions found, and what the next steps take for granted of the packet.
Found ==
    /\ wpc \in {"take", "submit"} => wt \in Trans
    /\ lpc \in {"take", "submit"} => lt \in Trans
OneKind == Whole => write_msg # <<>> /\ Kind \in {"cmd", "vsc", "acl", "diag"}

\* What is kept after a failure is still at most the packet it begins with, or what
\* AppendWhole gives back would be more than it has just appended.
Fits == write_msg # <<>> /\ Kind # "diag" => Len(write_msg) <= Packets[write_msg[1][1]].size

TypeInv ==
    /\ TypeOK /\ Found /\ OneKind /\ Fits
    /\ write_msg \in Seq(PacketByte) /\ user \in Seq(PacketByte)
    /\ wpc # "idle" => next > 1

LEMMA StreamTyped ==
    /\ N \in Nat /\ DOMAIN Packets = 1..N /\ Len(Stream) \in Nat
    /\ \A j \in 1..Len(Stream) : Stream[j] \in PacketByte
<1>1. N \in Nat /\ DOMAIN Packets = 1..N /\ Len(Stream) \in Nat /\ \A p \in 1..N : Size(p) \in Nat
  BY PacketFacts
<1>2. ASSUME NEW j \in 1..Len(Stream) PROVE Stream[j] \in PacketByte
  <2>1. PICK p \in 1..N : \E k \in 1..Size(p) : Stream[j] = <<p, k>>
    BY ByteOf
  <2>2. PICK k \in 1..Size(p) : Stream[j] = <<p, k>>
    BY <2>1
  <2>3. k \in Nat
    BY <1>1
  <2> QED
    BY <2>2, <2>3 DEF PacketByte
<1> QED
  BY <1>1, <1>2

LEMMA KindTyped ==
    ASSUME NEW s \in Seq(PacketByte), s # <<>>
    PROVE  s[1][1] \in 1..N /\ KindOf(s) \in Kinds /\ Packets[s[1][1]].size \in Nat /\ Len(s) \in Nat /\ Len(s) > 0
           /\ Packets[s[1][1]].size > 0
<1>1. Len(s) \in Nat /\ Len(s) > 0
  <2>1. Len(s) \in Nat /\ Len(s) # 0
    BY LenProperties, EmptySeq
  <2> QED
    BY <2>1
<1>2. s[1] \in PacketByte
  BY <1>1, ElementOfSeq
<1>3. s[1][1] \in 1..N
  BY <1>2 DEF PacketByte
<1>4. \A p \in 1..N : Size(p) \in Nat /\ Size(p) > 0 /\ Packets[p].kind \in Kinds
  BY PacketFacts
<1> QED
  BY <1>1, <1>3, <1>4 DEF KindOf, Size

\* A call that fails names a packet of the application.
LEMMA ErrorTyped ==
    ASSUME TypeInv, wpc # "idle"
    PROVE  Stream[next - 1][1] \in DOMAIN Packets
<1>1. next \in 1..Len(Stream) + 1 /\ next > 1
  BY DEF TypeInv, TypeOK
<1>2. next - 1 \in 1..Len(Stream)
  BY <1>1, StreamTyped
<1>3. Stream[next - 1] \in PacketByte
  BY <1>2, StreamTyped
<1> QED
  BY <1>3, StreamTyped DEF PacketByte

\* What is appended fits in write_msg.
LEMMA MsgTyped ==
    ASSUME TypeInv, Appending
    PROVE  /\ Msg \in Seq(PacketByte) /\ Msg # <<>> /\ Len(Msg) <= MaxSize /\ Len(Msg) \in Nat
           /\ KindOf(Msg) \in Kinds
           /\ Appended \in Nat /\ Appended <= Len(user) /\ Len(user) \in Nat
           /\ Len(Msg) = Len(write_msg) + Appended
           /\ Len(Msg) >= PacketLen(Msg) => PacketLen(Msg) \in 1..Len(Msg)
<1> DEFINE x == Appended
           k == Len(write_msg)
           l == Len(user)
<1>1. /\ write_msg \in Seq(PacketByte) /\ user \in Seq(PacketByte) /\ k \in Nat /\ l \in Nat /\ k <= MaxSize
      /\ MaxSize \in Nat /\ MaxSize > 0 /\ user # <<>>
  BY LenProperties, WriteAssumption DEF TypeInv, TypeOK, Appending
<1>2. l # 0
  BY <1>1, EmptySeq
<1>3. x = IF l < MaxSize - k THEN l ELSE MaxSize - k
  BY DEF Appended
<1>4. Msg = write_msg \o SubSeq(user, 1, x)
  BY DEF Msg
<1> HIDE DEF x, k, l
<1>5. x \in Nat /\ x <= l /\ k + x <= MaxSize /\ k + x \in Nat /\ k + x > 0
  BY <1>1, <1>2, <1>3
<1> DEFINE t == SubSeq(user, 1, x)
<1>6. t \in Seq(PacketByte) /\ Len(t) = x
  <2>1. x <= Len(user)
    BY <1>5 DEF l
  <2> QED
    BY <1>1, <1>5, <2>1, PrefixIs, Zenon
<1> HIDE DEF t
<1>7. Msg \in Seq(PacketByte) /\ Len(Msg) = Len(write_msg) + Len(t)
  BY <1>1, <1>4, <1>6, ConcatProperties, Zenon DEF t
<1>8. Len(Msg) = k + x
  BY <1>6, <1>7 DEF k
<1>9. Msg # <<>>
  BY <1>5, <1>7, <1>8, EmptySeq
<1>10. /\ KindOf(Msg) \in Kinds /\ Packets[Msg[1][1]].size \in Nat /\ Packets[Msg[1][1]].size > 0
  BY <1>7, <1>9, KindTyped
<1>11. ASSUME Len(Msg) >= PacketLen(Msg) PROVE PacketLen(Msg) \in 1..Len(Msg)
  <2>1. Len(Msg) \in Nat /\ Len(Msg) > 0 /\ Len(Msg) <= MaxSize /\ MaxSize \in Nat /\ Hdr \in Nat
    BY <1>1, <1>5, <1>8, WriteAssumption
  <2>2. CASE KindOf(Msg) = "diag"
    BY <2>1, <2>2 DEF PacketLen
  <2>3. CASE KindOf(Msg) # "diag" /\ Len(Msg) >= Hdr
    <3>1. PacketLen(Msg) = Packets[Msg[1][1]].size
      <4>1. ~(Len(Msg) < Hdr) /\ Len(Msg) >= Hdr
        BY <2>1, <2>3
      <4> QED
        BY <2>3, <4>1 DEF PacketLen
    <3> HIDE DEF Msg, PacketLen
    <3> QED
      BY <1>10, <1>11, <2>1, <3>1
  <2>4. CASE KindOf(Msg) # "diag" /\ ~(Len(Msg) >= Hdr)
    <3>1. Len(Msg) < Hdr
      BY <2>1, <2>4
    <3>2. PacketLen(Msg) = MaxSize + 1
      BY <2>4, <3>1 DEF PacketLen, Incomplete
    <3> HIDE DEF Msg, PacketLen
    <3> QED
      BY <1>11, <2>1, <3>2
  <2> QED
    BY <2>2, <2>3, <2>4
<1> HIDE DEF Msg
<1>12. Len(Msg) <= MaxSize /\ Len(Msg) \in Nat
  BY <1>5, <1>8
<1> QED
  BY <1>1, <1>5, <1>7, <1>8, <1>9, <1>10, <1>11, <1>12 DEF x, k, l

LEMMA InitTyped == Init => TypeInv
<1> SUFFICES ASSUME Init PROVE TypeInv
  OBVIOUS
<1>1. Len(<<>>) <= MaxSize /\ Len(Stream) \in Nat
  BY WriteAssumption, StreamTyped
<1>2. autopm \in BOOLEAN
  BY WriteAssumption, Zenon DEF Init
<1>3. TypeOK
  BY <1>1, <1>2 DEF Init, TypeOK, Pcs
<1> QED
  BY <1>3 DEF Init, TypeInv, Found, OneKind, Fits, Whole, PacketByte

LEMMA WriteTyped == ASSUME TypeInv, Write PROVE TypeInv'
<1>1. PICK n \in Chunks : user' = SubSeq(Stream, next, next + n - 1) /\ next' = next + n
  BY DEF Write
<1> DEFINE c == next + n - 1
<1>2. n \in Nat /\ n > 0 /\ c <= Len(Stream) /\ c \in Nat /\ next \in Nat /\ next > 0 /\ Len(Stream) \in Nat
  BY StreamTyped DEF Chunks, TypeInv, TypeOK
<1>3. next' \in 1..Len(Stream) + 1 /\ next' > 1
  BY <1>1, <1>2
<1>4. user' \in Seq(PacketByte)
  <2>1. \A j \in next..c : Stream[j] \in PacketByte
    BY <1>2, StreamTyped
  <2>2. next \in Int /\ c \in Int
    BY <1>2
  <2> HIDE DEF c
  <2>3. SubSeq(Stream, next, c) \in Seq(PacketByte)
    BY <2>1, <2>2, SubSeqProperties
  <2> QED
    BY <1>1, <2>3 DEF c
<1>5. wpc' = "append" /\ err' = "unset"
      /\ UNCHANGED <<write_msg, wt, lpc, lt, in_use, flying, autopm, pm, failed>>
  BY DEF Write, liteVars, pmVars, logVars
<1>6. TypeOK'
  BY <1>3, <1>5 DEF TypeInv, TypeOK, Pcs
<1> QED
  BY <1>3, <1>4, <1>5, <1>6 DEF TypeInv, Found, OneKind, Fits, Kind, KindOf, Whole

\* A step of the writer that fails.
LEMMA FailTyped ==
    ASSUME TypeInv, wpc # "idle", Error, in_use' \subseteq in_use,
           write_msg' = write_msg \/ write_msg' = <<>>,
           UNCHANGED <<next, wt, err, lpc, lt, flying, autopm, pm>>
    PROVE  TypeInv'
<1>1. Stream[next - 1][1] \in DOMAIN Packets
  BY ErrorTyped
<1>2. wpc' = "idle" /\ user' = <<>> /\ failed' \subseteq DOMAIN Packets
  BY <1>1 DEF Error, TypeInv, TypeOK
<1>3. write_msg' \in Seq(PacketByte) /\ Len(write_msg') <= MaxSize /\ Fits'
  <2>1. <<>> \in Seq(PacketByte) /\ Len(<<>>) <= MaxSize
    BY WriteAssumption
  <2>2. CASE write_msg' = write_msg
    BY <2>2 DEF TypeInv, TypeOK, Fits, Kind, KindOf
  <2>3. CASE write_msg' = <<>>
    BY <2>1, <2>3 DEF Fits
  <2> QED
    BY <2>2, <2>3
<1>4. TypeOK'
  BY <1>2, <1>3 DEF TypeInv, TypeOK, Pcs
<1> QED
  BY <1>2, <1>3, <1>4 DEF TypeInv, Found, OneKind, Whole


LEMMA SizeAtLeast ==
    ASSUME NEW p \in DOMAIN Packets
    PROVE  Packets[p].size \in Nat /\ Packets[p].size >= Hdr /\ Hdr \in Nat
<1>1. Hdr \in Nat /\ MaxSize \in Nat /\ Hdr <= MaxSize /\ Packets[p].size \in Nat
  BY WriteAssumption, PacketFacts, StreamTyped DEF Size
<1>2. IF Packets[p].kind = "long" THEN Packets[p].size > MaxSize ELSE Packets[p].size \in Hdr..MaxSize
  BY WriteAssumption
<1> QED
  BY <1>1, <1>2

\* What is appended to a packet leaves its first byte.
LEMMA SameFirst ==
    ASSUME TypeInv, Appending, write_msg # <<>>
    PROVE  Msg[1] = write_msg[1]
<1> DEFINE t == SubSeq(user, 1, Appended)
<1>1. write_msg \in Seq(PacketByte) /\ user \in Seq(PacketByte) /\ Appended \in Nat /\ Appended <= Len(user)
  BY MsgTyped DEF TypeInv
<1>2. t \in Seq(PacketByte)
  BY <1>1, PrefixIs, Zenon
<1>3. Len(write_msg) \in Nat /\ Len(write_msg) > 0
  BY <1>1, KindTyped
<1> HIDE DEF t
<1>4. (write_msg \o t)[1] = write_msg[1]
  <2>1. 1 <= Len(write_msg) /\ 1 \in 1..Len(write_msg) + Len(t)
    BY <1>2, <1>3, LenProperties
  <2> QED
    BY <1>1, <1>2, <2>1, ConcatProperties
<1> QED
  BY <1>4 DEF Msg, t

\* What a whole packet leaves to the user's buffer begins in it.
LEMMA GivenBack ==
    ASSUME TypeInv, Appending, KindOf(Msg) # "bad", Len(Msg) >= PacketLen(Msg)
    PROVE  /\ PacketLen(Msg) - Len(write_msg) \in Nat
           /\ KindOf(Msg) # "diag" => PacketLen(Msg) = Packets[Msg[1][1]].size
<1>1. /\ Msg \in Seq(PacketByte) /\ Msg # <<>> /\ Len(Msg) <= MaxSize /\ Len(Msg) \in Nat
      /\ Appended \in Nat /\ Len(Msg) = Len(write_msg) + Appended
      /\ PacketLen(Msg) \in 1..Len(Msg)
  BY MsgTyped
<1>2. Len(write_msg) \in Nat /\ MaxSize \in Nat /\ Hdr \in Nat
  BY LenProperties, WriteAssumption DEF TypeInv
<1>3. CASE KindOf(Msg) = "diag"
  <2>1. PacketLen(Msg) = Len(Msg)
    BY <1>3 DEF PacketLen
  <2> QED
    BY <1>1, <1>2, <1>3, <2>1
<1>4. CASE KindOf(Msg) # "diag"
  <2>1. PacketLen(Msg) = Packets[Msg[1][1]].size
    <3>1. CASE Len(Msg) >= Hdr
      <4>1. ~(Len(Msg) < Hdr) /\ Len(Msg) >= Hdr
        BY <1>1, <1>2, <3>1
      <4> QED
        BY <1>4, <4>1 DEF PacketLen
    <3>2. CASE ~(Len(Msg) >= Hdr)
      <4>1. Len(Msg) < Hdr
        BY <1>1, <1>2, <3>2
      <4>2. PacketLen(Msg) = MaxSize + 1
        BY <1>4, <4>1 DEF PacketLen, Incomplete
      <4> HIDE DEF Msg, PacketLen
      <4> QED
        BY <1>1, <1>2, <4>2
    <3> QED
      BY <3>1, <3>2
  <2>2. CASE write_msg = <<>>
    <3>1. Len(write_msg) = 0
      BY <2>2
    <3> HIDE DEF Msg, PacketLen
    <3> QED
      BY <1>1, <1>4, <2>1, <3>1
  <2>3. CASE write_msg # <<>>
    <3>1. Msg[1] = write_msg[1]
      BY <2>3, SameFirst
    <3>2. Len(write_msg) <= Packets[Msg[1][1]].size
      BY <1>4, <2>3, <3>1 DEF TypeInv, Fits, Kind, KindOf
    <3> HIDE DEF Msg, PacketLen
    <3> QED
      BY <1>1, <1>2, <1>4, <2>1, <3>2
  <2> QED
    BY <2>2, <2>3
<1> QED
  BY <1>3, <1>4

LEMMA PartTyped == ASSUME TypeInv, AppendPart PROVE TypeInv'
<1>1. Appending
  BY DEF AppendPart
<1>2. /\ Msg \in Seq(PacketByte) /\ Msg # <<>> /\ Len(Msg) <= MaxSize /\ Len(Msg) \in Nat
      /\ Appended \in Nat /\ Appended <= Len(user) /\ Len(user) \in Nat
  BY <1>1, MsgTyped
<1>3. user \in Seq(PacketByte) /\ wpc = "append" /\ next > 1
  BY <1>1 DEF TypeInv, Appending
<1>4. /\ UNCHANGED <<next, wt, err, lpc, lt, in_use, flying, autopm, pm, failed>>
      /\ write_msg' = Msg /\ user' = SubSeq(user, Appended + 1, Len(user)) /\ wpc' = wpc
      /\ KindOf(Msg) # "bad" /\ Len(Msg) < PacketLen(Msg)
      /\ KindOf(Msg) = "long" => Len(Msg) < Hdr
  BY DEF AppendPart, liteVars, pmVars, logVars
<1>5. user' \in Seq(PacketByte)
  <2>1. Len(user) <= Len(user) /\ Appended \in Nat
    BY <1>2
  <2>2. SubSeq(user, Appended + 1, Len(user)) \in Seq(PacketByte)
    BY <1>2, <1>3, <2>1, SubSeqIs, Zenon
  <2> QED
    BY <1>4, <2>2
<1>6. TypeOK'
  BY <1>2, <1>4 DEF TypeInv, TypeOK
<1>7. KindOf(Msg) # "diag" => Len(Msg) <= Packets[Msg[1][1]].size
  <2> SUFFICES ASSUME KindOf(Msg) # "diag" PROVE Len(Msg) <= Packets[Msg[1][1]].size
    OBVIOUS
  <2>1. Packets[Msg[1][1]].size \in Nat /\ Packets[Msg[1][1]].size >= Hdr /\ Hdr \in Nat
    <3>1. Msg[1][1] \in DOMAIN Packets
      BY <1>2, KindTyped, StreamTyped
    <3> HIDE DEF Msg
    <3> QED
      BY <3>1, SizeAtLeast
  <2>2. CASE Len(Msg) < Hdr
    <3> HIDE DEF Msg
    <3> QED
      BY <1>2, <2>1, <2>2
  <2>3. CASE ~(Len(Msg) < Hdr)
    <3>1. ~(Len(Msg) < Hdr) /\ Len(Msg) >= Hdr
      <4> HIDE DEF Msg
      <4> QED
        BY <1>2, <2>1, <2>3
    <3>2. PacketLen(Msg) = Packets[Msg[1][1]].size
      BY <3>1 DEF PacketLen
    <3> HIDE DEF Msg, PacketLen
    <3> QED
      BY <1>2, <1>4, <2>1, <3>2
  <2> QED
    BY <2>2, <2>3
<1>8. Fits'
  BY <1>4, <1>7 DEF Fits, Kind, KindOf
<1> HIDE DEF Msg
<1> QED
  BY <1>2, <1>3, <1>4, <1>5, <1>6, <1>8 DEF TypeInv, Found, OneKind, Whole

LEMMA WholeTyped == ASSUME TypeInv, AppendWhole PROVE TypeInv'
<1> DEFINE n == PacketLen(Msg)
           a == Appended - (Len(Msg) - n)
<1>1. Appending /\ KindOf(Msg) \notin {"bad", "long"} /\ Len(Msg) >= n
  BY DEF AppendWhole
<1>2. /\ Msg \in Seq(PacketByte) /\ Msg # <<>> /\ Len(Msg) <= MaxSize /\ Len(Msg) \in Nat
      /\ KindOf(Msg) \in Kinds /\ Appended \in Nat /\ Appended <= Len(user) /\ Len(user) \in Nat
      /\ Len(Msg) = Len(write_msg) + Appended /\ n \in 1..Len(Msg)
  BY <1>1, MsgTyped
<1>3. n - Len(write_msg) \in Nat /\ (KindOf(Msg) # "diag" => n = Packets[Msg[1][1]].size)
  BY <1>1, GivenBack
<1>4. /\ UNCHANGED <<next, wt, err, lpc, lt, in_use, flying, autopm, pm, failed>>
      /\ write_msg' = SubSeq(Msg, 1, n) /\ user' = SubSeq(user, a + 1, Len(user)) /\ wpc' = "pm"
  BY DEF AppendWhole, liteVars, pmVars, logVars
<1>5. user \in Seq(PacketByte) /\ next > 1 /\ Len(write_msg) \in Nat /\ MaxSize \in Nat
  BY <1>1, LenProperties, WriteAssumption DEF TypeInv, Appending
<1> HIDE DEF n
<1>6. a \in Nat /\ a <= Len(user) /\ n \in Nat /\ n <= Len(Msg) /\ 1 \in 1..n /\ n <= MaxSize
  <2> HIDE DEF Msg
  <2> QED
    BY <1>2, <1>3, <1>5
<1> HIDE DEF a
<1>7. user' \in Seq(PacketByte)
  <2>1. Len(user) <= Len(user)
    BY <1>2
  <2>2. SubSeq(user, a + 1, Len(user)) \in Seq(PacketByte)
    BY <1>2, <1>5, <1>6, <2>1, SubSeqIs, Zenon
  <2> QED
    BY <1>4, <2>2
<1> HIDE DEF Msg
<1>8. write_msg' \in Seq(PacketByte) /\ Len(write_msg') = n /\ write_msg'[1] = Msg[1]
  <2>1. /\ SubSeq(Msg, 1, n) \in Seq(PacketByte) /\ Len(SubSeq(Msg, 1, n)) = n
        /\ \A j \in 1..n : SubSeq(Msg, 1, n)[j] = Msg[j]
    BY <1>2, <1>6, PrefixIs, Zenon
  <2> QED
    BY <1>4, <1>6, <2>1
<1>9. Kind' = KindOf(Msg) /\ KindOf(Msg) \in {"cmd", "vsc", "acl", "diag"}
  BY <1>1, <1>2, <1>8 DEF Kind, KindOf, Kinds
<1>10. write_msg' # <<>> /\ Fits'
  <2>1. Len(write_msg') # 0
    BY <1>6, <1>8
  <2> QED
    BY <1>3, <1>6, <1>8, <1>9, <2>1, EmptySeq DEF Fits
<1>11. TypeOK'
  BY <1>4, <1>6, <1>8 DEF TypeInv, TypeOK, Pcs
<1> QED
  BY <1>4, <1>5, <1>7, <1>8, <1>9, <1>10, <1>11 DEF TypeInv, Found, OneKind, Whole

\* The packet is done with, submitted or not.
LEMMA DoneTyped ==
    ASSUME TypeInv, MsgDone, wpc # "idle", flying' \subseteq Trans,
           UNCHANGED <<next, user, wt, lpc, lt, in_use, autopm, pm, failed>>
    PROVE  TypeInv'
<1>1. write_msg' = <<>> /\ wpc' = "append" /\ err' = "ok"
  BY DEF MsgDone
<1>2. <<>> \in Seq(PacketByte) /\ Len(<<>>) <= MaxSize
  BY WriteAssumption
<1>3. TypeOK'
  BY <1>1, <1>2 DEF TypeInv, TypeOK, Pcs
<1> QED
  BY <1>1, <1>2, <1>3 DEF TypeInv, Found, OneKind, Fits, Whole

\* A step that leaves the bytes alone.
LEMMA MovedTyped ==
    ASSUME TypeInv, UNCHANGED <<next, write_msg, user, err, failed>>, TypeOK', Found',
           Whole' => Whole, wpc' # "idle" => wpc # "idle"
    PROVE  TypeInv'
<1>1. OneKind' /\ Fits'
  BY DEF TypeInv, OneKind, Fits, Kind, KindOf
<1> QED
  BY <1>1 DEF TypeInv

LEMMA FoundTyped ==
    ASSUME NEW pipe \in {"cmd", "acl", "diag"}, Free(pipe) # {}
    PROVE  First(pipe) \in Trans
BY FirstIsFree DEF Trans

\* Taking, submitting and completing.
LEMMA TransTyped ==
    ASSUME TypeInv, AllocFind \/ AllocTake
    PROVE  TypeInv'
<1>1. CASE AllocFind
  <2>1. /\ wt' = First(Pipe(Kind)) /\ wpc = "alloc" /\ wpc' = "take" /\ Free(Pipe(Kind)) # {}
        /\ UNCHANGED <<next, write_msg, user, err, lpc, lt, in_use, flying, autopm, pm, failed>>
    BY <1>1 DEF AllocFind, ToPipe, msgVars, liteVars, pmVars, logVars
  <2>2. Pipe(Kind) \in {"cmd", "acl", "diag"}
    <3>1. Kind \in {"cmd", "vsc", "acl", "diag"}
      BY <2>1 DEF TypeInv, OneKind, Whole
    <3> HIDE DEF Kind
    <3> QED
      BY <3>1 DEF Pipe
  <2>3. wt' \in Trans
    BY <2>1, <2>2, FoundTyped
  <2>4. TypeOK' /\ Found'
    BY <2>1, <2>3 DEF TypeInv, TypeOK, Found, Pcs
  <2> QED
    BY <2>1, <2>4, MovedTyped DEF Whole
<1>2. CASE AllocTake
  <2>1. /\ wpc = "take" /\ wpc' = "submit" /\ in_use' = in_use \cup {wt}
        /\ UNCHANGED <<next, write_msg, user, err, wt, lpc, lt, flying, autopm, pm, failed>>
    BY <1>2 DEF AllocTake, msgVars, liteVars, pmVars, logVars
  <2>2. TypeOK' /\ Found'
    BY <2>1 DEF TypeInv, TypeOK, Found, Pcs
  <2> QED
    BY <2>1, <2>2, MovedTyped DEF Whole
<1> QED
  BY <1>1, <1>2

LEMMA LiteTyped ==
    ASSUME TypeInv, LiteFind \/ LiteTake \/ LiteSubmit \/ LiteRefused \/ \E x \in Trans : Complete(x)
    PROVE  TypeInv'
<1>1. UNCHANGED <<next, write_msg, user, err, failed, wpc, wt, autopm>>
  BY DEF LiteFind, LiteTake, LiteSubmit, LiteRefused, Complete, msgVars, pmVars, logVars
<1>2. CASE LiteFind
  <2>1. lt' \in Trans
    BY <1>2, FoundTyped DEF LiteFind
  <2> QED
    BY <1>1, <1>2, <2>1, MovedTyped DEF TypeInv, TypeOK, Found, Whole, LiteFind, pmVars
<1>3. CASE LiteTake
  BY <1>1, <1>3, MovedTyped DEF TypeInv, TypeOK, Found, Whole, LiteTake, pmVars
<1>4. CASE LiteSubmit \/ LiteRefused
  BY <1>1, <1>4, MovedTyped DEF TypeInv, TypeOK, Found, Whole, LiteSubmit, LiteRefused, pmVars
<1>5. CASE \E x \in Trans : Complete(x)
  <2>1. in_use' \subseteq in_use /\ flying' \subseteq flying /\ pm' \in Int /\ UNCHANGED <<lpc, lt>>
    BY <1>5 DEF Complete, TypeInv, TypeOK, liteVars
  <2> QED
    BY <1>1, <2>1, MovedTyped DEF TypeInv, TypeOK, Found, Whole
<1> QED
  BY <1>2, <1>3, <1>4, <1>5

LEMMA NextTyped == TypeInv /\ [Next]_vars => TypeInv'
<1> SUFFICES ASSUME TypeInv, [Next]_vars PROVE TypeInv'
  OBVIOUS
<1>1. CASE UNCHANGED vars
  BY <1>1, MovedTyped DEF vars, TypeInv, TypeOK, Found, Whole
<1>2. CASE Write
  BY <1>2, WriteTyped
<1>3. CASE Return \/ AutopmGet
  <2>1. /\ UNCHANGED <<next, write_msg, user, wt, lpc, lt, in_use, flying, failed>>
        /\ wpc # "idle" /\ wpc' \in {"idle", "alloc"} /\ (wpc' = "alloc" => wpc = "pm")
        /\ err' \in {err, "ok", "error"} /\ autopm' \in {autopm, FALSE} /\ pm' \in {pm, pm + 1}
    BY <1>3, Zenon DEF Return, AutopmGet, msgVars, liteVars, pmVars, logVars
  <2>2. OneKind' /\ Fits'
    BY <2>1 DEF TypeInv, OneKind, Fits, Kind, KindOf, Whole
  <2>3. TypeOK'
    <3>1. autopm' \in BOOLEAN
      BY <2>1, Zenon DEF TypeInv, TypeOK
    <3>2. pm' \in Int
      BY <2>1 DEF TypeInv, TypeOK
    <3> QED
      BY <2>1, <3>1, <3>2 DEF TypeInv, TypeOK, Pcs
  <2> QED
    BY <2>1, <2>2, <2>3 DEF TypeInv, Found
<1>4. CASE CopyFault \/ TooLong \/ AllocNone \/ Refused
  <2>1. /\ Error /\ wpc # "idle" /\ in_use' \subseteq in_use
        /\ write_msg' = write_msg \/ write_msg' = <<>>
        /\ UNCHANGED <<next, wt, err, lpc, lt, flying, autopm, pm>>
    BY <1>4 DEF CopyFault, TooLong, AllocNone, Refused, Appending, ToPipe, liteVars, pmVars
  <2> QED
    BY <2>1, FailTyped
<1>5. CASE AppendPart
  BY <1>5, PartTyped
<1>6. CASE AppendWhole
  BY <1>6, WholeTyped
<1>7. CASE Unsupported
  <2>1. /\ write_msg' = <<>> /\ user' = <<>> /\ wpc' = "idle"
        /\ UNCHANGED <<next, wt, err, lpc, lt, in_use, flying, autopm, pm, failed>>
    BY <1>7 DEF Unsupported, liteVars, pmVars, logVars
  <2>2. <<>> \in Seq(PacketByte) /\ Len(<<>>) <= MaxSize
    BY WriteAssumption
  <2> QED
    BY <2>1, <2>2 DEF TypeInv, TypeOK, Found, OneKind, Fits, Whole, Pcs
<1>8. CASE Filtered
  <2>1. wpc # "idle" /\ UNCHANGED <<next, wt, lpc, lt, in_use, flying, autopm, pm>>
    BY <1>8 DEF Filtered, liteVars, pmVars
  <2>2. CASE MsgDone /\ UNCHANGED <<user, failed>>
    BY <2>1, <2>2, DoneTyped DEF TypeInv, TypeOK
  <2>3. CASE Error /\ UNCHANGED <<write_msg, err>>
    BY <2>1, <2>3, FailTyped
  <2> QED
    BY <1>8, <2>2, <2>3 DEF Filtered
<1>9. CASE NoDiag
  BY <1>9, DoneTyped DEF NoDiag, liteVars, pmVars, logVars, TypeInv, TypeOK
<1>10. CASE Submitted
  <2>1. flying' \subseteq Trans
    BY <1>10 DEF Submitted, TypeInv, TypeOK, Found
  <2> QED
    BY <1>10, <2>1, DoneTyped DEF Submitted, liteVars, pmVars, logVars
<1>11. CASE AllocFind \/ AllocTake
  BY <1>11, TransTyped
<1>12. CASE LiteFind \/ LiteTake \/ LiteSubmit \/ LiteRefused \/ \E x \in Trans : Complete(x)
  BY <1>12, LiteTyped
<1> QED
  BY <1>1, <1>2, <1>3, <1>4, <1>5, <1>6, <1>7, <1>8, <1>9, <1>10, <1>11, <1>12 DEF Next, Writer

\* btusb_write and the completions keep every variable in its type, with the lite
\* thread or without, and never put more than BTUSB_H4_MAX_SIZE bytes in write_msg,
\* whatever calls have failed and left there.
THEOREM TypeCorrect == Spec => []TypeOK
<1>1. TypeInv => TypeOK
  BY DEF TypeInv
<1> QED
  BY <1>1, InitTyped, NextTyped, PTL DEF Spec
=============================================================================
