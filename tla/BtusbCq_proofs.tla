--------------------------- MODULE BtusbCq_proofs ---------------------------
(***************************************************************************)
(* Proofs about BtusbCq: for every size of the queue and every width of    *)
(* the counters, the two sides never meet in a slot and the ring           *)
(* implements the bounded queue.                                           *)
(***************************************************************************)
EXTENDS BtusbCq, SequenceTheorems, TLAPS

----------------------------------------------------------------------------
(* Arithmetic of the masked counters *)

\* A multiple of Size is not strictly between 0 and Size.
LEMMA NoMultiple ==
    ASSUME NEW m \in Int, 0 < Size * m, Size * m < Size
    PROVE  FALSE
<1>1. CASE m <= 0
  <2>1. Size * m <= 0
    BY <1>1, SizeAssumption
  <2> QED BY <2>1, SizeAssumption
<1>2. CASE m >= 1
  <2>1. Size * m >= Size
    BY <1>2, SizeAssumption
  <2> QED BY <2>1, SizeAssumption
<1> QED BY <1>1, <1>2

LEMMA Distributes ==
    ASSUME NEW a \in Int, NEW b \in Int
    PROVE  Size * (a - b) = Size * a - Size * b
BY SizeAssumption

\* A counter is a multiple of Size and its slot.
LEMMA Division ==
    ASSUME NEW x \in Nat
    PROVE  /\ Masked(x) \in 0..Size - 1
           /\ x \div Size \in Int
           /\ x = Size * (x \div Size) + Masked(x)
BY SizeAssumption DEF Masked

\* Two counters less than Size apart have different slots.
LEMMA SlotsApart ==
    ASSUME NEW x \in Nat, NEW y \in Nat, x < y, y < x + Size
    PROVE  Masked(x) # Masked(y)
<1> SUFFICES ASSUME Masked(x) = Masked(y) PROVE FALSE
  OBVIOUS
<1> DEFINE m == (y \div Size) - (x \div Size)
<1>1. /\ x \div Size \in Int /\ y \div Size \in Int
      /\ x = Size * (x \div Size) + Masked(x)
      /\ y = Size * (y \div Size) + Masked(y)
      /\ Masked(x) \in Int /\ Masked(y) \in Int
  BY Division
<1>2. Size * m = Size * (y \div Size) - Size * (x \div Size)
  BY <1>1, Distributes
<1>3. Size * (y \div Size) \in Int /\ Size * (x \div Size) \in Int
  BY <1>1, SizeAssumption
<1>4. y - x = Size * m
  BY <1>1, <1>2, <1>3
<1>5. m \in Int /\ 0 < Size * m /\ Size * m < Size
  BY <1>1, <1>4, SizeAssumption
<1> QED BY <1>5, NoMultiple

\* The slot of a counter does not change when the counter wraps.
LEMMA SlotWraps ==
    ASSUME NEW x \in Nat
    PROVE  Masked(x + Wrap) = Masked(x)
<1>1. PICK k \in 2..Wrap : Wrap = Size * k
  BY SizeAssumption
<1> DEFINE q == x \div Size
           r == (x + Wrap) \div Size
           m == r - q - k
<1>2. /\ x = Size * q + Masked(x) /\ q \in Int /\ Masked(x) \in 0..Size - 1
      /\ x + Wrap = Size * r + Masked(x + Wrap) /\ r \in Int
      /\ Masked(x + Wrap) \in 0..Size - 1
  <2>1. x + Wrap \in Nat
    BY SizeAssumption
  <2> QED BY <2>1, Division
<1>3. /\ Size * (r - q) = Size * r - Size * q
      /\ Size * m = Size * (r - q) - Size * k
      /\ Size * (-m) = Size * 0 - Size * m
  <2>1. r - q \in Int /\ k \in Int /\ m \in Int /\ 0 - m = -m
    BY <1>1, <1>2
  <2> HIDE DEF q, r, m
  <2>2. q \in Int /\ r \in Int /\ 0 \in Int
    BY <1>2
  <2>3. Size * (r - q) = Size * r - Size * q
    BY <2>2, Distributes
  <2>4. Size * ((r - q) - k) = Size * (r - q) - Size * k
    BY <2>1, Distributes
  <2>5. Size * (0 - m) = Size * 0 - Size * m
    BY <2>1, <2>2, Distributes
  <2>6. m = (r - q) - k
    BY DEF m
  <2> QED BY <2>1, <2>3, <2>4, <2>5, <2>6
<1>4. /\ Size * q \in Int /\ Size * r \in Int /\ Size * k \in Int
      /\ m \in Int /\ -m \in Int /\ Size * m \in Int /\ Size * 0 = 0
  BY <1>1, <1>2, SizeAssumption
<1> HIDE DEF m
<1>5. Masked(x) - Masked(x + Wrap) = Size * m
  <2> HIDE DEF q, r
  <2>1. Size * m = Size * r - Size * q - Size * k
    BY <1>3, <1>4
  <2>2. x + Size * k = Size * r + Masked(x + Wrap)
    BY <1>1, <1>2
  <2> QED BY <1>2, <1>4, <2>1, <2>2, SizeAssumption
<1>6. CASE Masked(x) > Masked(x + Wrap)
  <2>1. 0 < Size * m /\ Size * m < Size
    BY <1>2, <1>4, <1>5, <1>6, SizeAssumption
  <2> QED BY <2>1, <1>4, NoMultiple
<1>7. CASE Masked(x) < Masked(x + Wrap)
  <2>1. 0 < Size * (-m) /\ Size * (-m) < Size
    BY <1>2, <1>3, <1>4, <1>5, <1>7, SizeAssumption
  <2> QED BY <2>1, <1>4, NoMultiple
<1> QED BY <1>2, <1>6, <1>7

----------------------------------------------------------------------------
(* The inductive invariant: types and lengths.  It is linear arithmetic. *)

IInv == TypeOK /\ LenHonest

LEMMA Initially == Init => IInv
BY SizeAssumption DEF Init, IInv, TypeOK, LenHonest, CqLen

LEMMA Inductive == IInv /\ [Next]_vars => IInv'
<1> SUFFICES ASSUME IInv, [Next]_vars PROVE IInv'
  OBVIOUS
<1> USE SizeAssumption DEF IInv, TypeOK, LenHonest, CqLen
<1>1. ASSUME NEW v \in Vals, PutCheck(v) PROVE IInv'
  BY <1>1 DEF PutCheck, IsFull
<1>2. CASE PutStore
  BY <1>2 DEF PutStore
<1>3. CASE PutPublish
  BY <1>3 DEF PutPublish, Inc
<1>4. CASE GetCheck
  BY <1>4 DEF GetCheck, IsEmpty
<1>5. CASE GetLoad
  <2>1. out \in Nat
    OBVIOUS
  <2>2. Masked(out) \in 0..Size - 1
    BY <2>1, Division
  <2> QED BY <1>5, <2>2 DEF GetLoad
<1>6. CASE GetRelease
  BY <1>6 DEF GetRelease, Inc
<1>7. CASE UNCHANGED vars
  BY <1>7 DEF vars
<1> QED BY <1>1, <1>2, <1>3, <1>4, <1>5, <1>6, <1>7 DEF Next, Producer, Consumer

\* Types, and the honesty of every check of the two sides, for every size.
THEOREM Invariance == Spec => []IInv
BY Initially, Inductive, PTL DEF Spec

\* The length never exceeds the number of slots, and no check goes stale.
THEOREM LengthBounded == Spec => []LenHonest
<1>1. IInv => LenHonest
  BY DEF IInv
<1> QED BY <1>1, Invariance, PTL

----------------------------------------------------------------------------
(* The counters of a queue that is neither empty nor full mask to different *)
(* slots; when in has wrapped, in + Wrap stands for it.                     *)

\* in, as a counter that has not wrapped since first
LEMMA InFromFirst ==
    ASSUME IInv, NEW first \in 0..Wrap - 1
    PROVE  /\ first + CqLen(in, first) \in Nat
           /\ Masked(first + CqLen(in, first)) = Masked(in)
<1>1. CASE in >= first
  BY <1>1 DEF CqLen, IInv, TypeOK
<1>2. CASE in < first
  <2>1. first + CqLen(in, first) = in + Wrap
    BY <1>2, SizeAssumption DEF CqLen, IInv, TypeOK
  <2>2. in \in Nat /\ in + Wrap \in Nat
    BY SizeAssumption DEF IInv, TypeOK
  <2> QED BY <2>1, <2>2, SlotWraps
<1> QED BY <1>1, <1>2 DEF IInv, TypeOK

\* The producer never writes the slot the consumer reads, for every size.
THEOREM NoSharedSlot == Spec => []SlotsDisjoint
<1>1. IInv => SlotsDisjoint
  <2> SUFFICES ASSUME IInv, ppc = "store", cpc = "load"
               PROVE  Masked(in) # Masked(out)
    BY DEF SlotsDisjoint
  <2> DEFINE n == CqLen(in, out)
  <2>1. out \in 0..Wrap - 1 /\ out \in Nat
    BY DEF IInv, TypeOK
  <2>2. n \in Nat /\ 0 < n /\ n < Size
    BY SizeAssumption DEF IInv, TypeOK, LenHonest, CqLen
  <2>3. out + n \in Nat /\ Masked(out + n) = Masked(in)
    BY <2>1, InFromFirst
  <2>4. out < out + n /\ out + n < out + Size
    BY <2>1, <2>2, SizeAssumption
  <2>5. Masked(out) # Masked(out + n)
    <3> HIDE DEF n
    <3> QED BY <2>1, <2>3, <2>4, SlotsApart
  <2> QED BY <2>3, <2>5
<1> QED BY <1>1, Invariance, PTL

----------------------------------------------------------------------------
(* The ring implements the bounded queue. *)

\* the counter of the oldest value not yet got
First == IF cpc = "release" THEN Inc(out) ELSE out
Count == CqLen(in, First)

LEMMA ContentsDef ==
    Contents = [i \in 1..Count |-> buf[Masked(First + i - 1)]]
BY DEF Contents, First, Count

\* The window of the queue: where it starts, how many values it has, and that
\* every one of them is in a slot.
LEMMA Window ==
    ASSUME IInv
    PROVE  /\ First \in 0..Wrap - 1 /\ Count \in 0..Size
           /\ \A i \in 1..Count : Masked(First + i - 1) \in 0..Size - 1
           /\ Contents \in Seq(Vals) /\ Len(Contents) = Count
           /\ Masked(First + Count) = Masked(in)
           /\ ppc # "idle" => Count < Size
           /\ cpc = "load" => Count > 0
<1>1. First \in 0..Wrap - 1
  BY SizeAssumption DEF First, Inc, IInv, TypeOK
<1>2. /\ Count \in 0..Size
      /\ ppc # "idle" => Count < Size
      /\ cpc = "load" => Count > 0
  BY SizeAssumption DEF Count, First, CqLen, Inc, IInv, TypeOK, LenHonest
<1>3. ASSUME NEW i \in 1..Count
      PROVE  Masked(First + i - 1) \in 0..Size - 1
  <2>1. First + i - 1 \in Nat
    BY <1>1, <1>2, SizeAssumption
  <2> QED BY <2>1, Division
<1>4. Contents \in Seq(Vals) /\ Len(Contents) = Count
  <2> HIDE DEF First, Count
  <2>1. \A i \in 1..Count : buf[Masked(First + i - 1)] \in Vals
    BY <1>3 DEF IInv, TypeOK
  <2> QED BY <1>2, <2>1, ContentsDef, SizeAssumption
<1>5. Masked(First + Count) = Masked(in)
  BY <1>1, InFromFirst DEF Count
<1> QED BY <1>1, <1>2, <1>3, <1>4, <1>5

LEMMA StartsEmpty == Init => Fifo!Init
BY SizeAssumption DEF Init, Fifo!Init, Contents, CqLen

\* A step that leaves the window and its slots alone is a stutter.
LEMMA SameContents ==
    ASSUME IInv, IInv', First' = First, Count' = Count,
           \A i \in 1..Count : buf'[Masked(First + i - 1)] = buf[Masked(First + i - 1)]
    PROVE  Contents' = Contents
<1>1. Contents' = [i \in 1..Count' |-> buf'[Masked(First' + i - 1)]]
  BY DEF Contents, First, Count, Masked
<1> HIDE DEF First, Count
<1> QED BY <1>1, ContentsDef

\* Storing the value is invisible: its slot is not in the window.
LEMMA StoreStutters ==
    ASSUME IInv, IInv', PutStore
    PROVE  UNCHANGED <<Contents, cval>>
<1>1. First' = First /\ Count' = Count /\ cval' = cval
  BY DEF PutStore, First, Count, CqLen, Inc
<1>2. ASSUME NEW i \in 1..Count
      PROVE  buf'[Masked(First + i - 1)] = buf[Masked(First + i - 1)]
  <2> HIDE DEF First, Count
  <2>1. /\ First \in Nat /\ Count \in Nat /\ Count < Size
        /\ Masked(First + Count) = Masked(in)
        /\ Masked(First + i - 1) \in 0..Size - 1
    BY Window, SizeAssumption DEF PutStore
  <2>2. /\ First + i - 1 \in Nat /\ First + Count \in Nat
        /\ First + i - 1 < First + Count /\ First + Count < First + i - 1 + Size
    BY <2>1, SizeAssumption
  <2>3. Masked(First + i - 1) # Masked(in)
    BY <2>1, <2>2, SlotsApart
  <2> QED BY <2>1, <2>3 DEF PutStore, IInv, TypeOK
<1> QED BY <1>1, <1>2, SameContents

\* Publishing the value appends it.
LEMMA PublishPuts ==
    ASSUME IInv, IInv', PutPublish
    PROVE  \E v \in Vals : Fifo!Put(v)
<1> DEFINE v == buf[Masked(in)]
<1>1. First' = First /\ Count' = Count + 1 /\ Count < Size
  BY SizeAssumption DEF PutPublish, First, Count, CqLen, Inc, IInv, TypeOK, LenHonest
<1>2. Contents' = [i \in 1..Count + 1 |-> buf[Masked(First + i - 1)]]
  BY <1>1 DEF Contents, First, Count, PutPublish
<1> HIDE DEF First, Count
<1>3. /\ First \in Nat /\ Count \in Nat /\ Masked(First + Count) = Masked(in)
      /\ Contents \in Seq(Vals) /\ Len(Contents) = Count
  BY Window, SizeAssumption
<1>4. v \in Vals
  <2>1. in \in Nat
    BY DEF IInv, TypeOK
  <2>2. Masked(in) \in 0..Size - 1
    BY <2>1, Division
  <2> QED BY <2>2 DEF IInv, TypeOK
<1>5. buf[Masked(First + (Count + 1) - 1)] = v
  <2>1. First + (Count + 1) - 1 = First + Count
    BY <1>3
  <2> QED BY <1>3, <2>1
<1> HIDE DEF v
<1>6. Contents' = Append(Contents, v)
  BY <1>2, <1>3, <1>4, <1>5, ContentsDef
<1>7. cval' = cval
  BY DEF PutPublish
<1> QED BY <1>1, <1>3, <1>4, <1>6, <1>7 DEF Fifo!Put

\* Loading the slot takes the oldest value.
LEMMA LoadGets ==
    ASSUME IInv, IInv', GetLoad
    PROVE  Fifo!Get
<1>1. First = out /\ First' = Inc(out) /\ Count' = Count - 1 /\ Count > 0
  BY SizeAssumption DEF GetLoad, First, Count, CqLen, Inc, IInv, TypeOK, LenHonest
<1>2. Contents' = [i \in 1..Count - 1 |-> buf[Masked(Inc(out) + i - 1)]]
  BY <1>1 DEF Contents, First, Count, GetLoad
<1> HIDE DEF First, Count
<1>3. /\ Count \in Nat /\ out \in 0..Wrap - 1
      /\ Contents \in Seq(Vals) /\ Len(Contents) = Count
  BY Window, SizeAssumption DEF IInv, TypeOK
<1>4. ASSUME NEW i \in 1..Count - 1
      PROVE  Masked(Inc(out) + i - 1) = Masked(out + (i + 1) - 1)
  <2>1. CASE out + 1 = Wrap
    <3>1. Inc(out) + i - 1 = i - 1 /\ out + (i + 1) - 1 = (i - 1) + Wrap /\ i - 1 \in Nat
      BY <1>3, <2>1, SizeAssumption DEF Inc
    <3> QED BY <3>1, SlotWraps
  <2>2. CASE out + 1 # Wrap
    <3>1. Inc(out) + i - 1 = out + (i + 1) - 1
      BY <1>3, <2>2, SizeAssumption DEF Inc
    <3> QED BY <3>1
  <2> QED BY <2>1, <2>2
<1>5. /\ Contents' \in Seq(Vals) /\ Len(Contents') = Count - 1
      /\ Tail(Contents) \in Seq(Vals) /\ Len(Tail(Contents)) = Count - 1
      /\ \A i \in 1..Count - 1 : Tail(Contents)[i] = Contents[i + 1]
  <2>1. ASSUME NEW i \in 1..Count - 1
        PROVE  buf[Masked(Inc(out) + i - 1)] \in Vals
    <3>1. i + 1 \in 1..Count /\ i + 1 \in 1..Len(Contents)
      BY <1>3
    <3>2. Contents[i + 1] \in Vals
      BY <1>3, <3>1, ElementOfSeq
    <3>3. Contents[i + 1] = buf[Masked(out + (i + 1) - 1)]
      BY <1>1, <3>1, ContentsDef
    <3> QED BY <1>4, <3>2, <3>3
  <2>2. Contents' \in Seq(Vals) /\ Len(Contents') = Count - 1
    BY <1>1, <1>2, <1>3, <2>1
  <2>3. Contents # <<>>
    BY <1>1, <1>3
  <2>4. /\ Tail(Contents) \in Seq(Vals) /\ Len(Tail(Contents)) = Len(Contents) - 1
        /\ \A i \in 1..Len(Tail(Contents)) : Tail(Contents)[i] = Contents[i + 1]
    BY <1>3, <2>3, HeadTailProperties
  <2> HIDE DEF Contents
  <2> QED BY <1>1, <1>3, <2>2, <2>4
<1>6. Contents' = Tail(Contents)
  <2>1. ASSUME NEW i \in 1..Count - 1
        PROVE  Contents'[i] = Tail(Contents)[i]
    <3>1. i + 1 \in 1..Count
      BY <1>3
    <3>2. Contents[i + 1] = buf[Masked(out + (i + 1) - 1)]
      BY <1>1, <3>1, ContentsDef
    <3>3. Contents'[i] = buf[Masked(Inc(out) + i - 1)]
      BY <1>2
    <3> QED BY <1>4, <1>5, <3>2, <3>3
  <2> HIDE DEF Contents
  <2> QED BY <1>5, <2>1, SeqEqual
<1>7. cval' = Head(Contents)
  <2>1. out + 1 - 1 = out
    BY <1>3
  <2>2. Head(Contents) = buf[Masked(out)]
    BY <1>1, <1>3, <2>1, ContentsDef
  <2> QED BY <2>2 DEF GetLoad
<1>8. Contents # <<>>
  BY <1>1, <1>3
<1> QED BY <1>6, <1>7, <1>8 DEF Fifo!Get

\* Every other step leaves the window as it is.
LEMMA OthersStutter ==
    ASSUME IInv, IInv',
           \/ \E v \in Vals : PutCheck(v)
           \/ GetCheck \/ GetRelease \/ UNCHANGED vars
    PROVE  UNCHANGED <<Contents, cval>>
<1>1. First' = First /\ Count' = Count /\ buf' = buf /\ cval' = cval
  BY DEF PutCheck, GetCheck, GetRelease, vars, First, Count
<1> QED BY <1>1, SameContents

\* The circular queue implements the bounded first-in first-out queue: for every
\* size, every width of the counters and every interleaving of the two sides.
THEOREM ImplementsBoundedFifo == Spec => ImplementsFifo
<1>1. IInv /\ IInv' /\ [Next]_vars => [Fifo!Next]_<<Contents, cval>>
  <2> SUFFICES ASSUME IInv, IInv', [Next]_vars
               PROVE  [Fifo!Next]_<<Contents, cval>>
    OBVIOUS
  <2>1. CASE PutStore
    BY <2>1, StoreStutters
  <2>2. CASE PutPublish
    BY <2>2, PublishPuts DEF Fifo!Next
  <2>3. CASE GetLoad
    BY <2>3, LoadGets DEF Fifo!Next
  <2>4. CASE (\E v \in Vals : PutCheck(v)) \/ GetCheck \/ GetRelease \/ UNCHANGED vars
    BY <2>4, OthersStutter
  <2> QED BY <2>1, <2>2, <2>3, <2>4 DEF Next, Producer, Consumer
<1> QED BY <1>1, StartsEmpty, Invariance, PTL DEF Spec, ImplementsFifo, Fifo!Spec
=============================================================================
