----------------------- MODULE PatchramDownload_proofs -----------------------
(* Proofs about PatchramDownload: for every file, every place where it may be *)
(* cut off and every way its events come in, the loop stays inside of buffer, *)
(* reads each event whole, sends no command too many and is the exchange that *)
(* Patchram takes it for.                                                     *)
EXTENDS PatchramDownload, SequenceTheorems, FiniteSetTheorems, WellFoundedInduction, TLAPS

(* The inductive invariants.                                                 *)
(*   FileInv: the position in the file lies between two records wherever no   *)
(*   header was read, and what was sent is what lies before it.  It does not  *)
(*   depend on the events, nor on whether reads of the UART fail.             *)
(*   EventInv: the bytes of the event in buffer and those in the UART are     *)
(*   together one event, and i and len say where the one ends.                *)
Pos  == cut - Len(hcd)
Done == Len(sent)                   \* records sent

TypeOK ==
    /\ cut \in Cuts /\ hcd \in Seq(Nat) /\ Len(hcd) <= cut /\ hcd = SubSeq(File, Pos + 1, cut)
    /\ buffer \in [0 .. BufSize - 1 -> Nat]
    /\ pc \in {"header", "payload", "first", "rest", "done"}
    /\ i \in Int /\ len \in Nat /\ taken \in Nat
    /\ wire \in Seq(Nat) /\ line \in Seq(Nat) /\ sent \in Seq(Seq(Nat))

Between == \/ Done <= There /\ Pos = Start[Done + 1]
           \/ Done = There + 1 /\ cut # Start[There + 1] /\ hcd = <<>>

HeaderRead ==
    /\ Done <= There /\ cut # Start[Done + 1] /\ len = buffer[3]
    /\ \/ /\ Done < Records /\ Pos = Start[Done + 1] + 3
          /\ \A k \in 1 .. 3 : buffer[k] = File[Start[Done + 1] + k]
       \/ Done = There /\ hcd = <<>>

FileInv ==
    /\ TypeOK
    /\ IF pc = "payload" THEN HeaderRead ELSE Between
    /\ pc = "done" => hcd = <<>>
    /\ taken = IF pc \in {"first", "rest"} THEN Done - 1 ELSE Done
    /\ \A k \in 1 .. Smaller(There, Done) : sent[k] = <<1>> \o Record(k)

\* the event came in as far as byte i
PartOf(e) ==
    /\ line = SubSeq(e, i + 1, Len(e))
    /\ \A k \in 1 .. i : buffer[k - 1] = e[k]
    /\ pc = "first" => i \in 0 .. 2 /\ i + len = 3
    /\ pc = "rest"  => i \in 3 .. Len(e) /\ i + len = Len(e)

EventInv ==
    /\ pc \notin {"first", "rest"} => wire = None /\ line = <<>>
    /\ wire # None => pc = "first" /\ line = <<>> /\ i = 0 /\ len = 3
    /\ pc \in {"first", "rest"} /\ wire = None => \E e \in Events : PartOf(e)
    /\ pc = "header" /\ taken > 0 => \E e \in Events : \A k \in 1 .. Len(e) : buffer[k - 1] = e[k]
    /\ 4 + buffer[3] <= BufSize

----------------------------------------------------------------------------
(* The records of the file *)

LEMMA GreatestExists ==
    ASSUME NEW S, IsFiniteSet(S), S \subseteq Nat, S # {}
    PROVE  \E k \in S : \A j \in S : k >= j
<1> DEFINE Seg(k) == {j \in S : j >= k}
           Segs == {Seg(k) : k \in S}
<1>1. Segs \subseteq FiniteSubsetsOf(S) /\ Segs # {}
  <2>1. \A k \in S : Seg(k) \in SUBSET S
    OBVIOUS
  <2>2. FiniteSubsetsOf(S) = SUBSET S
    BY FS_FiniteSubsetsOfFinite
  <2>3. Segs \subseteq SUBSET S /\ Segs # {}
    <3> HIDE DEF Seg
    <3> QED BY <2>1
  <2> QED BY <2>2, <2>3, Zenon
<1>2. PICK A \in Segs : \A B \in Segs : <<B, A>> \notin StrictSubsetOrdering(S)
  <2> HIDE DEF Segs
  <2>1. IsWellFoundedOn(StrictSubsetOrdering(S), FiniteSubsetsOf(S))
    BY FS_StrictSubsetOrderingWellFounded
  <2> QED BY <1>1, <2>1, WFMin, Zenon
<1>3. PICK k \in S : A = Seg(k)
  OBVIOUS
<1>4. ASSUME NEW j \in S, ~(k >= j) PROVE FALSE
  <2>1. Seg(j) \subseteq Seg(k)
    <3>1. \A m \in S : m >= j => m >= k
      BY <1>4
    <3> QED BY <3>1
  <2>2. k \in Seg(k) /\ k \notin Seg(j)
    BY <1>4
  <2>3. <<Seg(j), A>> \in StrictSubsetOrdering(S)
    <3>1. Seg(j) \in SUBSET S /\ Seg(k) \in SUBSET S
      OBVIOUS
    <3>2. Seg(j) # Seg(k)
      BY <2>2
    <3> HIDE DEF Seg
    <3> QED BY <1>3, <2>1, <3>1, <3>2 DEF StrictSubsetOrdering
  <2>4. Seg(j) \in Segs
    OBVIOUS
  <2> QED BY <1>2, <2>3, <2>4
<1> QED BY <1>4

\* The records lie in the file one after the other.
LEMMA StartFacts ==
    /\ Records \in Nat /\ Len(Start) = Records + 1 /\ DOMAIN Start = 1 .. Records + 1
    /\ \A k \in 1 .. Records + 1 : Start[k] \in Nat
    /\ Start[1] = 0 /\ Start[Records + 1] = Len(File)
    /\ \A j, k \in 1 .. Records + 1 : j < k => Start[j] + 3 <= Start[k]
    /\ \A k \in 1 .. Records + 1 : Start[k] <= Len(File)
<1>1. Records \in Nat /\ Len(Start) = Records + 1 /\ DOMAIN Start = 1 .. Records + 1
  BY DownloadAssumption, EmptySeq, LenProperties DEF Records
<1>2. /\ \A k \in 1 .. Records + 1 : Start[k] \in Nat
      /\ Start[1] = 0 /\ Start[Records + 1] = Len(File)
      /\ \A j, k \in 1 .. Records + 1 : j < k => Start[j] + 3 <= Start[k]
  BY <1>1, DownloadAssumption, ElementOfSeq
<1>3. \A k \in 1 .. Records + 1 : Start[k] <= Len(File)
  BY <1>1, <1>2
<1> QED BY <1>1, <1>2, <1>3

LEMMA RecordFacts ==
    ASSUME NEW k \in 1 .. Records
    PROVE  LET n == File[Start[k] + 3] IN
           /\ n \in Nat /\ Start[k + 1] = Start[k] + 3 + n /\ 4 + n <= BufSize
           /\ Start[k] \in Nat /\ Start[k + 1] <= Len(File)
<1>1. k \in 1 .. Records + 1 /\ k + 1 \in 1 .. Records + 1 /\ Records \in Nat
  BY StartFacts
<1>2. Start[k] \in Nat /\ Start[k] + 3 <= Len(File) /\ Start[k + 1] <= Len(File)
  BY <1>1, StartFacts
<1>3. File[Start[k] + 3] \in Nat
  <2>1. File \in Seq(Nat) /\ Len(File) \in Nat
    BY DownloadAssumption, LenProperties
  <2>2. Start[k] + 3 \in 1 .. Len(File)
    BY <1>2, <2>1
  <2> QED BY <2>1, <2>2, ElementOfSeq
<1>4. k \in 1 .. Len(Start) - 1
  BY DEF Records
<1> QED BY <1>2, <1>3, <1>4, DownloadAssumption

\* There is the last record that is there whole.
LEMMA ThereFacts ==
    ASSUME cut \in Cuts
    PROVE  /\ cut \in Nat /\ cut <= Len(File)
           /\ There \in 0 .. Records /\ Start[There + 1] <= cut
           /\ \A k \in 0 .. Records : Start[k + 1] <= cut => k <= There
           /\ There < Records => cut < Start[There + 2]
<1> DEFINE S == {k \in 0 .. Records : Start[k + 1] <= cut}
<1>1. cut \in Nat /\ cut <= Len(File)
  BY DownloadAssumption, LenProperties
<1>2. Records \in Nat /\ 0 \in S
  BY <1>1, StartFacts
<1>3. IsFiniteSet(S)
  <2>1. IsFiniteSet(0 .. Records)
    BY <1>2, FS_Interval
  <2>2. S \subseteq 0 .. Records
    OBVIOUS
  <2> QED BY <2>1, <2>2, FS_Subset
<1>4. \E k \in S : \A j \in S : k >= j
  <2>1. S \subseteq Nat /\ S # {}
    BY <1>2
  <2> QED BY <1>3, <2>1, GreatestExists
<1>5. There \in S /\ \A j \in S : There >= j
  <2>1. There = CHOOSE k \in S : \A j \in S : k >= j
    BY DEF There, Max
  <2> HIDE DEF S
  <2> QED BY <1>4, <2>1
<1>6. /\ There \in 0 .. Records /\ Start[There + 1] <= cut
      /\ \A k \in 0 .. Records : Start[k + 1] <= cut => k <= There
  BY <1>5
<1>7. ASSUME There < Records PROVE cut < Start[There + 2]
  <2>1. There + 1 \in 0 .. Records /\ There + 2 \in 1 .. Records + 1 /\ (There + 1) + 1 = There + 2
    BY <1>2, <1>6, <1>7
  <2>2. Start[There + 2] \in Nat
    BY <2>1, StartFacts
  <2>3. ~(Start[There + 2] <= cut)
    BY <1>2, <1>6, <2>1
  <2> QED BY <1>1, <2>2, <2>3
<1> QED BY <1>1, <1>6, <1>7

----------------------------------------------------------------------------
(* What a read does to buffer and to the file *)

LEMMA StoredFacts ==
    ASSUME buffer \in [0 .. BufSize - 1 -> Nat], NEW bytes \in Seq(Nat), NEW from \in Int
    PROVE  /\ Stored(from, bytes) \in [0 .. BufSize - 1 -> Nat]
           /\ \A k \in 0 .. BufSize - 1 :
                 /\ k - from + 1 \in 1 .. Len(bytes) => Stored(from, bytes)[k] = bytes[k - from + 1]
                 /\ k - from + 1 \notin 1 .. Len(bytes) => Stored(from, bytes)[k] = buffer[k]
<1>1. DOMAIN bytes = 1 .. Len(bytes) /\ \A k \in 1 .. Len(bytes) : bytes[k] \in Nat
  BY LenProperties, ElementOfSeq
<1>2. DOMAIN buffer = 0 .. BufSize - 1 /\ \A k \in 0 .. BufSize - 1 : buffer[k] \in Nat
  OBVIOUS
<1> QED BY <1>1, <1>2 DEF Stored

LEMMA SlotFacts ==
    /\ {0, 1, 2, 3} \subseteq 0 .. BufSize - 1
    /\ BufSize \in Nat
  BY DownloadAssumption

\* What a slice holds, ...
LEMMA SliceIs ==
    ASSUME NEW s \in Seq(Nat), NEW a \in Nat, NEW b \in Nat, a <= b, b <= Len(s)
    PROVE  /\ SubSeq(s, a + 1, b) \in Seq(Nat) /\ Len(SubSeq(s, a + 1, b)) = b - a
           /\ \A j \in 1 .. b - a : SubSeq(s, a + 1, b)[j] = s[a + j] /\ SubSeq(s, a + 1, b)[j] \in Nat
<1> DEFINE t == SubSeq(s, a + 1, b)
<1>1. \A j \in a + 1 .. b : s[j] \in Nat
  BY ElementOfSeq
<1>2. a + 1 \in Int /\ b \in Int
  OBVIOUS
<1>3. /\ t \in Seq(Nat) /\ Len(t) = IF a + 1 <= b THEN b - (a + 1) + 1 ELSE 0
      /\ \A j \in 1 .. b - (a + 1) + 1 : t[j] = s[a + 1 + j - 1]
  BY <1>1, <1>2, SubSeqProperties
<1> HIDE DEF t
<1>4. \A j \in 1 .. b - a : t[j] = s[a + j]
  <2> SUFFICES ASSUME NEW j \in 1 .. b - a PROVE t[j] = s[a + j]
    OBVIOUS
  <2>1. a + 1 + j - 1 = a + j /\ j \in 1 .. b - (a + 1) + 1
    OBVIOUS
  <2> QED BY <1>3, <2>1
<1>5. \A j \in 1 .. b - a : a + j \in a + 1 .. b
  OBVIOUS
<1>6. Len(t) = b - a
  BY <1>3
<1>7. \A j \in 1 .. b - a : t[j] = s[a + j] /\ t[j] \in Nat
  BY <1>1, <1>4, <1>5
<1> QED BY <1>3, <1>6, <1>7 DEF t

\* ... and the rest of one is a slice.
LEMMA SliceFacts ==
    ASSUME NEW s \in Seq(Nat), NEW a \in Nat, NEW b \in Nat, a <= b, b <= Len(s), NEW k \in 0 .. b - a,
           NEW t, t = SubSeq(s, a + 1, b)
    PROVE  /\ t \in Seq(Nat) /\ Len(t) = b - a
           /\ SubSeq(t, 1, k) \in Seq(Nat) /\ Len(SubSeq(t, 1, k)) = k
           /\ \A j \in 1 .. k : SubSeq(t, 1, k)[j] = s[a + j]
           /\ SubSeq(t, k + 1, Len(t)) = SubSeq(s, (a + k) + 1, b)
           /\ SubSeq(t, k + 1, Len(t)) \in Seq(Nat)
           /\ Len(SubSeq(t, k + 1, Len(t))) = b - (a + k)
<1> DEFINE u == SubSeq(s, (a + k) + 1, b)
           v == SubSeq(t, k + 1, b - a)
<1>1. /\ t \in Seq(Nat) /\ Len(t) = b - a
      /\ \A j \in 1 .. b - a : t[j] = s[a + j] /\ t[j] \in Nat
  BY SliceIs
<1>2. /\ SubSeq(t, 1, k) \in Seq(Nat) /\ Len(SubSeq(t, 1, k)) = k
      /\ \A j \in 1 .. k : SubSeq(t, 1, k)[j] = s[a + j]
  <2>1. \A j \in 1 .. k : t[j] \in Nat
    BY <1>1
  <2>2. /\ SubSeq(t, 1, k) \in Seq(Nat) /\ Len(SubSeq(t, 1, k)) = IF 1 <= k THEN k - 1 + 1 ELSE 0
        /\ \A j \in 1 .. k - 1 + 1 : SubSeq(t, 1, k)[j] = t[1 + j - 1]
    BY <2>1, SubSeqProperties
  <2>3. \A j \in 1 .. k : 1 + j - 1 = j /\ j \in 1 .. k - 1 + 1 /\ j \in 1 .. b - a
    OBVIOUS
  <2> QED BY <1>1, <2>2, <2>3
<1>3. /\ u \in Seq(Nat) /\ Len(u) = b - (a + k)
      /\ \A j \in 1 .. b - (a + k) : u[j] = s[(a + k) + j]
  <2>1. a + k \in Nat /\ a + k <= b
    OBVIOUS
  <2> QED BY <2>1, SliceIs
<1>4. /\ v \in Seq(Nat) /\ Len(v) = b - (a + k)
      /\ \A j \in 1 .. b - (a + k) : v[j] = t[k + j]
  <2>1. k \in Nat /\ b - a \in Nat /\ k <= b - a /\ b - a <= Len(t) /\ (b - a) - k = b - (a + k)
    BY <1>1
  <2>2. /\ v \in Seq(Nat) /\ Len(v) = (b - a) - k
        /\ \A j \in 1 .. (b - a) - k : v[j] = t[k + j]
    BY <1>1, <2>1, SliceIs
  <2> HIDE DEF v
  <2> QED BY <2>1, <2>2
<1>5. u = v
  <2> HIDE DEF u, v
  <2>1. \A j \in 1 .. b - (a + k) : u[j] = v[j]
    <3> SUFFICES ASSUME NEW j \in 1 .. b - (a + k) PROVE u[j] = v[j]
      OBVIOUS
    <3>1. k + j \in 1 .. b - a /\ a + (k + j) = (a + k) + j
      OBVIOUS
    <3>2. t[k + j] = s[a + (k + j)]
      BY <1>1, <3>1
    <3> QED BY <1>3, <1>4, <3>1, <3>2
  <2> QED BY <1>3, <1>4, <2>1, SeqEqual
<1> HIDE DEF u, v
<1>6. SubSeq(t, k + 1, Len(t)) = v
  BY <1>1 DEF v
<1>7. QED
  BY <1>1, <1>2, <1>3, <1>5, <1>6 DEF u

LEMMA HcdFacts ==
    ASSUME TypeOK
    PROVE  /\ cut \in Nat /\ cut <= Len(File) /\ File \in Seq(Nat)
           /\ Pos \in Nat /\ Pos <= cut /\ Len(hcd) \in Nat /\ Len(hcd) = cut - Pos
           /\ hcd = SubSeq(File, Pos + 1, cut)
<1>1. cut \in Nat /\ cut <= Len(File) /\ File \in Seq(Nat)
  BY ThereFacts, DownloadAssumption DEF TypeOK
<1> QED BY <1>1, LenProperties DEF TypeOK, Pos

LEMMA SliceRest ==
    ASSUME NEW s \in Seq(Nat), NEW a \in Nat, NEW b \in Nat, a <= b, b <= Len(s), NEW k \in 0 .. b - a
    PROVE  SubSeq(SubSeq(s, a + 1, b), k + 1, Len(SubSeq(s, a + 1, b))) = SubSeq(s, (a + k) + 1, b)
<1> DEFINE t == SubSeq(s, a + 1, b)
<1>1. \A u : u = t => SubSeq(u, k + 1, Len(u)) = SubSeq(s, (a + k) + 1, b)
  BY SliceFacts
<1> QED BY <1>1

LEMMA HcdSplits ==
    ASSUME TypeOK, NEW k \in 0 .. Len(hcd)
    PROVE  /\ SubSeq(hcd, 1, k) \in Seq(Nat) /\ Len(SubSeq(hcd, 1, k)) = k
           /\ \A j \in 1 .. k : SubSeq(hcd, 1, k)[j] = File[Pos + j]
           /\ SubSeq(hcd, k + 1, Len(hcd)) = SubSeq(File, (Pos + k) + 1, cut)
           /\ SubSeq(hcd, k + 1, Len(hcd)) \in Seq(Nat)
           /\ Len(SubSeq(hcd, k + 1, Len(hcd))) = cut - (Pos + k)
<1>1. /\ cut \in Nat /\ cut <= Len(File) /\ File \in Seq(Nat)
      /\ Pos \in Nat /\ Pos <= cut /\ hcd = SubSeq(File, Pos + 1, cut)
      /\ k \in 0 .. cut - Pos
  BY HcdFacts
<1>2. \A j \in 1 .. k : SubSeq(hcd, 1, k)[j] = File[Pos + j]
  BY <1>1, SliceFacts
<1>3. /\ SubSeq(hcd, 1, k) \in Seq(Nat) /\ Len(SubSeq(hcd, 1, k)) = k
      /\ SubSeq(hcd, k + 1, Len(hcd)) = SubSeq(File, (Pos + k) + 1, cut)
      /\ SubSeq(hcd, k + 1, Len(hcd)) \in Seq(Nat)
      /\ Len(SubSeq(hcd, k + 1, Len(hcd))) = cut - (Pos + k)
  BY <1>1, SliceFacts, SMTT(20)
<1> QED BY <1>2, <1>3

LEMMA FromFileFacts ==
    ASSUME ~ReadFails, TypeOK, UNCHANGED cut, NEW from \in Nat, NEW n \in Nat, FromFile(from, n)
    PROVE  \E k \in 0 .. Len(hcd) :
           /\ k <= n /\ (k = n \/ k = Len(hcd))
           /\ Pos' = Pos + k /\ Len(hcd') = Len(hcd) - k /\ Len(hcd') <= cut
           /\ hcd' \in Seq(Nat) /\ hcd' = SubSeq(File, Pos' + 1, cut)
           /\ buffer' \in [0 .. BufSize - 1 -> Nat]
           /\ \A b \in 0 .. BufSize - 1 :
                 /\ b - from + 1 \in 1 .. k => buffer'[b] = File[Pos + (b - from + 1)]
                 /\ b - from + 1 \notin 1 .. k => buffer'[b] = buffer[b]
<1>1. /\ cut \in Nat /\ Pos \in Nat /\ Pos <= cut /\ Len(hcd) \in Nat /\ Len(hcd) = cut - Pos
  BY HcdFacts
<1>2. PICK k \in 0 .. Len(hcd) :
         /\ k <= n /\ (k = n \/ k = Len(hcd))
         /\ hcd' = SubSeq(hcd, k + 1, Len(hcd)) /\ buffer' = Stored(from, SubSeq(hcd, 1, k))
  <2>1. Smaller(n, Len(hcd)) \in 0 .. Len(hcd) /\ Smaller(n, Len(hcd)) <= n
        /\ Smaller(n, Len(hcd)) \in {n, Len(hcd)}
    BY <1>1 DEF Smaller
  <2> QED BY <2>1 DEF FromFile
<1>4. hcd' \in Seq(Nat) /\ hcd' = SubSeq(File, (Pos + k) + 1, cut) /\ Len(hcd') = cut - (Pos + k)
  BY <1>2, HcdSplits
<1>5. Pos' = Pos + k
  <2>1. Pos' = cut' - Len(hcd')
    BY DEF Pos
  <2>2. Len(hcd') = cut - (Pos + k)
    BY <1>4
  <2> QED BY <1>1, <2>1, <2>2
<1>6. /\ buffer' \in [0 .. BufSize - 1 -> Nat]
      /\ \A b \in 0 .. BufSize - 1 :
                 /\ b - from + 1 \in 1 .. k => buffer'[b] = SubSeq(hcd, 1, k)[b - from + 1]
                 /\ b - from + 1 \notin 1 .. k => buffer'[b] = buffer[b]
  <2> DEFINE bytes == SubSeq(hcd, 1, k)
  <2>1. buffer \in [0 .. BufSize - 1 -> Nat]
    BY DEF TypeOK
  <2>2. bytes \in Seq(Nat) /\ Len(bytes) = k /\ from \in Int
    BY HcdSplits
  <2>3. buffer' = Stored(from, bytes)
    BY <1>2
  <2> HIDE DEF bytes
  <2>4. /\ Stored(from, bytes) \in [0 .. BufSize - 1 -> Nat]
        /\ \A b \in 0 .. BufSize - 1 :
              /\ b - from + 1 \in 1 .. k => Stored(from, bytes)[b] = bytes[b - from + 1]
              /\ b - from + 1 \notin 1 .. k => Stored(from, bytes)[b] = buffer[b]
    BY <2>1, <2>2, StoredFacts
  <2> QED BY <2>3, <2>4 DEF bytes
<1>7. \A j \in 1 .. k : SubSeq(hcd, 1, k)[j] = File[Pos + j]
  BY HcdSplits
<1>8. hcd' = SubSeq(File, Pos' + 1, cut) /\ Len(hcd') = Len(hcd) - k /\ Len(hcd') <= cut
  <2>1. Len(hcd') = Len(hcd) - k /\ Len(hcd') <= cut
    BY <1>1, <1>4
  <2> QED BY <1>4, <1>5, <2>1
<1>9. \A b \in 0 .. BufSize - 1 :
         /\ b - from + 1 \in 1 .. k => buffer'[b] = File[Pos + (b - from + 1)]
         /\ b - from + 1 \notin 1 .. k => buffer'[b] = buffer[b]
  BY <1>6, <1>7
<1> QED BY <1>2, <1>4, <1>5, <1>6, <1>8, <1>9

\* What a read of the UART stores, and what it leaves there.
LEMMA ReadFacts ==
    ASSUME TypeOK, NEW n \in Int, n <= Len(line), buffer' = Stored(i, SubSeq(line, 1, n)),
           line' = IF n > 0 THEN SubSeq(line, n + 1, Len(line)) ELSE line
    PROVE  /\ buffer' \in [0 .. BufSize - 1 -> Nat] /\ line' \in Seq(Nat)
           /\ \A b \in 0 .. BufSize - 1 :
                 /\ b - i + 1 \in 1 .. n => buffer'[b] = line[b - i + 1]
                 /\ b - i + 1 \notin 1 .. n => buffer'[b] = buffer[b]
<1> DEFINE bytes == SubSeq(line, 1, n)
<1>1. line \in Seq(Nat) /\ Len(line) \in Nat /\ \A j \in 1 .. Len(line) : line[j] \in Nat
  BY LenProperties, ElementOfSeq DEF TypeOK
<1>2. /\ bytes \in Seq(Nat) /\ Len(bytes) = IF 1 <= n THEN n ELSE 0
      /\ \A j \in 1 .. n : bytes[j] = line[j]
  <2>1. \A j \in 1 .. n : line[j] \in Nat
    BY <1>1
  <2>2. /\ bytes \in Seq(Nat) /\ Len(bytes) = IF 1 <= n THEN n - 1 + 1 ELSE 0
        /\ \A j \in 1 .. n - 1 + 1 : bytes[j] = line[1 + j - 1]
    BY <2>1, SubSeqProperties
  <2>3. \A j \in 1 .. n : 1 + j - 1 = j /\ j \in 1 .. n - 1 + 1
    OBVIOUS
  <2> HIDE DEF bytes
  <2> QED BY <2>2, <2>3
<1>3. line' \in Seq(Nat)
  <2>1. CASE n > 0
    <3>1. \A j \in n + 1 .. Len(line) : line[j] \in Nat
      BY <1>1, <2>1
    <3>2. SubSeq(line, n + 1, Len(line)) \in Seq(Nat)
      BY <1>1, <3>1, SubSeqProperties
    <3> QED BY <2>1, <3>2
  <2> QED BY <1>1, <2>1
<1> HIDE DEF bytes
<1>4. buffer \in [0 .. BufSize - 1 -> Nat] /\ i \in Int /\ buffer' = Stored(i, bytes)
  BY DEF TypeOK, bytes
<1>5. /\ Stored(i, bytes) \in [0 .. BufSize - 1 -> Nat]
      /\ \A b \in 0 .. BufSize - 1 :
            /\ b - i + 1 \in 1 .. Len(bytes) => Stored(i, bytes)[b] = bytes[b - i + 1]
            /\ b - i + 1 \notin 1 .. Len(bytes) => Stored(i, bytes)[b] = buffer[b]
  BY <1>2, <1>4, StoredFacts
<1>6. 1 .. Len(bytes) = 1 .. n
  BY <1>2
<1> QED BY <1>2, <1>3, <1>4, <1>5, <1>6

----------------------------------------------------------------------------
(* The file *)

LEMMA DoneFacts ==
    ASSUME FileInv
    PROVE  /\ Done \in Nat /\ There \in Nat /\ There <= Records /\ Records \in Nat
           /\ cut \in Nat /\ Start[There + 1] <= cut
           /\ Done <= There => /\ Done + 1 \in 1 .. Records + 1 /\ Start[Done + 1] \in Nat
                               /\ Start[Done + 1] <= cut
           /\ Done < There => Start[Done + 1] + 3 <= Start[Done + 2] /\ Start[Done + 2] <= cut
<1>1. /\ cut \in Cuts /\ sent \in Seq(Seq(Nat))
  BY DEF FileInv, TypeOK
<1>2. Done \in Nat
  BY <1>1, LenProperties DEF Done
<1>3. /\ cut \in Nat /\ There \in 0 .. Records /\ Start[There + 1] <= cut
  BY <1>1, ThereFacts
<1>4. /\ Records \in Nat
      /\ \A k \in 1 .. Records + 1 : Start[k] \in Nat
      /\ \A j, k \in 1 .. Records + 1 : j < k => Start[j] + 3 <= Start[k]
  BY StartFacts
<1>5. ASSUME Done <= There
      PROVE  Done + 1 \in 1 .. Records + 1 /\ Start[Done + 1] \in Nat /\ Start[Done + 1] <= cut
  <2>1. Done + 1 \in 1 .. Records + 1 /\ There + 1 \in 1 .. Records + 1
    BY <1>2, <1>3, <1>4, <1>5
  <2>2. Done + 1 = There + 1 \/ Done + 1 < There + 1
    BY <1>2, <1>3, <1>5
  <2> QED BY <1>3, <1>4, <2>1, <2>2
<1>6. ASSUME Done < There
      PROVE  Start[Done + 1] + 3 <= Start[Done + 2] /\ Start[Done + 2] <= cut
  <2>1. /\ Done + 1 \in 1 .. Records + 1 /\ Done + 2 \in 1 .. Records + 1
        /\ There + 1 \in 1 .. Records + 1 /\ Done + 1 < Done + 2
    BY <1>2, <1>3, <1>4, <1>6
  <2>2. Done + 2 = There + 1 \/ Done + 2 < There + 1
    BY <1>2, <1>3, <1>6
  <2> QED BY <1>3, <1>4, <2>1, <2>2
<1> QED BY <1>2, <1>3, <1>4, <1>5, <1>6

LEMMA InitFile == Init => FileInv
<1> SUFFICES ASSUME Init PROVE FileInv
  OBVIOUS
<1>1. cut \in Nat /\ cut <= Len(File) /\ There \in 0 .. Records /\ File \in Seq(Nat)
  BY ThereFacts, DownloadAssumption DEF Init
<1>2. hcd \in Seq(Nat) /\ Len(hcd) = cut
  <2>1. \A j \in 1 .. cut : File[j] \in Nat
    BY <1>1, ElementOfSeq
  <2>2. SubSeq(File, 1, cut) \in Seq(Nat) /\ Len(SubSeq(File, 1, cut)) = IF 1 <= cut THEN cut - 1 + 1 ELSE 0
    BY <1>1, <2>1, SubSeqProperties
  <2> QED BY <1>1, <2>2 DEF Init
<1>3. Pos = 0 /\ Done = 0 /\ Start[1] = 0
  BY <1>1, <1>2, StartFacts DEF Pos, Done, Init
<1>4. hcd = SubSeq(File, Pos + 1, cut)
  BY <1>3 DEF Init
<1>5. TypeOK
  <2>1. buffer \in [0 .. BufSize - 1 -> Nat] /\ sent \in Seq(Seq(Nat)) /\ wire \in Seq(Nat)
    BY DEF Init, None
  <2>2. /\ cut \in Cuts /\ pc = "header" /\ i = 0 /\ len = 0 /\ taken = 0 /\ line \in Seq(Nat)
    BY DEF Init
  <2> QED BY <1>1, <1>2, <1>4, <2>1, <2>2, SMTT(20) DEF TypeOK
<1>6. Between
  BY <1>1, <1>3 DEF Between
<1>7. \A k \in 1 .. Smaller(There, Done) : FALSE
  BY <1>1, <1>3 DEF Smaller
<1> QED BY <1>3, <1>5, <1>6, <1>7 DEF FileInv, Init

\* Reading a header leaves the loop behind it, or at the end of a file cut off in it.
LEMMA HeaderFile == ASSUME ~ReadFails, FileInv, ReadHeader PROVE FileInv'
<1>1. /\ pc = "header" /\ hcd # <<>> /\ cut' = cut /\ FromFile(1, 3) /\ TypeOK
  BY DEF ReadHeader, FileInv
<1>2. /\ Done <= There /\ Pos = Start[Done + 1]
  BY <1>1 DEF FileInv, Between
<1>3. PICK k \in 0 .. Len(hcd) :
           /\ k <= 3 /\ (k = 3 \/ k = Len(hcd))
           /\ Pos' = Pos + k /\ Len(hcd') = Len(hcd) - k /\ Len(hcd') <= cut
           /\ hcd' \in Seq(Nat) /\ hcd' = SubSeq(File, Pos' + 1, cut)
           /\ buffer' \in [0 .. BufSize - 1 -> Nat]
           /\ \A b \in 0 .. BufSize - 1 :
                 /\ b - 1 + 1 \in 1 .. k => buffer'[b] = File[Pos + (b - 1 + 1)]
                 /\ b - 1 + 1 \notin 1 .. k => buffer'[b] = buffer[b]
  BY <1>1, FromFileFacts
<1>4. /\ pc' = "payload" /\ len' = buffer'[3] /\ len' \in Nat
      /\ UNCHANGED <<cut, i, wire, line, sent, taken>>
  <2>1. buffer'[3] \in Nat
    BY <1>3, SlotFacts
  <2> QED BY <2>1 DEF ReadHeader
<1>5. Done' = Done /\ There' = There
  BY <1>4 DEF Done, There
<1>6. TypeOK'
  BY <1>1, <1>3, <1>4 DEF TypeOK
<1>7. /\ Done \in Nat /\ There \in Nat /\ There <= Records /\ Records \in Nat
      /\ cut \in Nat /\ Pos \in Nat /\ Len(hcd) \in Nat /\ Len(hcd) = cut - Pos /\ Len(hcd) > 0
      /\ cut <= Len(File) /\ Start[Records + 1] = Len(File)
  <2>1. Len(hcd) > 0
    BY <1>1, HcdFacts, EmptySeq, SMTT(20) DEF TypeOK
  <2> QED BY <1>1, <2>1, DoneFacts, HcdFacts, StartFacts
<1>8. Done <= There /\ cut # Start[Done + 1]
  BY <1>2, <1>7
<1>9. ASSUME k = 3 PROVE HeaderRead'
  <2>1. Pos' = Start[Done + 1] + 3
    BY <1>2, <1>3, <1>9
  <2>2. Done < Records
    <3>1. Start[Done + 1] + 3 <= cut /\ Start[Done + 1] \in Nat
      BY <1>2, <1>3, <1>7, <1>9, SMTT(20)
    <3>2. Done # Records
      BY <1>7, <3>1
    <3> QED BY <1>2, <1>7, <3>2
  <2>3. \A b \in 1 .. 3 : buffer'[b] = File[Start[Done + 1] + b]
    <3>1. \A b \in 1 .. 3 : b \in 0 .. BufSize - 1 /\ b - 1 + 1 = b
      BY DownloadAssumption
    <3> QED BY <1>2, <1>3, <1>9, <3>1
  <2> QED BY <1>4, <1>5, <1>8, <2>1, <2>2, <2>3 DEF HeaderRead
<1>10. ASSUME k # 3 PROVE HeaderRead'
  <2>1. k = Len(hcd) /\ Len(hcd) < 3 /\ Len(hcd') = 0
    BY <1>3, <1>7, <1>10
  <2>2. hcd' = <<>>
    BY <1>3, <2>1, EmptySeq
  <2>3. Done = There
    <3>1. Done < There => Start[Done + 1] + 3 <= cut
      <4>1. Done < There => /\ Start[Done + 1] + 3 <= Start[Done + 2] /\ Start[Done + 2] <= cut
                            /\ Done + 2 \in 1 .. Records + 1
        BY <1>7, DoneFacts
      <4>2. \A j \in 1 .. Records + 1 : Start[j] \in Nat
        BY StartFacts
      <4> QED BY <1>2, <1>7, <4>1, <4>2, SMTT(20)
    <3> QED BY <1>2, <1>7, <2>1, <3>1
  <2>4. HeaderRead' <=> /\ Done' <= There' /\ cut' # Start[Done' + 1] /\ len' = buffer'[3]
                        /\ \/ /\ Done' < Records /\ Pos' = Start[Done' + 1] + 3
                              /\ \A b \in 1 .. 3 : buffer'[b] = File[Start[Done' + 1] + b]
                           \/ Done' = There' /\ hcd' = <<>>
    BY DEF HeaderRead
  <2> QED BY <1>4, <1>5, <1>8, <2>2, <2>3, <2>4
<1>11. HeaderRead'
  BY <1>9, <1>10
<1> QED BY <1>1, <1>4, <1>5, <1>6, <1>11 DEF FileInv
\* Command sends the record it was read from, when the record is there whole.
LEMMA CommandIsRecord ==
    ASSUME NEW k \in 1 .. Records, NEW buf \in [0 .. BufSize - 1 -> Nat],
           len \in Nat, Start[k + 1] = Start[k] + 3 + len, 4 + len <= BufSize,
           \A b \in 1 .. 3 + len : buf[b] = File[Start[k] + b]
    PROVE  Command(buf) = <<1>> \o Record(k)
<1> DEFINE r == Record(k)
<1>1. /\ Start[k] \in Nat /\ Start[k + 1] <= Len(File) /\ File \in Seq(Nat)
  BY RecordFacts, DownloadAssumption
<1>2. r \in Seq(Nat) /\ Len(r) = 3 + len /\ \A j \in 1 .. 3 + len : r[j] = File[Start[k] + j]
  <2>0. \A a \in Nat, n \in Nat : \A b : b = a + 3 + n => b \in Nat /\ a <= b /\ b - a = 3 + n
    OBVIOUS
  <2>1. Start[k + 1] \in Nat /\ Start[k] <= Start[k + 1] /\ Start[k + 1] - Start[k] = 3 + len
    BY <1>1, <2>0, Zenon
  <2> DEFINE f == SubSeq(File, Start[k] + 1, Start[k + 1])
  <2>2. /\ f \in Seq(Nat) /\ Len(f) = Start[k + 1] - Start[k]
        /\ \A j \in 1 .. Start[k + 1] - Start[k] : f[j] = File[Start[k] + j]
    BY <1>1, <2>1, SliceIs
  <2>3. r = f
    BY DEF Record
  <2> HIDE DEF f, r
  <2> QED BY <2>1, <2>2, <2>3
<1> HIDE DEF r
<1>3. /\ <<1>> \o r \in Seq(Nat) /\ Len(<<1>> \o r) = len + 4
      /\ (<<1>> \o r)[1] = 1 /\ \A j \in 2 .. len + 4 : (<<1>> \o r)[j] = r[j - 1]
  <2>1. <<1>> \in Seq(Nat) /\ Len(<<1>>) = 1 /\ <<1>>[1] = 1
    OBVIOUS
  <2>2. /\ <<1>> \o r \in Seq(Nat) /\ Len(<<1>> \o r) = 1 + Len(r)
        /\ \A j \in 1 .. 1 + Len(r) : (<<1>> \o r)[j] = IF j <= 1 THEN <<1>>[j] ELSE r[j - 1]
    BY <1>2, <2>1, ConcatProperties
  <2> QED BY <1>1, <1>2, <2>1, <2>2
<1>4. /\ Command(buf) \in Seq(Nat) /\ Len(Command(buf)) = len + 4
      /\ Command(buf)[1] = 1 /\ \A j \in 2 .. len + 4 : Command(buf)[j] = buf[j - 1]
  <2>1. 4 + len <= BufSize /\ BufSize \in Nat
    BY DownloadAssumption
  <2>2. \A j \in 1 .. len + 4 : (IF j = 1 THEN 1 ELSE buf[j - 1]) \in Nat
    BY <1>1, <2>1
  <2>3. len + 4 \in Nat
    BY <1>1
  <2>4. /\ Command(buf) \in Seq(Nat) /\ Len(Command(buf)) = len + 4
    BY <2>2, <2>3, IsASeq DEF Command
  <2>5. \A j \in 1 .. len + 4 : Command(buf)[j] = IF j = 1 THEN 1 ELSE buf[j - 1]
    BY DEF Command
  <2>6. 1 \in 1 .. len + 4 /\ \A j \in 2 .. len + 4 : j \in 1 .. len + 4 /\ j # 1
    BY <2>3
  <2> QED BY <2>4, <2>5, <2>6
<1>5. \A j \in 1 .. len + 4 : Command(buf)[j] = (<<1>> \o r)[j]
  <2> SUFFICES ASSUME NEW j \in 1 .. len + 4 PROVE Command(buf)[j] = (<<1>> \o r)[j]
    OBVIOUS
  <2>1. CASE j = 1
    BY <1>3, <1>4, <2>1
  <2>2. CASE j # 1
    <3>1. j \in 2 .. len + 4 /\ j - 1 \in 1 .. 3 + len
      BY <1>1, <2>2
    <3> QED BY <1>2, <1>3, <1>4, <3>1
  <2> QED BY <2>1, <2>2
<1>6. Command(buf) = <<1>> \o r
  BY <1>3, <1>4, <1>5, SeqEqual
<1> QED BY <1>6 DEF r

LEMMA CommandTyped ==
    ASSUME TypeOK, NEW buf \in [0 .. BufSize - 1 -> Nat], 4 + len <= BufSize
    PROVE  Command(buf) \in Seq(Nat) /\ Len(Command(buf)) = len + 4
<1>1. len \in Nat /\ BufSize \in Nat
  BY DownloadAssumption DEF TypeOK
<1>2. \A j \in 1 .. len + 4 : (IF j = 1 THEN 1 ELSE buf[j - 1]) \in Nat
  BY <1>1
<1> QED BY <1>1, <1>2, IsASeq DEF Command

\* A record is sent as it is in the file, or the file ends in it.
LEMMA SendFile ==
    ASSUME ~ReadFails, FileInv, SendRecord, 4 + len <= BufSize PROVE FileInv'
<1>1. /\ pc = "payload" /\ cut' = cut /\ FromFile(4, len) /\ TypeOK /\ HeaderRead /\ len \in Nat
      /\ taken = Done
  BY DEF SendRecord, FileInv, TypeOK
<1>2. /\ Done \in Nat /\ There \in Nat /\ There <= Records /\ Records \in Nat
      /\ cut \in Nat /\ Pos \in Nat /\ Len(hcd) \in Nat /\ Len(hcd) = cut - Pos
      /\ Done <= There /\ cut # Start[Done + 1]
  BY <1>1, DoneFacts, HcdFacts DEF HeaderRead
<1>3. PICK k \in 0 .. Len(hcd) :
           /\ k <= len /\ (k = len \/ k = Len(hcd))
           /\ Pos' = Pos + k /\ Len(hcd') = Len(hcd) - k /\ Len(hcd') <= cut
           /\ hcd' \in Seq(Nat) /\ hcd' = SubSeq(File, Pos' + 1, cut)
           /\ buffer' \in [0 .. BufSize - 1 -> Nat]
           /\ \A b \in 0 .. BufSize - 1 :
                 /\ b - 4 + 1 \in 1 .. k => buffer'[b] = File[Pos + (b - 4 + 1)]
                 /\ b - 4 + 1 \notin 1 .. k => buffer'[b] = buffer[b]
  BY <1>1, FromFileFacts
<1>4. /\ pc' = "first" /\ i' = 0 /\ len' = 3 /\ wire' = Command(buffer')
      /\ sent' = Append(sent, Command(buffer')) /\ UNCHANGED <<cut, line, taken>>
  BY DEF SendRecord
<1>5. /\ Done' = Done + 1 /\ There' = There /\ sent' \in Seq(Seq(Nat)) /\ wire' \in Seq(Nat)
      /\ \A j \in 1 .. Done : sent'[j] = sent[j]
      /\ sent'[Done + 1] = Command(buffer')
  <2>1. sent \in Seq(Seq(Nat)) /\ Command(buffer') \in Seq(Nat)
    BY <1>1, <1>3, CommandTyped DEF TypeOK
  <2>2. /\ sent' \in Seq(Seq(Nat)) /\ Len(sent') = Len(sent) + 1
        /\ \A j \in 1 .. Len(sent) : sent'[j] = sent[j]
        /\ sent'[Len(sent) + 1] = Command(buffer')
    BY <1>4, <2>1, AppendProperties
  <2> QED BY <1>4, <2>1, <2>2 DEF Done, There
<1>6. TypeOK'
  <2>1. cut' \in Cuts /\ taken' \in Nat /\ line' \in Seq(Nat) /\ i' \in Int /\ len' \in Nat
    BY <1>1, <1>4 DEF TypeOK
  <2>2. hcd' = SubSeq(File, Pos' + 1, cut') /\ Len(hcd') <= cut'
    BY <1>3, <1>4
  <2> QED BY <1>3, <1>4, <1>5, <2>1, <2>2 DEF TypeOK
<1>7. ASSUME hcd' = <<>>, Done = There PROVE Between'
  BY <1>2, <1>4, <1>5, <1>7 DEF Between
<1>8. ASSUME Done < There
      PROVE  Between' /\ sent'[Done + 1] = <<1>> \o Record(Done + 1)
  <2>1. Done + 1 \in 1 .. Records /\ Done + 2 = (Done + 1) + 1
    BY <1>2, <1>8
  <2>2. /\ Pos = Start[Done + 1] + 3 /\ Start[Done + 1] \in Nat
        /\ \A b \in 1 .. 3 : buffer[b] = File[Start[Done + 1] + b]
    BY <1>1, <1>2, <1>8, DoneFacts DEF HeaderRead
  <2>3. /\ Start[Done + 2] = Start[Done + 1] + 3 + len /\ Start[Done + 2] <= cut
    <3>1. len = File[Start[Done + 1] + 3]
      BY <1>1, <1>2, <1>8 DEF HeaderRead
    <3>2. Start[(Done + 1) + 1] = Start[Done + 1] + 3 + File[Start[Done + 1] + 3]
      BY <2>1, RecordFacts
    <3> QED BY <1>8, <2>1, <3>1, <3>2, DoneFacts
  <2>4. k = len /\ Pos' = Start[Done + 2]
    <3>1. Pos + len <= cut
      BY <1>1, <1>2, <2>2, <2>3
    <3>2. k = len
      BY <1>1, <1>2, <1>3, <3>1
    <3> QED BY <1>3, <2>2, <2>3, <3>2
  <2>5. Between'
    BY <1>2, <1>5, <1>8, <2>1, <2>4 DEF Between
  <2>6. \A b \in 1 .. 3 + len : buffer'[b] = File[Start[Done + 1] + b]
    <3> SUFFICES ASSUME NEW b \in 1 .. 3 + len PROVE buffer'[b] = File[Start[Done + 1] + b]
      OBVIOUS
    <3>1. b \in 0 .. BufSize - 1 /\ Start[Done + 1] \in Nat
      BY <1>1, <2>2, DownloadAssumption
    <3>2. CASE b <= 3
      <4>1. b - 4 + 1 \notin 1 .. k /\ b \in 1 .. 3
        BY <3>2
      <4> QED BY <1>3, <2>2, <3>1, <4>1
    <3>3. CASE b > 3
      <4>1. b - 4 + 1 \in 1 .. k
        BY <1>1, <2>4, <3>3
      <4>2. Pos + (b - 4 + 1) = Start[Done + 1] + b
        <5>1. Pos = Start[Done + 1] + 3 /\ Start[Done + 1] \in Nat /\ b \in Int
          BY <2>2, <3>1
        <5> QED BY ONLY <5>1, SMTT(20)
      <4> QED BY <1>3, <3>1, <4>1, <4>2
    <3> QED BY <3>2, <3>3
  <2>7. Start[(Done + 1) + 1] = Start[Done + 1] + 3 + len
    BY <2>1, <2>3
  <2>8. Command(buffer') = <<1>> \o Record(Done + 1)
    BY <1>1, <1>3, <2>1, <2>6, <2>7, CommandIsRecord
  <2> QED BY <1>5, <2>5, <2>8
<1>9. ASSUME Done = There PROVE hcd' = <<>>
  <2>1. CASE hcd = <<>>
    <3>1. Len(hcd') = 0
      BY <1>2, <1>3, <2>1
    <3> QED BY <1>3, <3>1, EmptySeq
  <2>2. CASE hcd # <<>>
    <3>1. /\ Done < Records /\ Pos = Start[Done + 1] + 3 /\ len = File[Start[Done + 1] + 3]
      BY <1>1, <2>2 DEF HeaderRead
    <3>2. Done + 1 \in 1 .. Records /\ Done + 2 = (Done + 1) + 1
      BY <1>2, <3>1
    <3>3. Start[Done + 2] = Pos + len
      BY <3>1, <3>2, RecordFacts
    <3>4. cut < Start[Done + 2]
      BY <1>1, <1>9, <3>1, ThereFacts DEF TypeOK
    <3>5. Len(hcd') = 0
      BY <1>1, <1>2, <1>3, <3>3, <3>4
    <3> QED BY <1>3, <3>5, EmptySeq
  <2> QED BY <2>1, <2>2
<1>10. Between' /\ \A j \in 1 .. Smaller(There', Done') : sent'[j] = <<1>> \o Record(j)
  <2>1. \A j \in 1 .. Smaller(There, Done) : sent[j] = <<1>> \o Record(j)
    BY DEF FileInv
  <2>2. CASE Done < There
    <3>1. Smaller(There, Done) = Done /\ Smaller(There', Done') = Done + 1
      BY <1>2, <1>5, <2>2 DEF Smaller
    <3>2. \A j \in 1 .. Done + 1 : j = Done + 1 \/ j \in 1 .. Done
      BY <1>2
    <3> QED BY <1>5, <1>8, <2>1, <2>2, <3>1, <3>2
  <2>3. CASE Done = There
    <3>1. Smaller(There', Done') = Done /\ Smaller(There, Done) = Done
      BY <1>2, <1>5, <2>3 DEF Smaller
    <3> QED BY <1>5, <1>7, <1>9, <2>1, <2>3, <3>1
  <2> QED BY <1>2, <2>2, <2>3
<1>11. taken' = Done' - 1
  BY <1>1, <1>2, <1>4, <1>5
<1> QED BY <1>4, <1>6, <1>10, <1>11 DEF FileInv

LEMMA EndFile == ASSUME FileInv, EndOfFile PROVE FileInv'
<1>1. UNCHANGED <<cut, hcd, buffer, i, len, wire, line, sent, taken>> /\ pc = "header" /\ hcd = <<>>
      /\ pc' = "done"
  BY DEF EndOfFile
<1>2. Done' = Done /\ There' = There /\ Pos' = Pos
  BY <1>1 DEF Done, There, Pos
<1>3. TypeOK'
  BY <1>1, <1>2 DEF FileInv, TypeOK
<1>4. Between'
  BY <1>1, <1>2 DEF FileInv, Between
<1> QED BY <1>1, <1>2, <1>3, <1>4 DEF FileInv

\* What is left of read_event when the bytes of one read are stored.
ReadStep(n) ==
    /\ pc \in {"first", "rest"} /\ n <= len /\ n <= Len(line)
    /\ buffer' = Stored(i, SubSeq(line, 1, n))
    /\ line' = IF n > 0 THEN SubSeq(line, n + 1, Len(line)) ELSE line
    /\ IF n < len THEN Piece(n) /\ UNCHANGED <<pc, taken>> ELSE Filled
    /\ UNCHANGED <<cut, hcd, wire, sent>>

LEMMA ReadSteps ==
    ASSUME TypeOK, ReadEvent
    PROVE  \E n \in Int : /\ ReadStep(n)
                          /\ ~ReadFails => n \in Nat
                          /\ ~ReadFails /\ len > 0 => n > 0 /\ Len(line) > 0
<1>1. Len(line) \in Nat /\ len \in Nat
  BY LenProperties DEF TypeOK
<1>2. PICK n \in (IF len = 0 THEN {0} ELSE 1 .. Smaller(len, Len(line)))
                  \cup (IF ReadFails THEN {-1} ELSE {}) :
          /\ buffer' = Stored(i, SubSeq(line, 1, n))
          /\ line' = IF n > 0 THEN SubSeq(line, n + 1, Len(line)) ELSE line
          /\ IF n < len THEN Piece(n) /\ UNCHANGED <<pc, taken>> ELSE Filled
  BY DEF ReadEvent
<1>3. /\ n \in Int /\ n <= len /\ n <= Len(line)
      /\ ~ReadFails => n \in Nat
      /\ ~ReadFails /\ len > 0 => n > 0 /\ Len(line) > 0
  BY <1>1, <1>2 DEF Smaller
<1> QED BY <1>2, <1>3 DEF ReadStep, ReadEvent

LEMMA ReadFile == ASSUME FileInv, ReadEvent PROVE FileInv'
<1>1. TypeOK /\ Between
  BY DEF FileInv, ReadEvent
<1>2. PICK n \in Int : ReadStep(n)
  BY <1>1, ReadSteps
<1>3. /\ UNCHANGED <<cut, hcd, wire, sent>> /\ pc \in {"first", "rest"}
      /\ buffer' \in [0 .. BufSize - 1 -> Nat] /\ line' \in Seq(Nat)
  BY <1>1, <1>2, ReadFacts DEF ReadStep
<1>4. Done' = Done /\ There' = There /\ Pos' = Pos /\ Done \in Nat
  BY <1>3, DoneFacts DEF Done, There, Pos
<1>5. Between'
  BY <1>1, <1>3, <1>4 DEF Between
<1>6. /\ i' \in Int /\ len' \in Nat
      /\ \/ pc' \in {"first", "rest"} /\ taken' = taken
         \/ pc' = "header" /\ taken' = taken + 1
  <2>1. i \in Int /\ len \in Nat /\ buffer'[2] \in Nat
    BY <1>1, <1>3, SlotFacts DEF TypeOK
  <2>2. CASE n < len
    BY <1>2, <1>3, <2>1, <2>2 DEF ReadStep, Piece
  <2>3. CASE ~(n < len)
    BY <1>2, <1>3, <2>1, <2>3 DEF ReadStep, Filled
  <2> QED BY <2>2, <2>3
<1>7. taken' = IF pc' \in {"first", "rest"} THEN Done' - 1 ELSE Done'
  BY <1>3, <1>4, <1>6 DEF FileInv
<1>8. taken \in Nat
  BY <1>1 DEF TypeOK
<1>9. TypeOK'
  <2>1. hcd' = SubSeq(File, Pos' + 1, cut')
    BY <1>1, <1>3, <1>4 DEF TypeOK
  <2>2. /\ cut' \in Cuts /\ hcd' \in Seq(Nat) /\ Len(hcd') <= cut'
        /\ wire' \in Seq(Nat) /\ sent' \in Seq(Seq(Nat))
    BY <1>1, <1>3 DEF TypeOK
  <2>3. taken' \in Nat /\ pc' \in {"header", "payload", "first", "rest", "done"}
    BY <1>3, <1>6, <1>8
  <2> QED BY <1>3, <1>6, <2>1, <2>2, <2>3 DEF TypeOK
<1> QED BY <1>3, <1>4, <1>5, <1>6, <1>7, <1>9 DEF FileInv

LEMMA AnswerFile == ASSUME FileInv, CtlAnswer PROVE FileInv'
<1>1. UNCHANGED <<cut, hcd, buffer, pc, i, len, sent, taken>>
      /\ wire' = <<>> /\ \E e \in Events : line' = line \o e
  BY DEF CtlAnswer, None
<1>2. Done' = Done /\ There' = There /\ Pos' = Pos
  BY <1>1 DEF Done, There, Pos
<1>3. line' \in Seq(Nat) /\ wire' \in Seq(Nat)
  BY <1>1, DownloadAssumption, ConcatProperties DEF FileInv, TypeOK
<1>4. TypeOK'
  BY <1>1, <1>2, <1>3 DEF FileInv, TypeOK
<1>5. Between' = Between /\ HeaderRead' = HeaderRead
  BY <1>1, <1>2 DEF Between, HeaderRead
<1> QED BY <1>1, <1>2, <1>4, <1>5 DEF FileInv

LEMMA IdleFile == ASSUME FileInv, UNCHANGED vars PROVE FileInv'
<1>1. UNCHANGED <<cut, hcd, buffer, pc, i, len, wire, line, sent, taken>>
  BY DEF vars
<1>2. Done' = Done /\ There' = There /\ Pos' = Pos
  BY <1>1 DEF Done, There, Pos
<1>4. TypeOK'
  BY <1>1, <1>2 DEF FileInv, TypeOK
<1>5. Between' = Between /\ HeaderRead' = HeaderRead
  BY <1>1, <1>2 DEF Between, HeaderRead
<1> QED BY <1>1, <1>2, <1>4, <1>5 DEF FileInv
----------------------------------------------------------------------------
(* The events *)

LEMMA EventFacts ==
    ASSUME NEW e \in Events
    PROVE  /\ e \in Seq(Nat) /\ Len(e) \in Nat /\ Len(e) >= 3 /\ Len(e) <= BufSize
           /\ e[3] \in Nat /\ Len(e) = 3 + e[3]
           /\ Len(e) > 3 => e[4] \in Nat /\ 4 + e[4] <= BufSize
<1>1. e \in Seq(Nat) /\ Len(e) \in Nat /\ Len(e) >= 3
  BY DownloadAssumption, LenProperties
<1>2. e[3] \in Nat /\ (Len(e) > 3 => e[4] \in Nat)
  BY <1>1, ElementOfSeq
<1> QED BY <1>1, <1>2, DownloadAssumption

LEMMA InitEvent == Init => EventInv
<1> SUFFICES ASSUME Init PROVE EventInv
  OBVIOUS
<1>1. /\ pc = "header" /\ wire = None /\ line = <<>> /\ taken = 0
      /\ buffer = [k \in 0 .. BufSize - 1 |-> 0]
  BY DEF Init
<1>2. 4 + buffer[3] <= BufSize
  BY <1>1, DownloadAssumption, SlotFacts
<1> QED BY <1>1, <1>2 DEF EventInv

\* A header that is read whole brings the length of a record.
LEMMA HeaderEvent == ASSUME ~ReadFails, FileInv, EventInv, ReadHeader PROVE EventInv'
<1>1. /\ pc = "header" /\ hcd # <<>> /\ cut' = cut /\ FromFile(1, 3) /\ TypeOK /\ pc' = "payload"
      /\ UNCHANGED <<wire, line>>
  BY DEF ReadHeader, FileInv
<1>2. Done <= There /\ Pos = Start[Done + 1]
  BY <1>1 DEF FileInv, Between
<1>3. PICK k \in 0 .. Len(hcd) :
           /\ k <= 3 /\ Pos' = Pos + k
           /\ \A b \in 0 .. BufSize - 1 :
                 /\ b - 1 + 1 \in 1 .. k => buffer'[b] = File[Pos + (b - 1 + 1)]
                 /\ b - 1 + 1 \notin 1 .. k => buffer'[b] = buffer[b]
  BY <1>1, FromFileFacts
<1>4. /\ Done \in Nat /\ There <= Records /\ Records \in Nat /\ There \in Nat
      /\ cut \in Nat /\ Pos \in Nat /\ Len(hcd) = cut - Pos
      /\ cut <= Len(File) /\ Start[Records + 1] = Len(File)
  BY <1>1, DoneFacts, HcdFacts, StartFacts
<1>5. 3 \in 0 .. BufSize - 1 /\ 3 - 1 + 1 = 3
  BY DownloadAssumption
<1>6. 4 + buffer'[3] <= BufSize
  <2>1. CASE k = 3
    <3>1. buffer'[3] = File[Start[Done + 1] + 3] /\ Start[Done + 1] + 3 <= Len(File)
      BY <1>2, <1>3, <1>4, <1>5, <2>1, SMTT(20)
    <3>2. Done # Records
      BY <1>2, <1>4, <3>1
    <3>3. Done + 1 \in 1 .. Records
      BY <1>2, <1>4, <3>2
    <3> QED BY <3>1, <3>3, RecordFacts
  <2>2. CASE k # 3
    <3>1. buffer'[3] = buffer[3]
      BY <1>3, <1>5, <2>2
    <3> QED BY <3>1 DEF EventInv
  <2> QED BY <2>1, <2>2
<1>7. wire' = None /\ line' = <<>>
  BY <1>1 DEF EventInv
<1> QED BY <1>1, <1>6, <1>7 DEF EventInv

LEMMA PayloadFits ==
    ASSUME FileInv, EventInv, pc = "payload"
    PROVE  len = buffer[3] /\ 4 + len <= BufSize
<1>1. len = buffer[3] /\ 4 + buffer[3] <= BufSize
  BY DEF FileInv, HeaderRead, EventInv
<1> QED BY <1>1

\* A command is written when nothing of an event is on its way.
LEMMA SendEvent == ASSUME ~ReadFails, FileInv, EventInv, SendRecord PROVE EventInv'
<1>1. /\ pc = "payload" /\ cut' = cut /\ FromFile(4, len) /\ TypeOK /\ len \in Nat
      /\ pc' = "first" /\ i' = 0 /\ len' = 3 /\ wire' = Command(buffer') /\ line' = line
  BY DEF SendRecord, FileInv, TypeOK
<1>2. PICK k \in 0 .. Len(hcd) :
           /\ buffer' \in [0 .. BufSize - 1 -> Nat]
           /\ \A b \in 0 .. BufSize - 1 :
                 /\ b - 4 + 1 \in 1 .. k => buffer'[b] = File[Pos + (b - 4 + 1)]
                 /\ b - 4 + 1 \notin 1 .. k => buffer'[b] = buffer[b]
  BY <1>1, FromFileFacts
<1>3. buffer'[3] = buffer[3]
  <2>1. 3 \in 0 .. BufSize - 1 /\ 3 - 4 + 1 \notin 1 .. k
    BY DownloadAssumption
  <2> QED BY <1>2, <2>1
<1>4. wire' # None
  <2>1. Len(wire') = len + 4
    BY <1>1, <1>2, PayloadFits, CommandTyped
  <2> QED BY <1>1, <2>1 DEF None
<1>5. line = <<>> /\ 4 + buffer[3] <= BufSize
  BY <1>1 DEF EventInv
<1> QED BY <1>1, <1>3, <1>4, <1>5 DEF EventInv

\* The controller hands over an event when read_event waits for its first byte.
LEMMA AnswerEvent == ASSUME FileInv, EventInv, CtlAnswer PROVE EventInv'
<1>1. PICK e \in Events : line' = line \o e
  BY DEF CtlAnswer
<1>2. /\ wire # None /\ wire' = None
      /\ UNCHANGED <<cut, hcd, buffer, pc, i, len, sent, taken>>
  BY DEF CtlAnswer
<1>3. pc = "first" /\ line = <<>> /\ i = 0 /\ len = 3
  BY <1>2 DEF EventInv
<1>4. e \in Seq(Nat) /\ Len(e) \in Nat
  BY EventFacts
<1>5. line' = SubSeq(e, i' + 1, Len(e))
  <2>1. line' = e
    BY <1>1, <1>3, <1>4, ConcatEmptySeq
  <2>2. SubSeq(e, 1, Len(e)) = e
    BY <1>4, SubSeqFull
  <2>3. i' + 1 = 1
    BY <1>2, <1>3
  <2> QED BY <2>1, <2>2, <2>3
<1>6. PartOf(e)'
  <2>1. /\ i' = 0 /\ len' = 3 /\ pc' = "first"
    BY <1>2, <1>3
  <2>2. \A k \in 1 .. i' : FALSE
    BY <2>1
  <2> QED BY <1>5, <2>1, <2>2 DEF PartOf
<1>7. 4 + buffer'[3] <= BufSize
  BY <1>2 DEF EventInv
<1> QED BY <1>2, <1>3, <1>6, <1>7 DEF EventInv

\* The bytes of one read go on where those in buffer end.
LEMMA PartGrows ==
    ASSUME TypeOK, NEW e \in Events, PartOf(e), NEW n \in Nat, ReadStep(n)
    PROVE  /\ i \in 0 .. Len(e) /\ Len(line) = Len(e) - i /\ i + n <= Len(e)
           /\ line' = SubSeq(e, (i + n) + 1, Len(e))
           /\ \A k \in 1 .. i + n : buffer'[k - 1] = e[k]
           /\ buffer'[3] = buffer[3] \/ (Len(e) > 3 /\ buffer'[3] = e[4])
<1>1. /\ e \in Seq(Nat) /\ Len(e) \in Nat /\ Len(e) >= 3 /\ Len(e) <= BufSize /\ BufSize \in Nat
  BY EventFacts, DownloadAssumption
<1>2. i \in 0 .. Len(e)
  <2>1. /\ pc \in {"first", "rest"} /\ (pc = "first" => i \in 0 .. 2)
        /\ pc = "rest" => i \in 3 .. Len(e)
    BY DEF PartOf, ReadStep
  <2> QED BY <1>1, <2>1
<1>3. line = SubSeq(e, i + 1, Len(e))
  BY DEF PartOf
<1>4. Len(line) = Len(e) - i
  BY <1>1, <1>2, <1>3, SliceFacts
<1>5. i + n <= Len(e) /\ n \in 0 .. Len(e) - i /\ n <= Len(line)
  BY <1>1, <1>2, <1>4 DEF ReadStep
<1>6. line' = SubSeq(e, (i + n) + 1, Len(e))
  <2>1. CASE n > 0
    <3>0. i \in Nat /\ i <= Len(e) /\ n \in 0 .. Len(e) - i /\ Len(e) <= Len(e)
      BY <1>1, <1>2, <1>5
    <3>1. SubSeq(line, n + 1, Len(line)) = SubSeq(e, (i + n) + 1, Len(e))
      BY <1>1, <1>3, <3>0, SliceRest
    <3> QED BY <2>1, <3>1 DEF ReadStep
  <2>2. CASE n = 0
    BY <1>2, <1>3, <2>2 DEF ReadStep
  <2> QED BY <2>1, <2>2
<1>7. \A j \in 1 .. n : line[j] = e[i + j]
  <2>1. \A j \in i + 1 .. Len(e) : e[j] \in Nat
    BY <1>1, <1>2, ElementOfSeq
  <2>2. \A j \in 1 .. Len(e) - (i + 1) + 1 : line[j] = e[i + 1 + j - 1]
    BY <1>1, <1>2, <1>3, <2>1, SubSeqProperties
  <2>3. \A j \in 1 .. n : j \in 1 .. Len(e) - (i + 1) + 1 /\ i + 1 + j - 1 = i + j
    BY <1>1, <1>2, <1>5
  <2> QED BY <2>2, <2>3
<1>8. \A b \in 0 .. BufSize - 1 :
            /\ b - i + 1 \in 1 .. n => buffer'[b] = line[b - i + 1]
            /\ b - i + 1 \notin 1 .. n => buffer'[b] = buffer[b]
  BY <1>5, ReadFacts DEF ReadStep
<1>9. ASSUME NEW k \in 1 .. i + n PROVE buffer'[k - 1] = e[k]
  <2>1. k - 1 \in 0 .. BufSize - 1 /\ (k - 1) - i + 1 = k - i
    BY <1>1, <1>2, <1>5
  <2>2. CASE k <= i
    <3>1. k \in 1 .. i /\ (k - 1) - i + 1 \notin 1 .. n
      BY <1>2, <2>2
    <3> QED BY <1>8, <2>1, <3>1 DEF PartOf
  <2>3. CASE k > i
    <3>1. (k - 1) - i + 1 \in 1 .. n /\ k - i \in 1 .. n /\ i + (k - i) = k
      BY <1>2, <2>3
    <3> QED BY <1>7, <1>8, <2>1, <3>1
  <2> QED BY <1>2, <2>2, <2>3
<1>10. buffer'[3] = buffer[3] \/ (Len(e) > 3 /\ buffer'[3] = e[4])
  <2>1. CASE i + n >= 4
    <3>1. 4 \in 1 .. i + n /\ 4 - 1 = 3
      BY <1>2, <2>1
    <3>2. buffer'[4 - 1] = e[4]
      BY <1>9, <3>1
    <3> QED BY <1>1, <1>2, <1>5, <2>1, <3>1, <3>2
  <2>2. CASE i + n < 4
    <3>1. 3 \in 0 .. BufSize - 1 /\ 3 - i + 1 \notin 1 .. n
      BY <1>2, <2>2, DownloadAssumption
    <3> QED BY <1>8, <3>1
  <2> QED BY <1>1, <1>2, <1>5, <2>1, <2>2
<1> QED BY <1>2, <1>4, <1>5, <1>6, <1>9, <1>10

LEMMA ReadsEvent == ASSUME ~ReadFails, FileInv, EventInv, ReadEvent PROVE EventInv'
<1>1. TypeOK /\ len \in Nat /\ i \in Int
  BY DEF FileInv, TypeOK
<1>2. PICK n \in Int : /\ ReadStep(n) /\ n \in Nat
                       /\ len > 0 => n > 0 /\ Len(line) > 0
  BY <1>1, ReadSteps
<1>3. pc \in {"first", "rest"} /\ n <= len /\ UNCHANGED wire
  BY <1>2 DEF ReadStep
<1>4. wire = None
  <2> SUFFICES ASSUME wire # None PROVE FALSE
    OBVIOUS
  <2>1. line = <<>> /\ len = 3
    BY DEF EventInv
  <2> QED BY <1>2, <2>1
<1>5. PICK e \in Events : PartOf(e)
  BY <1>3, <1>4 DEF EventInv
<1>6. /\ i \in 0 .. Len(e) /\ i + n <= Len(e)
      /\ line' = SubSeq(e, (i + n) + 1, Len(e))
      /\ \A k \in 1 .. i + n : buffer'[k - 1] = e[k]
      /\ buffer'[3] = buffer[3] \/ (Len(e) > 3 /\ buffer'[3] = e[4])
  BY <1>1, <1>2, <1>5, PartGrows
<1>7. /\ e \in Seq(Nat) /\ Len(e) \in Nat /\ Len(e) >= 3 /\ e[3] \in Nat /\ Len(e) = 3 + e[3]
      /\ Len(e) > 3 => 4 + e[4] <= BufSize
  BY EventFacts
<1>8. 4 + buffer'[3] <= BufSize
  BY <1>6, <1>7 DEF EventInv
<1>9. /\ pc = "first" => i \in 0 .. 2 /\ i + len = 3
      /\ pc = "rest"  => i \in 3 .. Len(e) /\ i + len = Len(e)
  BY <1>5 DEF PartOf
<1>10. CASE n < len
  <2>1. i' = i + n /\ len' = len - n /\ UNCHANGED <<pc, taken>>
    BY <1>2, <1>10 DEF ReadStep, Piece
  <2>2. /\ pc' = "first" => i' \in 0 .. 2 /\ i' + len' = 3
        /\ pc' = "rest"  => i' \in 3 .. Len(e) /\ i' + len' = Len(e)
    <3>1. pc' = pc /\ n \in Nat /\ i \in Int /\ len \in Nat /\ n < len /\ i + n <= Len(e) /\ Len(e) \in Nat
      BY <1>1, <1>2, <1>6, <1>7, <1>10, <2>1
    <3> QED BY <1>9, <2>1, <3>1
  <2>3. PartOf(e)'
    BY <1>6, <2>1, <2>2 DEF PartOf
  <2> QED BY <1>3, <1>4, <1>8, <2>1, <2>3 DEF EventInv
<1>11. CASE n = len /\ pc = "first"
  <2>1. pc' = "rest" /\ i' = i + n /\ i' = 3 /\ len' = buffer'[2] /\ UNCHANGED taken
    BY <1>1, <1>2, <1>9, <1>11 DEF ReadStep, Filled
  <2>2. buffer'[2] = e[3]
    <3>1. 3 \in 1 .. i + n /\ 3 - 1 = 2
      BY <2>1
    <3> QED BY <1>6, <3>1
  <2>3. i' \in 3 .. Len(e) /\ i' + len' = Len(e)
    BY <1>7, <2>1, <2>2
  <2>4. PartOf(e)'
    BY <1>6, <2>1, <2>3 DEF PartOf
  <2> QED BY <1>3, <1>4, <1>8, <2>1, <2>4 DEF EventInv
<1>12. CASE n = len /\ pc = "rest"
  <2>1. pc' = "header" /\ i + n = Len(e)
    BY <1>1, <1>2, <1>9, <1>12 DEF ReadStep, Filled
  <2>2. line' = <<>>
    <3>1. SubSeq(e, Len(e) + 1, Len(e)) = <<>>
      BY <1>7, SubSeqEmpty, SMTT(20)
    <3> QED BY <1>6, <2>1, <3>1
  <2>3. \A k \in 1 .. Len(e) : buffer'[k - 1] = e[k]
    BY <1>6, <2>1
  <2> QED BY <1>3, <1>4, <1>8, <2>1, <2>2, <2>3 DEF EventInv
<1> QED BY <1>1, <1>2, <1>3, <1>10, <1>11, <1>12

LEMMA OthersEvent ==
    ASSUME EventInv, EndOfFile \/ UNCHANGED vars PROVE EventInv'
<1>1. UNCHANGED <<buffer, i, len, wire, line, taken>> /\ (pc' = pc \/ (pc = "header" /\ pc' = "done"))
  BY DEF EndOfFile, vars
<1>2. \A e \in Events : PartOf(e) /\ pc' = pc => PartOf(e)'
  BY <1>1 DEF PartOf
<1> QED BY <1>1, <1>2 DEF EventInv
----------------------------------------------------------------------------
(* The exchange *)

IInv == FileInv /\ EventInv

LEMMA NextInv == ASSUME ~ReadFails, IInv, [Next]_vars PROVE IInv'
<1> USE DEF IInv
<1>1. CASE ReadHeader
  BY <1>1, HeaderFile, HeaderEvent
<1>2. CASE EndOfFile
  BY <1>2, EndFile, OthersEvent
<1>3. CASE SendRecord
  <2>1. 4 + len <= BufSize
    BY <1>3, PayloadFits DEF SendRecord
  <2> QED BY <1>3, <2>1, SendFile, SendEvent
<1>4. CASE ReadEvent
  BY <1>4, ReadFile, ReadsEvent
<1>5. CASE CtlAnswer
  BY <1>5, AnswerFile, AnswerEvent
<1>6. CASE UNCHANGED vars
  BY <1>6, IdleFile, OthersEvent
<1> QED BY <1>1, <1>2, <1>3, <1>4, <1>5, <1>6 DEF Next, ProcPatchram

Whole  == SubSeq(sent, 1, Smaller(There, Len(sent)))
Script == [k \in 1 .. There |-> <<1>> \o Record(k)]

LEMMA ScriptFacts ==
    ASSUME FileInv
    PROVE  Script \in Seq(Seq(Nat)) /\ Len(Script) = There
           /\ \A k \in 1 .. There : Script[k] = <<1>> \o Record(k)
<1>1. There \in Nat /\ There <= Records /\ Records \in Nat
  BY DoneFacts
<1>2. ASSUME NEW k \in 1 .. There PROVE <<1>> \o Record(k) \in Seq(Nat)
  <2>1. k \in 1 .. Records
    BY <1>1
  <2>2. /\ Start[k] \in Nat /\ Start[k + 1] \in Int /\ Start[k + 1] <= Len(File)
        /\ File \in Seq(Nat)
    <3> DEFINE n == File[Start[k] + 3]
    <3>1. /\ n \in Nat /\ Start[k + 1] = Start[k] + 3 + n
          /\ Start[k] \in Nat /\ Start[k + 1] <= Len(File)
      BY <2>1, RecordFacts
    <3> HIDE DEF n
    <3> QED BY <3>1, DownloadAssumption
  <2>3. \A j \in Start[k] + 1 .. Start[k + 1] : j \in 1 .. Len(File)
    BY <2>2, LenProperties
  <2>4. \A j \in Start[k] + 1 .. Start[k + 1] : File[j] \in Nat
    BY <2>2, <2>3, ElementOfSeq
  <2>5. Record(k) \in Seq(Nat)
    BY <2>2, <2>4, SubSeqProperties DEF Record
  <2>6. <<1>> \in Seq(Nat)
    OBVIOUS
  <2> QED BY <2>5, <2>6, ConcatProperties
<1> QED BY <1>1, <1>2, IsASeq DEF Script

WholeIsScript ==
    /\ Whole \in Seq(Seq(Nat)) /\ Len(Whole) = Smaller(There, Done)
    /\ \A k \in 1 .. Smaller(There, Done) : Whole[k] = sent[k] /\ Whole[k] = Script[k]

LEMMA WholeFacts == FileInv => WholeIsScript
<1> SUFFICES ASSUME FileInv PROVE WholeIsScript
  OBVIOUS
<1> DEFINE m == Smaller(There, Done)
<1>1. There \in Nat /\ Done \in Nat /\ sent \in Seq(Seq(Nat)) /\ Done = Len(sent)
  BY DoneFacts DEF FileInv, TypeOK, Done
<1>2. m \in Nat /\ m <= Done /\ m <= There
  BY <1>1 DEF Smaller
<1>3. \A k \in 1 .. m : sent[k] = <<1>> \o Record(k)
  BY DEF FileInv
<1> HIDE DEF m
<1>4. /\ SubSeq(sent, 1, m) \in Seq(Seq(Nat)) /\ Len(SubSeq(sent, 1, m)) = m
      /\ \A k \in 1 .. m : SubSeq(sent, 1, m)[k] = sent[k]
  <2>1. \A k \in 1 .. m : sent[k] \in Seq(Nat)
    BY <1>1, <1>2, ElementOfSeq
  <2>2. /\ SubSeq(sent, 1, m) \in Seq(Seq(Nat))
        /\ Len(SubSeq(sent, 1, m)) = IF 1 <= m THEN m - 1 + 1 ELSE 0
        /\ \A k \in 1 .. m - 1 + 1 : SubSeq(sent, 1, m)[k] = sent[1 + k - 1]
    BY <1>2, <2>1, SubSeqProperties
  <2>3. /\ \A k \in 1 .. m : 1 + k - 1 = k /\ k \in 1 .. m - 1 + 1
        /\ (IF 1 <= m THEN m - 1 + 1 ELSE 0) = m
    BY <1>2
  <2>4. \A k \in 1 .. m : SubSeq(sent, 1, m)[k] = sent[k]
    BY <2>2, <2>3
  <2>5. Len(SubSeq(sent, 1, m)) = m
    BY <2>2, <2>3
  <2> QED BY <2>2, <2>4, <2>5
<1>5. \A k \in 1 .. m : Script[k] = <<1>> \o Record(k)
  BY <1>1, <1>2, ScriptFacts, SMTT(20)
<1>6. Whole = SubSeq(sent, 1, m)
  BY <1>1 DEF Whole, m
<1> HIDE DEF Whole
<1> QED BY <1>3, <1>4, <1>5, <1>6 DEF m, WholeIsScript

LEMMA WholeNext == FileInv' => WholeIsScript'
  BY WholeFacts, PTL

LEMMA InitExchange == Init => Exchange!Init
<1> SUFFICES ASSUME Init PROVE Exchange!Init
  OBVIOUS
<1>1. FileInv /\ Done = 0 /\ taken = 0 /\ pc # "done"
  BY InitFile, EmptySeq DEF Init, Done
<1>2. There \in Nat /\ Smaller(There, 0) = 0
  BY <1>1, DoneFacts DEF Smaller
<1>3. Whole = <<>>
  BY <1>1, <1>2, WholeFacts, EmptySeq DEF WholeIsScript
<1> QED BY <1>1, <1>2, <1>3 DEF Exchange!Init, Whole

\* The mapping of a step that sends nothing.
LEMMA NothingSent ==
    ASSUME UNCHANGED <<cut, sent>> PROVE Whole' = Whole /\ Script' = Script /\ There' = There
  BY DEF Whole, Script, There

LEMMA SendAsks ==
    ASSUME FileInv, FileInv', SendRecord
    PROVE  Exchange!Ask \/ UNCHANGED <<Script, Whole, Smaller(There, taken), pc = "done">>
<1>1. /\ pc = "payload" /\ pc' = "first" /\ taken = Done /\ taken' = taken /\ cut' = cut
      /\ Done <= There /\ Done \in Nat /\ There \in Nat /\ There' = There /\ Script' = Script
      /\ sent' = Append(sent, Command(buffer'))
  BY DoneFacts DEF SendRecord, FileInv, HeaderRead, There, Script
<1>2. Done' = Done + 1 /\ \A j \in 1 .. Done : sent'[j] = sent[j]
  <2>1. sent' \in Seq(Seq(Nat)) /\ sent \in Seq(Seq(Nat)) /\ Len(sent) = Done /\ Len(sent') = Done'
    BY DEF FileInv, TypeOK, Done
  <2>2. Done' \in Nat
    BY <2>1, LenProperties
  <2>3. taken' = Done' - 1
    BY <1>1 DEF FileInv
  <2>4. Done' = Done + 1
    <3>1. taken = Done /\ taken' = taken /\ Done \in Nat
      BY <1>1
    <3>2. Done' - 1 = Done
      BY <2>3, <3>1
    <3>3. \A a, b \in Nat : a - 1 = b => a = b + 1
      OBVIOUS
    <3> QED BY <2>2, <3>1, <3>2, <3>3, Zenon
  <2> QED BY <1>1, <2>1, <2>4
<1>3. /\ Whole \in Seq(Seq(Nat)) /\ Len(Whole) = Smaller(There, Done)
      /\ \A k \in 1 .. Smaller(There, Done) : Whole[k] = sent[k] /\ Whole[k] = Script[k]
  BY WholeFacts DEF WholeIsScript
<1>4. /\ Whole' \in Seq(Seq(Nat)) /\ Len(Whole') = Smaller(There, Done + 1)
      /\ \A k \in 1 .. Smaller(There, Done + 1) : Whole'[k] = sent'[k] /\ Whole'[k] = Script[k]
  <2>1. /\ Whole' \in Seq(Seq(Nat)) /\ Len(Whole') = Smaller(There', Done')
        /\ \A k \in 1 .. Smaller(There', Done') : Whole'[k] = sent'[k] /\ Whole'[k] = Script'[k]
    BY WholeNext DEF WholeIsScript
  <2> QED BY <1>1, <1>2, <2>1
<1>5. Smaller(There, Done) = Done
  BY <1>1 DEF Smaller
<1> HIDE DEF Whole, Script, There, Done
<1>6. CASE Done < There
  <2>1. Smaller(There, Done + 1) = Done + 1
    BY <1>1, <1>6 DEF Smaller
  <2>2. Script \in Seq(Seq(Nat)) /\ Len(Script) = There /\ Script[Done + 1] \in Seq(Nat)
    <3>1. Script \in Seq(Seq(Nat)) /\ Len(Script) = There
      BY ScriptFacts
    <3>2. Done + 1 \in 1 .. Len(Script)
      BY <1>1, <1>6, <3>1
    <3> QED BY <3>1, <3>2, ElementOfSeq
  <2>3. Whole' = Append(Whole, Script[Len(Whole) + 1])
    <3> DEFINE w == Append(Whole, Script[Done + 1])
    <3>1. /\ w \in Seq(Seq(Nat)) /\ Len(w) = Done + 1
          /\ \A k \in 1 .. Done : w[k] = Whole[k]
          /\ w[Done + 1] = Script[Done + 1]
      BY <1>3, <1>5, <2>2, AppendProperties
    <3> HIDE DEF w
    <3>2. \A k \in 1 .. Done + 1 : w[k] = Whole'[k]
      <4>1. \A k \in 1 .. Done + 1 : k \in 1 .. Done \/ k = Done + 1
        BY <1>1
      <4> QED BY <1>3, <1>4, <1>5, <2>1, <3>1, <4>1
    <3>3. Whole' = w
      BY <1>4, <2>1, <3>1, <3>2, SeqEqual
    <3> QED BY <1>3, <1>5, <3>3 DEF w
  <2>4. /\ Len(Whole) = Done /\ Smaller(There, taken) = Done /\ Smaller(There, taken)' = Done
        /\ Len(Whole) < Len(Script)
    BY <1>1, <1>3, <1>5, <1>6, <2>2 DEF Smaller
  <2> QED BY <1>1, <2>3, <2>4 DEF Exchange!Ask, Whole, Script
<1>7. CASE Done = There
  <2>1. Smaller(There, Done + 1) = Done
    BY <1>1, <1>7 DEF Smaller
  <2>2. \A k \in 1 .. Done : Whole'[k] = Whole[k]
    BY <1>3, <1>4, <1>5, <2>1
  <2>3. Whole' = Whole
    BY <1>3, <1>4, <1>5, <2>1, <2>2, SeqEqual
  <2> QED BY <1>1, <2>3
<1> QED BY <1>1, <1>6, <1>7

LEMMA ReadTakes ==
    ASSUME FileInv, FileInv', ReadEvent
    PROVE  Exchange!Take \/ UNCHANGED <<Script, Whole, Smaller(There, taken), pc = "done">>
<1>1. /\ UNCHANGED <<cut, sent>> /\ pc \in {"first", "rest"} /\ pc' # "done" /\ taken = Done - 1
      /\ taken' = taken \/ taken' = taken + 1
  BY DEF ReadEvent, FileInv, Filled
<1>2. Whole' = Whole /\ Script' = Script /\ There' = There
  BY <1>1, NothingSent
<1>3. Done \in Nat /\ There \in Nat /\ taken \in Nat /\ Len(Whole) = Smaller(There, Done)
  BY DoneFacts, WholeFacts DEF WholeIsScript, FileInv, TypeOK
<1>4. CASE taken' = taken + 1 /\ taken < There
  <2>1. /\ Smaller(There, taken) = taken /\ Smaller(There, taken)' = taken + 1
        /\ taken < Len(Whole)
    BY <1>1, <1>2, <1>3, <1>4 DEF Smaller
  <2> HIDE DEF Whole, Script, There
  <2> QED BY <1>1, <1>2, <2>1 DEF Exchange!Take, Whole, Script
<1>5. CASE taken' = taken \/ ~(taken < There)
  <2>1. Smaller(There, taken)' = Smaller(There, taken)
    <3>1. Smaller(There, taken)' = Smaller(There, taken')
      BY <1>2
    <3>2. CASE taken' = taken
      BY <3>1, <3>2
    <3>3. CASE taken' = taken + 1 /\ ~(taken < There)
      BY <1>3, <3>1, <3>3 DEF Smaller
    <3> QED BY <1>1, <1>5, <3>2, <3>3
  <2> QED BY <1>1, <1>2, <2>1
<1> QED BY <1>1, <1>4, <1>5

LEMMA EndEnds ==
    ASSUME FileInv, EndOfFile PROVE Exchange!End
<1>1. /\ UNCHANGED <<cut, sent, taken>> /\ pc = "header" /\ pc' = "done" /\ hcd = <<>> /\ Between
      /\ taken = Done
  BY DEF EndOfFile, FileInv
<1>2. Whole' = Whole /\ Script' = Script /\ There' = There
  BY <1>1, NothingSent
<1>3. Done \in Nat /\ There \in Nat /\ cut \in Nat
  BY DoneFacts
<1>4. ~(Done < There)
  <2> SUFFICES ASSUME Done < There PROVE FALSE
    OBVIOUS
  <2>1. Pos = Start[Done + 1] /\ Pos = cut
    BY <1>1, <1>3, EmptySeq DEF Between, Pos
  <2>2. /\ Start[Done + 1] \in Nat /\ Start[Done + 2] \in Nat
        /\ Start[Done + 1] + 3 <= Start[Done + 2] /\ Start[Done + 2] <= cut
    <3>1. Done + 2 \in 1 .. Records + 1
      BY <1>3, DoneFacts
    <3> QED BY <1>3, <3>1, DoneFacts, StartFacts
  <2> QED BY <1>3, <2>1, <2>2
<1>5. Smaller(There, Done) = There /\ Smaller(There, taken) = There
  BY <1>1, <1>3, <1>4 DEF Smaller
<1>6. Whole = Script /\ Len(Whole) = There
  <2>1. /\ Whole \in Seq(Seq(Nat)) /\ Len(Whole) = There
        /\ \A k \in 1 .. There : Whole[k] = Script[k]
    BY <1>5, WholeFacts DEF WholeIsScript
  <2>2. Script \in Seq(Seq(Nat)) /\ Len(Script) = There
    BY ScriptFacts
  <2> HIDE DEF Whole, Script
  <2> QED BY <2>1, <2>2, SeqEqual
<1>7. Smaller(There, taken)' = Smaller(There, taken)
  BY <1>1, <1>2
<1> HIDE DEF Whole, Script, There
<1> QED BY <1>1, <1>2, <1>5, <1>6, <1>7 DEF Exchange!End, Whole, Script

LEMMA OthersSilent ==
    ASSUME FileInv, ReadHeader \/ CtlAnswer \/ UNCHANGED vars
    PROVE  UNCHANGED <<Script, Whole, Smaller(There, taken), pc = "done">>
<1>1. UNCHANGED <<cut, sent, taken>> /\ ((pc' = "done") <=> (pc = "done"))
  BY DEF ReadHeader, CtlAnswer, vars
<1>2. Whole' = Whole /\ Script' = Script /\ There' = There
  BY <1>1, NothingSent
<1> QED BY <1>1, <1>2

----------------------------------------------------------------------------
(* Theorems *)

\* Wherever the file is cut off, and as long as no read fails, the loop keeps
\* its place in the file and in the event it reads.
THEOREM Invariance == ASSUME ~ReadFails PROVE Spec => []IInv
<1>1. Init => IInv
  BY InitFile, InitEvent DEF IInv
<1>2. IInv /\ [Next]_vars => IInv'
  BY NextInv
<1> QED BY <1>1, <1>2, PTL DEF Spec

\* No read of a payload or of an event reaches outside of buffer.
THEOREM StaysInBounds == ASSUME ~ReadFails PROVE Spec => []InBounds
<1>1. IInv => InBounds
  <2> SUFFICES ASSUME IInv PROVE InBounds
    OBVIOUS
  <2>1. pc = "payload" => 4 + len <= BufSize
    BY PayloadFits DEF IInv
  <2>2. ASSUME pc \in {"first", "rest"} PROVE i >= 0 /\ i + len <= BufSize
    <3>1. CASE wire # None
      BY <3>1, DownloadAssumption DEF IInv, EventInv
    <3>2. CASE wire = None
      <4>1. PICK e \in Events : PartOf(e)
        BY <2>2, <3>2 DEF IInv, EventInv
      <4>2. Len(e) \in Nat /\ Len(e) >= 3 /\ Len(e) <= BufSize
        BY EventFacts
      <4>3. (i \in 0 .. 2 /\ i + len = 3) \/ (i \in 3 .. Len(e) /\ i + len = Len(e))
        BY <2>2, <4>1 DEF PartOf
      <4> QED BY <4>2, <4>3, DownloadAssumption, SMTT(20)
    <3> QED BY <3>1, <3>2
  <2> QED BY <2>1, <2>2 DEF InBounds
<1> QED BY <1>1, Invariance, PTL

\* Each event is read whole, in whatever pieces it comes in, and nothing else with it.
THEOREM EventsWhole == ASSUME ~ReadFails PROVE Spec => []EventWhole
<1>1. IInv => EventWhole
  <2> SUFFICES ASSUME IInv, pc = "header", taken > 0 PROVE EventWhole
    BY DEF EventWhole
  <2>1. wire = None /\ line = <<>>
    BY DEF IInv, EventInv
  <2>2. PICK e \in Events : \A k \in 1 .. Len(e) : buffer[k - 1] = e[k]
    BY DEF IInv, EventInv
  <2>3. /\ e \in Seq(Nat) /\ Len(e) \in Nat /\ Len(e) <= BufSize
    BY EventFacts
  <2>4. Bytes(0, Len(e)) = e
    <3>1. \A k \in 1 .. Len(e) : 0 + k - 1 = k - 1 /\ e[k] \in Nat
      BY <2>3, ElementOfSeq
    <3>2. \A k \in 1 .. Len(e) : buffer[0 + k - 1] \in Nat
      BY <2>2, <3>1
    <3>3. /\ Bytes(0, Len(e)) \in Seq(Nat) /\ Len(Bytes(0, Len(e))) = Len(e)
          /\ \A k \in 1 .. Len(e) : Bytes(0, Len(e))[k] = e[k]
      BY <2>2, <2>3, <3>1, <3>2, IsASeq DEF Bytes
    <3> QED BY <2>3, <3>3, SeqEqual
  <2> QED BY <2>1, <2>4 DEF EventWhole
<1> QED BY <1>1, Invariance, PTL

\* A file cut off between two records brings no command too many, one cut off in a
\* record at most one.
THEOREM NothingElseSent == ASSUME ~ReadFails PROVE Spec => []NothingElse
<1>1. IInv => NothingElse
  <2> SUFFICES ASSUME IInv PROVE NothingElse
    OBVIOUS
  <2>1. Done \in Nat /\ There \in Nat /\ Done = Len(sent)
    BY DoneFacts DEF IInv, Done
  <2>2. CASE pc = "payload"
    <3>1. Done <= There
      BY <2>2 DEF IInv, FileInv, HeaderRead
    <3> QED BY <2>1, <3>1 DEF NothingElse
  <2>3. CASE pc # "payload"
    <3>1. Done <= There \/ (Done = There + 1 /\ cut # Start[There + 1])
      BY <2>3, SMTT(20) DEF IInv, FileInv, Between
    <3> QED BY <2>1, <3>1 DEF NothingElse
  <2> QED BY <2>2, <2>3
<1> QED BY <1>1, Invariance, PTL

\* The loop refines the exchange of HciExchange: for every file and every cut the whole
\* records are sent in order and as they are in the file, each after the event of the one
\* before, and the loop ends after the last.
THEOREM ImplementsHciExchange == ASSUME ~ReadFails PROVE Spec => ImplementsExchange
<1> DEFINE taken_ == Smaller(There, taken)
<1>1. IInv /\ IInv' /\ [Next]_vars => [Exchange!Next]_<<Script, Whole, taken_, pc = "done">>
  <2> SUFFICES ASSUME IInv, IInv', [Next]_vars
               PROVE  [Exchange!Next]_<<Script, Whole, taken_, pc = "done">>
    OBVIOUS
  <2>1. CASE SendRecord
    BY <2>1, SendAsks DEF IInv, Exchange!Next
  <2>2. CASE ReadEvent
    BY <2>2, ReadTakes DEF IInv, Exchange!Next
  <2>3. CASE EndOfFile
    BY <2>3, EndEnds DEF IInv, Exchange!Next
  <2>4. CASE ReadHeader \/ CtlAnswer \/ UNCHANGED vars
    BY <2>4, OthersSilent DEF IInv
  <2> QED BY <2>1, <2>2, <2>3, <2>4 DEF Next, ProcPatchram
<1> QED
  BY <1>1, InitExchange, Invariance, PTL
  DEF Spec, ImplementsExchange, Exchange!Spec, Script, Whole
=============================================================================
