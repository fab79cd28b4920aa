------------------------------ MODULE BtusbCq ------------------------------
(***************************************************************************)
(* The circular queue of inc/btusb_cq.h, which holds the free voice        *)
(* packets: a reader that has read a voice packet puts it, the completion  *)
(* of a voice URB gets one, and no lock protects the two.  The counters    *)
(* in and out run freely and wrap at the width of an unsigned int; a slot  *)
(* is a counter masked by the size of buf, a power of two.                 *)
(*                                                                         *)
(* Every access to a counter or to a slot is an action, so that the two    *)
(* sides interleave everywhere.  The accesses of one side are taken in     *)
(* program order, which is an assumption about the processor: smp_wmb      *)
(* orders the stores of the code only, and nothing orders the consumer's   *)
(* read of in before its read of the slot.                                 *)
(***************************************************************************)
EXTENDS Integers, Sequences

CONSTANTS
    Vals,         \* the values queued
    Size,         \* the number of slots of buf
    Wrap          \* an unsigned int is below Wrap (2^32 in the code)

\* buf is a power of two smaller than 2^32: the masked counters run through buf
ASSUME SizeAssumption ==
    /\ Size \in Nat \ {0}
    /\ Wrap \in Nat /\ \E k \in 2..Wrap : Wrap = Size * k
    /\ Vals # {}

VARIABLES
    in, out, buf,  \* the queue
    ppc, pval,     \* the producer in btusb_cq_put, and the value it puts
    cpc, cval      \* the consumer in btusb_cq_get, and the value it got

vars == <<in, out, buf, ppc, pval, cpc, cval>>

\* __cq->in & __cq->mask
Masked(x) == x % Size

\* btusb_cq_len: an unsigned subtraction
CqLen(i, o) == IF i >= o THEN i - o ELSE i - o + Wrap

\* mutant of IsFull: one value too many
IsFullLate(i, o) == CqLen(i, o) > Size

\* btusb_cq_is_full compares with the mask
IsFull(i, o) == CqLen(i, o) > Size - 1

\* mutant of IsEmpty: nothing is ever missing
IsEmptyNever(i, o) == FALSE

IsEmpty(i, o) == i = o

\* mutant of Inc: the counter does not wrap
IncPast(x) == x + 1

\* x++ of an unsigned int
Inc(x) == IF x + 1 = Wrap THEN 0 ELSE x + 1

\* INIT_BTUSB_CQ
Init ==
    /\ in = 0 /\ out = 0
    /\ buf \in [0..Size - 1 -> Vals]
    /\ ppc = "idle" /\ pval \in Vals
    /\ cpc = "idle" /\ cval \in Vals

----------------------------------------------------------------------------
(* btusb_cq_put *)

\* a full queue refuses the value
PutCheck(v) ==
    /\ ppc = "idle" /\ ~IsFull(in, out)
    /\ ppc' = "store" /\ pval' = v
    /\ UNCHANGED <<in, out, buf, cpc, cval>>

PutStore ==
    /\ ppc = "store" /\ ppc' = "publish"
    /\ buf' = [buf EXCEPT ![Masked(in)] = pval]
    /\ UNCHANGED <<in, out, pval, cpc, cval>>

PutPublish ==
    /\ ppc = "publish" /\ ppc' = "idle"
    /\ in' = Inc(in)
    /\ UNCHANGED <<out, buf, pval, cpc, cval>>

----------------------------------------------------------------------------
(* btusb_cq_get *)

GetCheck ==
    /\ cpc = "idle" /\ ~IsEmpty(in, out) /\ cpc' = "load"
    /\ UNCHANGED <<in, out, buf, ppc, pval, cval>>

\* mutant of GetLoad: the counter is incremented before it is masked
GetLoadNext ==
    /\ cpc = "load" /\ cpc' = "release"
    /\ cval' = buf[Masked(Inc(out))]
    /\ UNCHANGED <<in, out, buf, ppc, pval>>

GetLoad ==
    /\ cpc = "load" /\ cpc' = "release"
    /\ cval' = buf[Masked(out)]
    /\ UNCHANGED <<in, out, buf, ppc, pval>>

GetRelease ==
    /\ cpc = "release" /\ cpc' = "idle"
    /\ out' = Inc(out)
    /\ UNCHANGED <<in, buf, ppc, pval, cval>>

Producer == (\E v \in Vals : PutCheck(v)) \/ PutStore \/ PutPublish
Consumer == GetCheck \/ GetLoad \/ GetRelease

Next == Producer \/ Consumer

Spec == Init /\ [][Next]_vars

----------------------------------------------------------------------------
(* Properties *)

TypeOK ==
    /\ in \in 0..Wrap - 1 /\ out \in 0..Wrap - 1
    /\ buf \in [0..Size - 1 -> Vals]
    /\ ppc \in {"idle", "store", "publish"} /\ pval \in Vals
    /\ cpc \in {"idle", "load", "release"} /\ cval \in Vals

\* The producer never writes the slot the consumer reads: what lets the queue do
\* without a lock.
SlotsDisjoint == ppc = "store" /\ cpc = "load" => Masked(in) # Masked(out)

\* The queue never holds more values than it has slots, and neither side acts on
\* a check that has become false: a put under way has room, a get has a value.
LenHonest ==
    /\ CqLen(in, out) <= Size
    /\ ppc # "idle" => CqLen(in, out) < Size
    /\ cpc \in {"load", "release"} => CqLen(in, out) > 0

\* The two counters and the slots between them are a bounded first-in first-out
\* queue, across the wrap of the counters: values come out once, in order, and
\* unchanged.
Contents ==
    LET first == IF cpc = "release" THEN Inc(out) ELSE out
    IN [i \in 1..CqLen(in, first) |-> buf[Masked(first + i - 1)]]

Fifo == INSTANCE BoundedFifo WITH queue <- Contents, got <- cval, Capacity <- Size
ImplementsFifo == Fifo!Spec
=============================================================================
