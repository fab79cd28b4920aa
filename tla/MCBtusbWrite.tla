---------------------------- MODULE MCBtusbWrite ----------------------------
(* Streams of packets for TLC. *)
EXTENDS BtusbWrite, SequencesExt

Packet(k, n) == [kind |-> k, size |-> n]

\* packets of every length around the header, to be cut anywhere
Mixed == <<Packet("cmd", 3), Packet("acl", 5), Packet("diag", 4), Packet("acl", 3), Packet("cmd", 4)>>

\* packets of every kind, written one by one
EveryKind == <<Packet("cmd", 3), Packet("acl", 5), Packet("long", 6), Packet("vsc", 3),
               Packet("bad", 3), Packet("diag", 3), Packet("cmd", 4)>>

ThreeCommands == <<Packet("cmd", 3), Packet("cmd", 4), Packet("cmd", 3)>>
Pause == <<Packet("vsc", 3)>>
TwoAcls == <<Packet("acl", 3), Packet("acl", 4)>>

StreamOf(ps) == FlattenSeq([p \in DOMAIN ps |-> [k \in 1..ps[p].size |-> <<p, k>>]])
StartOf(ps) == [p \in 1..Len(ps) + 1 |-> Len(StreamOf(SubSeq(ps, 1, p - 1)))]

MixedStream == StreamOf(Mixed)
MixedStart  == StartOf(Mixed)
EveryStream == StreamOf(EveryKind)
EveryStart  == StartOf(EveryKind)
ThreeStream == StreamOf(ThreeCommands)
ThreeStart  == StartOf(ThreeCommands)
PauseStream == StreamOf(Pause)
PauseStart  == StartOf(Pause)
AclsStream  == StreamOf(TwoAcls)
AclsStart   == StartOf(TwoAcls)
=============================================================================
