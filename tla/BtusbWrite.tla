----------------------------- MODULE BtusbWrite -----------------------------
(***************************************************************************)
(* btusb_write: the application writes H4 packets as a stream of bytes, in  *)
(* chunks of any size.  The driver gathers a packet in write_msg, takes a   *)
(* transaction of the packet's pipe, copies the packet and submits it.      *)
(* The URBs complete at any time.  When btusb is built with BTUSB_LITE, an- *)
(* other thread submits ACL packets of its own (the lite stack).            *)
(*                                                                          *)
(* A byte is <<p, k>>, the k-th byte of the p-th packet of the stream.  SCO *)
(* packets, for which BtusbVoiceTx stands, are not in the stream.           *)
(***************************************************************************)
EXTENDS Integers, Sequences, FiniteSets

CONSTANTS
    Packets,      \* the packets the application writes: <<[kind |-> .., size |-> ..], ..>>
    Stream,       \* ... their bytes, one packet after the other
    Start,        \* ... and where each begins in it, and where the last one ends
    Hdr,          \* bytes of a packet up to its length
    MaxSize,      \* BTUSB_H4_MAX_SIZE
    Pool,         \* transactions per pipe
    Split,        \* a chunk may end inside a packet and hold several
    DiagOut,      \* the controller has a diagnostic interface
    AutoPm,       \* the module parameter autopm
    Fails,        \* copies, submissions and autopm requests may fail
    Lite          \* BTUSB_LITE, with a thread that submits ACL packets

\* "vsc" is a command that btusb_lite_hci_cmd_filter handles itself; "long" is an
\* ACL packet that announces more than MaxSize; "bad" has an unknown type
Kinds == {"cmd", "vsc", "acl", "long", "diag", "bad"}

ASSUME WriteAssumption ==
    /\ {Hdr, MaxSize, Pool} \subseteq Nat \ {0} /\ Hdr <= MaxSize
    /\ Packets \in Seq([kind : Kinds, size : Nat])
    /\ \A p \in DOMAIN Packets :
         IF Packets[p].kind = "long" THEN Packets[p].size > MaxSize
         ELSE Packets[p].size \in Hdr..MaxSize
    /\ {Split, DiagOut, AutoPm, Fails, Lite} \subseteq BOOLEAN

ASSUME StreamAssumption ==
    /\ Start \in [1..Len(Packets) + 1 -> 0..Len(Stream)] /\ Start[1] = 0
    /\ \A p \in DOMAIN Packets : Start[p + 1] = Start[p] + Packets[p].size
    /\ Stream \in Seq(Nat \X Nat) /\ Len(Stream) = Start[Len(Packets) + 1]
    /\ \A p \in DOMAIN Packets : \A k \in 1..Packets[p].size : Stream[Start[p] + k] = <<p, k>>
    /\ \A j \in DOMAIN Stream : \E p \in DOMAIN Packets : j \in Start[p] + 1..Start[p + 1]

VARIABLES
    next,        \* first byte of the stream not yet passed to a write
    user,        \* what is left of the user's buffer
    write_msg,   \* the packet being gathered
    wpc, wt,     \* the writer, and the transaction it has found
    err,         \* the variable of btusb_write, never initialised
    lpc, lt,     \* the lite thread
    in_use,      \* transactions marked used
    flying,      \* transactions with the host controller
    autopm,      \* the flag, cleared when a request fails
    pm,          \* usage count of the main interface
    handed,      \* packets submitted by the writer
    failed       \* packets whose write returned an error

vars == <<next, user, write_msg, wpc, wt, err, lpc, lt, in_use, flying, autopm, pm,
          handed, failed>>

msgVars  == <<user, write_msg>>
liteVars == <<lpc, lt>>
pmVars   == <<autopm, pm>>
logVars  == <<handed, failed>>

Trans == {"cmd", "acl", "diag"} \X (1..Pool)
NoTrans == <<"none", 0>>

Bytes(p) == [k \in 1..Packets[p].size |-> <<p, k>>]

Pipe(kind) ==
    CASE kind \in {"cmd", "vsc"} -> "cmd" [] kind = "acl" -> "acl" [] kind = "diag" -> "diag"

KindOf(msg) == Packets[msg[1][1]].kind
Kind == KindOf(write_msg)

Init ==
    /\ next = 1 /\ user = <<>> /\ write_msg = <<>>
    /\ wpc = "idle" /\ wt = NoTrans /\ err = "unset"
    /\ lpc = "idle" /\ lt = NoTrans
    /\ in_use = {} /\ flying = {}
    /\ autopm = AutoPm /\ pm = 0
    /\ handed = <<>> /\ failed = {}

----------------------------------------------------------------------------
(* Gathering a packet *)

\* what an application writes in one call: when it splits packets, the ones that
\* have no length or that the driver throws away are still written alone
Alone(p) == ~Split \/ Packets[p].kind \in {"diag", "bad", "long"}

Chunks ==
    {n \in 1..Len(Stream) - next + 1 :
        LET last == next + n - 1
        IN \A j \in next..last : Alone(Stream[j][1]) =>
               /\ Stream[next][1] = Stream[last][1]
               /\ n = Packets[Stream[next][1]].size}

\* an application that splits packets cannot go on in the middle of one that failed
Write ==
    /\ wpc = "idle"
    /\ Split => failed = {}
    /\ \E n \in Chunks : user' = SubSeq(Stream, next, next + n - 1) /\ next' = next + n
    /\ wpc' = "append" /\ err' = "unset"
    /\ UNCHANGED <<write_msg, wt, liteVars, in_use, flying, pmVars, logVars>>

Return ==
    /\ wpc = "append" /\ user = <<>>
    /\ wpc' = "idle"
    /\ UNCHANGED <<next, msgVars, wt, err, liteVars, in_use, flying, pmVars, logVars>>

\* the call returns an error: the application gives up what it was writing
Error ==
    /\ wpc' = "idle" /\ user' = <<>>
    /\ failed' = failed \cup {Stream[next - 1][1]}

Appended ==
    LET room == MaxSize - Len(write_msg)
    IN IF Len(user) < room THEN Len(user) ELSE room

Msg == write_msg \o SubSeq(user, 1, Appended)

\* the length of the packet, when enough of it is there to know (0xFFFF in the code)
Incomplete == MaxSize + 1
PacketLen(msg) ==
    CASE KindOf(msg) = "diag" -> Len(msg)
      [] KindOf(msg) # "diag" /\ Len(msg) >= Hdr -> Packets[msg[1][1]].size
      [] KindOf(msg) # "diag" /\ Len(msg) < Hdr -> Incomplete

Appending == wpc = "append" /\ user # <<>>

CopyFault ==
    /\ Fails /\ Appending /\ Error
    /\ UNCHANGED <<next, write_msg, wt, err, liteVars, in_use, flying, pmVars, handed>>

\* an unknown type: everything is thrown away, and the call succeeds
Unsupported ==
    /\ Appending /\ KindOf(Msg) = "bad"
    /\ write_msg' = <<>> /\ user' = <<>> /\ wpc' = "idle"
    /\ UNCHANGED <<next, wt, err, liteVars, in_use, flying, pmVars, logVars>>

TooLong ==
    /\ Appending /\ KindOf(Msg) = "long" /\ Len(Msg) >= Hdr
    /\ write_msg' = <<>> /\ Error
    /\ UNCHANGED <<next, wt, err, liteVars, in_use, flying, pmVars, handed>>

AppendPart ==
    /\ Appending /\ KindOf(Msg) # "bad" /\ Len(Msg) < PacketLen(Msg)
    /\ KindOf(Msg) = "long" => Len(Msg) < Hdr
    /\ write_msg' = Msg /\ user' = SubSeq(user, Appended + 1, Len(user))
    /\ UNCHANGED <<next, wpc, wt, err, liteVars, in_use, flying, pmVars, logVars>>

\* mutant of AppendWhole: the bytes of the next packet are not given back
AppendWholeTakesAll ==
    /\ Appending /\ KindOf(Msg) \notin {"bad", "long"} /\ Len(Msg) >= PacketLen(Msg)
    /\ write_msg' = SubSeq(Msg, 1, PacketLen(Msg))
    /\ user' = SubSeq(user, Appended + 1, Len(user))
    /\ wpc' = "pm"
    /\ UNCHANGED <<next, wt, err, liteVars, in_use, flying, pmVars, logVars>>

\* mutant of AppendWhole: the packet keeps what exceeds its length
AppendWholeKeepsExcess ==
    /\ Appending /\ KindOf(Msg) \notin {"bad", "long"} /\ Len(Msg) >= PacketLen(Msg)
    /\ write_msg' = Msg
    /\ user' = SubSeq(user, Appended + 1, Len(user))
    /\ wpc' = "pm"
    /\ UNCHANGED <<next, wt, err, liteVars, in_use, flying, pmVars, logVars>>

\* the bytes past the end of the packet stay in the user's buffer
AppendWhole ==
    /\ Appending /\ KindOf(Msg) \notin {"bad", "long"} /\ Len(Msg) >= PacketLen(Msg)
    /\ write_msg' = SubSeq(Msg, 1, PacketLen(Msg))
    /\ LET appended == Appended - (Len(Msg) - PacketLen(Msg))
       IN user' = SubSeq(user, appended + 1, Len(user))
    /\ wpc' = "pm"
    /\ UNCHANGED <<next, wt, err, liteVars, in_use, flying, pmVars, logVars>>

----------------------------------------------------------------------------
(* Submitting it *)

\* mutant of AutopmGet: the interface is not held
AutopmGetNone ==
    /\ wpc = "pm" /\ wpc' = "alloc"
    /\ UNCHANGED <<next, msgVars, wt, err, liteVars, in_use, flying, pmVars, logVars>>

AutopmGet ==
    /\ wpc = "pm" /\ wpc' = "alloc"
    /\ \/ autopm /\ pm' = pm + 1 /\ err' = "ok" /\ UNCHANGED autopm
       \/ autopm /\ Fails /\ autopm' = FALSE /\ err' = "error" /\ UNCHANGED pm
       \/ ~autopm /\ UNCHANGED <<pmVars, err>>
    /\ UNCHANGED <<next, msgVars, wt, liteVars, in_use, flying, logVars>>

\* new write message
MsgDone ==
    /\ write_msg' = <<>> /\ wpc' = "append" /\ err' = "ok"

\* a command that the filter has handled leaves err as it was, and a local variable
\* that was never assigned holds anything
Filtered ==
    /\ wpc = "alloc" /\ Lite /\ Kind = "vsc"
    /\ \/ err \in {"ok", "unset"} /\ MsgDone /\ UNCHANGED <<user, failed>>
       \/ err \in {"error", "unset"} /\ Error /\ UNCHANGED <<write_msg, err>>
    /\ UNCHANGED <<next, wt, liteVars, in_use, flying, pmVars, handed>>

NoDiag ==
    /\ wpc = "alloc" /\ Kind = "diag" /\ ~DiagOut
    /\ MsgDone
    /\ UNCHANGED <<next, user, wt, liteVars, in_use, flying, pmVars, logVars>>

ToPipe == wpc = "alloc" /\ ~(Lite /\ Kind = "vsc") /\ ~(Kind = "diag" /\ ~DiagOut)

Free(pipe) == {i \in 1..Pool : <<pipe, i>> \notin in_use}

\* mutant of First: the index is counted from one, the array from zero
FirstPast(pipe) == <<pipe, 1 + CHOOSE i \in Free(pipe) : \A j \in Free(pipe) : i <= j>>

First(pipe) == <<pipe, CHOOSE i \in Free(pipe) : \A j \in Free(pipe) : i <= j>>

\* mutant of AllocFind: the search does not skip the transactions in use
AllocFindAny ==
    /\ ToPipe
    /\ wt' = <<Pipe(Kind), 1>> /\ wpc' = "take"
    /\ UNCHANGED <<next, msgVars, err, liteVars, in_use, flying, pmVars, logVars>>

\* btusb_alloc_tx_trans looks for a transaction, then marks it
AllocFind ==
    /\ ToPipe /\ Free(Pipe(Kind)) # {}
    /\ wt' = First(Pipe(Kind)) /\ wpc' = "take"
    /\ UNCHANGED <<next, msgVars, err, liteVars, in_use, flying, pmVars, logVars>>

\* mutant of AllocNone: the call waits for a transaction
AllocNoneWaits == ToPipe /\ Free(Pipe(Kind)) = {} /\ UNCHANGED vars

\* -ENOMEM, and the packet stays in write_msg
AllocNone ==
    /\ ToPipe /\ Free(Pipe(Kind)) = {}
    /\ Error
    /\ UNCHANGED <<next, write_msg, wt, err, liteVars, in_use, flying, pmVars, handed>>

AllocTake ==
    /\ wpc = "take" /\ wpc' = "submit"
    /\ in_use' = in_use \cup {wt}
    /\ UNCHANGED <<next, msgVars, wt, err, liteVars, flying, pmVars, logVars>>

Submitted ==
    /\ wpc = "submit"
    /\ flying' = flying \cup {wt} /\ handed' = Append(handed, write_msg)
    /\ MsgDone
    /\ UNCHANGED <<next, user, wt, liteVars, in_use, pmVars, failed>>

\* the transaction is released; the packet stays in write_msg
Refused ==
    /\ Fails /\ wpc = "submit"
    /\ in_use' = in_use \ {wt} /\ Error
    /\ UNCHANGED <<next, write_msg, wt, err, liteVars, flying, pmVars, handed>>

Writer ==
    \/ Return \/ CopyFault \/ Unsupported \/ TooLong \/ AppendPart \/ AppendWhole
    \/ AutopmGet \/ Filtered \/ NoDiag \/ AllocFind \/ AllocNone \/ AllocTake
    \/ Submitted \/ Refused

\* btusb_submit_acl as the lite stack calls it
LiteFind ==
    /\ Lite /\ lpc = "idle" /\ Free("acl") # {}
    /\ lt' = First("acl") /\ lpc' = "take"
    /\ UNCHANGED <<next, msgVars, wpc, wt, err, in_use, flying, pmVars, logVars>>

LiteTake ==
    /\ lpc = "take" /\ lpc' = "submit"
    /\ in_use' = in_use \cup {lt}
    /\ UNCHANGED <<next, msgVars, wpc, wt, err, lt, flying, pmVars, logVars>>

LiteSubmit ==
    /\ lpc = "submit" /\ lpc' = "idle"
    /\ flying' = flying \cup {lt}
    /\ UNCHANGED <<next, msgVars, wpc, wt, err, lt, in_use, pmVars, logVars>>

\* btusb_urb_out_complete
Complete(x) ==
    /\ x \in flying
    /\ in_use' = in_use \ {x} /\ flying' = flying \ {x}
    /\ pm' = IF autopm THEN pm - 1 ELSE pm
    /\ UNCHANGED <<next, msgVars, wpc, wt, err, liteVars, autopm, logVars>>

LiteRefused ==
    /\ Fails /\ lpc = "submit" /\ lpc' = "idle"
    /\ in_use' = in_use \ {lt}
    /\ UNCHANGED <<next, msgVars, wpc, wt, err, lt, flying, pmVars, logVars>>

Next ==
    \/ Write \/ Writer
    \/ LiteFind \/ LiteTake \/ LiteSubmit \/ LiteRefused
    \/ \E x \in Trans : Complete(x)

Spec == Init /\ [][Next]_vars

\* the processor runs the system call
FairSpec == Spec /\ WF_vars(Writer)

----------------------------------------------------------------------------
(* Properties *)

Pcs == {"idle", "append", "pm", "alloc", "take", "submit"}

\* Every variable has its type, and the packet fits in write_msg.
TypeOK ==
    /\ next \in 1..Len(Stream) + 1
    /\ Len(write_msg) <= MaxSize
    /\ wpc \in Pcs /\ lpc \in {"idle", "take", "submit"}
    /\ {wt, lt} \subseteq Trans \cup {NoTrans}
    /\ err \in {"unset", "ok", "error"}
    /\ in_use \subseteq Trans /\ flying \subseteq Trans
    /\ autopm \in BOOLEAN /\ pm \in Int
    /\ failed \subseteq DOMAIN Packets

\* However the application cuts its stream, and as long as no call has failed,
\* nothing is lost, doubled or reordered on its way to the controller: the packets
\* submitted are the first ones of the stream, and the one being gathered and what is
\* left of the user's buffer are the bytes that follow them, up to the last one written.
StreamKept == failed = {} =>
    /\ Len(handed) <= Len(Packets)
    /\ \A p \in DOMAIN handed : handed[p] = Bytes(p)
    /\ write_msg \o user = SubSeq(Stream, Start[Len(handed) + 1] + 1, next - 1)

\* What is submitted is always one whole packet of the application, even after
\* failed calls.
WholePackets == \A j \in DOMAIN handed : \E p \in DOMAIN Packets : handed[j] = Bytes(p)

\* A transaction is marked used exactly when its URB is in flight or when a thread
\* is filling it, and no two have the same one.
TransHonest ==
    /\ in_use = flying \cup {t \in {wt} : wpc = "submit"} \cup {t \in {lt} : lpc = "submit"}
    /\ wpc = "submit" => wt \notin flying
    /\ lpc = "submit" => lt \notin flying

\* While a packet of the writer is in flight, the interface is held, so that the
\* device is not suspended under it.
PmHeld == autopm => pm >= Cardinality(flying) + (IF wpc \in {"take", "submit"} THEN 1 ELSE 0)

\* The system call returns, whatever packets are left over from calls that failed.
WriteReturns == (wpc # "idle") ~> (wpc = "idle")

\* btusb_dev.c:621 "Number of bytes written, error number if negative": a packet
\* whose write returned an error is not sent.
ErrorMeansUnsent == \A j \in DOMAIN handed : handed[j][1][1] \notin failed

\* btusb_lite_hci.c:99 "0 if the command is handled": writing such a command is not
\* an error.
HandledSucceeds == \A p \in failed : Packets[p].kind # "vsc"

\* btusb_dev.c:55 "Pointer to the next free transaction": the writer and the lite
\* stack are not given the same one.
FreeIsExclusive ==
    ~(wpc \in {"take", "submit"} /\ lpc \in {"take", "submit"} /\ wt = lt)
=============================================================================
