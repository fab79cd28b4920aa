-------------------------- MODULE PatchramDownload --------------------------
(* The loop of proc_patchram and read_event, byte by byte: records are read  *)
(* from the HCD file into buffer, written to the UART, and the event of each *)
(* is read into the same buffer, in as many pieces as the UART hands out.    *)
(* The file may have been cut off anywhere.                                  *)
EXTENDS Integers, Sequences, FiniteSetsExt

CONSTANTS
    File,       \* the bytes of the HCD file
    Start,      \* where its records start, and where the last one ends
    Events,     \* the events of a controller: two bytes, length, payload
    BufSize,    \* sizeof buffer
    Cuts,       \* how much of the file is there
    ReadFails   \* read(uart_fd) and read(hcdfile_fd) may return -1

VARIABLES
    cut,        \* bytes of the file that are there
    hcd,        \* ... and those not read yet
    buffer,
    pc,         \* header, payload: read(hcdfile_fd); first, rest: read_event; done
    i, len,     \* of read_event; len of proc_patchram, too
    wire,       \* what the controller has to answer
    line,       \* bytes in the host's UART
    sent,       \* ghost: commands written
    taken       \* ghost: events read

vars == <<cut, hcd, buffer, pc, i, len, wire, line, sent, taken>>

\* Records of two bytes of opcode, a length and a payload lie one after the other in
\* the file, and buffer has room for every one and for every event.  (The code has
\* 1024 bytes, and a length is a byte.)  A header that is cut off leaves the
\* fourth byte of an event where a length is expected.
ASSUME DownloadAssumption ==
    /\ File \in Seq(Nat) /\ Start \in Seq(Nat) /\ Start # <<>>
    /\ Start[1] = 0 /\ Start[Len(Start)] = Len(File)
    /\ \A j, k \in DOMAIN Start : j < k => Start[j] + 3 <= Start[k]
    /\ \A k \in 1 .. Len(Start) - 1 :
          LET n == File[Start[k] + 3] IN Start[k + 1] = Start[k] + 3 + n /\ 4 + n <= BufSize
    /\ Events \subseteq Seq(Nat)
    /\ \A e \in Events : /\ Len(e) >= 3 /\ Len(e) = 3 + e[3] /\ Len(e) <= BufSize
                         /\ Len(e) > 3 => 4 + e[4] <= BufSize
    /\ BufSize \in Nat /\ BufSize >= 4
    /\ Cuts \subseteq 0 .. Len(File) /\ ReadFails \in BOOLEAN

Records   == Len(Start) - 1
Record(k) == SubSeq(File, Start[k] + 1, Start[k + 1])

None     == <<>>
Smaller(a, b) == IF a < b THEN a ELSE b
Bytes(from, n) == [k \in 1 .. n |-> buffer[from + k - 1]]
Stored(from, bytes) ==
    [k \in DOMAIN buffer |->
        IF k - from + 1 \in DOMAIN bytes THEN bytes[k - from + 1] ELSE buffer[k]]

Init ==
    /\ cut \in Cuts /\ hcd = SubSeq(File, 1, cut)
    /\ buffer = [k \in 0 .. BufSize - 1 |-> 0]
    /\ pc = "header" /\ i = 0 /\ len = 0
    /\ wire = None /\ line = <<>> /\ sent = <<>> /\ taken = 0

----------------------------------------------------------------------------
\* read(hcdfile_fd, at, n): what is left of the file may be less, and a read that
\* fails leaves buffer as it was; nobody looks at what the read of a payload returned
FromFile(at, n) ==
    \/ LET k == Smaller(n, Len(hcd)) IN
       /\ buffer' = Stored(at, SubSeq(hcd, 1, k))
       /\ hcd' = SubSeq(hcd, k + 1, Len(hcd))
    \/ ReadFails /\ UNCHANGED <<buffer, hcd>>

\* mutant of ReadHeader: the loop does not end on a read of nothing
ReadHeaderAlways ==
    /\ pc = "header"
    /\ FromFile(1, 3)
    /\ pc' = "payload" /\ len' = buffer'[3]
    /\ UNCHANGED <<cut, i, wire, line, sent, taken>>

\* The loop goes on unless the read returned 0: a header of fewer bytes will do, and so
\* will the -1 of a read that failed.
ReadHeader ==
    /\ pc = "header" /\ (hcd # <<>> \/ ReadFails)
    /\ FromFile(1, 3)
    /\ pc' = "payload" /\ len' = buffer'[3]
    /\ UNCHANGED <<cut, i, wire, line, sent, taken>>

EndOfFile ==
    /\ pc = "header" /\ hcd = <<>> /\ pc' = "done"
    /\ UNCHANGED <<cut, hcd, buffer, i, len, wire, line, sent, taken>>

\* mutant of Command: a length without the packet type
CommandShort(buf) == [k \in 1 .. len + 3 |-> IF k = 1 THEN 1 ELSE buf[k - 1]]

\* the len + 4 bytes of a command, buffer[0] being 1
Command(buf) == [k \in 1 .. len + 4 |-> IF k = 1 THEN 1 ELSE buf[k - 1]]

\* mutant of SendRecord: i is kept from one call of read_event to the next
SendRecordOn ==
    /\ pc = "payload" /\ FromFile(4, len)
    /\ wire' = Command(buffer') /\ sent' = Append(sent, Command(buffer'))
    /\ pc' = "first" /\ len' = 3
    /\ UNCHANGED <<cut, i, line, taken>>

\* read the payload, hci_send_cmd, and on to read_event
SendRecord ==
    /\ pc = "payload" /\ FromFile(4, len)
    /\ wire' = Command(buffer') /\ sent' = Append(sent, Command(buffer'))
    /\ pc' = "first" /\ i' = 0 /\ len' = 3
    /\ UNCHANGED <<cut, line, taken>>

\* mutant of Piece: the rest is read over the first piece
PieceAgain(n) == i' = 0 /\ len' = len - n

\* a read that returned fewer bytes than it was asked for
Piece(n) == i' = i + n /\ len' = len - n

\* mutant of Filled: the length is taken from a byte too far
FilledLate ==
    IF pc = "first" THEN pc' = "rest" /\ i' = 3 /\ len' = buffer'[3] /\ UNCHANGED taken
    ELSE pc' = "header" /\ taken' = taken + 1 /\ UNCHANGED <<i, len>>

\* a read that returned all of them: the first three bytes, or the rest, of the event
Filled ==
    IF pc = "first" THEN pc' = "rest" /\ i' = i + len /\ len' = buffer'[2] /\ UNCHANGED taken
    ELSE pc' = "header" /\ taken' = taken + 1 /\ UNCHANGED <<i, len>>

\* read(fd, &buffer[i], len): it waits for a byte, unless it fails or wants none
ReadEvent ==
    /\ pc \in {"first", "rest"}
    /\ \E n \in (IF len = 0 THEN {0} ELSE 1 .. Smaller(len, Len(line)))
                \cup (IF ReadFails THEN {-1} ELSE {}) :
          /\ buffer' = Stored(i, SubSeq(line, 1, n))
          /\ line' = IF n > 0 THEN SubSeq(line, n + 1, Len(line)) ELSE line
          /\ IF n < len THEN Piece(n) /\ UNCHANGED <<pc, taken>> ELSE Filled
    /\ UNCHANGED <<cut, hcd, wire, sent>>

\* the controller takes a command and answers it; how the bytes come in is left to
\* the reads
CtlAnswer ==
    /\ wire # None /\ wire' = None
    /\ \E e \in Events : line' = line \o e
    /\ UNCHANGED <<cut, hcd, buffer, pc, i, len, sent, taken>>

ProcPatchram == ReadHeader \/ EndOfFile \/ SendRecord \/ ReadEvent
Next     == ProcPatchram \/ CtlAnswer
Spec     == Init /\ [][Next]_vars
\* the process is scheduled and the controller answers
FairSpec == Spec /\ WF_vars(ProcPatchram) /\ WF_vars(CtlAnswer)

----------------------------------------------------------------------------
There == Max({k \in 0 .. Records : Start[k + 1] <= cut})    \* records that are there whole

\* A file cut off inside a record gives one command more than it has records, a file
\* cut off between records none.
NothingElse == Len(sent) <= IF cut = Start[There + 1] THEN There ELSE There + 1

\* Between two records buffer starts with the event of the last one, whole, however it
\* came in, and no byte of it is left in the UART.
EventWhole ==
    pc = "header" /\ taken > 0 =>
        /\ wire = None /\ line = <<>>
        /\ \E e \in Events : Bytes(0, Len(e)) = e

\* No read of an event or a payload reaches outside of buffer.
InBounds ==
    /\ pc \in {"first", "rest"} => i >= 0 /\ i + len <= BufSize
    /\ pc = "payload" => 4 + len <= BufSize

Exchange == INSTANCE HciExchange WITH
    script <- [k \in 1 .. There |-> <<1>> \o Record(k)], ended <- pc = "done",
    sent <- SubSeq(sent, 1, Smaller(There, Len(sent))), taken <- Smaller(There, taken)

\* The loop is the exchange that Patchram takes it for: the records that are there whole
\* are sent as they are in the file, each after the event of the one before was read.
ImplementsExchange == Exchange!Spec

\* The loop ends, wherever the file was cut off.
Finishes == <>(pc = "done")
=============================================================================
