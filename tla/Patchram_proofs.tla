-------------------------- MODULE Patchram_proofs --------------------------
(* Proofs about Patchram: the types, which command the event in buffer can   *)
(* answer, the two bytes behind the event of the minidriver, the speeds of    *)
(* both sides and the order of the commands, for any HCD file, speeds,       *)
(* options and resets of the alarm.                                          *)
EXTENDS Patchram, SequenceTheorems, TLAPS

Resets   == {"reset", "rereset"}
Bauds    == {"dlbaud", "baud"}
Settings == {"bdaddr", "lpm", "sco", "pcm", "i2s"}

\* The alarm runs only in proc_reset, from its command to its alarm(0).
AlarmInReset == armed => Proc \in Resets /\ step \in {"read", "got"}

\* main() is in a procedure that an option wants, before the records at none of them,
\* and init_uart reads nothing.
InWanted == Wanted(Proc) /\ (at < 6 => fpos = 0) /\ (at = 1 => step = "call")

\* Outside of a read, what is on its way is no more than the spurious resets.
Reading == IF step = "read" THEN 1 ELSE 0
Pending == Len(input) + Len(cmds) <= dup + Reading

\* What is on its way, at place i, answers a command that at most dup others follow once
\* all before it are read.
LagsBy(n, i, count, d) == n <= count /\ count - n + i <= d
Lags(n, i) == LagsBy(n, i, Count, dup + Reading)
PendingLag == /\ \A i \in DOMAIN input : Lags(input[i].n, i)
              /\ \A i \in DOMAIN cmds : Lags(cmds[i].n, Len(input) + i)

LagInv == AlarmInReset /\ Pending /\ PendingLag /\ EventLag

\* Without a spurious reset, all that is on its way was written by the procedure main()
\* is in.
OpOf == CASE Proc \in Resets    -> "reset"
          [] Proc \in Bauds     -> "baud"
          [] Proc = "records"   -> IF fpos = Records THEN "launch" ELSE "record"
          [] OTHER              -> Proc
OwnOp == dup = 0 => /\ \A i \in DOMAIN input : input[i].op = OpOf
                    /\ \A i \in DOMAIN cmds : cmds[i].op = OpOf

\* ... and the two bytes are there only between the answer to the minidriver and the
\* read that takes them.
ConfInTime ==
    Fits /\ dup = 0 /\ conf > 0 =>
        /\ TwoBytes
        /\ \/ Proc = "mini" /\ step = "read" /\ input # <<>>
           \/ Proc = "mini" /\ step = "got"
           \/ Proc = "conf" /\ step = "call"

\* The speeds are the same but at the start, from the answer to a change of speed until
\* SetSpeed, and from the launch until the end of the file.
Good   == Fits /\ Cold /\ dup = 0 /\ insync /\ ~failed
Speeds ==
    IF Proc = "init" THEN ctlRate = Low /\ cmds = <<>>
    ELSE IF cmds = <<>> /\ Proc \in Bauds /\ step \in {"read", "got"} THEN ctlRate = cfg.baud
    ELSE IF cmds = <<>> /\ Proc = "records" /\ fpos = Records THEN ctlRate = Low
    ELSE ctlRate = hostRate
RatesInv ==
    Good => /\ Speeds
            /\ \A i \in DOMAIN cmds : cmds[i].rate = hostRate
            /\ at \in 2 .. 6 /\ "use_baudrate_for_download" \notin cfg.flags => hostRate = Low

SafeInv == TypeOK /\ InWanted /\ LagInv /\ OwnOp
SyncInv == ConfInTime /\ InSync
IInv    == SafeInv /\ SyncInv /\ RatesInv

----------------------------------------------------------------------------
(* The procedures *)

LEMMA OrderIs ==
    /\ Len(Order) = 15
    /\ Order[1] = "init" /\ Order[2] = "reset" /\ Order[3] = "dlbaud" /\ Order[4] = "mini"
    /\ Order[5] = "conf" /\ Order[6] = "records" /\ Order[7] = "rereset" /\ Order[8] = "baud"
    /\ Order[9] = "bdaddr" /\ Order[10] = "lpm" /\ Order[11] = "sco" /\ Order[12] = "pcm"
    /\ Order[13] = "i2s" /\ Order[14] = "hci" /\ Order[15] = "exit"
  BY DEF Order

\* Where main() is, by number and by name.
LEMMA Places ==
    ASSUME at \in 1 .. Len(Order)
    PROVE  /\ at \in 1 .. 15
           /\ Proc = "init" <=> at = 1
           /\ Proc \in Resets <=> at \in {2, 7}
           /\ Proc \in Bauds <=> at \in {3, 8}
           /\ Proc = "dlbaud" <=> at = 3
           /\ Proc = "mini" <=> at = 4
           /\ Proc = "conf" <=> at = 5
           /\ Proc = "records" <=> at = 6
           /\ Proc \in Settings <=> at \in 9 .. 13
           /\ Proc = "hci" <=> at = 14
           /\ Proc = "exit" <=> at = 15
           /\ Proc # "launch"
  BY OrderIs DEF Proc, Resets, Bauds, Settings

----------------------------------------------------------------------------
(* Types *)

HostType == /\ cfg \in Options /\ at \in 1 .. Len(Order)
            /\ step \in {"call", "read", "got", "end"}
            /\ fpos \in 0 .. Records /\ armed \in BOOLEAN
            /\ event \in Events \cup {NoEvent}
LineType == /\ {hostRate, ctlRate} \subseteq Rates \cup {NoBaud}
            /\ cmds \in Seq(Cmds) /\ input \in Seq(Events) /\ conf \in 0 .. 2
GhostType == /\ log \in Seq(Ops) /\ resends \in 0 .. MaxResends /\ dup \in 0 .. resends
             /\ insync \in BOOLEAN /\ failed \in BOOLEAN

LEMMA TypeParts == TypeOK <=> HostType /\ LineType /\ GhostType
  BY DEF TypeOK, HostType, LineType, GhostType

LEMMA TypePartsPrimed == HostType' /\ LineType' /\ GhostType' => TypeOK'
  BY DEF TypeOK, HostType, LineType, GhostType

LEMMA InitType == Init => TypeOK
<1> SUFFICES ASSUME Init PROVE TypeOK
  OBVIOUS
<1>1. HostType
  <2>1. at \in 1 .. Len(Order) /\ fpos \in 0 .. Records
    BY OrderIs, PatchramAssumption DEF Init
  <2> QED
    BY <2>1 DEF Init, HostType
<1>2. LineType
  BY RatesAssumption DEF Init, LineType
<1>3. GhostType
  <2>1. resends \in 0 .. MaxResends /\ dup \in 0 .. resends
    BY PatchramAssumption DEF Init
  <2>2. log \in Seq(Ops)
    BY DEF Init
  <2>3. insync \in BOOLEAN /\ failed \in BOOLEAN
    BY DEF Init
  <2> QED
    BY <2>1, <2>2, <2>3 DEF GhostType
<1> QED
  BY <1>1, <1>2, <1>3, TypeParts

LEMMA CountType == ASSUME TypeOK PROVE Count \in Nat
<1>1. log \in Seq(Ops) /\ resends \in Nat
  BY PatchramAssumption DEF TypeOK
<1>2. Len(log) \in Nat
  BY ONLY <1>1
<1> QED
  BY ONLY <1>1, <1>2 DEF Count

\* A command keeps the types.
LEMMA SendType ==
    ASSUME TypeOK, NEW op \in Ops, Send(op), fpos' \in 0 .. Records, armed' \in BOOLEAN
    PROVE  TypeOK'
<1> USE DEF Send
<1>1. HostType'
  BY DEF TypeOK, HostType
<1>2. LineType'
  <2>1. hostRate \in Rates \cup {NoBaud} /\ Count + 1 \in Nat
    BY CountType DEF TypeOK
  <2>2. [op |-> op, n |-> Count + 1, rate |-> hostRate] \in Cmds
    BY <2>1 DEF Cmds
  <2> QED
    BY <2>2 DEF Write, TypeOK, LineType
<1>3. GhostType'
  BY DEF TypeOK, GhostType
<1> QED
  BY <1>1, <1>2, <1>3, TypePartsPrimed

\* What a procedure writes is a command.
LEMMA OpIsOp ==
    ASSUME NEW op, op \in {"reset", "baud", "mini", "record", "launch"} \cup Settings
    PROVE  op \in Ops
  BY DEF Ops, Settings

LEMMA HostSends ==
    ASSUME TypeOK, ProcReset \/ ProcBaudrate \/ ProcPatchram \/ SendRecord \/ ProcSetting
    PROVE  TypeOK'
<1>1. CASE ProcReset
  BY <1>1, SendType, OpIsOp DEF ProcReset, Send, TypeOK
<1>2. CASE ProcBaudrate
  BY <1>2, SendType, OpIsOp DEF ProcBaudrate, Send, TypeOK
<1>3. CASE ProcPatchram
  BY <1>3, SendType, OpIsOp DEF ProcPatchram, Send, TypeOK
<1>4. CASE SendRecord
  <2>1. fpos' \in 0 .. Records /\ armed' \in BOOLEAN
    BY <1>4, PatchramAssumption DEF SendRecord, TypeOK
  <2>2. PICK op \in {"launch", "record"} : Send(op)
    BY <1>4 DEF SendRecord
  <2> QED
    BY <2>1, <2>2, SendType, OpIsOp
<1>5. CASE ProcSetting
  <2>1. fpos' \in 0 .. Records /\ armed' \in BOOLEAN
    BY <1>5 DEF ProcSetting, TypeOK
  <2>2. PICK op \in Settings : Send(op)
    BY <1>5 DEF ProcSetting, Settings
  <2>3. op \in Ops
    BY OpIsOp
  <2> QED
    BY <2>1, <2>2, <2>3, SendType
<1> QED
  BY <1>1, <1>2, <1>3, <1>4, <1>5

LEMMA AdvanceType == ASSUME TypeOK, Advance PROVE at' \in 1 .. Len(Order) /\ step' = "call"
<1>1. at \in 1 .. Len(Order)
  BY DEF TypeOK
<1>2. at' \in at + 1 .. Len(Order) /\ step' = "call"
  BY DEF Advance
<1>3. Len(Order) = 15
  BY OrderIs
<1> QED
  BY ONLY <1>1, <1>2, <1>3

\* The other steps of main().
LEMMA HostType2 ==
    ASSUME TypeOK,
           InitUart \/ EndOfFile \/ ReadEvent \/ ReadGarbled \/ Return \/ SetSpeed
           \/ Confirm \/ EnableHci \/ Exit
    PROVE  TypeOK'
<1> USE DEF lineVars, ghosts
<1>1. CASE InitUart
  BY <1>1, AdvanceType, RatesAssumption DEF InitUart, TypeOK
<1>2. CASE EndOfFile
  BY <1>2, AdvanceType, RatesAssumption DEF EndOfFile, TypeOK
<1>3. CASE ReadEvent
  <2>1. Head(input) \in Events /\ Tail(input) \in Seq(Events)
    BY <1>3 DEF ReadEvent, TypeOK
  <2> QED
    BY <1>3, <2>1 DEF ReadEvent, TypeOK
<1>4. CASE ReadGarbled
  <2> PICK k \in 1 .. Len(input) : input' = SubSeq(input, k + 1, Len(input))
    BY <1>4 DEF ReadGarbled
  <2>0. \A j \in k + 1 .. Len(input) : input[j] \in Events
    BY DEF TypeOK
  <2>1. input' \in Seq(Events)
    BY <2>0, SubSeqProperties DEF TypeOK
  <2>2. /\ step' = "got" /\ event' = NoEvent /\ insync' = FALSE /\ conf' \in 0 .. 2
        /\ UNCHANGED <<cfg, at, fpos, armed, hostRate, ctlRate, cmds, log, resends, dup, failed>>
    BY <1>4 DEF ReadGarbled
  <2> QED
    BY <2>1, <2>2 DEF TypeOK
<1>5. CASE Return
  <2>1. at' \in 1 .. Len(Order) /\ step' \in {"call", "read", "got", "end"}
    BY <1>5, AdvanceType DEF Return, TypeOK
  <2> QED
    BY <1>5, <2>1 DEF Return, TypeOK
<1>6. CASE SetSpeed
  <2>1. cfg.baud \in Rates \cup {NoBaud}
    BY DEF TypeOK, Options
  <2>2. at' \in 1 .. Len(Order) /\ step' = "call"
    BY <1>6, AdvanceType DEF SetSpeed
  <2>3. HostType'
    BY <1>6, <2>2 DEF SetSpeed, TypeOK, HostType
  <2>4. LineType'
    BY <1>6, <2>1 DEF SetSpeed, TypeOK, LineType
  <2>5. GhostType'
    BY <1>6 DEF SetSpeed, TypeOK, GhostType
  <2> QED
    BY <2>3, <2>4, <2>5, TypePartsPrimed
<1>7. CASE Confirm
  <2>0. input \in Seq(Events) /\ (input' = input \/ (input # <<>> /\ input' = Tail(input)))
    BY <1>7 DEF Confirm, TypeOK
  <2>1. input' \in Seq(Events)
    BY ONLY <2>0
  <2>2. conf' \in 0 .. 2
    BY <1>7 DEF Confirm, TypeOK
  <2>3. insync' \in BOOLEAN
    BY <1>7 DEF Confirm, TypeOK
  <2> QED
    BY <1>7, <2>1, <2>2, <2>3, AdvanceType DEF Confirm, TypeOK
<1>8. CASE EnableHci
  BY <1>8, PatchramAssumption DEF EnableHci, TypeOK
<1>9. CASE Exit
  BY <1>9 DEF Exit, TypeOK
<1> QED
  BY <1>1, <1>2, <1>3, <1>4, <1>5, <1>6, <1>7, <1>8, <1>9

LEMMA ExpiredType == ASSUME TypeOK, Expired PROVE TypeOK'
<1> USE DEF Expired, mainVars
<1>1. HostType'
  BY DEF TypeOK, HostType
<1>2. LineType'
  <2>1. [op |-> "reset", n |-> Count + 1, rate |-> hostRate] \in Cmds
    BY PatchramAssumption DEF Cmds, Ops, Count, TypeOK
  <2> QED
    BY <2>1 DEF Write, TypeOK, LineType
<1>3. GhostType'
  BY PatchramAssumption DEF TypeOK, GhostType
<1> QED
  BY <1>1, <1>2, <1>3, TypePartsPrimed

LEMMA ControllerType == ASSUME TypeOK, Controller PROVE TypeOK'
<1>0. cmds # <<>>
  BY DEF Controller, CtlAnswer, CtlMiss, CtlBoots
<1>1. Head(cmds) \in Cmds /\ Tail(cmds) \in Seq(Cmds)
  BY <1>0 DEF TypeOK
<1> USE DEF mainVars, ghosts
<1>2. CASE CtlAnswer
  <2>0. [op |-> Head(cmds).op, n |-> Head(cmds).n] \in Events
    BY <1>1 DEF Cmds, Events
  <2>1. input' \in Seq(Events) /\ conf' \in 0 .. 2
    <3>1. CASE hostRate = ctlRate
      <4>1. input' = Append(input, [op |-> Head(cmds).op, n |-> Head(cmds).n]) /\ conf' \in {2, conf}
        BY <1>2, <3>1 DEF CtlAnswer, Deliver
      <4> QED
        BY <2>0, <4>1 DEF TypeOK
    <3>2. CASE hostRate # ctlRate
      BY <1>2, <3>2 DEF CtlAnswer, Deliver, TypeOK
    <3> QED
      BY <3>1, <3>2
  <2>2. ctlRate' \in Rates \cup {NoBaud}
    BY <1>2, RatesAssumption DEF CtlAnswer, TypeOK, Options
  <2>3. failed' \in BOOLEAN
    BY <1>2 DEF CtlAnswer, TypeOK
  <2> QED
    BY <1>1, <1>2, <2>1, <2>2, <2>3 DEF CtlAnswer, TypeOK
<1>3. CASE CtlMiss
  BY <1>1, <1>3 DEF CtlMiss, TypeOK
<1>4. CASE CtlBoots
  BY <1>1, <1>4 DEF CtlBoots, TypeOK
<1> QED
  BY <1>2, <1>3, <1>4 DEF Controller

LEMMA NextType == TypeOK /\ [Next]_vars => TypeOK'
<1> SUFFICES ASSUME TypeOK, [Next]_vars PROVE TypeOK'
  OBVIOUS
<1>1. CASE UNCHANGED vars
  BY <1>1 DEF vars, mainVars, lineVars, ghosts, TypeOK
<1> QED
  BY <1>1, HostSends, HostType2, ExpiredType, ControllerType DEF Next, Main
----------------------------------------------------------------------------
(* What is on its way, and what the event in buffer may answer *)

LEMMA InitLag == Init => LagInv
<1> SUFFICES ASSUME Init PROVE LagInv
  OBVIOUS
<1>1. Len(input) = 0 /\ Len(cmds) = 0 /\ dup = 0 /\ step = "call" /\ armed = FALSE
  BY DEF Init
<1>2. DOMAIN input = {} /\ DOMAIN cmds = {}
  BY DEF Init
<1> QED
  BY <1>1, <1>2 DEF LagInv, AlarmInReset, Pending, PendingLag, EventLag, Reading

\* What is on its way, as numbers.
LEMMA OnItsWay ==
    ASSUME TypeOK
    PROVE  /\ Len(input) \in Nat /\ DOMAIN input = 1 .. Len(input)
           /\ Len(cmds) \in Nat /\ DOMAIN cmds = 1 .. Len(cmds)
           /\ \A i \in DOMAIN input : input[i].n \in Nat
           /\ \A i \in DOMAIN cmds : cmds[i].n \in Nat
           /\ dup \in Nat
<1>1. input \in Seq(Events) /\ cmds \in Seq(Cmds) /\ dup \in Nat
  BY PatchramAssumption DEF TypeOK
<1>2. \A i \in 1 .. Len(input) : input[i] \in Events
  BY <1>1
<1>3. \A i \in 1 .. Len(cmds) : cmds[i] \in Cmds
  BY <1>1
<1>4. \A e \in Events : e.n \in Nat
  BY DEF Events
<1>5. \A c \in Cmds : c.n \in Nat
  BY DEF Cmds
<1> QED
  BY <1>1, <1>2, <1>3, <1>4, <1>5

LEMMA AppendCmd ==
    ASSUME TypeOK, NEW c, c.n = Count + 1, cmds' = Append(cmds, c)
    PROVE  /\ Len(cmds') = Len(cmds) + 1 /\ DOMAIN cmds' = 1 .. Len(cmds) + 1
           /\ \A i \in 1 .. Len(cmds) : cmds'[i] = cmds[i]
           /\ cmds'[Len(cmds) + 1].n = Count + 1
<1>1. cmds \in Seq(Cmds)
  BY DEF TypeOK
<1> QED
  BY <1>1

\* One more command, and one more duplicate or a read begun: each lags by no more.
LEMMA OneMoreLags ==
    ASSUME NEW n \in Nat, NEW i \in Nat, NEW c \in Nat, NEW d \in Nat, LagsBy(n, i, c, d)
    PROVE  LagsBy(n, i, c + 1, d + 1)
  BY DEF LagsBy

LEMMA OneMoreBehind ==
    ASSUME NEW n \in Int, NEW c \in Nat, NEW d \in Nat, c - n <= d
    PROVE  (c + 1) - n <= d + 1
  OBVIOUS

\* The newest command is behind what was on its way before it.
LEMMA NewestLags ==
    ASSUME NEW c \in Nat, NEW d \in Nat, NEW i \in Nat, i <= d
    PROVE  LagsBy(c + 1, i + 1, c + 1, d + 1)
  BY DEF LagsBy

\* What is on its way when one command more is written and counted.
LEMMA MoreLag ==
    ASSUME TypeOK, LagInv, NEW d, d = dup + Reading, d \in Nat, Count' = Count + 1,
           dup' + Reading' = d + 1, input' = input, NEW c, c.n = Count + 1,
           cmds' = Append(cmds, c)
    PROVE  PendingLag'
<1>1. /\ Len(input) \in Nat /\ DOMAIN input = 1 .. Len(input)
      /\ Len(cmds) \in Nat /\ DOMAIN cmds = 1 .. Len(cmds)
      /\ \A i \in DOMAIN input : input[i].n \in Nat
      /\ \A i \in DOMAIN cmds : cmds[i].n \in Nat
  BY OnItsWay
<1>2. /\ DOMAIN cmds' = 1 .. Len(cmds) + 1
      /\ \A i \in 1 .. Len(cmds) : cmds'[i] = cmds[i]
      /\ cmds'[Len(cmds) + 1].n = Count + 1
  BY AppendCmd
<1>3. Count \in Nat /\ Len(input) + Len(cmds) <= d
  BY CountType DEF LagInv, Pending
<1>4. \A i \in DOMAIN input' : Lags(input[i].n, i)'
  <2> SUFFICES ASSUME NEW i \in DOMAIN input PROVE LagsBy(input[i].n, i, Count + 1, d + 1)
    BY DEF Lags
  <2>1. LagsBy(input[i].n, i, Count, d) /\ input[i].n \in Nat /\ i \in Nat
    BY <1>1 DEF LagInv, PendingLag, Lags
  <2> QED
    BY <1>3, <2>1, OneMoreLags
<1>5. \A i \in DOMAIN cmds' : Lags(cmds[i].n, Len(input) + i)'
  <2> SUFFICES ASSUME NEW i \in 1 .. Len(cmds) + 1
               PROVE  LagsBy(cmds'[i].n, Len(input) + i, Count + 1, d + 1)
    BY <1>2 DEF Lags
  <2>1. CASE i \in 1 .. Len(cmds)
    <3>1. LagsBy(cmds[i].n, Len(input) + i, Count, d) /\ cmds[i].n \in Nat
      BY <1>1, <2>1 DEF LagInv, PendingLag, Lags
    <3>2. Len(input) + i \in Nat /\ cmds'[i] = cmds[i]
      BY <1>1, <1>2, <2>1
    <3> QED
      BY <1>3, <3>1, <3>2, OneMoreLags
  <2>2. CASE i = Len(cmds) + 1
    <3> DEFINE w == Len(input) + Len(cmds)
    <3>1. w \in Nat /\ w <= d /\ Len(input) + i = w + 1
      BY <1>1, <1>3, <2>2
    <3>2. cmds'[i].n = Count + 1
      BY <1>2, <2>2
    <3> HIDE DEF w
    <3> QED
      BY <1>3, <3>1, <3>2, NewestLags
  <2> QED
    BY <1>1, <2>1, <2>2
<1> QED
  BY <1>4, <1>5 DEF PendingLag

\* A command joins what is on its way, and main() reads.
LEMMA SendLag ==
    ASSUME TypeOK, TypeOK', LagInv, step = "call", NEW op \in Ops, Send(op)
    PROVE  Pending' /\ PendingLag' /\ EventLag'
<1>1. /\ step' = "read" /\ Reading = 0 /\ Reading' = 1 /\ dup' = dup /\ input' = input
      /\ cmds' = Append(cmds, [op |-> op, n |-> Count + 1, rate |-> hostRate])
  BY DEF Send, Write, Reading
<1>2. Count' = Count + 1 /\ Count \in Nat
  BY CountType DEF Send, Count, TypeOK
<1>3. /\ Len(cmds') = Len(cmds) + 1 /\ Len(cmds) \in Nat /\ Len(input) \in Nat /\ dup \in Nat
      /\ DOMAIN cmds' = 1 .. Len(cmds) + 1 /\ DOMAIN cmds = 1 .. Len(cmds)
      /\ \A i \in 1 .. Len(cmds) : cmds'[i] = cmds[i] /\ cmds[i].n \in Nat
      /\ cmds'[Len(cmds) + 1].n = Count + 1
  BY <1>1, OnItsWay, AppendCmd
<1>4. \A i \in DOMAIN input : input[i].n \in Nat /\ i \in Nat
  BY OnItsWay
<1>5. Len(input) + Len(cmds) <= dup
  BY <1>1, <1>3 DEF LagInv, Pending
<1>6. Pending'
  BY <1>1, <1>3, <1>5 DEF Pending
<1>7. PendingLag'
  <2> DEFINE c == [op |-> op, n |-> Count + 1, rate |-> hostRate]
  <2>1. dup + Reading \in Nat /\ dup' + Reading' = (dup + Reading) + 1
    BY <1>1, <1>3
  <2>2. c.n = Count + 1 /\ cmds' = Append(cmds, c)
    BY <1>1
  <2> HIDE DEF c
  <2> QED
    BY <1>1, <1>2, <2>1, <2>2, MoreLag
<1> QED
  BY <1>1, <1>6, <1>7 DEF EventLag

\* A reset of the alarm: spurious when something is on its way, or was just read.
LEMMA ExpiredLag == ASSUME TypeOK, TypeOK', LagInv, Expired PROVE LagInv'
<1>1. /\ step' = step /\ input' = input /\ event' = event /\ insync' = insync
      /\ cmds' = Append(cmds, [op |-> "reset", n |-> Count + 1, rate |-> hostRate])
      /\ step \in {"read", "got"} /\ Reading' = Reading /\ Reading \in {0, 1}
      /\ (step = "read" <=> Reading = 1)
  BY DEF Expired, Write, Reading, mainVars, LagInv, AlarmInReset
<1>2. Count' = Count + 1 /\ Count \in Nat
  BY CountType, PatchramAssumption DEF Expired, Count, TypeOK
<1>3. /\ Len(cmds') = Len(cmds) + 1 /\ Len(cmds) \in Nat /\ Len(input) \in Nat /\ dup \in Nat
      /\ DOMAIN cmds' = 1 .. Len(cmds) + 1 /\ DOMAIN cmds = 1 .. Len(cmds)
      /\ \A i \in 1 .. Len(cmds) : cmds'[i] = cmds[i] /\ cmds[i].n \in Nat
      /\ cmds'[Len(cmds) + 1].n = Count + 1
  BY <1>1, OnItsWay, AppendCmd
<1>4. \A i \in DOMAIN input : input[i].n \in Nat /\ i \in Nat
  BY OnItsWay
<1>5. Len(input) + Len(cmds) <= dup + Reading
  BY DEF LagInv, Pending
<1>6. /\ dup' = dup + 1 \/ (dup' = dup /\ step = "read" /\ cmds = <<>> /\ input = <<>>)
  BY <1>1 DEF Expired
<1>7. CASE dup' = dup + 1
  <2>1. Pending'
    BY <1>1, <1>3, <1>5, <1>7 DEF Pending
  <2>2. PendingLag'
    <3> DEFINE c == [op |-> "reset", n |-> Count + 1, rate |-> hostRate]
    <3>1. dup + Reading \in Nat /\ dup' + Reading' = (dup + Reading) + 1
      BY <1>1, <1>3, <1>7
    <3>2. c.n = Count + 1 /\ cmds' = Append(cmds, c)
      BY <1>1
    <3> HIDE DEF c
    <3> QED
      BY <1>1, <1>2, <3>1, <3>2, MoreLag
  <2>3. EventLag'
    <3>0. event \in Events \cup {NoEvent}
      BY DEF TypeOK
    <3>1. event.n \in Int
      BY ONLY <3>0 DEF Events, NoEvent
    <3>2. step = "got" /\ insync => Count - event.n <= dup
      BY DEF LagInv, EventLag
    <3>3. step = "got" /\ insync => (Count + 1) - event.n <= dup + 1
      BY ONLY <1>2, <1>3, <3>1, <3>2, OneMoreBehind
    <3> QED
      BY <1>1, <1>2, <1>7, <3>3 DEF EventLag
  <2>4. AlarmInReset'
    BY DEF LagInv, AlarmInReset, Expired, mainVars, Proc
  <2> QED
    BY <2>1, <2>2, <2>3, <2>4 DEF LagInv
<1>8. CASE dup' = dup /\ step = "read" /\ cmds = <<>> /\ input = <<>>
  <2>1. Len(input) = 0 /\ Len(cmds) = 0 /\ DOMAIN input = {}
    BY <1>8
  <2>2. Pending'
    BY <1>1, <1>3, <1>8, <2>1 DEF Pending
  <2>3. \A i \in DOMAIN cmds' : Lags(cmds[i].n, Len(input) + i)'
    BY <1>1, <1>2, <1>3, <1>8, <2>1 DEF Lags, LagsBy
  <2> QED
    BY <1>1, <1>8, <2>1, <2>2, <2>3
    DEF LagInv, PendingLag, EventLag, AlarmInReset, Expired, mainVars, Proc
<1> QED
  BY <1>6, <1>7, <1>8

LEMMA Closer ==
    ASSUME NEW r \in {0, 1}, NEW s \in {0, 1}, NEW l \in Nat, NEW k \in 0 .. l, k > 0 \/ s = r,
           NEW d \in Nat
    PROVE  k \in Nat /\ d + r \in Nat /\ d + s \in Nat /\ d + r <= (d + s) + k
  OBVIOUS

LEMMA LessLag ==
    ASSUME NEW c \in Nat, NEW n \in Nat, NEW d \in Nat, NEW e \in Nat, NEW k \in Nat, d <= e + k,
           NEW i \in Nat, NEW j \in Nat, j = i + k, LagsBy(n, j, c, d)
    PROVE  LagsBy(n, i, c, e)
  BY DEF LagsBy

\* Whatever leaves what is on its way, the rest moves up.
LEMMA MovesUp ==
    ASSUME TypeOK, TypeOK', Pending, PendingLag, Count' = Count, dup' = dup,
           NEW k \in 0 .. Len(input), Len(input') = Len(input) - k, cmds' = cmds,
           \A i \in DOMAIN input' : input'[i].n = input[i + k].n,
           k > 0 \/ Reading' = Reading, Reading' \in {0, 1}
    PROVE  Pending' /\ PendingLag'
<1>1. /\ Reading \in {0, 1} /\ Count \in Nat /\ dup \in Nat /\ Len(input) \in Nat
      /\ Len(cmds) \in Nat /\ DOMAIN cmds = 1 .. Len(cmds) /\ DOMAIN input = 1 .. Len(input)
      /\ DOMAIN input' = 1 .. Len(input) - k
  <2>1. DOMAIN input' = 1 .. Len(input')
    BY DEF TypeOK
  <2> QED
    BY <2>1, CountType, OnItsWay DEF Reading
<1>2. \A i \in DOMAIN input : input[i].n \in Nat
  BY OnItsWay
<1>3. \A i \in DOMAIN cmds : cmds[i].n \in Nat
  BY OnItsWay
<1> DEFINE d == dup + Reading
           e == dup + Reading'
<1>4. k \in Nat /\ d \in Nat /\ e \in Nat /\ d <= e + k
  BY <1>1, Closer
<1> HIDE DEF d, e
<1>5. Pending'
  <2>1. Len(input) + Len(cmds) <= d
    BY DEF Pending, d
  <2>2. (Len(input) - k) + Len(cmds) <= e
    BY ONLY <1>1, <1>4, <2>1
  <2> QED
    BY <2>2 DEF Pending, e
<1>6. \A i \in DOMAIN input' : Lags(input[i].n, i)'
  <2> SUFFICES ASSUME NEW i \in 1 .. Len(input) - k PROVE Lags(input[i].n, i)'
    BY <1>1
  <2>1. k \in Nat /\ i \in 1 .. Len(input) - k /\ Len(input) \in Nat /\ DOMAIN input = 1 .. Len(input)
    BY <1>1, <1>4
  <2>2. i + k \in DOMAIN input
    BY ONLY <2>1
  <2>3. i + k \in DOMAIN input /\ input'[i].n = input[i + k].n
    BY <1>1, <2>2
  <2>4. Lags(input[i + k].n, i + k) /\ input[i + k].n \in Nat
    BY <1>2, <2>3 DEF PendingLag
  <2>5. LagsBy(input[i + k].n, i + k, Count, d) /\ i + k \in Nat /\ i \in Nat
    BY <1>4, <2>4 DEF Lags, d
  <2>6. LagsBy(input[i + k].n, i, Count, e)
    BY <1>1, <1>4, <2>4, <2>5, LessLag
  <2> QED
    BY <2>3, <2>6 DEF Lags, e
<1>7. \A i \in DOMAIN cmds' : Lags(cmds[i].n, Len(input) + i)'
  <2> SUFFICES ASSUME NEW i \in 1 .. Len(cmds) PROVE Lags(cmds[i].n, Len(input) + i)'
    BY <1>1
  <2>1. Lags(cmds[i].n, Len(input) + i) /\ cmds[i].n \in Nat
    BY <1>1, <1>3 DEF PendingLag
  <2>2. LagsBy(cmds[i].n, Len(input) + i, Count, d)
    BY <2>1 DEF Lags, d
  <2>3. /\ Len(input) + i = (Len(input') + i) + k
        /\ Len(input) + i \in Nat /\ Len(input') + i \in Nat
    BY <1>1, <1>4
  <2>4. LagsBy(cmds[i].n, Len(input') + i, Count, e)
    BY <1>1, <1>4, <2>1, <2>2, <2>3, LessLag
  <2> QED
    BY <2>4 DEF Lags, e
<1> QED
  BY <1>5, <1>6, <1>7 DEF PendingLag
\* The controller answers, or a command is lost.
LEMMA ControllerLag == ASSUME TypeOK, TypeOK', LagInv, Controller PROVE LagInv'
<1>1. /\ UNCHANGED <<cfg, at, step, fpos, armed, hostRate, event, log, resends, dup, insync>>
      /\ cmds # <<>> /\ cmds' = Tail(cmds)
      /\ input' = input \/ input' = Append(input, [op |-> Head(cmds).op, n |-> Head(cmds).n])
  BY DEF Controller, CtlAnswer, CtlMiss, CtlBoots, Deliver, mainVars, ghosts
<1>2. Count' = Count /\ Reading' = Reading /\ Reading \in {0, 1} /\ Count \in Nat
  BY <1>1, CountType DEF Count, Reading
<1>3. /\ Len(cmds') = Len(cmds) - 1 /\ Len(cmds) > 0 /\ DOMAIN cmds' = 1 .. Len(cmds) - 1
      /\ \A i \in 1 .. Len(cmds) - 1 : cmds'[i] = cmds[i + 1]
      /\ Head(cmds) = cmds[1]
  <2>1. cmds \in Seq(Cmds)
    BY DEF TypeOK
  <2> QED
    BY <1>1, <2>1
<1> DEFINE d == dup + Reading
<1>4. /\ d \in Nat /\ d <= d + 1 /\ Len(cmds) \in Nat /\ Len(input) \in Nat
      /\ dup \in Nat
  BY <1>2, OnItsWay
<1>5. \A i \in 1 .. Len(cmds) : LagsBy(cmds[i].n, Len(input) + i, Count, d) /\ cmds[i].n \in Nat
  BY OnItsWay DEF LagInv, PendingLag, Lags
<1>6. \A i \in 1 .. Len(input) : LagsBy(input[i].n, i, Count, d)
  BY OnItsWay DEF LagInv, PendingLag, Lags
<1>7. Len(input) + Len(cmds) <= d
  BY DEF LagInv, Pending
<1> HIDE DEF d
<1>8. dup' + Reading' = d
  BY <1>1, <1>2 DEF d
<1>9. CASE input' = input
  <2>1. Pending'
    BY <1>3, <1>4, <1>7, <1>8, <1>9 DEF Pending
  <2>2. \A i \in DOMAIN cmds' : Lags(cmds[i].n, Len(input) + i)'
    <3> SUFFICES ASSUME NEW i \in 1 .. Len(cmds) - 1 PROVE Lags(cmds[i].n, Len(input) + i)'
      BY <1>3
    <3>1. /\ i + 1 \in 1 .. Len(cmds) /\ Len(input) + (i + 1) = (Len(input) + i) + 1
          /\ Len(input) + (i + 1) \in Nat /\ Len(input) + i \in Nat
      BY <1>4
    <3>2. LagsBy(cmds[i + 1].n, Len(input) + (i + 1), Count, d) /\ cmds[i + 1].n \in Nat
      BY <1>5, <3>1
    <3>3. LagsBy(cmds[i + 1].n, Len(input) + i, Count, d)
      <4>1. \A n, c, e \in Nat : LagsBy(n, Len(input) + (i + 1), c, e) => LagsBy(n, Len(input) + i, c, e)
        BY <1>4 DEF LagsBy
      <4> QED
        BY <1>2, <1>4, <3>2, <4>1, Zenon
    <3>4. cmds'[i] = cmds[i + 1] /\ Len(input') = Len(input) /\ Count' = Count
      BY <1>2, <1>3, <1>9
    <3>5. LagsBy(cmds'[i].n, Len(input') + i, Count', dup' + Reading')
      BY <1>8, <3>3, <3>4, Zenon
    <3> QED
      BY <3>5, Zenon DEF Lags
  <2>3. \A i \in DOMAIN input' : Lags(input[i].n, i)'
    BY <1>2, <1>6, <1>8, <1>9, OnItsWay DEF Lags
  <2> QED
    BY <1>1, <1>2, <2>1, <2>2, <2>3 DEF LagInv, PendingLag, AlarmInReset, EventLag, Proc
<1>10. CASE input' = Append(input, [op |-> Head(cmds).op, n |-> Head(cmds).n])
  <2>1. /\ Len(input') = Len(input) + 1 /\ DOMAIN input' = 1 .. Len(input) + 1
        /\ \A i \in 1 .. Len(input) : input'[i] = input[i]
        /\ input'[Len(input) + 1].n = cmds[1].n
    <3>1. input \in Seq(Events)
      BY DEF TypeOK
    <3> QED
      BY <1>3, <1>10, <3>1
  <2>2. Pending'
    BY <1>3, <1>4, <1>7, <1>8, <2>1 DEF Pending
  <2>3. \A i \in DOMAIN cmds' : Lags(cmds[i].n, Len(input) + i)'
    <3> SUFFICES ASSUME NEW i \in 1 .. Len(cmds) - 1 PROVE Lags(cmds[i].n, Len(input) + i)'
      BY <1>3
    <3>1. i + 1 \in 1 .. Len(cmds) /\ Len(input) + (i + 1) = Len(input') + i
      BY <1>4, <2>1
    <3> QED
      BY <1>2, <1>3, <1>5, <1>8, <3>1 DEF Lags
  <2>4. \A i \in DOMAIN input' : Lags(input[i].n, i)'
    <3> SUFFICES ASSUME NEW i \in 1 .. Len(input) + 1 PROVE Lags(input[i].n, i)'
      BY <2>1
    <3>1. CASE i \in 1 .. Len(input)
      BY <1>2, <1>6, <1>8, <2>1, <3>1 DEF Lags
    <3>2. CASE i = Len(input) + 1
      <4>1. 1 \in 1 .. Len(cmds)
        BY <1>3, <1>4
      <4> QED
        BY <1>2, <1>5, <1>8, <2>1, <3>2, <4>1 DEF Lags
    <3> QED
      BY <1>4, <3>1, <3>2
  <2> QED
    BY <1>1, <1>2, <2>2, <2>3, <2>4 DEF LagInv, PendingLag, AlarmInReset, EventLag, Proc
<1> QED
  BY <1>1, <1>9, <1>10

\* A command of main() is written where nothing is read, by proc_reset under an alarm.
LEMMA HostSendsLag ==
    ASSUME TypeOK, TypeOK', LagInv,
           ProcReset \/ ProcBaudrate \/ ProcPatchram \/ SendRecord \/ ProcSetting
    PROVE  LagInv'
<1>1. /\ step = "call" /\ step' = "read" /\ at' = at /\ \E op \in Ops : Send(op)
      /\ armed' = armed \/ (armed' = TRUE /\ Proc \in Resets)
  BY OpIsOp DEF ProcReset, ProcBaudrate, ProcPatchram, SendRecord, ProcSetting, Calling, Send,
                Resets, Settings
<1>2. Pending' /\ PendingLag' /\ EventLag'
  BY <1>1, SendLag
<1>3. AlarmInReset'
  BY <1>1 DEF LagInv, AlarmInReset, Proc
<1> QED
  BY <1>2, <1>3 DEF LagInv

LEMMA RestOfSeq ==
    ASSUME NEW S, NEW s \in Seq(S), NEW k \in 1 .. Len(s)
    PROVE  /\ Len(SubSeq(s, k + 1, Len(s))) = Len(s) - k
           /\ \A i \in 1 .. Len(s) - k : SubSeq(s, k + 1, Len(s))[i] = s[i + k]
           /\ DOMAIN SubSeq(s, k + 1, Len(s)) = 1 .. Len(s) - k
  OBVIOUS

\* The other steps of main() take from what is on its way, or leave it alone.
LEMMA HostLag ==
    ASSUME TypeOK, TypeOK', LagInv,
           InitUart \/ EndOfFile \/ ReadEvent \/ ReadGarbled \/ Return \/ SetSpeed
           \/ Confirm \/ EnableHci \/ Exit
    PROVE  LagInv'
<1> USE DEF lineVars, ghosts
<1>0. /\ Len(input) \in Nat /\ DOMAIN input = 1 .. Len(input) /\ input \in Seq(Events)
      /\ Count \in Nat /\ dup \in Nat
  BY OnItsWay, CountType DEF TypeOK
<1>1. UNCHANGED <<cmds, log, resends, dup>> /\ Count' = Count
  BY DEF InitUart, EndOfFile, ReadEvent, ReadGarbled, Return, SetSpeed, Confirm, EnableHci, Exit, Count
<1>2. CASE ReadEvent
  <2>1. Len(input) >= 1 /\ Head(input) = input[1] /\ Len(input') = Len(input) - 1
    BY <1>0, <1>2 DEF ReadEvent
  <2>2. \A i \in DOMAIN input' : input'[i].n = input[i + 1].n
    BY <1>0, <1>2 DEF ReadEvent
  <2>3. Reading = 1 /\ Reading' = 0
    BY <1>2 DEF ReadEvent, Reading
  <2>4. Pending' /\ PendingLag'
    BY <1>0, <1>1, <2>1, <2>2, <2>3, MovesUp DEF LagInv
  <2>5. EventLag'
    <3>1. Lags(input[1].n, 1) /\ input[1].n \in Nat
      BY <1>0, <2>1, OnItsWay DEF LagInv, PendingLag
    <3>2. event' = input[1]
      BY <1>2, <2>1 DEF ReadEvent
    <3> QED
      BY <1>0, <1>1, <2>3, <3>1, <3>2 DEF EventLag, Lags, LagsBy
  <2>6. AlarmInReset'
    BY <1>2 DEF ReadEvent, LagInv, AlarmInReset, Proc
  <2> QED
    BY <2>4, <2>5, <2>6 DEF LagInv
<1>3. CASE ReadGarbled
  <2> PICK k \in 1 .. Len(input) : input' = SubSeq(input, k + 1, Len(input))
    BY <1>3 DEF ReadGarbled
  <2>1. /\ Len(input') = Len(input) - k
        /\ \A i \in 1 .. Len(input) - k : input'[i] = input[i + k]
        /\ DOMAIN input' = 1 .. Len(input) - k
    BY <1>0, RestOfSeq DEF TypeOK
  <2>2. Reading = 1 /\ Reading' = 0 /\ ~insync' /\ k > 0 /\ k \in 0 .. Len(input)
    BY <1>0, <1>3 DEF ReadGarbled, Reading
  <2>3. Pending' /\ PendingLag'
    BY <1>0, <1>1, <2>1, <2>2, MovesUp DEF LagInv
  <2>4. AlarmInReset'
    BY <1>3 DEF ReadGarbled, LagInv, AlarmInReset, Proc
  <2> QED
    BY <2>2, <2>3, <2>4 DEF LagInv, EventLag
<1>4. CASE InitUart \/ EndOfFile \/ Return \/ SetSpeed \/ Confirm \/ EnableHci \/ Exit
  <2>1. /\ step \in {"call", "got"} /\ step' \in {"call", "end"} /\ Reading = 0 /\ Reading' = 0
    BY <1>4 DEF InitUart, EndOfFile, Return, SetSpeed, Confirm, EnableHci, Exit, Advance, Calling, Reading
  <2>2. \E k \in 0 .. Len(input) : /\ Len(input') = Len(input) - k
                                   /\ \A i \in DOMAIN input' : input'[i].n = input[i + k].n
    <3>1. CASE input' = input
      <4>1. 0 \in 0 .. Len(input) /\ Len(input) = Len(input) - 0 /\ \A i \in DOMAIN input : i = i + 0
        BY <1>0
      <4> QED
        BY <3>1, <4>1
    <3>2. CASE input' = <<>>
      <4>1. Len(input) \in 0 .. Len(input) /\ Len(input') = Len(input) - Len(input) /\ DOMAIN input' = {}
        BY <1>0, <3>2
      <4> QED
        BY <4>1
    <3>3. CASE input # <<>> /\ input' = Tail(input)
      <4>1. /\ 1 \in 0 .. Len(input) /\ Len(input') = Len(input) - 1
            /\ \A i \in DOMAIN input' : input'[i].n = input[i + 1].n
        BY <1>0, <3>3
      <4> QED
        BY <4>1
    <3> QED
      BY <1>4, <3>1, <3>2, <3>3
      DEF InitUart, EndOfFile, Return, SetSpeed, Confirm, EnableHci, Exit
  <2>3. Pending' /\ PendingLag'
    BY <1>1, <2>1, <2>2, MovesUp DEF LagInv
  <2>4. ~armed'
    <3>1. armed' \in {armed, FALSE}
      BY <1>4 DEF InitUart, EndOfFile, Return, SetSpeed, Confirm, EnableHci, Exit
    <3>2. armed => step = "got" /\ Proc \in Resets
      BY <2>1 DEF LagInv, AlarmInReset
    <3>3. armed => Return
      BY <1>4, <3>2 DEF InitUart, EndOfFile, SetSpeed, Confirm, EnableHci, Exit, Calling, Resets
    <3> QED
      BY <3>1, <3>3 DEF Return
  <2> QED
    BY <2>1, <2>3, <2>4 DEF LagInv, AlarmInReset, EventLag
<1> QED
  BY <1>2, <1>3, <1>4

LEMMA NextLag == TypeOK /\ LagInv /\ [Next]_vars => LagInv'
<1> SUFFICES ASSUME TypeOK, TypeOK', LagInv, [Next]_vars PROVE LagInv'
  BY NextType
<1>1. CASE UNCHANGED vars
  BY <1>1
  DEF vars, mainVars, lineVars, ghosts, LagInv, AlarmInReset, Pending, PendingLag, EventLag, Lags, Count,
      Reading, Proc
<1> QED
  BY <1>1, HostSendsLag, HostLag, ExpiredLag, ControllerLag DEF Next, Main
----------------------------------------------------------------------------
(* Where main() is, and what is on its way when no reset is spurious *)

\* Only Advance moves main(), out of a procedure that has nothing to read; the ghosts
\* never forget.
LEMMA Moves ==
    ASSUME TypeOK, [Next]_vars
    PROVE  /\ cfg' = cfg
           /\ \/ at' = at
              \/ Advance /\ step \in {"call", "got"} /\ fpos' = fpos
           /\ fpos' = fpos \/ (Proc = "records" /\ at' = at)
           /\ (dup' = 0 => dup = 0) /\ (insync' => insync) /\ (~failed' => ~failed)
<1> USE DEF mainVars, lineVars, ghosts
<1>1. CASE ProcReset \/ ProcBaudrate \/ ProcPatchram \/ SendRecord \/ ProcSetting
  BY <1>1 DEF ProcReset, ProcBaudrate, ProcPatchram, SendRecord, ProcSetting, Send, Calling
<1>2. CASE ReadEvent \/ ReadGarbled
  BY <1>2 DEF ReadEvent, ReadGarbled
<1>3. CASE InitUart \/ EndOfFile \/ SetSpeed
  BY <1>3 DEF InitUart, EndOfFile, SetSpeed, Calling
<1>4. CASE Return \/ Confirm
  BY <1>4 DEF Return, Confirm, Calling
<1>5. CASE EnableHci \/ Exit
  BY <1>5 DEF EnableHci, Exit, TypeOK
<1>6. CASE Expired
  <2>1. dup' = 0 => dup = 0
    BY <1>6, PatchramAssumption DEF Expired, TypeOK
  <2> QED
    BY <1>6, <2>1 DEF Expired
<1>7. CASE Controller
  BY <1>7 DEF Controller, CtlAnswer, CtlMiss, CtlBoots
<1>8. CASE UNCHANGED vars
  BY <1>8 DEF vars
<1> QED
  BY <1>1, <1>2, <1>3, <1>4, <1>5, <1>6, <1>7, <1>8 DEF Next, Main

LEMMA Between ==
    ASSUME NEW a \in Int, NEW b \in Int, NEW i \in Int, a < i, i \notin a + 1 .. b - 1
    PROVE  b <= i
  OBVIOUS

LEMMA AdvanceMoves ==
    ASSUME TypeOK, Advance, cfg' = cfg
    PROVE  /\ at' \in Int /\ at \in Int /\ at < at' /\ Wanted(Proc)' /\ step' = "call"
           /\ \A i \in 1 .. 15 : at < i /\ Wanted(Order[i]) => at' <= i
<1>1. at' \in at + 1 .. 15 /\ at \in 1 .. 15 /\ Wanted(Order[at']) /\ step' = "call"
  BY OrderIs DEF Advance, TypeOK
<1>2. Wanted(Proc)'
  BY <1>1 DEF Wanted, Proc, ConfirmWanted
<1>2a. at \in Int /\ at' \in Int
  BY <1>1
<1>3. ASSUME NEW i \in 1 .. 15, at < i, Wanted(Order[i]) PROVE at' <= i
  <2>1. i \notin at + 1 .. at' - 1
    BY <1>3 DEF Advance
  <2>2. i \in Int /\ at < i
    BY <1>3
  <2> QED
    BY ONLY <1>2a, <2>1, <2>2, Between
<1> QED
  BY <1>1, <1>2, <1>2a, <1>3

LEMMA NextWanted == TypeOK /\ InWanted /\ [Next]_vars => InWanted'
<1> SUFFICES ASSUME TypeOK, InWanted, [Next]_vars PROVE InWanted'
  OBVIOUS
<1>1. CASE at' = at
  <2>1. Wanted(Proc)'
    BY <1>1, Moves DEF InWanted, Wanted, Proc, ConfirmWanted
  <2>2. at' < 6 => fpos' = 0
    BY <1>1, Moves, Places DEF InWanted, TypeOK
  <2>3. at' = 1 => step' = "call"
    <3>1. ASSUME at = 1 PROVE step = "call" /\ Proc = "init" /\ Resets \cap {"init"} = {}
      BY <3>1, Places DEF InWanted, TypeOK, Resets
    <3> QED
      BY <1>1, <3>1
      DEF Next, Main, InitUart, ProcReset, ProcBaudrate, ProcPatchram, SendRecord, EndOfFile, Advance,
          ProcSetting, ReadEvent, ReadGarbled, Return, SetSpeed, Confirm, Calling, EnableHci, Exit,
          Expired, Controller, CtlAnswer, CtlMiss, CtlBoots, vars, mainVars
  <2> QED
    BY <2>1, <2>2, <2>3 DEF InWanted
<1>2. CASE at' # at
  <2>1. Advance /\ fpos' = fpos /\ cfg' = cfg
    BY <1>2, Moves
  <2>2. at' \in Int /\ at \in Int /\ at < at' /\ Wanted(Proc)'
    BY <2>1, AdvanceMoves
  <2>3. at >= 1 /\ (at < 6 => fpos = 0)
    BY DEF TypeOK, InWanted
  <2> QED
    BY <2>1, <2>2, <2>3 DEF InWanted
<1> QED
  BY <1>1, <1>2

LEMMA OneOfTwo ==
    ASSUME NEW l \in Nat, NEW m \in Nat, NEW r \in {0, 1}, l + m <= r
    PROVE  /\ l + m <= 1 /\ (r = 0 => l = 0 /\ m = 0)
           /\ m # 0 => l = 0 /\ r = 1 /\ m = 1
           /\ l # 0 => m = 0 /\ r = 1 /\ l = 1
  OBVIOUS

LEMMA AtMostOne ==
    ASSUME TypeOK, Pending, dup = 0
    PROVE  /\ Len(input) + Len(cmds) <= 1
           /\ step # "read" => input = <<>> /\ cmds = <<>>
           /\ cmds # <<>> => input = <<>> /\ step = "read" /\ Len(cmds) = 1
           /\ input # <<>> => cmds = <<>> /\ step = "read" /\ Len(input) = 1
<1>1. /\ Len(input) \in Nat /\ Len(cmds) \in Nat
      /\ input = <<>> <=> Len(input) = 0
      /\ cmds = <<>> <=> Len(cmds) = 0
  BY DEF TypeOK
<1>2. Reading \in {0, 1} /\ (step # "read" => Reading = 0) /\ Len(input) + Len(cmds) <= Reading
  BY DEF Pending, Reading
<1> QED
  BY <1>1, <1>2, OneOfTwo

LEMMA NextOwnOp ==
    ASSUME TypeOK, TypeOK', LagInv, LagInv', OwnOp, [Next]_vars PROVE OwnOp'
<1> SUFFICES ASSUME dup' = 0, dup = 0
             PROVE  /\ \A i \in DOMAIN input' : input'[i].op = OpOf'
                    /\ \A i \in DOMAIN cmds' : cmds'[i].op = OpOf'
  BY Moves DEF OwnOp
<1> USE DEF LagInv
<1>1. CASE step' # "read"
  <2>1. TypeOK' /\ Pending' /\ dup' = 0 /\ step' # "read" => input' = <<>> /\ cmds' = <<>>
    <3>1. TypeOK' => input' \in Seq(Events) /\ cmds' \in Seq(Cmds)
      BY DEF TypeOK
    <3>2. TypeOK' => /\ Len(input') \in Nat /\ Len(cmds') \in Nat
                     /\ input' = <<>> <=> Len(input') = 0
                     /\ cmds' = <<>> <=> Len(cmds') = 0
      BY ONLY <3>1
    <3> QED
      BY <3>2 DEF Pending, Reading
  <2> QED
    BY <1>1, <2>1
<1>2. CASE ProcReset \/ ProcBaudrate \/ ProcPatchram \/ SendRecord \/ ProcSetting
  <2>1. at' = at /\ step = "call"
    BY <1>2 DEF ProcReset, ProcBaudrate, ProcPatchram, SendRecord, ProcSetting, Send, Calling
  <2>2. Send(OpOf')
    <3>1. Proc' = Proc
      BY <2>1 DEF Proc
    <3>2. CASE ProcReset
      BY <3>1, <3>2 DEF ProcReset, OpOf, Resets, Bauds
    <3>3. CASE ProcBaudrate
      BY <3>1, <3>3 DEF ProcBaudrate, OpOf, Resets, Bauds
    <3>4. CASE ProcPatchram
      BY <3>1, <3>4 DEF ProcPatchram, OpOf, Resets, Bauds, Calling
    <3>5. CASE SendRecord
      BY <3>1, <3>5 DEF SendRecord, OpOf, Resets, Bauds, Calling
    <3>6. CASE ProcSetting
      BY <3>1, <3>6 DEF ProcSetting, OpOf, Resets, Bauds
    <3> QED
      BY <1>2, <3>2, <3>3, <3>4, <3>5, <3>6
  <2>3. input = <<>> /\ cmds = <<>>
    BY <2>1, AtMostOne
  <2>4. input' = <<>> /\ cmds' = <<[op |-> OpOf', n |-> Count + 1, rate |-> hostRate]>>
    BY <2>2, <2>3 DEF Send, Write
  <2> QED
    BY <2>4
<1>3. CASE Expired
  <2>1. cmds = <<>> /\ input = <<>> /\ Proc \in Resets
    BY <1>3 DEF Expired, AlarmInReset, TypeOK
  <2>2. input' = <<>> /\ cmds' = <<[op |-> "reset", n |-> Count + 1, rate |-> hostRate]>> /\ OpOf' = "reset"
    BY <1>3, <2>1 DEF Expired, Write, mainVars, OpOf, Proc, Resets, Bauds
  <2> QED
    BY <2>2
<1>4. CASE Controller
  <2>1. /\ OpOf' = OpOf /\ cmds # <<>> /\ cmds' = Tail(cmds)
        /\ input' = input \/ input' = Append(input, [op |-> Head(cmds).op, n |-> Head(cmds).n])
    BY <1>4 DEF Controller, CtlAnswer, CtlMiss, CtlBoots, Deliver, mainVars, OpOf, Proc
  <2>2. input = <<>> /\ Len(cmds) = 1 /\ cmds \in Seq(Cmds)
    BY <2>1, AtMostOne DEF TypeOK
  <2>3. cmds' = <<>> /\ Head(cmds) = cmds[1] /\ 1 \in DOMAIN cmds
    BY <2>1, <2>2
  <2>4. Head(cmds).op = OpOf
    BY <2>3 DEF OwnOp
  <2>5. input' = <<>> \/ input' = <<[op |-> OpOf, n |-> Head(cmds).n]>>
    BY <2>1, <2>2, <2>4
  <2> QED
    BY <2>1, <2>3, <2>5
<1>5. CASE UNCHANGED vars
  BY <1>5 DEF vars, mainVars, lineVars, ghosts, OwnOp, OpOf, Proc
<1>6. CASE InitUart \/ EndOfFile \/ ReadEvent \/ ReadGarbled \/ Return \/ SetSpeed
           \/ Confirm \/ EnableHci \/ Exit
  <2>1. step' # "read"
    BY <1>6 DEF InitUart, EndOfFile, ReadEvent, ReadGarbled, Return, SetSpeed, Confirm, EnableHci,
                Exit, Advance
  <2> QED
    BY <1>1, <2>1
<1> QED
  BY <1>2, <1>3, <1>4, <1>5, <1>6 DEF Next, Main

LEMMA InitSafe == Init => SafeInv
<1> SUFFICES ASSUME Init PROVE SafeInv
  OBVIOUS
<1>1. InWanted
  BY OrderIs DEF Init, InWanted, Wanted, Proc
<1>2. OwnOp
  BY DEF Init, OwnOp
<1> QED
  BY <1>1, <1>2, InitType, InitLag DEF SafeInv

LEMMA NextSafe == SafeInv /\ [Next]_vars => SafeInv'
  BY NextType, NextLag, NextWanted, NextOwnOp DEF SafeInv

----------------------------------------------------------------------------
(* The two bytes *)

LEMMA InitSync == Init => SyncInv
  BY DEF Init, SyncInv, ConfInTime, InSync

LEMMA FitsKept == ASSUME cfg' = cfg PROVE Fits' = Fits
  BY DEF Fits

LEMMA NextInSync ==
    ASSUME SafeInv, SyncInv, [Next]_vars PROVE InSync'
<1> USE DEF SafeInv, SyncInv, LagInv
<1> SUFFICES ASSUME Fits, dup = 0, insync, insync' # insync PROVE FALSE
  <2>1. cfg' = cfg /\ (dup' = 0 => dup = 0)
    BY Moves
  <2> QED
    BY <2>1, FitsKept DEF InSync
<1>1. ReadGarbled \/ (Confirm /\ input # <<>> /\ step = "call")
  BY DEF Next, Main, InitUart, ProcReset, ProcBaudrate, ProcPatchram, SendRecord, EndOfFile,
         ProcSetting, Send, ReadEvent, Return, SetSpeed, Confirm, Calling, EnableHci, Exit, Expired,
         Controller, CtlAnswer, CtlMiss, CtlBoots, vars, mainVars, lineVars, ghosts
<1>2. CASE ReadGarbled
  <2>1. step = "read" /\ input # <<>> /\ ConfAtHead
    BY <1>2 DEF ReadGarbled
  <2>2. Proc = "mini"
    BY <2>1 DEF ConfInTime, ConfAtHead
  <2>3. 1 \in DOMAIN input
    BY <2>1 DEF TypeOK
  <2>4. input[1].op = "mini"
    BY <2>2, <2>3 DEF OwnOp, OpOf, Resets, Bauds
  <2> QED
    BY <2>1, <2>3, <2>4 DEF ConfAtHead
<1>3. CASE Confirm /\ input # <<>> /\ step = "call"
  BY <1>3, AtMostOne
<1> QED
  BY <1>1, <1>2, <1>3

LEMMA NextConf ==
    ASSUME ~Apart, SafeInv, SyncInv, [Next]_vars PROVE ConfInTime'
<1> USE DEF SafeInv, SyncInv, LagInv
<1> SUFFICES ASSUME Fits, dup = 0, conf' > 0
             PROVE  /\ TwoBytes
                    /\ \/ Proc' = "mini" /\ step' = "read" /\ input' # <<>>
                       \/ Proc' = "mini" /\ step' = "got"
                       \/ Proc' = "conf" /\ step' = "call"
  <2>1. cfg' = cfg /\ (dup' = 0 => dup = 0)
    BY Moves
  <2> QED
    BY <2>1, FitsKept DEF ConfInTime
<1>1. CASE CtlAnswer /\ Head(cmds).op = "mini" /\ TwoBytes /\ conf' # conf
  <2>1. Len(cmds) = 1 /\ step = "read" /\ input = <<>>
    BY <1>1, AtMostOne DEF CtlAnswer
  <2>2. Head(cmds).op = OpOf
    <3>1. Head(cmds) = cmds[1] /\ 1 \in DOMAIN cmds
      BY <2>1 DEF TypeOK
    <3> QED
      BY <3>1 DEF OwnOp
  <2>3. Proc = "mini"
    BY <1>1, <2>2 DEF OpOf
  <2>4. input' # <<>> /\ step' = "read" /\ Proc' = Proc
    BY <1>1, <2>1 DEF CtlAnswer, Deliver, mainVars, Proc
  <2> QED
    BY <1>1, <2>3, <2>4
<1>2. CASE conf' = conf
  <2>1. /\ TwoBytes
        /\ \/ Proc = "mini" /\ step = "read" /\ input # <<>>
           \/ Proc = "mini" /\ step = "got"
           \/ Proc = "conf" /\ step = "call"
    BY <1>2 DEF ConfInTime
  <2>2. CASE Proc = "mini" /\ step = "read" /\ input # <<>>
    <3>1. cmds = <<>> /\ ~armed
      BY <2>2, AtMostOne DEF AlarmInReset, Resets
    <3>2. ReadEvent \/ ReadGarbled \/ UNCHANGED vars
      BY <2>2, <3>1
      DEF Next, Main, InitUart, ProcReset, ProcBaudrate, ProcPatchram, SendRecord, EndOfFile,
          ProcSetting, Return, SetSpeed, Confirm, Calling, EnableHci, Exit, Expired,
          Controller, CtlAnswer, CtlMiss, CtlBoots
    <3> QED
      BY <2>1, <2>2, <3>2 DEF ReadEvent, ReadGarbled, Proc, vars, mainVars, lineVars
  <2>3. CASE Proc = "mini" /\ step = "got"
    <3>1. cmds = <<>> /\ ~armed
      BY <2>3, AtMostOne DEF AlarmInReset, Resets
    <3>2. Return \/ UNCHANGED vars
      BY <2>3, <3>1
      DEF Next, Main, InitUart, ProcReset, ProcBaudrate, ProcPatchram, SendRecord, EndOfFile,
          ProcSetting, SetSpeed, Confirm, Calling, EnableHci, Exit, Expired, ReadEvent, ReadGarbled,
          Controller, CtlAnswer, CtlMiss, CtlBoots
    <3>3. CASE Return
      <4>1. Advance /\ cfg' = cfg
        BY <2>3, <3>3 DEF Return
      <4>2. at = 4 /\ Order[5] = "conf" /\ Wanted("conf")
        BY <2>1, <2>3, Places, OrderIs DEF InWanted, Wanted, ConfirmWanted, Fits, TypeOK
      <4>3. at' = 5
        BY <4>1, <4>2, AdvanceMoves
      <4> QED
        BY <2>1, <4>1, <4>2, <4>3 DEF Proc, Advance
    <3> QED
      BY <2>1, <2>3, <3>2, <3>3 DEF Proc, vars, mainVars
  <2>4. CASE Proc = "conf" /\ step = "call"
    <3>1. cmds = <<>> /\ input = <<>> /\ ~armed
      BY <2>4, AtMostOne DEF AlarmInReset, Resets
    <3>2. Confirm \/ UNCHANGED vars
      BY <2>4, <3>1
      DEF Next, Main, InitUart, ProcReset, ProcBaudrate, ProcPatchram, SendRecord, EndOfFile,
          ProcSetting, SetSpeed, Return, Calling, EnableHci, Exit, Expired, ReadEvent, ReadGarbled,
          Controller, CtlAnswer, CtlMiss, CtlBoots
    <3>3. ~Confirm
      BY <1>2, <3>1 DEF Confirm, ConfAtHead
    <3> QED
      BY <2>1, <2>4, <3>2, <3>3 DEF Proc, vars, mainVars
  <2> QED
    BY <2>1, <2>2, <2>3, <2>4
<1>3. CASE conf' # conf
  <2>1. CtlAnswer
    BY <1>3
    DEF Next, Main, InitUart, ProcReset, ProcBaudrate, ProcPatchram, SendRecord, EndOfFile,
        ProcSetting, Send, SetSpeed, Return, EnableHci, Exit, Expired, ReadEvent, ReadGarbled, Confirm,
        Controller, CtlMiss, CtlBoots, vars, mainVars, lineVars, ghosts
  <2> QED
    BY <1>1, <1>3, <2>1 DEF CtlAnswer, Deliver
<1> QED
  BY <1>2, <1>3
----------------------------------------------------------------------------
(* The speeds *)

LEMMA InitRates == Init => RatesInv
  BY OrderIs DEF Init, RatesInv, Speeds, Good, Proc

\* A step that leaves both sides at one speed, and nothing on its way.
LEMMA AdvanceSpeeds ==
    ASSUME SafeInv, SafeInv', Fits, Advance, cfg' = cfg, fpos' = fpos, cmds' = <<>>, ctlRate' = hostRate'
    PROVE  Speeds'
<1>1. at' \in Int /\ at \in Int /\ at < at' /\ Wanted(Proc)' /\ step' = "call" /\ at >= 1
  BY AdvanceMoves DEF SafeInv, TypeOK
<1>0. at' \in 1 .. 15
  BY OrderIs DEF SafeInv, TypeOK
<1>2. Proc' # "init"
  <2>1. Proc' = "init" => at' = 1
    BY <1>0, OrderIs DEF Proc
  <2> QED
    BY <1>1, <2>1
<1>3. Proc' = "records" => fpos' # Records
  <2> SUFFICES ASSUME Proc' = "records" PROVE fpos' # Records
    OBVIOUS
  <2>1. at' = 6
    BY <1>0, OrderIs DEF Proc
  <2>2. fpos = 0
    BY <1>1, <2>1 DEF SafeInv, InWanted
  <2>3. "hcd" \in cfg.flags
    BY <1>1 DEF Wanted
  <2> QED
    BY <2>2, <2>3 DEF Fits
<1> QED
  BY <1>1, <1>2, <1>3 DEF Speeds

\* Before the end of the download the UART is fast only if an option wants that.
LEMMA NextSlow ==
    ASSUME SafeInv, [Next]_vars, Good, RatesInv,
           at' \in 2 .. 6, "use_baudrate_for_download" \notin cfg.flags
    PROVE  hostRate' = Low
<1>1. at \in Int /\ at >= 1 /\ (at = at' \/ (at < at' /\ Advance))
  BY Moves, AdvanceMoves DEF SafeInv, TypeOK
<1>2. CASE InitUart
  BY <1>2 DEF InitUart
<1>3. CASE SetSpeed
  <2>1. at \in {3, 8} /\ Advance
    BY <1>3, Places DEF SetSpeed, SafeInv, TypeOK, Bauds
  <2>2. at = 3
    <3>1. at' \in Int /\ at < at'
      BY <2>1, <1>3, AdvanceMoves DEF SetSpeed, SafeInv
    <3> QED
      BY <2>1, <3>1
  <2>3. Proc = "dlbaud"
    BY <2>2, OrderIs DEF Proc
  <2> QED
    BY <2>3 DEF SafeInv, InWanted, Wanted
<1>4. CASE ~InitUart /\ ~SetSpeed
  <2>1. at # 1
    <3> SUFFICES ASSUME at = 1 PROVE FALSE
      OBVIOUS
    <3>1. Proc = "init" /\ step = "call" /\ at' # at /\ Advance
      BY <1>1, OrderIs DEF Proc, SafeInv, InWanted
    <3> QED
      BY <1>4, <3>1
      DEF Next, Main, InitUart, ProcReset, ProcBaudrate, ProcPatchram, SendRecord, EndOfFile,
          ProcSetting, Send, ReadEvent, ReadGarbled, Return, Confirm, Calling, EnableHci, Exit,
          Expired, Controller, CtlAnswer, CtlMiss, CtlBoots, vars, mainVars
  <2>2. at \in 2 .. 6
    BY <1>1, <2>1
  <2>3. hostRate = Low
    BY <2>2 DEF RatesInv
  <2>4. hostRate' = hostRate \/ EndOfFile
    BY <1>4
    DEF Next, Main, InitUart, ProcReset, ProcBaudrate, ProcPatchram, SendRecord,
        ProcSetting, Send, ReadEvent, ReadGarbled, Return, Confirm, Calling, EnableHci, Exit,
        Expired, Controller, CtlAnswer, CtlMiss, CtlBoots, vars, mainVars, lineVars
  <2> QED
    BY <2>3, <2>4 DEF EndOfFile
<1> QED
  BY <1>2, <1>3, <1>4

LEMMA NextSpeeds ==
    ASSUME SafeInv, SafeInv', [Next]_vars, Good, Good', RatesInv
    PROVE  Speeds' /\ \A i \in DOMAIN cmds' : cmds'[i].rate = hostRate'
<1> USE DEF SafeInv, LagInv
<1>0. /\ Speeds /\ \A i \in DOMAIN cmds : cmds[i].rate = hostRate
      /\ dup = 0 /\ insync /\ ~failed /\ dup' = 0 /\ insync' /\ ~failed' /\ Fits
  BY DEF Good, RatesInv
<1>a. /\ step # "read" => cmds = <<>>
      /\ input # <<>> => cmds = <<>>
      /\ cmds # <<>> => Len(cmds) = 1 /\ step = "read"
  BY <1>0, AtMostOne
<1>b. cfg' = cfg
  BY Moves
<1>1. CASE InitUart
  <2>1. ctlRate' = hostRate' /\ cmds' = <<>> /\ Advance /\ fpos' = fpos
    BY <1>0, <1>1 DEF InitUart, Speeds, Calling
  <2> QED
    BY <1>0, <1>b, <2>1, AdvanceSpeeds
<1>2. CASE ProcReset \/ ProcBaudrate \/ ProcPatchram \/ SendRecord \/ ProcSetting
  <2>1. /\ step = "call" /\ at' = at /\ Proc # "init" /\ \E op \in Ops : Send(op)
        /\ Proc = "records" => fpos # Records
    <3>1. CASE SendRecord
      <4>1. PICK op \in {"launch", "record"} : Send(op)
        BY <3>1 DEF SendRecord
      <4>2. op \in Ops
        BY OpIsOp
      <4>3. fpos # Records
        BY <3>1, PatchramAssumption DEF SendRecord, TypeOK
      <4> QED
        BY <3>1, <4>1, <4>2, <4>3 DEF SendRecord, Send, Calling
    <3>2. CASE ProcReset \/ ProcBaudrate \/ ProcPatchram \/ ProcSetting
      BY <3>2, OpIsOp DEF ProcReset, ProcBaudrate, ProcPatchram, ProcSetting, Send, Calling, Settings
    <3> QED
      BY <1>2, <3>1, <3>2
  <2>2. PICK op \in Ops : Send(op)
    BY <2>1
  <2>3. ctlRate = hostRate
    BY <1>0, <2>1 DEF Speeds
  <2>4. /\ cmds' = <<[op |-> op, n |-> Count + 1, rate |-> hostRate]>>
        /\ hostRate' = hostRate /\ ctlRate' = ctlRate /\ Proc' = Proc
    BY <1>a, <2>1, <2>2 DEF Send, Write, Proc
  <2> QED
    BY <2>1, <2>3, <2>4 DEF Speeds
<1>3. CASE ReadEvent
  <2>1. /\ cmds = <<>> /\ step = "read" /\ step' = "got" /\ Proc' = Proc
        /\ UNCHANGED <<cmds, fpos, hostRate, ctlRate, cfg>>
    BY <1>3, <1>a DEF ReadEvent, Proc
  <2> QED
    BY <1>0, <2>1 DEF Speeds
<1>4. CASE ReadGarbled
  BY <1>0, <1>4 DEF ReadGarbled
<1>5. CASE Return
  <2>1. /\ step = "got" /\ Proc # "init" /\ Proc \notin Bauds /\ cmds = <<>>
        /\ UNCHANGED <<cmds, fpos, hostRate, ctlRate, cfg>>
    BY <1>5, <1>a, OrderIs, Places DEF Return, lineVars, InWanted, Bauds, TypeOK
  <2>2. CASE Proc = "records"
    <3>1. step' = "call" /\ Proc' = Proc
      BY <1>5, <2>2 DEF Return, Proc
    <3> QED
      BY <1>0, <2>1, <2>2, <3>1 DEF Speeds, Bauds
  <2>3. CASE Proc # "records"
    <3>1. Advance /\ ctlRate' = hostRate'
      BY <1>0, <1>5, <2>1, <2>3 DEF Return, Speeds
    <3> QED
      BY <1>0, <1>b, <2>1, <3>1, AdvanceSpeeds
  <2> QED
    BY <2>2, <2>3
<1>6. CASE SetSpeed
  <2>1. cmds = <<>> /\ ctlRate = cfg.baud
    BY <1>0, <1>6, <1>a DEF SetSpeed, Speeds, Bauds
  <2>2. ctlRate' = hostRate' /\ cmds' = <<>> /\ Advance /\ fpos' = fpos
    BY <1>6, <2>1 DEF SetSpeed
  <2> QED
    BY <1>0, <1>b, <2>2, AdvanceSpeeds
<1>7. CASE EndOfFile
  <2>1. cmds = <<>> /\ ctlRate = Low /\ at = 6
    BY <1>0, <1>7, <1>a, Places DEF EndOfFile, Speeds, Calling, Bauds, TypeOK
  <2>2. hostRate' = Low
    BY <1>7, <2>1 DEF EndOfFile, Good, RatesInv
  <2>3. ctlRate' = hostRate' /\ cmds' = <<>> /\ Advance /\ fpos' = fpos
    BY <1>7, <2>1, <2>2 DEF EndOfFile
  <2> QED
    BY <1>0, <1>b, <2>3, AdvanceSpeeds
<1>8. CASE Confirm
  <2>1. /\ cmds = <<>> /\ step = "call" /\ Proc = "conf" /\ Advance
        /\ UNCHANGED <<cmds, fpos, hostRate, ctlRate>>
    BY <1>8, <1>a DEF Confirm, Calling
  <2>2. ctlRate' = hostRate'
    BY <1>0, <2>1 DEF Speeds
  <2> QED
    BY <1>0, <1>b, <2>1, <2>2, AdvanceSpeeds
<1>9. CASE EnableHci \/ Exit
  <2>1. /\ cmds = <<>> /\ Proc \in {"hci", "exit"} /\ Proc' = Proc
        /\ UNCHANGED <<cmds, fpos, hostRate, ctlRate>>
    BY <1>9, <1>a DEF EnableHci, Exit, Calling, lineVars, Proc
  <2> QED
    BY <1>0, <2>1 DEF Speeds, Bauds
<1>10. CASE Expired
  <2>1. cmds = <<>> /\ Proc \in Resets /\ dup' # dup + 1
    BY <1>0, <1>10 DEF Expired, AlarmInReset
  <2>2. /\ cmds' = <<[op |-> "reset", n |-> Count + 1, rate |-> hostRate]>> /\ Proc' = Proc
        /\ UNCHANGED <<hostRate, ctlRate>>
    BY <1>10, <2>1 DEF Expired, Write, mainVars, Proc
  <2>3. ctlRate = hostRate
    BY <1>0, <2>1 DEF Speeds, Resets, Bauds
  <2> QED
    BY <2>1, <2>2, <2>3 DEF Speeds, Resets
<1>11. CASE Controller
  <2>1. /\ cmds # <<>> /\ cmds' = Tail(cmds) /\ Proc' = Proc /\ step' = step
        /\ UNCHANGED <<fpos, hostRate, cfg>>
    BY <1>11 DEF Controller, CtlAnswer, CtlMiss, CtlBoots, mainVars, Proc
  <2>2. cmds' = <<>> /\ Head(cmds) = cmds[1] /\ 1 \in DOMAIN cmds /\ step = "read"
    <3>1. cmds \in Seq(Cmds) /\ Len(cmds) = 1 /\ step = "read"
      BY <1>a, <2>1 DEF TypeOK
    <3> QED
      BY <2>1, <3>1
  <2>3. Head(cmds).op = OpOf /\ Head(cmds).rate = hostRate /\ ctlRate = hostRate /\ Proc # "init"
    BY <1>0, <2>1, <2>2 DEF OwnOp, Speeds
  <2>4. /\ Proc \in Bauds => OpOf = "baud"
        /\ Proc = "records" /\ fpos = Records => OpOf = "launch"
        /\ Proc \notin Bauds /\ ~(Proc = "records" /\ fpos = Records) => OpOf \notin {"baud", "launch"}
    <3>1. Proc # "launch"
      BY Places DEF TypeOK
    <3> QED
      BY <3>1 DEF OpOf, Resets, Bauds
  <2>5. CASE CtlAnswer
    <3>1. ctlRate' = CASE Head(cmds).op = "baud"   -> cfg.baud
                       [] Head(cmds).op = "launch" -> Low
                       [] OTHER                    -> ctlRate
      BY <1>0, <2>5 DEF CtlAnswer
    <3> QED
      BY <2>1, <2>2, <2>3, <2>4, <3>1 DEF Speeds, Bauds
  <2>6. CASE CtlMiss
    BY <2>3, <2>6 DEF CtlMiss
  <2>7. CASE CtlBoots
    <3>1. OpOf = "reset" /\ ctlRate' = ctlRate
      BY <2>3, <2>7 DEF CtlBoots
    <3> QED
      BY <2>1, <2>2, <2>3, <2>4, <3>1 DEF Speeds
  <2> QED
    BY <1>11, <2>5, <2>6, <2>7 DEF Controller
<1>12. CASE UNCHANGED vars
  BY <1>0, <1>12 DEF vars, mainVars, lineVars, Speeds, Proc
<1> QED
  BY <1>1, <1>2, <1>3, <1>4, <1>5, <1>6, <1>7, <1>8, <1>9, <1>10, <1>11, <1>12 DEF Next, Main

LEMMA NextRates ==
    ASSUME SafeInv, SafeInv', RatesInv, [Next]_vars PROVE RatesInv'
<1> SUFFICES ASSUME Good'
             PROVE  /\ Speeds'
                    /\ \A i \in DOMAIN cmds' : cmds'[i].rate = hostRate'
                    /\ at' \in 2 .. 6 /\ "use_baudrate_for_download" \notin cfg'.flags => hostRate' = Low
  BY DEF RatesInv
<1>1. cfg' = cfg /\ Good
  BY Moves, FitsKept DEF Good, SafeInv
<1> QED
  BY <1>1, NextSpeeds, NextSlow

----------------------------------------------------------------------------
(* The exchange *)

\* What main() writes in procedure k when it goes through all of it, ...
Sent(n) == [i \in 1 .. n |-> IF i = Records THEN "launch" ELSE "record"]
Own(k) == CASE k = 2  -> <<"reset">>
            [] k = 3  -> When("use_baudrate_for_download", Baud)
            [] k = 4  -> When("hcd", <<"mini">>)
            [] k = 6  -> When("hcd", Sent(Records))
            [] k = 7  -> When("hcd", <<"reset">>)
            [] k = 8  -> Baud
            [] k = 9  -> When("bdaddr", <<"bdaddr">>)
            [] k = 10 -> When("enable_lpm", <<"lpm">>)
            [] k = 11 -> When("scopcm", <<"sco">>)
            [] k = 12 -> When("scopcm", <<"pcm">>)
            [] k = 13 -> When("i2s", <<"i2s">>)
            [] OTHER  -> <<>>

\* ... and before it.
Done4  == Own(2) \o Own(3)
Done5  == Done4 \o Own(4)
Done7  == Done5 \o Own(6)
Done8  == Done7 \o Own(7)
Done9  == Done8 \o Own(8)
Done10 == Done9 \o Own(9)
Done11 == Done10 \o Own(10)
Done12 == Done11 \o Own(11)
Done13 == Done12 \o Own(12)
Done14 == Done13 \o Own(13)
Done(k) == CASE k \in 1 .. 2 -> <<>>
             [] k = 3        -> Own(2)
             [] k = 4        -> Done4
             [] k \in 5 .. 6 -> Done5
             [] k = 7        -> Done7
             [] k = 8        -> Done8
             [] k = 9        -> Done9
             [] k = 10       -> Done10
             [] k = 11       -> Done11
             [] k = 12       -> Done12
             [] k = 13       -> Done13
             [] OTHER        -> Done14

\* What the log holds: all commands due where main() is.
Due    == IF at = 6 THEN Done5 \o Sent(fpos)
          ELSE IF step \in {"read", "got"} THEN Done(at + 1) ELSE Done(at)
LogInv == log = Due

LEMMA SentTyped == ASSUME NEW n \in Nat PROVE Sent(n) \in Seq(Ops) /\ Len(Sent(n)) = n
<1>1. \A i \in 1 .. n : (IF i = Records THEN "launch" ELSE "record") \in Ops
  BY DEF Ops
<1> QED
  BY <1>1, IsASeq DEF Sent

\* One record more.
LEMMA SentMore ==
    ASSUME NEW n \in Nat
    PROVE  Append(Sent(n), IF n + 1 = Records THEN "launch" ELSE "record") = Sent(n + 1)
<1> DEFINE op == IF n + 1 = Records THEN "launch" ELSE "record"
           s  == Append(Sent(n), op)
<1>1. Sent(n) \in Seq(Ops) /\ Len(Sent(n)) = n /\ Sent(n + 1) \in Seq(Ops) /\ Len(Sent(n + 1)) = n + 1
  BY SentTyped
<1>2. op \in Ops
  BY DEF Ops
<1>3. s \in Seq(Ops) /\ Len(s) = n + 1 /\ s[n + 1] = op /\ \A i \in 1 .. n : s[i] = Sent(n)[i]
  <2> HIDE DEF op
  <2> QED
    BY <1>1, <1>2, AppendProperties
<1>4. \A i \in 1 .. n + 1 : s[i] = Sent(n + 1)[i]
  <2> HIDE DEF s
  <2>1. \A i \in 1 .. n + 1 : i \in 1 .. n \/ i = n + 1
    OBVIOUS
  <2>2. \A i \in 1 .. n : Sent(n)[i] = Sent(n + 1)[i]
    BY DEF Sent
  <2>3. Sent(n + 1)[n + 1] = op
    BY DEF Sent
  <2> QED
    BY <1>3, <2>1, <2>2, <2>3
<1> HIDE DEF s
<1>5. s = Sent(n + 1)
  BY <1>1, <1>3, <1>4, SeqEqual
<1> QED
  BY <1>5 DEF s

LEMMA OwnTyped == ASSUME NEW k PROVE Own(k) \in Seq(Ops)
<1>1. /\ <<>> \in Seq(Ops) /\ <<"reset">> \in Seq(Ops) /\ <<"mini">> \in Seq(Ops)
      /\ <<"baud">> \in Seq(Ops) /\ <<"bdaddr">> \in Seq(Ops) /\ <<"lpm">> \in Seq(Ops)
      /\ <<"sco">> \in Seq(Ops) /\ <<"pcm">> \in Seq(Ops) /\ <<"i2s">> \in Seq(Ops)
  BY DEF Ops
<1>2. \A flag, s : s \in Seq(Ops) => When(flag, s) \in Seq(Ops)
  BY <1>1 DEF When
<1>3. Baud \in Seq(Ops)
  BY <1>1 DEF Baud
<1>4. Sent(Records) \in Seq(Ops)
  BY SentTyped, PatchramAssumption
<1>5. /\ Own(2) \in Seq(Ops) /\ Own(3) \in Seq(Ops) /\ Own(4) \in Seq(Ops) /\ Own(6) \in Seq(Ops)
      /\ Own(7) \in Seq(Ops) /\ Own(8) \in Seq(Ops) /\ Own(9) \in Seq(Ops) /\ Own(10) \in Seq(Ops)
      /\ Own(11) \in Seq(Ops) /\ Own(12) \in Seq(Ops) /\ Own(13) \in Seq(Ops)
  BY <1>1, <1>2, <1>3, <1>4 DEF Own
<1>6. k \notin {2, 3, 4, 6, 7, 8, 9, 10, 11, 12, 13} => Own(k) = <<>>
  BY DEF Own
<1> QED
  BY <1>1, <1>5, <1>6

LEMMA DoneNames ==
    /\ Done(1) = <<>> /\ Done(2) = <<>> /\ Done(3) = Own(2) /\ Done(4) = Done4 /\ Done(5) = Done5
    /\ Done(6) = Done5 /\ Done(7) = Done7 /\ Done(8) = Done8 /\ Done(9) = Done9 /\ Done(10) = Done10
    /\ Done(11) = Done11 /\ Done(12) = Done12 /\ Done(13) = Done13
    /\ Done(14) = Done14 /\ Done(15) = Done14
  BY DEF Done

LEMMA Concat2 ==
    ASSUME NEW s \in Seq(Ops), NEW t \in Seq(Ops) PROVE s \o t \in Seq(Ops)
  BY ConcatProperties

LEMMA Concat3 ==
    ASSUME NEW p \in Seq(Ops), NEW q \in Seq(Ops), NEW r \in Seq(Ops)
    PROVE  p \o (q \o r) = (p \o q) \o r
  BY ConcatAssociative, SMTT(20)

LEMMA DoneTyped == ASSUME NEW k PROVE Done(k) \in Seq(Ops)
<1>2. Done4 \in Seq(Ops)
  BY Concat2, OwnTyped DEF Done4
<1>3. Done5 \in Seq(Ops)
  BY Concat2, <1>2, OwnTyped DEF Done5
<1>5. Done7 \in Seq(Ops)
  BY Concat2, <1>3, OwnTyped DEF Done7
<1>6. Done8 \in Seq(Ops)
  BY Concat2, <1>5, OwnTyped DEF Done8
<1>7. Done9 \in Seq(Ops)
  BY Concat2, <1>6, OwnTyped DEF Done9
<1>8. Done10 \in Seq(Ops)
  BY Concat2, <1>7, OwnTyped DEF Done10
<1>9. Done11 \in Seq(Ops)
  BY Concat2, <1>8, OwnTyped DEF Done11
<1>10. Done12 \in Seq(Ops)
  BY Concat2, <1>9, OwnTyped DEF Done12
<1>11. Done13 \in Seq(Ops)
  BY Concat2, <1>10, OwnTyped DEF Done13
<1>12. Done14 \in Seq(Ops)
  BY Concat2, <1>11, OwnTyped DEF Done14
<1>13. <<>> \in Seq(Ops)
  OBVIOUS
<1> QED
  BY <1>2, <1>3, <1>5, <1>6, <1>7, <1>8, <1>9, <1>10, <1>11, <1>12, <1>13, OwnTyped DEF Done

\* Behind a procedure lies what was done before it and what it writes.
LEMMA DoneSteps == \A k \in 1 .. 14 : Done(k + 1) = Done(k) \o Own(k)
<1>1. \A s \in Seq(Ops) : <<>> \o s = s /\ s \o <<>> = s
  BY ConcatEmptySeq
<1>2. /\ Done(4) = Done(3) \o Own(3) /\ Done(5) = Done(4) \o Own(4) /\ Done(7) = Done(6) \o Own(6)
      /\ Done(8) = Done(7) \o Own(7) /\ Done(9) = Done(8) \o Own(8) /\ Done(10) = Done(9) \o Own(9)
      /\ Done(11) = Done(10) \o Own(10) /\ Done(12) = Done(11) \o Own(11)
      /\ Done(13) = Done(12) \o Own(12) /\ Done(14) = Done(13) \o Own(13)
  BY DoneNames, Zenon DEF Done4, Done5, Done7, Done8, Done9, Done10, Done11, Done12, Done13, Done14
<1>3. Own(1) = <<>> /\ Own(5) = <<>> /\ Own(14) = <<>>
  BY DEF Own
<1>4. /\ Done(1) = <<>> /\ Done(2) = <<>> /\ Done(3) = Own(2) /\ Done(6) = Done(5) /\ Done(15) = Done(14)
  BY DoneNames
<1>5. /\ Done(2) = Done(1) \o Own(1) /\ Done(3) = Done(2) \o Own(2)
      /\ Done(6) = Done(5) \o Own(5) /\ Done(15) = Done(14) \o Own(14)
  BY <1>1, <1>3, <1>4, OwnTyped, DoneTyped
<1> SUFFICES ASSUME NEW k \in 1 .. 14 PROVE Done(k + 1) = Done(k) \o Own(k)
  OBVIOUS
<1>6. /\ 1 + 1 = 2 /\ 2 + 1 = 3 /\ 3 + 1 = 4 /\ 4 + 1 = 5 /\ 5 + 1 = 6 /\ 6 + 1 = 7 /\ 7 + 1 = 8
      /\ 8 + 1 = 9 /\ 9 + 1 = 10 /\ 10 + 1 = 11 /\ 11 + 1 = 12 /\ 12 + 1 = 13 /\ 13 + 1 = 14
      /\ 14 + 1 = 15
  OBVIOUS
<1>7. k \in {1, 2, 3, 4, 5, 6, 7, 8, 9, 10, 11, 12, 13, 14}
  OBVIOUS
<1> QED
  BY <1>2, <1>5, <1>6, <1>7, ZenonT(30)

\* A procedure that no option wants writes nothing.
LEMMA DoneSkips ==
    ASSUME NEW k \in 1 .. 14, ~Wanted(Order[k]) PROVE Done(k) = Done(k + 1)
<1>1. Own(k) = <<>>
  BY OrderIs DEF Own, Wanted, When, Baud
<1>2. Done(k) \o <<>> = Done(k)
  BY DoneTyped, ConcatEmptySeq
<1> QED
  BY <1>1, <1>2, DoneSteps

\* What is constant from k to k + 1 all the way is the same at both ends.
LEMMA SameAlong ==
    ASSUME NEW a \in 2 .. 15, NEW b \in 2 .. 15, a <= b,
           \A k \in a .. b - 1 : Done(k) = Done(k + 1)
    PROVE  Done(a) = Done(b)
<1>1. \A k \in {2, 3, 4, 5, 6, 7, 8, 9, 10, 11, 12, 13, 14} :
         a <= k /\ k < b => Done(k) = Done(k + 1)
  OBVIOUS
<1>2. /\ a <= 2 /\ 2 < b => Done(2) = Done(3)
      /\ a <= 3 /\ 3 < b => Done(3) = Done(4)
      /\ a <= 4 /\ 4 < b => Done(4) = Done(5)
      /\ a <= 5 /\ 5 < b => Done(5) = Done(6)
      /\ a <= 6 /\ 6 < b => Done(6) = Done(7)
      /\ a <= 7 /\ 7 < b => Done(7) = Done(8)
      /\ a <= 8 /\ 8 < b => Done(8) = Done(9)
      /\ a <= 9 /\ 9 < b => Done(9) = Done(10)
      /\ a <= 10 /\ 10 < b => Done(10) = Done(11)
      /\ a <= 11 /\ 11 < b => Done(11) = Done(12)
      /\ a <= 12 /\ 12 < b => Done(12) = Done(13)
      /\ a <= 13 /\ 13 < b => Done(13) = Done(14)
      /\ a <= 14 /\ 14 < b => Done(14) = Done(15)
  BY <1>1
<1>3. /\ a \in {2, 3, 4, 5, 6, 7, 8, 9, 10, 11, 12, 13, 14, 15}
      /\ b \in {2, 3, 4, 5, 6, 7, 8, 9, 10, 11, 12, 13, 14, 15}
  OBVIOUS
<1> QED
  BY <1>2, <1>3

LEMMA AdvanceDone ==
    ASSUME TypeOK, Advance PROVE Done(at + 1) = Done(at') /\ at' \in 2 .. 15 /\ at \in 1 .. 14
<1>1. at \in 1 .. 15
  BY OrderIs DEF TypeOK
<1>2. at' \in at + 1 .. 15
  BY OrderIs DEF Advance
<1>3. \A a \in 1 .. 15 : \A b \in a + 1 .. 15 :
         a \in 1 .. 14 /\ b \in 2 .. 15 /\ a + 1 \in 2 .. 15 /\ a + 1 <= b
         /\ \A k \in a + 1 .. b - 1 : k \in 1 .. 14
  OBVIOUS
<1>4. /\ at + 1 \in 2 .. 15 /\ at' \in 2 .. 15 /\ at + 1 <= at' /\ at \in 1 .. 14
      /\ \A k \in at + 1 .. at' - 1 : k \in 1 .. 14
  BY <1>1, <1>2, <1>3, Zenon
<1>5. \A k \in at + 1 .. at' - 1 : Done(k) = Done(k + 1)
  <2> SUFFICES ASSUME NEW k \in at + 1 .. at' - 1 PROVE Done(k) = Done(k + 1)
    OBVIOUS
  <2>1. ~Wanted(Order[k])
    BY DEF Advance
  <2> QED
    BY <1>4, <2>1, DoneSkips
<1> QED
  BY <1>4, <1>5, SameAlong

----------------------------------------------------------------------------
\* All that is done at the end is the script.
LEMMA HcdDone == ASSUME NEW s \in Seq(Ops)
    PROVE s \o When("hcd", Download) = ((s \o Own(4)) \o Own(6)) \o Own(7)
<1>1. CASE "hcd" \in cfg.flags
  <2> DEFINE m == <<"mini">>
             r == Sent(Records)
             l == <<"reset">>
  <2>1. Own(4) = m /\ Own(6) = r /\ Own(7) = l
    <3> HIDE DEF r
    <3>1. Own(4) = m /\ Own(7) = l
      BY <1>1 DEF When, Own
    <3>2. Own(6) = When("hcd", Sent(Records))
      BY DEF Own
    <3>3. When("hcd", Sent(Records)) = Sent(Records)
      BY <1>1, Zenon DEF When
    <3> QED
      BY <3>1, <3>2, <3>3, Zenon DEF r
  <2>0. When("hcd", Download) = (m \o r) \o l
    BY <1>1, Zenon DEF When, Download, Sent
  <2>2. m \in Seq(Ops)
    BY DEF Ops
  <2>3. l \in Seq(Ops)
    BY DEF Ops
  <2>4. r \in Seq(Ops)
    BY SentTyped, PatchramAssumption
  <2> HIDE DEF m, r, l
  <2>7. s \o (m \o r) = (s \o m) \o r
    BY <2>2, <2>4, Concat3
  <2> DEFINE p == m \o r
  <2>5. p \in Seq(Ops)
    BY <2>2, <2>4, Concat2
  <2> HIDE DEF p
  <2>6. s \o (p \o l) = (s \o p) \o l
    BY <2>3, <2>5, Concat3
  <2> QED
    BY <2>0, <2>1, <2>6, <2>7, Zenon DEF p
<1>2. CASE "hcd" \notin cfg.flags
  <2>1. Own(4) = <<>> /\ Own(6) = <<>> /\ Own(7) = <<>> /\ When("hcd", Download) = <<>>
    BY <1>2 DEF When, Own
  <2>2. s \o <<>> = s
    BY ConcatEmptySeq
  <2> QED
    BY <2>1, <2>2, Zenon
<1> QED
  BY <1>1, <1>2

LEMMA ScoPcm == ASSUME NEW s \in Seq(Ops)
    PROVE s \o When("scopcm", <<"sco", "pcm">>) = (s \o Own(11)) \o Own(12)
<1>1. CASE "scopcm" \in cfg.flags
  <2> DEFINE m == <<"sco">>
             r == <<"pcm">>
  <2>1. Own(11) = m /\ Own(12) = r
    BY <1>1 DEF When, Own
  <2>0. When("scopcm", <<"sco", "pcm">>) = <<"sco", "pcm">>
    BY <1>1, Zenon DEF When
  <2>2. m \in Seq(Ops) /\ Len(m) = 1 /\ m[1] = "sco"
    BY DEF Ops
  <2>3. r \in Seq(Ops) /\ Len(r) = 1 /\ r[1] = "pcm"
    BY DEF Ops
  <2>4. <<"sco", "pcm">> \in Seq(Ops) /\ Len(<<"sco", "pcm">>) = 2
        /\ <<"sco", "pcm">>[1] = "sco" /\ <<"sco", "pcm">>[2] = "pcm"
    BY DEF Ops
  <2> HIDE DEF m, r
  <2>5. m \o r \in Seq(Ops) /\ Len(m \o r) = 2 /\ (m \o r)[1] = "sco" /\ (m \o r)[2] = "pcm"
    BY <2>2, <2>3, ConcatProperties
  <2>6. m \o r = <<"sco", "pcm">>
    <3> DEFINE u == m \o r
               v == <<"sco", "pcm">>
    <3>1. /\ u \in Seq(Ops) /\ v \in Seq(Ops) /\ Len(u) = 2 /\ Len(v) = 2
          /\ u[1] = v[1] /\ u[2] = v[2]
      BY <2>4, <2>5
    <3> HIDE DEF u, v
    <3>2. \A i \in 1 .. 2 : i = 1 \/ i = 2
      OBVIOUS
    <3>3. u = v
      BY <3>1, <3>2, SeqEqual
    <3> QED
      BY <3>3 DEF u, v
  <2>7. s \o (m \o r) = (s \o m) \o r
    BY <2>2, <2>3, Concat3
  <2> QED
    BY <2>0, <2>1, <2>6, <2>7, Zenon
<1>2. CASE "scopcm" \notin cfg.flags
  <2>1. Own(11) = <<>> /\ Own(12) = <<>> /\ When("scopcm", <<"sco", "pcm">>) = <<>>
    BY <1>2 DEF When, Own
  <2>2. s \o <<>> = s
    BY ConcatEmptySeq
  <2> QED
    BY <2>1, <2>2, Zenon
<1> QED
  BY <1>1, <1>2

LEMMA ScriptDone == Script = Done14
<1>1. Done4 \o When("hcd", Download) = Done8
  <2>1. Done4 \in Seq(Ops)
    BY DoneTyped, DoneNames
  <2> QED
    BY <2>1, HcdDone, Zenon DEF Done8, Done7, Done5
<1>2. Done11 \o When("scopcm", <<"sco", "pcm">>) = Done13
  <2>1. Done11 \in Seq(Ops)
    BY DoneTyped, DoneNames
  <2> QED
    BY <2>1, ScoPcm, Zenon DEF Done13, Done12
<1>3. /\ Own(2) = <<"reset">> /\ Own(3) = When("use_baudrate_for_download", Baud)
      /\ Own(8) = Baud /\ Own(9) = When("bdaddr", <<"bdaddr">>)
      /\ Own(10) = When("enable_lpm", <<"lpm">>) /\ Own(13) = When("i2s", <<"i2s">>)
  BY DEF Own
<1>4. /\ Done4 = <<"reset">> \o When("use_baudrate_for_download", Baud)
      /\ Done11 = ((Done8 \o Baud) \o When("bdaddr", <<"bdaddr">>)) \o When("enable_lpm", <<"lpm">>)
      /\ Done14 = Done13 \o When("i2s", <<"i2s">>)
  BY <1>3, Zenon DEF Done4, Done9, Done10, Done11, Done14
<1> QED
  BY <1>1, <1>2, <1>4, Zenon DEF Script

----------------------------------------------------------------------------
\* One sequence of commands starts another.
Starts(s, t) == Len(s) <= Len(t) /\ \A i \in 1 .. Len(s) : s[i] = t[i]

LEMMA StartsMore ==
    ASSUME NEW s \in Seq(Ops), NEW t \in Seq(Ops) PROVE Starts(s, s \o t)
  BY ConcatProperties DEF Starts

LEMMA StartsOn ==
    ASSUME NEW r \in Seq(Ops), NEW s \in Seq(Ops), NEW t \in Seq(Ops), Starts(r, s), Starts(s, t)
    PROVE  Starts(r, t)
<1>1. Len(r) \in Nat /\ Len(s) \in Nat /\ Len(t) \in Nat
  OBVIOUS
<1>2. Len(r) <= Len(s) /\ Len(s) <= Len(t)
  BY DEF Starts
<1>3. \A i \in 1 .. Len(r) : i \in 1 .. Len(s)
  BY ONLY <1>1, <1>2
<1>4. Len(r) <= Len(t)
  BY ONLY <1>1, <1>2
<1> QED
  BY <1>3, <1>4 DEF Starts

\* A sequence that starts the script and is one longer has its next command at the end.
LEMMA OneMore ==
    ASSUME NEW s \in Seq(Ops), NEW op \in Ops, NEW t \in Seq(Ops), Starts(Append(s, op), t)
    PROVE  Len(s) < Len(t) /\ op = t[Len(s) + 1]
<1> DEFINE u == Append(s, op)
<1>1. Len(u) = Len(s) + 1 /\ u[Len(s) + 1] = op /\ Len(s) \in Nat /\ Len(t) \in Nat
  BY AppendProperties
<1> HIDE DEF u
<1>2. Len(u) <= Len(t) /\ \A i \in 1 .. Len(u) : u[i] = t[i]
  BY DEF Starts, u
<1>3. Len(s) + 1 \in 1 .. Len(u) /\ Len(s) < Len(t)
  BY <1>1, <1>2
<1> QED
  BY <1>1, <1>2, <1>3

LEMMA StartsScript == Script \in Seq(Ops) /\ \A k \in 1 .. 15 : Starts(Done(k), Script)
<1>0. Done(15) = Script /\ Script \in Seq(Ops)
  BY DoneNames, ScriptDone, DoneTyped
<1>1. Starts(Script, Script)
  BY <1>0 DEF Starts
<1>2. \A k \in 1 .. 14 : Starts(Done(k + 1), Script) => Starts(Done(k), Script)
  <2> SUFFICES ASSUME NEW k \in 1 .. 14, Starts(Done(k + 1), Script) PROVE Starts(Done(k), Script)
    OBVIOUS
  <2>1. Starts(Done(k), Done(k) \o Own(k))
    BY StartsMore, DoneTyped, OwnTyped
  <2>2. Starts(Done(k), Done(k + 1))
    BY <2>1, DoneSteps
  <2> QED
    BY <1>0, <2>2, StartsOn, DoneTyped
<1>3. \A k \in {1, 2, 3, 4, 5, 6, 7, 8, 9, 10, 11, 12, 13, 14} :
         Starts(Done(k + 1), Script) => Starts(Done(k), Script)
  BY <1>2
<1>4. /\ Starts(Done(15), Script) => Starts(Done(14), Script)
      /\ Starts(Done(14), Script) => Starts(Done(13), Script)
      /\ Starts(Done(13), Script) => Starts(Done(12), Script)
      /\ Starts(Done(12), Script) => Starts(Done(11), Script)
      /\ Starts(Done(11), Script) => Starts(Done(10), Script)
      /\ Starts(Done(10), Script) => Starts(Done(9), Script)
      /\ Starts(Done(9), Script) => Starts(Done(8), Script)
      /\ Starts(Done(8), Script) => Starts(Done(7), Script)
      /\ Starts(Done(7), Script) => Starts(Done(6), Script)
      /\ Starts(Done(6), Script) => Starts(Done(5), Script)
      /\ Starts(Done(5), Script) => Starts(Done(4), Script)
      /\ Starts(Done(4), Script) => Starts(Done(3), Script)
      /\ Starts(Done(3), Script) => Starts(Done(2), Script)
      /\ Starts(Done(2), Script) => Starts(Done(1), Script)
  BY <1>3
<1>5. \A k \in 1 .. 15 : k \in {1, 2, 3, 4, 5, 6, 7, 8, 9, 10, 11, 12, 13, 14, 15}
  OBVIOUS
<1> QED
  BY <1>0, <1>1, <1>4, <1>5

\* So does what is there of the download.
LEMMA PartStarts ==
    ASSUME "hcd" \in cfg.flags, NEW n \in 0 .. Records
    PROVE  Starts(Done5 \o Sent(n), Script) /\ Done5 \o Sent(Records) = Done(7)
<1>1. Own(6) = Sent(Records)
  <2>1. Own(6) = When("hcd", Sent(Records))
    BY DEF Own
  <2> QED
    BY <2>1, Zenon DEF When
<1>2. Done5 \o Sent(Records) = Done(7)
  BY <1>1, DoneNames, Zenon DEF Done7
<1> DEFINE d == Done5
           p == Sent(n)
           a == Sent(Records)
<1>3. d \in Seq(Ops)
  BY DoneTyped, DoneNames
<1>4. p \in Seq(Ops) /\ Len(p) = n /\ a \in Seq(Ops) /\ Len(a) = Records /\ Records \in Nat
  BY SentTyped, PatchramAssumption
<1>5. \A i \in 1 .. n : p[i] = a[i]
  BY PatchramAssumption DEF Sent
<1> HIDE DEF d, p, a
<1>6. /\ d \o p \in Seq(Ops) /\ Len(d \o p) = Len(d) + n
      /\ \A i \in 1 .. Len(d) + n : (d \o p)[i] = IF i <= Len(d) THEN d[i] ELSE p[i - Len(d)]
  BY <1>3, <1>4, ConcatProperties
<1>7. /\ d \o a \in Seq(Ops) /\ Len(d \o a) = Len(d) + Records
      /\ \A i \in 1 .. Len(d) + Records : (d \o a)[i] = IF i <= Len(d) THEN d[i] ELSE a[i - Len(d)]
  BY <1>3, <1>4, ConcatProperties
<1>8. Starts(d \o p, d \o a)
  <2>1. Len(d) \in Nat /\ n <= Records /\ Len(d \o p) <= Len(d \o a)
    BY <1>3, <1>4, <1>6, <1>7
  <2> SUFFICES ASSUME NEW i \in 1 .. Len(d) + n PROVE (d \o p)[i] = (d \o a)[i]
    BY <1>6, <2>1 DEF Starts
  <2>2. i \in 1 .. Len(d) + Records
    BY <1>4, <2>1
  <2>3. CASE i <= Len(d)
    BY <1>6, <1>7, <2>2, <2>3
  <2>4. CASE ~(i <= Len(d))
    <3>1. i - Len(d) \in 1 .. n
      BY <2>1, <2>4
    <3> QED
      BY <1>5, <1>6, <1>7, <2>2, <2>4, <3>1
  <2> QED
    BY <2>3, <2>4
<1>9. Starts(Done(7), Script)
  BY StartsScript
<1> QED
  BY <1>2, <1>6, <1>7, <1>8, <1>9, StartsOn, StartsScript DEF d, p, a

----------------------------------------------------------------------------
\* The options stay, and with them what is due.
LEMMA DoneKept ==
    ASSUME cfg' = cfg
    PROVE  /\ Script' = Script
           /\ Own(2)' = Own(2) /\ Done4' = Done4 /\ Done5' = Done5 /\ Done7' = Done7 /\ Done8' = Done8
           /\ Done9' = Done9 /\ Done10' = Done10 /\ Done11' = Done11 /\ Done12' = Done12
           /\ Done13' = Done13 /\ Done14' = Done14
<1>1. Script' = Script
  BY DEF Script, When, Baud, Download
<1>2. /\ Own(2)' = Own(2) /\ Own(3)' = Own(3) /\ Own(4)' = Own(4) /\ Own(6)' = Own(6)
      /\ Own(7)' = Own(7) /\ Own(8)' = Own(8) /\ Own(9)' = Own(9) /\ Own(10)' = Own(10)
      /\ Own(11)' = Own(11) /\ Own(12)' = Own(12) /\ Own(13)' = Own(13)
  BY DEF Own, When, Baud
<1>3. Done4' = Done4
  BY <1>2, Zenon DEF Done4
<1>4. Done5' = Done5
  BY <1>2, <1>3, Zenon DEF Done5
<1>5. Done7' = Done7
  BY <1>2, <1>4, Zenon DEF Done7
<1>6. Done8' = Done8
  BY <1>2, <1>5, Zenon DEF Done8
<1>7. Done9' = Done9
  BY <1>2, <1>6, Zenon DEF Done9
<1>8. Done10' = Done10
  BY <1>2, <1>7, Zenon DEF Done10
<1>9. Done11' = Done11
  BY <1>2, <1>8, Zenon DEF Done11
<1>10. Done12' = Done12
  BY <1>2, <1>9, Zenon DEF Done12
<1>11. Done13' = Done13
  BY <1>2, <1>10, Zenon DEF Done13
<1>12. Done14' = Done14
  BY <1>2, <1>11, Zenon DEF Done14
<1> QED
  BY <1>1, <1>2, <1>3, <1>4, <1>5, <1>6, <1>7, <1>8, <1>9, <1>10, <1>11, <1>12

LEMMA DuePrimed ==
    ASSUME cfg' = cfg
    PROVE  Due' = IF at' = 6 THEN Done5 \o Sent(fpos')
                  ELSE IF step' \in {"read", "got"} THEN Done(at' + 1) ELSE Done(at')
<1>1. Done(at)' = Done(at') /\ Done(at + 1)' = Done(at' + 1)
  BY DoneKept DEF Done
<1> QED
  BY <1>1, DoneKept DEF Due, Sent

\* Where main() goes on to, what is due is what was done here and before.
LEMMA AdvanceDue ==
    ASSUME TypeOK, InWanted, Advance, cfg' = cfg, fpos' = fpos
    PROVE  Due' = Done(at + 1)
<1>1. Done(at + 1) = Done(at') /\ at' \in 2 .. 15 /\ at \in 1 .. 14 /\ step' = "call"
  BY AdvanceDone DEF Advance
<1>2. CASE at' = 6
  <2>1. at < 6
    <3>1. at < at'
      BY AdvanceMoves
    <3> QED
      BY <1>2, <3>1
  <2>2. Sent(fpos') = <<>>
    <3>1. fpos' = 0
      BY <2>1 DEF InWanted
    <3>2. Sent(0) \in Seq(Ops) /\ Len(Sent(0)) = 0
      BY SentTyped
    <3> QED
      BY <3>1, <3>2, EmptySeq
  <2>3. Done5 \o <<>> = Done5 /\ Done(6) = Done5
    BY DoneNames, DoneTyped, ConcatEmptySeq
  <2> QED
    BY <1>1, <1>2, <2>2, <2>3, DuePrimed
<1>3. CASE at' # 6
  BY <1>1, <1>3, DuePrimed
<1> QED
  BY <1>2, <1>3

\* A procedure that writes one command writes what it owes.
LEMMA SendDue ==
    ASSUME TypeOK, log = Due, NEW op \in Ops, Send(op), step = "call", Proc # "records",
           Own(at) = <<op>>, at \in 1 .. 14
    PROVE  log' = Due'
<1>1. /\ cfg' = cfg /\ at' = at /\ step' = "read" /\ log' = Append(log, op) /\ at # 6
      /\ log \in Seq(Ops)
  BY Places DEF Send, TypeOK
<1>2. log' = Done(at) \o <<op>>
  <2>1. log = Done(at)
    BY <1>1 DEF Due
  <2>2. Append(log, op) = log \o <<op>>
    BY <1>1, AppendIsConcat
  <2> QED
    BY <1>1, <2>1, <2>2, Zenon
<1>3. Done(at + 1) = Done(at) \o <<op>>
  BY DoneSteps
<1> QED
  BY <1>1, <1>2, <1>3, DuePrimed

\* So does a record of the file.
LEMMA RecordDue ==
    ASSUME TypeOK, log = Due, SendRecord PROVE log' = Due'
<1> DEFINE op == IF fpos + 1 = Records THEN "launch" ELSE "record"
<1>1. /\ cfg' = cfg /\ at' = at /\ at = 6 /\ fpos' = fpos + 1 /\ log' = Append(log, op)
      /\ fpos \in Nat /\ log \in Seq(Ops)
  BY Places, PatchramAssumption DEF SendRecord, Send, Calling, TypeOK
<1>2. log = Done5 \o Sent(fpos)
  BY <1>1 DEF Due
<1>3. Append(Sent(fpos), op) = Sent(fpos + 1)
  BY <1>1, SentMore
<1>4. op \in Ops
  BY DEF Ops
<1> HIDE DEF op
<1> DEFINE d == Done5
           s == Sent(fpos)
<1>5. d \in Seq(Ops)
  BY DoneTyped, DoneNames
<1>6. s \in Seq(Ops)
  BY <1>1, SentTyped
<1>7. Append(log, op) = log \o <<op>>
  BY <1>1, <1>4, AppendIsConcat
<1>8. Append(s, op) = s \o <<op>>
  BY <1>4, <1>6, AppendIsConcat
<1>9. <<op>> \in Seq(Ops)
  BY <1>4
<1> DEFINE o == <<op>>
<1> HIDE DEF d, s, o
<1>10. o \in Seq(Ops)
  BY <1>9 DEF o
<1>11. d \o (s \o o) = (d \o s) \o o
  BY <1>5, <1>6, <1>10, Concat3
<1>12. log' = Done5 \o Sent(fpos')
  BY <1>1, <1>2, <1>3, <1>7, <1>8, <1>11, Zenon DEF d, s, o
<1> QED
  BY <1>1, <1>12, DuePrimed

LEMMA NextDue ==
    ASSUME TypeOK, InWanted, log = Due, [Next]_vars PROVE log' = Due'
<1>0. cfg' = cfg
  BY Moves
<1>1. CASE ProcReset \/ ProcBaudrate \/ ProcPatchram \/ ProcSetting
  <2>1. PICK op \in Ops : /\ Send(op) /\ step = "call" /\ Proc # "records"
                          /\ Own(at) = <<op>> /\ at \in 1 .. 14
    <3>0. at \in 1 .. 15 /\ Wanted(Proc)
      BY OrderIs DEF TypeOK, InWanted
    <3>1. CASE ProcReset
      <4>1. Send("reset") /\ step = "call" /\ at \in {2, 7}
        BY <3>1, Places DEF ProcReset, Resets, TypeOK
      <4>2. Own(at) = <<"reset">>
        BY <3>0, <4>1, OrderIs DEF Own, Wanted, Proc, When
      <4> QED
        BY <4>1, <4>2, OpIsOp, Places DEF TypeOK
    <3>2. CASE ProcBaudrate
      <4>1. Send("baud") /\ step = "call" /\ at \in {3, 8}
        BY <3>2, Places DEF ProcBaudrate, Bauds, TypeOK
      <4>2. Own(at) = <<"baud">>
        BY <3>0, <4>1, OrderIs DEF Own, Wanted, Proc, When, Baud
      <4> QED
        BY <4>1, <4>2, OpIsOp, Places DEF TypeOK
    <3>3. CASE ProcPatchram
      <4>1. Send("mini") /\ step = "call" /\ at = 4
        BY <3>3, Places DEF ProcPatchram, Calling, TypeOK
      <4>2. Own(at) = <<"mini">>
        BY <3>0, <4>1, OrderIs DEF Own, Wanted, Proc, When
      <4> QED
        BY <4>1, <4>2, OpIsOp, Places DEF TypeOK
    <3>4. CASE ProcSetting
      <4>1. Send(Proc) /\ step = "call" /\ at \in 9 .. 13 /\ Proc \in Settings
        BY <3>4, Places DEF ProcSetting, Settings, TypeOK
      <4>2. Own(at) = <<Proc>>
        BY <3>0, <4>1, OrderIs DEF Own, Wanted, Proc, When
      <4> QED
        BY <4>1, <4>2, OpIsOp, Places DEF TypeOK
    <3> QED
      BY <1>1, <3>1, <3>2, <3>3, <3>4
  <2> QED
    BY <2>1, SendDue
<1>2. CASE SendRecord
  BY <1>2, RecordDue
<1>3. CASE InitUart \/ Confirm
  <2>1. Advance /\ fpos' = fpos /\ log' = log /\ step = "call" /\ at \in {1, 5}
    BY <1>3, Places DEF InitUart, Confirm, Calling, ghosts, TypeOK
  <2>2. Due = Done(at) /\ Own(at) = <<>> /\ at \in 1 .. 14
    BY <2>1 DEF Due, Own
  <2>3. Done(at + 1) = Done(at)
    BY <2>2, DoneSteps, DoneTyped, ConcatEmptySeq
  <2> QED
    BY <1>0, <2>1, <2>2, <2>3, AdvanceDue
<1>4. CASE EndOfFile
  <2>1. Advance /\ fpos' = fpos /\ log' = log /\ at = 6 /\ fpos = Records /\ Wanted(Proc)
    BY <1>4, Places DEF EndOfFile, Calling, ghosts, TypeOK, InWanted
  <2>2. "hcd" \in cfg.flags
    BY <2>1, OrderIs DEF Wanted, Proc
  <2>3. Due = Done(7)
    BY <2>1, <2>2, PartStarts, PatchramAssumption DEF Due
  <2> QED
    BY <1>0, <2>1, <2>3, AdvanceDue
<1>5. CASE (Return /\ Proc # "records") \/ SetSpeed
  <2>1. Advance /\ fpos' = fpos /\ log' = log /\ step = "got" /\ at # 6
    BY <1>5, Places DEF Return, SetSpeed, Bauds, ghosts, TypeOK
  <2>2. Due = Done(at + 1)
    BY <2>1 DEF Due
  <2> QED
    BY <1>0, <2>1, <2>2, AdvanceDue
<1>6. CASE Return /\ Proc = "records"
  <2>1. at' = at /\ fpos' = fpos /\ log' = log /\ at = 6
    BY <1>6, Places DEF Return, ghosts, TypeOK
  <2> QED
    BY <1>0, <2>1, DuePrimed DEF Due
<1>7. CASE ReadEvent \/ ReadGarbled
  <2>1. at' = at /\ fpos' = fpos /\ log' = log /\ step = "read" /\ step' = "got"
    BY <1>7 DEF ReadEvent, ReadGarbled, ghosts
  <2> QED
    BY <1>0, <2>1, DuePrimed DEF Due
<1>8. CASE EnableHci \/ Exit
  <2>1. at' = at /\ fpos' = fpos /\ log' = log /\ step = "call" /\ step' = "end"
    BY <1>8 DEF EnableHci, Exit, Calling, ghosts
  <2> QED
    BY <1>0, <2>1, DuePrimed DEF Due
<1>9. CASE Expired \/ Controller \/ UNCHANGED vars
  <2>1. at' = at /\ fpos' = fpos /\ log' = log /\ step' = step
    BY <1>9 DEF Expired, Controller, CtlAnswer, CtlMiss, CtlBoots, ghosts, vars, mainVars
  <2> QED
    BY <1>0, <2>1, DuePrimed DEF Due
<1> QED
  BY <1>1, <1>2, <1>3, <1>4, <1>5, <1>6, <1>7, <1>8, <1>9 DEF Next, Main

\* Whatever is in the log starts the script.
LEMMA DueStarts == ASSUME TypeOK, InWanted PROVE Starts(Due, Script)
<1>1. at \in 1 .. 15 /\ step \in {"call", "read", "got", "end"} /\ fpos \in 0 .. Records
  BY OrderIs DEF TypeOK
<1>2. CASE at = 6
  <2>1. "hcd" \in cfg.flags
    BY <1>2, OrderIs DEF InWanted, Wanted, Proc
  <2> QED
    BY <1>1, <1>2, <2>1, PartStarts DEF Due
<1>3. CASE at = 15 /\ step \in {"read", "got"}
  <2>1. Due = Done(16) /\ Done(16) = Done14
    BY <1>3 DEF Due, Done
  <2> QED
    BY <2>1, DoneNames, StartsScript
<1>4. CASE at # 6 /\ ~(at = 15 /\ step \in {"read", "got"})
  <2>1. PICK k \in 1 .. 15 : Due = Done(k)
    BY <1>1, <1>4 DEF Due
  <2> QED
    BY <2>1, StartsScript
<1> QED
  BY <1>2, <1>3, <1>4

\* The step of the exchange behind a command, ...
LEMMA SendAsks ==
    ASSUME TypeOK, TypeOK', InWanted, InWanted', log = Due, log' = Due',
           NEW op \in Ops, Send(op), step = "call"
    PROVE  Exchange!Ask
<1>1. /\ cfg' = cfg /\ step' = "read" /\ log' = Append(log, op) /\ log \in Seq(Ops)
  BY DEF Send, TypeOK
<1>2. Starts(log', Script')
  <2>1. (TypeOK /\ InWanted => Starts(Due, Script))'
    BY DueStarts, PTL
  <2>2. Starts(Due, Script)' <=> Starts(Due', Script')
    BY DEF Starts
  <2> QED
    BY <2>1, <2>2
<1>3. Script' = Script /\ Script \in Seq(Ops)
  BY <1>1, DoneKept, StartsScript
<1>4. Len(log) < Len(Script) /\ op = Script[Len(log) + 1]
  BY <1>1, <1>2, <1>3, OneMore
<1>5. Len(log') - 1 = Len(log)
  BY <1>1, AppendProperties
<1> QED
  BY <1>1, <1>3, <1>4, <1>5 DEF Exchange!Ask

\* ... behind the event that answers it ...
LEMMA ReadTakes ==
    ASSUME TypeOK, ReadEvent \/ ReadGarbled PROVE Exchange!Take
<1>1. cfg' = cfg /\ log' = log /\ step = "read" /\ step' = "got" /\ log \in Seq(Ops)
  BY DEF ReadEvent, ReadGarbled, ghosts, TypeOK
<1>2. Len(log) \in Nat /\ Len(log) - 1 < Len(log) /\ Len(log) = Len(log) - 1 + 1
  BY <1>1
<1>3. Script' = Script
  BY <1>1, DoneKept
<1> QED
  BY <1>1, <1>2, <1>3 DEF Exchange!Take

\* ... and behind the end.
LEMMA EndEnds ==
    ASSUME TypeOK, log = Due, EnableHci \/ Exit PROVE Exchange!End
<1>1. cfg' = cfg /\ log' = log /\ step = "call" /\ step' = "end" /\ at \in {14, 15}
  BY Places DEF EnableHci, Exit, Calling, ghosts, TypeOK
<1>2. log = Script
  BY <1>1, ScriptDone, DoneNames DEF Due
<1>3. Script' = Script
  BY <1>1, DoneKept
<1> QED
  BY <1>1, <1>2, <1>3 DEF Exchange!End

\* The rest of the program, the alarm and the controller do nothing that it shows.
LEMMA OthersSilent ==
    ASSUME TypeOK, InitUart \/ EndOfFile \/ Return \/ SetSpeed \/ Confirm \/ Expired
                   \/ Controller \/ UNCHANGED vars
    PROVE  UNCHANGED <<Script, log, IF step = "read" THEN Len(log) - 1 ELSE Len(log), step = "end">>
<1>1. cfg' = cfg /\ log' = log
  BY DEF InitUart, EndOfFile, Return, SetSpeed, Confirm, Expired, Controller, CtlAnswer, CtlMiss,
         CtlBoots, lineVars, ghosts, vars
<1>2. (step' = "read" <=> step = "read") /\ (step' = "end" <=> step = "end")
  BY DEF InitUart, EndOfFile, Return, SetSpeed, Confirm, Calling, Expired, Controller, CtlAnswer,
         CtlMiss, CtlBoots, mainVars, vars, Advance
<1>3. Script' = Script
  BY <1>1, DoneKept
<1> QED
  BY <1>1, <1>2, <1>3

LEMMA InitExchange == Init => Exchange!Init /\ LogInv
<1> SUFFICES ASSUME Init PROVE Exchange!Init /\ LogInv
  OBVIOUS
<1>1. log = <<>> /\ step = "call" /\ at = 1 /\ Len(log) = 0
  BY DEF Init
<1>2. Done(1) = <<>>
  BY DoneNames
<1> QED
  BY <1>1, <1>2 DEF Exchange!Init, LogInv, Due

LEMMA NextExchange ==
    ASSUME TypeOK, TypeOK', InWanted, InWanted', LogInv, LogInv', [Next]_vars
    PROVE  \/ Exchange!Next
           \/ UNCHANGED <<Script, log, IF step = "read" THEN Len(log) - 1 ELSE Len(log), step = "end">>
<1>1. CASE ProcReset \/ ProcBaudrate \/ ProcPatchram \/ SendRecord \/ ProcSetting
  <2>1. PICK op \in Ops : Send(op) /\ step = "call"
    BY <1>1, OpIsOp
    DEF ProcReset, ProcBaudrate, ProcPatchram, SendRecord, ProcSetting, Calling, Settings
  <2> QED
    BY <2>1, SendAsks DEF LogInv, Exchange!Next
<1>2. CASE ReadEvent \/ ReadGarbled
  BY <1>2, ReadTakes DEF Exchange!Next
<1>3. CASE EnableHci \/ Exit
  BY <1>3, EndEnds DEF LogInv, Exchange!Next
<1>4. CASE InitUart \/ EndOfFile \/ Return \/ SetSpeed \/ Confirm \/ Expired \/ Controller
           \/ UNCHANGED vars
  BY <1>4, OthersSilent
<1> QED
  BY <1>1, <1>2, <1>3, <1>4 DEF Next, Main

----------------------------------------------------------------------------
(* Theorems *)

\* What holds whatever the controller does, however the alarm goes off.
THEOREM Invariance == Spec => []SafeInv
  BY InitSafe, NextSafe, PTL DEF Spec

\* Every variable of main() and of the line keeps its type.
THEOREM TypeCorrect == Spec => []TypeOK
<1>1. SafeInv => TypeOK
  BY DEF SafeInv
<1> QED
  BY <1>1, Invariance, PTL

\* An event is taken for the answer to an earlier command only by as many places as the
\* alarm wrote resets without need.
THEOREM EventsLag == Spec => []EventLag
<1>1. SafeInv => EventLag
  BY DEF SafeInv, LagInv
<1> QED
  BY <1>1, Invariance, PTL

\* With options that fit the controller, and its two bytes together, main() reads every
\* event from its first byte until the alarm writes a reset too many.
THEOREM StaysInSync == ASSUME ~Apart PROVE Spec => []InSync
<1>1. Init => SyncInv
  BY InitSync
<1>2. SafeInv /\ SyncInv /\ [Next]_vars => SyncInv'
  BY NextInSync, NextConf DEF SyncInv
<1>3. SyncInv => InSync
  BY DEF SyncInv
<1> QED
  BY <1>1, <1>2, <1>3, Invariance, PTL DEF Spec

\* Until an error or a spurious reset, a controller that was just powered on is only
\* spoken to at the speed it has.
THEOREM SpeedsAgree == Spec => []RatesAgree
<1>1. SafeInv /\ SafeInv' /\ RatesInv /\ [Next]_vars => RatesInv'
  BY NextRates
<1>2. SafeInv /\ RatesInv => RatesAgree
  <2> SUFFICES ASSUME SafeInv, RatesInv, Good, NEW i \in DOMAIN cmds PROVE cmds[i].rate = ctlRate
    BY DEF RatesAgree, Good
  <2>1. cmds # <<>>
    OBVIOUS
  <2> QED
    BY <2>1 DEF RatesInv, Speeds
<1> QED
  BY <1>1, <1>2, InitRates, Invariance, PTL DEF Spec

\* main() refines the exchange of HciExchange: whatever the options, the controller and the
\* alarm, it writes the commands the options ask for in their order, each after an event was
\* read, and ends only after the last.
THEOREM ImplementsHciExchange == Spec => ImplementsExchange
<1>1. SafeInv /\ LogInv /\ [Next]_vars => LogInv'
  BY NextDue DEF SafeInv, LogInv
<1>2. SafeInv /\ SafeInv' /\ LogInv /\ LogInv' /\ [Next]_vars =>
        [Exchange!Next]_<<Script, log, IF step = "read" THEN Len(log) - 1 ELSE Len(log), step = "end">>
  BY NextExchange DEF SafeInv
<1> QED
  BY <1>1, <1>2, InitExchange, Invariance, PTL DEF Spec, ImplementsExchange, Exchange!Spec
=============================================================================
