------------------------------ MODULE Patchram ------------------------------
(* brcm_patchram_plus1, the second half of main(): the controller behind the *)
(* UART is reset, loaded with the HCD file and configured by HCI commands.   *)
(* main() writes a command and reads one event; SIGALRM writes the reset     *)
(* again every four seconds until it is answered.  Writer and controller     *)
(* each have a speed, which they change at different moments.  The bytes of  *)
(* an event are those of PatchramDownload.                                   *)
EXTENDS PatchramOptions, Integers, Sequences

CONSTANTS
    Records,    \* records of the HCD file, the last of which launches the patch
    TwoBytes,   \* the controller sends two bytes after the event of the minidriver
    Apart,      \* ... and they may arrive one by one
    Cold,       \* the controller was just powered on
    Errors,     \* the controller may reject a command, the kernel an ioctl
    MaxResends  \* bound: resets written by the alarm

ASSUME PatchramAssumption ==
    /\ Records \in Nat /\ MaxResends \in Nat
    /\ {TwoBytes, Apart, Cold, Errors} \subseteq BOOLEAN

VARIABLES
    cfg,        \* the globals the options set
    at, step,   \* the procedure main() is in, and how far: call, read, got, end
    fpos,       \* records read from the HCD file
    armed,      \* an alarm is pending
    hostRate,   \* speed of the host's UART
    ctlRate,    \* ... and of the controller's
    cmds,       \* commands the controller has not looked at
    input,      \* events in the host's UART
    conf,       \* confirmation bytes behind the event of the minidriver
    event,      \* the event in buffer
    log,        \* ghost: commands written by main()
    resends,    \* ghost: resets written by the alarm
    dup,        \* ghost: those written while an answer was on its way
    insync,     \* ghost: read_event started at the first byte of an event
    failed      \* ghost: a command or an ioctl failed

mainVars == <<at, step, fpos, armed>>
lineVars == <<hostRate, ctlRate, cmds, input, conf>>
ghosts   == <<log, resends, dup, insync, failed>>
vars     == <<cfg, mainVars, lineVars, event, ghosts>>

\* mutant of Order: the address is written before the controller is reset by its patch
OrderAddressFirst == <<"init", "reset", "dlbaud", "bdaddr", "mini", "conf", "records",
                       "rereset", "baud", "lpm", "sco", "pcm", "i2s", "hci", "exit">>

\* main(): the procedures, each called when the option that wants it is set
Order == <<"init", "reset", "dlbaud", "mini", "conf", "records", "rereset", "baud",
           "bdaddr", "lpm", "sco", "pcm", "i2s", "hci", "exit">>

\* mutant of ConfirmWanted: no2bytes tested the wrong way round
ConfirmInverted == {"hcd", "no2bytes"} \subseteq cfg.flags

ConfirmWanted == "hcd" \in cfg.flags /\ "no2bytes" \notin cfg.flags

Wanted(p) ==
    CASE p \in {"mini", "records", "rereset"} -> "hcd" \in cfg.flags
      [] p = "conf"            -> ConfirmWanted
      [] p = "dlbaud"          -> cfg.baud # NoBaud /\ "use_baudrate_for_download" \in cfg.flags
      [] p = "baud"            -> cfg.baud # NoBaud
      [] p = "bdaddr"          -> "bdaddr" \in cfg.flags
      [] p = "lpm"             -> "enable_lpm" \in cfg.flags
      [] p \in {"sco", "pcm"}  -> "scopcm" \in cfg.flags
      [] p = "i2s"             -> "i2s" \in cfg.flags
      [] p = "hci"             -> "enable_hci" \in cfg.flags
      [] OTHER                 -> TRUE

Proc       == Order[at]
Calling(p) == step = "call" /\ Proc = p
Count      == Len(log) + resends
NoEvent    == [op |-> "none", n |-> 0]

Init ==
    /\ cfg \in Options
    /\ at = 1 /\ step = "call" /\ fpos = 0 /\ armed = FALSE
    /\ hostRate \in Rates /\ ctlRate \in (IF Cold THEN {Low} ELSE Rates)
    /\ cmds = <<>> /\ input = <<>> /\ conf = 0 /\ event = NoEvent
    /\ log = <<>> /\ resends = 0 /\ dup = 0 /\ insync = TRUE /\ failed = FALSE

----------------------------------------------------------------------------
(* The host. *)

\* the next procedure an option wants
Advance ==
    /\ at' \in at + 1 .. Len(Order) /\ Wanted(Order[at'])
    /\ \A i \in at + 1 .. at' - 1 : ~Wanted(Order[i])
    /\ step' = "call"

\* init_uart
InitUart ==
    /\ Calling("init") /\ hostRate' = Low /\ input' = <<>> /\ Advance
    /\ UNCHANGED <<cfg, fpos, armed, ctlRate, cmds, conf, event, ghosts>>

\* hci_send_cmd
Write(op) == cmds' = Append(cmds, [op |-> op, n |-> Count + 1, rate |-> hostRate])

\* a command of main(), which then waits in read_event
Send(op) ==
    /\ step' = "read" /\ Write(op) /\ log' = Append(log, op)
    /\ UNCHANGED <<cfg, at, hostRate, ctlRate, input, conf, event, resends, dup, insync, failed>>

ProcReset ==
    /\ step = "call" /\ Proc \in {"reset", "rereset"}
    /\ Send("reset") /\ armed' = TRUE /\ UNCHANGED fpos

ProcBaudrate ==
    /\ step = "call" /\ Proc \in {"dlbaud", "baud"}
    /\ Send("baud") /\ UNCHANGED <<fpos, armed>>

\* proc_patchram up to its first read_event
ProcPatchram == Calling("mini") /\ Send("mini") /\ UNCHANGED <<fpos, armed>>

\* mutant of SendRecord: one record more than the file has
SendRecordMore ==
    /\ Calling("records") /\ fpos <= Records
    /\ fpos' = fpos + 1 /\ UNCHANGED armed
    /\ Send(IF fpos + 1 = Records THEN "launch" ELSE "record")

\* its loop: one record
SendRecord ==
    /\ Calling("records") /\ fpos < Records
    /\ fpos' = fpos + 1 /\ UNCHANGED armed
    /\ Send(IF fpos + 1 = Records THEN "launch" ELSE "record")

\* mutant of EndOfFile: the UART keeps the speed of the download
EndOfFileFast ==
    /\ Calling("records") /\ fpos = Records /\ Advance
    /\ UNCHANGED <<cfg, fpos, armed, lineVars, event, ghosts>>

\* its end: read returned 0
EndOfFile ==
    /\ Calling("records") /\ fpos = Records
    /\ hostRate' = IF "use_baudrate_for_download" \in cfg.flags THEN Low ELSE hostRate
    /\ Advance
    /\ UNCHANGED <<cfg, fpos, armed, ctlRate, cmds, input, conf, event, ghosts>>

\* proc_bdaddr, proc_enable_lpm, proc_i2s and the two commands of proc_scopcm
ProcSetting ==
    /\ step = "call" /\ Proc \in {"bdaddr", "lpm", "sco", "pcm", "i2s"}
    /\ Send(Proc) /\ UNCHANGED <<fpos, armed>>

\* read_event
ConfAtHead == conf > 0 /\ \A i \in DOMAIN input : input[i].op # "mini"

ReadEvent ==
    /\ step = "read" /\ insync /\ ~ConfAtHead /\ input # <<>>
    /\ step' = "got" /\ event' = Head(input) /\ input' = Tail(input)
    /\ UNCHANGED <<cfg, at, fpos, armed, hostRate, ctlRate, cmds, conf, ghosts>>

\* the length is taken from another byte than the third of an event
ReadGarbled ==
    /\ step = "read" /\ input # <<>>
    /\ insync => ConfAtHead
    /\ step' = "got" /\ event' = NoEvent /\ insync' = FALSE /\ conf' = 0
    /\ \E k \in 1 .. Len(input) : input' = SubSeq(input, k + 1, Len(input))
    /\ UNCHANGED <<cfg, at, fpos, armed, hostRate, ctlRate, cmds, log, resends, dup, failed>>

\* mutant of Return: no alarm(0)
ReturnArmed ==
    /\ step = "got" /\ Proc \notin {"dlbaud", "baud"}
    /\ IF Proc = "records" THEN step' = "call" /\ UNCHANGED at ELSE Advance
    /\ UNCHANGED <<cfg, fpos, armed, lineVars, event, ghosts>>

\* the procedure returns, proc_reset after alarm(0); proc_patchram reads its next record
Return ==
    /\ step = "got" /\ Proc \notin {"dlbaud", "baud"}
    /\ armed' = FALSE
    /\ IF Proc = "records" THEN step' = "call" /\ UNCHANGED at ELSE Advance
    /\ UNCHANGED <<cfg, fpos, lineVars, event, ghosts>>

\* proc_baudrate, after its read_event
SetSpeed ==
    /\ step = "got" /\ Proc \in {"dlbaud", "baud"}
    /\ hostRate' = cfg.baud /\ Advance
    /\ UNCHANGED <<cfg, fpos, armed, ctlRate, cmds, input, conf, event, ghosts>>

\* read(uart_fd, &buffer[0], 2), which takes one byte when there is one
Confirm ==
    /\ Calling("conf") /\ Advance
    /\ \/ /\ ConfAtHead
          /\ conf' \in IF Apart THEN {0, 1} ELSE {0}
          /\ UNCHANGED <<input, insync>>
       \/ /\ ~ConfAtHead /\ input # <<>>      \* two bytes of an event
          /\ input' = Tail(input) /\ insync' = FALSE
          /\ UNCHANGED conf
    /\ UNCHANGED <<cfg, fpos, armed, hostRate, ctlRate, cmds, event, log, resends, dup, failed>>

\* proc_enable_hci, which may fail, and the endless sleep
EnableHci ==
    /\ Calling("hci") /\ step' = "end"
    /\ failed' \in {failed, failed \/ Errors}
    /\ UNCHANGED <<cfg, at, fpos, armed, lineVars, event, log, resends, dup, insync>>

Exit ==
    /\ Calling("exit") /\ step' = "end"
    /\ UNCHANGED <<cfg, at, fpos, armed, lineVars, event, ghosts>>

\* mutant of Expired: without its alarm(4)
ExpiredOnce ==
    /\ armed /\ resends < MaxResends
    /\ Write("reset") /\ resends' = resends + 1 /\ armed' = FALSE
    /\ dup' = IF step = "got" \/ cmds # <<>> \/ input # <<>> THEN dup + 1 ELSE dup
    /\ UNCHANGED <<cfg, at, step, fpos, hostRate, ctlRate, input, conf, event, log, insync, failed>>

\* expired, also between the end of read_event and alarm(0)
Expired ==
    /\ armed /\ resends < MaxResends
    /\ Write("reset") /\ resends' = resends + 1
    /\ dup' = IF step = "got" \/ cmds # <<>> \/ input # <<>> THEN dup + 1 ELSE dup
    /\ UNCHANGED <<cfg, mainVars, hostRate, ctlRate, input, conf, event, log, insync, failed>>

----------------------------------------------------------------------------
(* The controller: no source of its own, it answers what it hears.  An event *)
(* leaves at the speed of its command and is lost on a host at another one.  *)

Deliver(c) ==
    IF hostRate = ctlRate
    THEN /\ input' = Append(input, [op |-> c.op, n |-> c.n])
         /\ conf' = IF c.op = "mini" /\ TwoBytes THEN 2 ELSE conf
    ELSE UNCHANGED <<input, conf>>

CtlAnswer ==
    /\ cmds # <<>> /\ Head(cmds).rate = ctlRate
    /\ cmds' = Tail(cmds) /\ Deliver(Head(cmds))
    /\ \/ /\ ctlRate' = CASE Head(cmds).op = "baud"   -> cfg.baud
                          [] Head(cmds).op = "launch" -> Low
                          [] OTHER                    -> ctlRate
          /\ UNCHANGED failed
       \/ Errors /\ failed' = TRUE /\ UNCHANGED ctlRate
    /\ UNCHANGED <<cfg, mainVars, hostRate, event, log, resends, dup, insync>>

\* a command at another speed is noise
CtlMiss ==
    /\ cmds # <<>> /\ Head(cmds).rate # ctlRate
    /\ cmds' = Tail(cmds)
    /\ UNCHANGED <<cfg, mainVars, hostRate, ctlRate, input, conf, event, ghosts>>

\* after power-on or the launch of a patch it does not hear the first resets
CtlBoots ==
    /\ cmds # <<>> /\ Head(cmds).op = "reset" /\ resends < MaxResends
    /\ cmds' = Tail(cmds)
    /\ UNCHANGED <<cfg, mainVars, hostRate, ctlRate, input, conf, event, ghosts>>

Main       == InitUart \/ ProcReset \/ ProcBaudrate \/ ProcPatchram \/ SendRecord
              \/ EndOfFile \/ ProcSetting \/ ReadEvent \/ ReadGarbled \/ Return
              \/ SetSpeed \/ Confirm \/ EnableHci \/ Exit
Controller == CtlAnswer \/ CtlMiss \/ CtlBoots
Next       == Main \/ Expired \/ Controller
Spec       == Init /\ [][Next]_vars
\* the process is scheduled, its alarm goes off and the controller answers
FairSpec   == Spec /\ WF_vars(Main) /\ WF_vars(Expired) /\ WF_vars(Controller)

----------------------------------------------------------------------------
Ops    == {"reset", "baud", "mini", "record", "launch", "bdaddr", "lpm", "sco", "pcm", "i2s"}
Cmds   == [op : Ops, n : Nat, rate : Rates \cup {NoBaud}]
Events == [op : Ops, n : Nat]

TypeOK ==
    /\ cfg \in Options /\ at \in 1 .. Len(Order)
    /\ step \in {"call", "read", "got", "end"}
    /\ fpos \in 0 .. Records /\ armed \in BOOLEAN
    /\ {hostRate, ctlRate} \subseteq Rates \cup {NoBaud}
    /\ cmds \in Seq(Cmds) /\ input \in Seq(Events) /\ conf \in 0 .. 2
    /\ event \in Events \cup {NoEvent}
    /\ log \in Seq(Ops) /\ resends \in 0 .. MaxResends /\ dup \in 0 .. resends
    /\ insync \in BOOLEAN /\ failed \in BOOLEAN

\* The event main() goes on with answers the command it wrote last, or one that at most
\* as many resets follow as the alarm wrote without need: nothing else lets an answer be
\* taken for that of a later command.
EventLag == step = "got" /\ insync => Count - event.n <= dup

\* The options fit the controller: the two bytes are read if it sends them, and there
\* is a record to launch when the speed is set back after the download.
Fits == /\ "hcd" \in cfg.flags => TwoBytes = ("no2bytes" \notin cfg.flags)
        /\ "hcd" \in cfg.flags => Records > 0

\* Without a spurious reset and an error, no command is written at a speed that the
\* controller does not have.
RatesAgree ==
    Fits /\ Cold /\ dup = 0 /\ insync /\ ~failed =>
        \A i \in DOMAIN cmds : cmds[i].rate = ctlRate

\* In a controller that the options fit, every read of an event starts at its first
\* byte, as long as the alarm wrote no reset too many: the two bytes of the minidriver
\* are neither left in the UART nor taken from the next event.
InSync == Fits /\ dup = 0 => insync

\* the commands the options ask for
When(flag, ops) == IF flag \in cfg.flags THEN ops ELSE <<>>
Baud     == IF cfg.baud = NoBaud THEN <<>> ELSE <<"baud">>
Download == <<"mini">> \o [i \in 1 .. Records |-> IF i = Records THEN "launch" ELSE "record"]
            \o <<"reset">>
Script   == <<"reset">> \o When("use_baudrate_for_download", Baud) \o When("hcd", Download)
            \o Baud \o When("bdaddr", <<"bdaddr">>) \o When("enable_lpm", <<"lpm">>)
            \o When("scopcm", <<"sco", "pcm">>) \o When("i2s", <<"i2s">>)

Exchange == INSTANCE HciExchange WITH
    script <- Script, sent <- log, ended <- step = "end",
    taken <- IF step = "read" THEN Len(log) - 1 ELSE Len(log)

\* Resets of the alarm aside, main() writes the commands the options ask for, in their
\* order, each after an event was read, and ends after the last one.
ImplementsExchange == Exchange!Spec

\* When the options fit a controller that was just powered on, main() ends, unless an
\* error or a spurious reset comes in its way.
Finishes == Fits /\ Cold ~> (step = "end" \/ failed \/ dup > 0)

\* Not so for the code without a power cycle: init_uart sets 115200 baud, and a
\* controller left at another speed by an earlier run never hears the reset.
FinishesWarm == Fits ~> (step = "end" \/ failed \/ dup > 0)

\* "It will return 0 for success and a number greater than 0 for any errors."
\* Not so for the code: no status is looked at.
ExitZeroMeansSuccess == step = "end" /\ Proc = "exit" => ~failed
=============================================================================
