# Verification of a Bluetooth host: bring-up, device notifications and the btusb driver

This directory holds TLA+ models of the code under `src/`, the TLC
configurations that check them on small instances, and proofs checked by TLAPS.
`PROJECT.json` is the index: which definition stands for which lines, what each
run checks, which change of the code each property would catch, and what is
proved.

The repository packages a Bluetooth stack for an embedded Linux product. Three
parts of it carry logic of their own and have a source:

- **brcm_patchram_plus1** (`src/brocm_hciattach/`), the program that finds or
  makes the Bluetooth address of the product, resets the controller behind the
  UART, downloads its firmware patch and configures it;
- **DeviceIO** (`src/deviceio/`), the interface of the product's library to LEDs,
  keys, volume and network; the library is binary, its headers and the program
  that drives it (`test/DeviceIOTest.cpp`) are here;
- **btusb** (`src/3rdparty/embedded/brcm/linux/btusb/`), Broadcom's kernel driver
  that gives the stack a character device `/dev/btusbN` carrying HCI packets in H4
  framing, over the USB endpoints of a Bluetooth controller.

The stack itself (`bsa_server`, `libbsa`) is closed; the rest are sample
applications that drive it and small tools.

Paths of the driver below are relative to `src/3rdparty/embedded/brcm/linux/`;
`patchram.c` is `src/brocm_hciattach/brcm_patchram_plus1.c`.

## 1. Inventory

### brcm_patchram_plus1

| Component | Code | State | Operations |
|---|---|---|---|
| Command line | `patchram.c:198-611` | the globals the options set | one `parse_` function per option, `usage`, opening the port |
| Bluetooth address | `patchram.c:288-390`, `837-879` | bytes 4..9 of `hci_write_bd_addr`; `/data/cfg/device_info.txt` and its copy `device_info` | `readApName`, `writeApName`, `parse_bdaddr_rand`, `parse_bdaddr`, `read_default_bdaddr` |
| Bring-up | `patchram.c:613-835`, `881-940` | the speed of the UART, the pending alarm, the position in the HCD file, `buffer` | reset and its alarm, baud rate, minidriver, records, settings, `enable_hci` |
| Download loop | `patchram.c:657-686`, `741-751` | `buffer`, `i`, `len` | reading a record, sending it, reading its event in pieces |

How they interact: `main()` reads the command line, then runs the procedures the
options want, in a fixed order. Each writes a command and waits in `read_event`
for one event. A signal handler, `expired`, writes the reset again every four
seconds until the reset was answered. The address of `--bd_addr_rand` is kept in a
file that later runs of the program, and other programs through the copy, read.

What is hard. The program is one thread, but not alone: the power fails, or the
process is killed, between the write, the `fsync` and the `cp`, which empties the
copy before it fills it. The alarm may write a reset when the answer to the first
one is on its way, or was just read: from then on there is one answer more than
commands `main()` wrote. Host and controller change speed at different moments:
after the event of the command, and again when a patch is launched. Some
controllers send two bytes more than an event after the minidriver command, and
`read` may return one of them. The HCD file may be cut off inside a record; the
UART hands out an event in pieces of any size.

What makes it correct: an address once kept is never replaced, and is durable
before it is copied or used; the commands the options ask for are sent in their
order, each after an event was read for the one before; `read_event` starts at the
first byte of an event; no command is written at a speed the controller does not
have; the program ends; nothing is read outside of `buffer`.

### DeviceIO

`DeviceInputWrapper` of `src/deviceio/test/DeviceIOTest.cpp` receives the calls of
the library: `netlinkNetworkStatusChanged` from a thread of the network,
`callback` from a thread of the keys. State: the network status and the volume
(in the library, read by `getNetworkStatus` and `getVolume`), the LEDs, `micmute`.

What is hard: the network callback ignores its argument and reads the status there
is, which may have changed since, or may change again before the LED is set; the
key that enters AP mode reads the status, then starts or stops a configuration;
a volume key reads the volume, then sets another.

What makes it correct: the LEDs end at the status there is, whatever changed during
a callback; a failed configuration leads to a recovery.

### btusb

| Component | Code | State | Operations |
|---|---|---|---|
| Receive path and lifetime | `btusb/src/btusb.c`, `btusb_dev.c`, `gki/gki_buffer.c` | URBs and their anchors, `rx_queue`, GKI headers, `p_rx_msg`, `opened`, `kref`, `p_main_intf`, `p_voice_intf` | URB completions, open, poll, read, release, suspend, resume, probe, disconnect, `btusb_delete` |
| Voice packet queue | `btusb/inc/btusb_cq.h` | `in`, `out`, `buf`, `mask` | put, get, length tests |
| Write path | `btusb_dev.c` (`btusb_write`, `btusb_submit_*`), `btusb_lite_hci.c` | `write_msg`, the transaction pools, `autopm` | write, submit, completion, the lite thread's ACL |
| Voice transmission | `btusb_dev.c` (`btusb_submit_voice_tx`) | the voice transactions, `voice_tx_active` | cutting a packet into isochronous URBs, completion, cancellation |
| Voice reception | `btusb_isoc.c` | header buffer, packet and remaining length per channel | reassembly of SCO packets from frames |
| Voice channels | `btusb_dev.c` (ioctls) | `voice_rx.channels`, the alternate setting | add, remove, update, set |
| GKI buffers | `gki/gki_buffer.c`, `gki_klinux.c` | pools, free lists, queues, header status | getbuf, freebuf, enqueue, dequeue, remove |
| btusb lite | `btusb_lite*.c` | AV streams, SBC encoder, L2CAP and AVDT channels | timer thread, PCM input, flow control |
| proc, scosniff | `btusb_proc.c` | statistics, list of sniffed packets | text reads and writes |

How they interact:

- The **host controller** owns an URB from `usb_submit_urb` to its completion.
  A completion with data puts the buffer of the URB on `rx_queue` (under the GKI
  spinlock) and wakes `rx_wait_q`; the URB is *not* submitted again. The reader
  takes the buffer into `p_rx_msg`, reads it in one or several calls, and when
  the last byte is read `btusb_rx_dequeued` submits the URB again. A receive
  buffer therefore circulates controller, queue, reader, controller.
- **Voice** has its own URBs. `btusb_isoc.c` copies frames into packets taken
  from the lock-free `voice_rx_list` (got by the completion, put by the reader).
- **open** admits one application (`opened`), drains what an earlier one left,
  and takes a reference. **release** removes the voice channels, drops the
  reference and clears `opened`. **disconnect** wakes readers, marks the device
  gone, kills URBs, gives the minor back and drops the reference of the device;
  whoever drops the last one frees the control block.
- The **write path** gathers H4 packets in `write_msg` and submits each on the
  pipe of its type, with a transaction from a fixed pool that the completion
  releases. SCO packets go to `btusb_submit_voice_tx`.

What is hard: no lock is held across the open/read/poll/release callbacks;
completions run in interrupts on any processor; disconnect, ioctls and power
management cancel URBs whose buffers may be with the reader; the last reference
may be dropped by two parties; the lock-free queue; partial failures
(submissions, copies, allocations) in the middle of multi-step calls.

What makes it correct: every buffer has one owner and none leaks; messages
arrive in order and once; the control block outlives its users and is freed;
sleepers are woken; the byte stream of the application reaches the controller
as the same packets; voice frames add up to the packets.

### Other components

| Component | Code | What it is | Hard behaviour |
|---|---|---|---|
| dhd_priv | `src/brocm_hciattach/dhd_priv.c` | one ioctl to the Wi-Fi driver | none |
| DeviceIO Bluetooth, media player | `src/deviceio/DeviceIO/include/DeviceIo/Rk*.h`, `src/deviceio/librkmediaplayer/`, `src/deviceio/test/bt_test.cpp` | headers of binary libraries, and menus of one call each | not in the sources |
| bthid | `bthid/bthid.c` | kernel HID pass-through | none beyond one open file |
| btdl | `btdl/source/` | firmware download over HCI | sequential |
| app_mutex | `bsa_examples/linux/app_common/source/app_mutex.c` | mutex used as a binary semaphore | unlocked by a thread that does not hold it |
| app_av | `bsa_examples/linux/app_av/` | A2DP source | stream thread, callbacks and menu share a play state |
| app_dg, app_hl | `bsa_examples/linux/app_dg/`, `app_hl/` | data gateway, health device | UIPC flow control against close and reopen |
| app_hs | `bsa_examples/linux/app_hs/` | headset | two audio threads started and stopped by flags |
| app_avk | `bsa_examples/linux/app_avk/` | A2DP sink | ALSA handle shared with a callback |
| app_common, BLE and other profile applications, qt_app | `bsa_examples/linux/` | menus, parsing, one server call per operation | little protocol of their own |
| bsa_server, libbsa | binary | the stack | no source |

(`bsa_examples/` is `src/3rdparty/embedded/bsa_examples/`.)

The hazards of every component, at the line where each one bites, are listed
under "hazards" in `PROJECT.json`, with the property that covers it or the
reason none does.

## 2. Modules

| Module | What it is |
|---|---|
| `PatchramOptions` | the globals the command line sets, shared by the next two |
| `PatchramArgs`, `PatchramArgs_proofs` | the command line and the address file, with kills and power failures; its invariants, proved |
| `Patchram`, `Patchram_proofs` | the bring-up, its alarm and the controller; its invariants and its refinement of `HciExchange`, proved |
| `PatchramDownload`, `MCPatchramDownload` | the download loop, byte by byte; the files and events TLC feeds it |
| `PatchramDownload_proofs` | its invariants and its refinement of `HciExchange`, proved |
| `HciExchange` | what both promise: a script of commands, each sent after the event of the one before |
| `DeviceInput`, `DeviceInput_proofs` | the callbacks of `DeviceInputWrapper`; its invariant, proved |
| `BtusbRx` | receive path and lifetime of the device |
| `RxChannel` | what the receive path promises: a first-in first-out channel with one message held by the reader |
| `MCBtusbRx` | symmetry for TLC |
| `BtusbRx_proofs` | invariants of `BtusbRx`, who owns each of its buffers, and its refinement of `RxChannel`, proved |
| `BtusbCq` | the lock-free queue, one step per access |
| `BoundedFifo` | what the queue promises |
| `BtusbCq_proofs` | invariants of `BtusbCq` and its refinement of `BoundedFifo`, proved |
| `BtusbVoiceTx`, `BtusbVoiceTx_proofs` | voice transmission; its transactions, its count of frames and the bytes it sends, proved |
| `BtusbWrite`, `MCBtusbWrite` | the write path; the packet streams TLC feeds it |
| `BtusbWrite_proofs` | the transactions of `BtusbWrite`, its use of the interface, the stream it passes on and its types, proved |

No module declares a RECURSIVE operator.

### PatchramArgs

`phase` is where `main()` is; `cfg` the set of flags and the baud rate of
`PatchramOptions`; `addr` the address for the controller; `cache` and `disk` the
two files as system calls see them and as a power failure leaves them. The content
of a file is an address, `Default` (the factory default), `Junk` (too short, or no
address at offset 36) or `Absent`; what `sscanf` does not fill is `Garbage`.

| Action | Code |
|---|---|
| `ReadDefault` | `read_default_bdaddr`, in the ANDROID build |
| `ParsePatchram`, `ParseBaudrate`, `ParseBdaddr`, `ParseEnable`, `ParseScopcm`, `ParseI2s`, `ParseNo2bytes`, `ParseTosleep` | the `parse_` functions, with the error of `parse_cmd_line` |
| `Usage` | an option `getopt_long_only` does not know |
| `ReadApName`, `WriteApName`, `FsyncApName`, `CopyOpen`, `CopyFill` | `parse_bdaddr_rand`, cut at each system call that changes a file |
| `OpenPort` | the end of `parse_cmd_line` |
| `Writeback`, `Kill`, `PowerFail` | external: the page cache, and whatever ends the run and starts another |

`from`, `killed`, `ignored` and `faults` are ghosts. `MaxArgs` bounds the options
of a command line, `MaxFaults` the kills and power failures. Not modelled: a write
that fails or is short (a full disk), and a kill of the shell that runs `cp` but
not of the program.

### Patchram

`at` is the procedure of `main()` in `Order`, `step` how far it is (`call`, `read`:
waiting in `read_event`, `got`: an event is in `buffer`, `end`). `cfg` starts
as any value `PatchramArgs` may leave in it: `main()` runs this half under the
globals the other half set. `hostRate` and `ctlRate` are the speeds at the two ends;
`cmds` what the controller has not looked at, `input` and `conf` what is in the
host's UART; a command carries the speed it was written at and its number.

| Action | Code |
|---|---|
| `InitUart`, `ProcReset`, `ProcBaudrate`, `SetSpeed`, `ProcPatchram`, `Confirm`, `SendRecord`, `EndOfFile`, `ProcSetting`, `EnableHci`, `Exit` | `main()` and the `proc_` functions, cut at each `read_event` |
| `ReadEvent`, `ReadGarbled` | `read_event`, which starts at the first byte of an event, or not |
| `Return` | the end of a procedure, with `alarm(0)` |
| `Expired` | the signal handler |
| `CtlAnswer`, `CtlMiss`, `CtlBoots` | external: a controller that answers what it hears, hears nothing at another speed, and drops resets while it boots |

`Records` and `MaxResends` bound the file and the alarms. A reset by the alarm that
is written when nothing is lost is counted by `dup`, an error by `failed`.
`TwoBytes`, `Apart`, `Cold` and `Errors` choose what controller there is. Left out:
the debug dump, the contents of settings, and the bytes of events, which are those
of `PatchramDownload`. After a read out of step, events are consumed by any number:
where the next read starts is not followed.

### PatchramDownload

The loop of `proc_patchram` with `read_event`, one action per read: `ReadHeader`,
`SendRecord` (the payload and `hci_send_cmd`), `ReadEvent` (a read of any size up to
what was asked for) and `EndOfFile`; `CtlAnswer` is the controller. `buffer`, `i`,
`len` are the variables of the code; bytes are numbers because the length of a
record is one of them. With `ReadFails`, a read of the UART or of the file may
return -1, which no one looks at: it is added to the position in `read_event`, and
in the loop (741) it counts as a header read, so that what `buffer` holds is sent. `File` is the whole HCD file and `Start` says where its
records begin; `DownloadAssumption` says what an HCD file is. A file cut off anywhere makes reads short; what the
buffer held before stays in it.

Both modules are shown to implement `HciExchange`: `Patchram` for the script that
the options ask for, with the loop as one command and one event per record,
`PatchramDownload` for the records that the file holds whole. That is the link
between them: what the first takes the loop for, the second shows it is.

### DeviceInput

| Action | Code |
|---|---|
| `StatusChanges` | external: the library sets a status and posts a notification |
| `Notify`, `ReadStatus`, `ControlLed`, `ControlWifi` | `netlinkNetworkStatusChanged`, cut at each call of the library |
| `Callback`, `SetVolume`, `EnterAp` | `callback`, cut between what it reads and what it asks for |

The library is taken as its header shows it: it keeps one status, posts a
notification for each change, and delivers them one at a time, in a thread other
than the one of the keys. Two of the eleven statuses have no LED. `MaxNotes` bounds
the notifications posted and not delivered, `MaxVolume` is the 100 of `setVolume`.
Events on which `callback` only prints are one event, `"other"`. That the library
posts one notification for each change, and from which threads it calls, is an
assumption: its headers only declare the calls. `LedFollows` and `RecoveryAsked` rest on
it.

### BtusbRx

Variables carry the names of the fields of `btusb_cb_t` where there is one
(`rx_queue`, `p_rx_msg`, `voice_rx_list`, `opened`, `kref`); `submitted` is the
set of URBs the host controller owns, `len` and `h4_sent` the part of a message
still to read, `pc`/`dpc`/`cancelling` where the threads are. A message *is* its
buffer; its bytes are a length.

| Action | Code |
|---|---|
| `ProbeSubmit`, `ProbeEnd`, `ProbeDeregister`, `ProbePut` | `btusb_probe` after `usb_register_dev`, with its error path |
| `UrbData`, `UrbIdle` | `btusb_event_complete`, `btusb_acl_read_complete`, `btusb_diag_read_complete`, `btusb_rx_enqueue` |
| `VoiceRxGet`, `VoiceRxFull`, `VoiceDies` | `btusb_voicerx_complete`, `btusb_isoc_check_hdr`, `btusb_isoc_check_pkt` |
| `OpenCheck`, `OpenSet`, `OpenDrain`, `OpenDone` | `btusb_open`, cut where another thread can come between |
| `PollEnter`, `PollRegister`, `PollTest`, `PollWake`, `WaitInterrupted` | `btusb_poll` as the poll system call drives it: the test of `p_main_intf` (803), `poll_wait` (809) and the test of the queue are three steps |
| `ReadWait`, `ReadCopy`, `ReadFault`, `ReadClear` | `btusb_read` |
| `VoiceIoctl`, `VoiceIoctlEnd`, `CancelTurn` | the voice ioctls and `btusb_cancel_voice` |
| `Release`, `ReleaseChan`, `ReleasePut`, `ReleaseFlag` | `btusb_release` |
| `PmDrain`, `Suspend`, `Sleep`, `ResumeStart`, `Resume`, `ResumeEnd` | `btusb_suspend`, `btusb_resume`, called by the USB core per interface |
| `DiscWake`, `DiscDown`, `DiscCancel`, `DiscDeregister`, `DiscPut` | `btusb_disconnect`; `ReleaseIntfs` is the release of the voice and DFU interfaces (1101, 1113), which enters `btusb_disconnect` again and wakes `rx_wait_q` a second time |
| `KrefPut` | `kref_put` and `btusb_delete` |

What the model takes from outside the driver (external in the map, or written in
a comment): `usb_submit_urb` refuses an active URB and a disabled endpoint; the
USB core suspends interfaces from the last to the first (diag, voice, main) and
resumes them the other way, and flushes endpoints at the end of a suspend and at
the start of a disconnect; `usb_open` holds `minor_rwsem` for reading while
`btusb_open` runs and `usb_deregister_dev` takes it for writing.

Choices:

- `SerialOpen`: nothing in the driver makes the test of `opened` (btusb_dev.c:374)
  and its assignment (383) one step. On kernels that call open under the big
  kernel lock they are; the passing runs assume this, and so do the theorems about
  the owners of buffers. `rx_two_opens.cfg` shows what happens otherwise: no property
  of the runs claims that one application at a time has the device open. What
  holds with two all the same is proved without the assumption.
- `Voice`: the controller has a second interface. Without one, nothing wakes a
  process in poll after `p_main_intf` is cleared.
- One reader per open file. Two threads of one process in `read` share
  `p_rx_msg`; this is a listed hazard.
- A turn of `btusb_cancel_voice` for one channel and `btusb_delete` are one step
  each. User processes are not frozen during a suspend. An URB submitted while
  active would be on two anchors; the model does not follow anchors.
- After a failed probe, the endpoints of the main interface stay enabled until
  the USB core unbinds it; the model leaves them enabled.
- Content of messages, H4 types, debug output and the proc file are left out. The
  reassembly of voice packets is abstracted to "a packet is taken", "a packet is
  complete".

### BtusbCq

One producer and one consumer; the test, the access to the slot and the update of
the counter are separate steps, interleaved everywhere. The counters are unsigned
integers below `Wrap`; a masked counter is the counter modulo `Size`, and `Size`
divides `Wrap`, which is what a power of two below 2^32 gives. Steps of one side
happen in program order, an assumption about the processor: `smp_wmb` (btusb_cq.h:112)
orders stores only, and nothing orders the consumer's read of `in` before its read of
the slot. Reordering by a weakly ordered processor is not modelled.

### BtusbVoiceTx

The loop of `btusb_submit_voice_tx` is cut at each access to shared state
(transactions, anchors, `voice_tx_active`) and at each frame. Bytes are tokens
(`<<"d", i>>` of the data, `<<"h", n>>` of a header that announces `n`), so that
"the header of a burst is built over bytes already copied" is a fact about the
sequence `packet`. `Bursts(l)` says byte by byte what has to go out for `l` bytes of
data. Completions run to their end between two steps of the writer
(`Smp = FALSE`) or on another processor (`Smp = TRUE`, release and count are two
steps). `Cancels` lets an ioctl or a disconnect kill the URBs. One call runs at a
time: a write of SCO packets, or the kick-off of `btusb_update_voice_trans`
(btusb_dev.c:1674), which sends a packet of one burst. A kick-off while another
processor is in a write of SCO packets is not modelled, nor are the returns for a
packet shorter than its header or a channel without a packet size, which change
nothing. The low-water mark of 30 frames (btusb_dev.c:1537) is a constant.

### BtusbWrite

The application writes a stream of packets in chunks; `user` is what is left of
the buffer of the current call. `write_msg`, `err`, `autopm` are the variables of
the code; `pm` is the usage count of the interface. A byte is `<<p, k>>`, so
losing, doubling or mixing bytes shows. `Stream` and `Start` are the bytes of all
`Packets` and where each begins (`StreamAssumption`; `MCBtusbWrite` computes them). `handed` and `failed` record what was
submitted and which calls returned an error. Command and ACL headers have one
length `Hdr`. "vsc" is a vendor command that the lite filter handles itself, "bad"
an unknown H4 type, "long" a packet that announces more than the maximum. With
`Lite`, a second thread allocates and submits ACL packets. Left out: a second
writer, the header of firmware downloads, the `-E2BIG` checks (a packet that fits
`write_msg` fits an URB), disconnect and suspend during a write, SCO packets
(`BtusbVoiceTx`). What the application is assumed to do: it gives up a packet
when a write returns an error; one that splits packets stops after the first
error, and writes diagnostic, unknown and overlong packets in a call each, as the
driver cannot tell their end.

## 3. Runs

`tlc -workers 2 -config X.cfg M` in this directory. States are distinct states.

| Run | Instance | Shows |
|---|---|---|
| `patchram_args` (660,910) | two addresses, three options, two kills or power failures, files of any content at first, as long as a copy that holds an address agrees with its file | the address file is durable before it is copied (`CopyHonest`) or used (`AddrDurable`), and an address once on the disk is never replaced (`AddrPersists`) |
| `patchram` (681,878) | every set of options and rate, two records, two bytes after the minidriver, errors, two resets by the alarm, fairness | an event is taken for that of a later command only after spurious resets, and by no more than their number (`EventLag`); both ends agree on the speed (`RatesAgree`); reads start at an event (`InSync`); the commands are the script (`ImplementsExchange`); `main()` ends (`Finishes`) |
| `patchram_download` (556) | three records, events of two lengths, a file cut off at each byte, reads of every size, fairness | the records that are there are sent as they are (`ImplementsExchange`), with at most one command more (`NothingElse`); each event is read whole (`EventWhole`), inside the buffer (`InBounds`); the loop ends |
| `device_input` (227,400) | two notifications pending, all eleven statuses, volumes 0 to 3, fairness | the LEDs end at the status there is (`LedFollows`); a failed configuration leads to a recovery (`RecoveryAsked`) |
| `rx_ownership` (1,011,697) | two processes, one event URB, one ACL URB, two voice packets, one channel, no suspend | a receive buffer has one owner (`UrbOneOwner`) and none leaks (`UrbConserved`, `PktConserved`); the reference count is exact and the control block is freed when nothing uses it, whenever the unplug comes |
| `rx_power` (414,378) | one process, one event and two diag URBs; suspends, failing submissions, lost URBs, failing probes | the GKI headers tell the truth although resume submits URBs behind the reader's back (`QueueHonest`), no lost wake-up (`NoLostWakeup`) |
| `rx_channel` (302,357) | one process, both endpoints, one voice packet, messages of one or two bytes, fairness | the receive path implements `RxChannel`; a sleeper with a message to read returns (`SleeperServed`); an unplug completes, and on a controller with a voice or DFU interface it wakes who sleeps in poll (`UnplugNotifiesSelect`) |
| `cq_fifo` (6,464) | four slots, counters modulo 8, two values | the queue implements `BoundedFifo` across the wrap; the sides never share a slot |
| `voice_tx_data` (28,322) | three transactions of three frames of two bytes, bursts of four, data of 1, 4, 7 and 8 bytes, fairness | the frames add up to the bursts of the packet; `voice_tx_active` is exact; the call returns |
| `voice_tx_trans` (291,712) | two transactions, frames of three bytes; failing submissions, another processor, cancellations | no transaction leaks or is reused while its URB is in flight |
| `write_stream` (10,413) | five packets (command, ACL, diag) cut anywhere, two transactions per pipe, autopm and failures | what was submitted, what is gathered and what is left are the stream so far (`StreamKept`); transactions are accounted for; the interface is held while a packet is in flight |
| `write_errors` (21,839) | seven packets of every kind, one transaction per pipe, lite, every failure, fairness | only whole packets are submitted, even after errors; every call returns |

Why these bounds are enough to be interesting. Two addresses are one in the file
and another one that might replace it. Two faults are a kill in the middle
of `parse_bdaddr_rand` and a power failure in the run after it, the case in which an
address is used without being durable; three options let `--bd_addr_rand` come
twice, and with `--bd_addr`. Two records are one that downloads and one that launches;
two resets by the alarm are one that is needed (the controller boots) and one that
is not, or two of either kind. A third record only repeats the second step of the
loop; the loop itself is `patchram_download`, where three records with payloads of
two, none and one byte leave in the buffer, for the next, more or less than it
needs. Two notifications let one change come before and one during a callback.
Two processes let one open or
have its open refused while the other reads, polls or closes. One URB per endpoint suffices for ownership, as URBs of an
endpoint never look at each other, but for diag URBs, of which the last on its
anchor is not forwarded: hence two. Two voice packets and one channel let a packet
be free, assembled, queued and read at the same time as another, and make the free
list run empty and full. A message of two bytes is read in two calls, with the H4
type before. Four slots and counters modulo 8 make the queue full, empty and
wrapped in every combination. Three frames of two bytes hold one burst of four
with its header of two exactly, as on the channels where the property holds; 7 and
8 bytes are two bursts, the second short or whole. `ActiveBound` caps
`voice_tx_active`, which drifts in `voice_tx_trans`; no other counter is unbounded.

Each property has a mutant in `PROJECT.json`: a plausible bug in one definition,
under which TLC finds the property violated with the same configuration.

`CHECK_DEADLOCK FALSE` appears where the system may really stop: a program that has
ended (`patchram*`), a device that reboots (`device_*`), a device that is
gone and whose files are closed (`rx_*`), an application that has written
everything (`write_*`), the bound `ActiveBound` (`voice_tx_trans`).

### Further instances

These configurations are kept to show the limits of the properties above, and are
not part of the list of runs. TLC finds each violated. Where a text in the
repository says otherwise, it is quoted.

| Configuration | Module | Violated | Why |
|---|---|---|---|
| `args_errors.cfg` | `PatchramArgs` | `ErrorsReported` | an unknown option or a bad rate is passed over; patchram.c:91: "It will return 0 for success and a number greater than 0 for any errors." |
| `patchram_exit.cfg` | `Patchram` | `ExitZeroMeansSuccess` | the status in an event is not looked at, and `main()` ends with `exit(0)`; same text |
| `patchram_warm.cfg` | `Patchram` | `FinishesWarm` | a controller left at another speed never hears the reset at 115200, and `main()` waits for ever |
| `patchram_apart.cfg` | `Patchram` | `InSync` | `read` of the two bytes returns when there is one; the other is read as the start of the next event |
| `patchram_read_fails.cfg` | `MCPatchramDownload` | `InBounds` | when `read` of the UART fails, its -1 is added to the position. (`NothingElse` fails there, too: a `read` of the file that fails sends what the buffer holds, as often as it fails.) |
| `device_recovery.cfg` | `DeviceInput` | `RecoveryWhenFailed` | the recovery is asked for after the status has changed |
| `device_stop.cfg` | `DeviceInput` | `StopWhileRunning` | the configuration that is to be stopped has ended meanwhile |
| `device_volume.cfg` | `DeviceInput` | `VolumeInRange` | a key adds to the volume without a limit; DeviceIo.h:465 "volume 0 ~ 100" |
| `rx_resume_resubmits.cfg` | `MCBtusbRx` | `ForwardedNotSubmitted` | `btusb_resume` submits every URB of an interface, the one whose buffer is `p_rx_msg` included: the controller writes into the message being read; btusb.c:203 "Do not resubmit since it was forwarded to the user" |
| `rx_unplug_select.cfg` | `MCBtusbRx` | `UnplugNotifiesSelect` | on a controller without a second interface (`Voice = FALSE`) the only wake-up comes before `p_main_intf` is cleared: a process woken by it can poll in between, find nothing, and sleep for ever; btusb.c:1045 "send a notification to select()" |
| `rx_write_after_free.cfg` | `MCBtusbRx` | `DeleteIsLast` | after an unplug, the `kref_put` of `btusb_release` frees the control block, then `opened` is cleared in it (btusb_dev.c:445); btusb.c:1436 "Fully remove the elements for a device" |
| `write_stale.cfg` | `MCBtusbWrite` | `ErrorMeansUnsent` | a packet whose write returned an error stays in `write_msg`, and the next write sends it; btusb_dev.c:621 "Number of bytes written, error number if negative" |
| `write_diag.cfg` | `MCBtusbWrite` | `WholePackets` | a diagnostic packet left in `write_msg` has no length: what the next write brings is sent as a part of it |
| `rx_two_opens.cfg` | `MCBtusbRx` | `OneApplication` | opens not serialised by the kernel: both pass the test of `opened` |
| `rx_probe_fails.cfg` | `MCBtusbRx` | `FreedUnused` | the node is registered before the URBs are submitted; a probe that fails then frees the control block of an open file |
| `rx_reopen.cfg` | `MCBtusbRx` | `OpenDiscards` | open drains `rx_queue` but not `p_rx_msg`: a new process reads the rest of the last message |
| `voice_tx_cancel.cfg` | `BtusbVoiceTx` | `ActiveExact` | the cancellation resets the count between a submission and its addition |
| `voice_tx_reuse.cfg` | `BtusbVoiceTx` | `ActiveExact` | on two processors, the completion releases the transaction, then reads its number of frames |
| `voice_tx_resends.cfg` | `BtusbVoiceTx` | `SameDataAgain` | the header of the second burst overwrites data that a resend needs |
| `voice_tx_truncates.cfg` | `BtusbVoiceTx` | `PacketSent` | where an URB does not hold a whole number of bursts, the end of the last burst is dropped |
| `voice_tx_spins.cfg` | `BtusbVoiceTx` | `CallReturns` | when submissions fail, `goto resend` never has enough frames in flight |
| `write_filter.cfg` | `MCBtusbWrite` | `HandledSucceeds` | `err` is returned uninitialised after a command the lite filter handled |
| `write_lite_race.cfg` | `MCBtusbWrite` | `FreeIsExclusive` | the search for a free transaction takes no lock |

## 4. Fairness

Only what the kernel schedules, and the other end of a wire where the code waits for
it, is fair. Weak fairness throughout.

- `Patchram`: `main()` is scheduled, a pending alarm goes off (`Expired`), and the
  controller looks at what it receives. `CtlBoots` is bounded, as `MaxResends` is:
  a controller boots in the end. `Finishes` excepts a spurious reset and an error,
  after which answers and commands may be out of step, and a controller that the
  options do not fit (`Fits`) or that was not just powered on (`Cold`).
- `PatchramDownload`: `main()` is scheduled and the controller answers; each read
  then returns at least one byte, so that pieces end.
- `DeviceInput`: the network's thread is scheduled, `NetworkThread` as a whole: it is
  one thread, and one of its steps is enabled until taken unless the device reboots.
  Nothing is assumed of the status or of the keys.
- `BtusbRx`: a process in the poll system call that can run is run (`PollTest`,
  `PollWake`, per process), and so is the thread of `btusb_disconnect` (its steps
  and its turns of `btusb_cancel_voice`). Weak fairness is enough: once enabled,
  these steps stay enabled until taken. No fairness is assumed of the device, of
  the application (it may never read, or never close the file) or of the user.
  `UnplugCompletes` therefore excepts a process that stays inside `btusb_open`,
  for which `usb_deregister_dev` waits, and so does `UnplugNotifiesSelect`. The
  latter is about processes asleep in poll between the wake-up of btusb.c:1046 and
  the release of the second interface: they return because that release wakes them
  once more, with `p_main_intf` cleared. It does not hold of a process that tests
  `p_main_intf` before it is cleared and joins the queue after that last wake-up, nor
  of one in a blocking read, which does not look at `p_main_intf`.
- `BtusbVoiceTx`, `BtusbWrite`: the processor runs the system call. Nothing makes
  an URB complete. `CallReturns` further assumes that submissions succeed and
  that at most `InCall` URBs complete during one call: an isochronous URB lasts
  milliseconds, a call microseconds. Without such a bound the call could send the
  data again as fast as frames leave.

## 5. Proofs

`tlapm M_proofs.tla`. The theorems are about every value of the constants that
satisfies the assumptions of the module; `TypeOK`, `LenHonest` etc. are the very
formulas the runs check.

- **PatchramArgs_proofs** (`CopyIsHonest`, `AddrIsDurable`, `AddressKept`).
  `IInv == TypeOK /\ FilesAgree /\ WriteOnce /\ Synced /\ AddrOfFile`. What survives a
  power failure is what `disk` says, and `disk` follows `cache` at any moment; so
  `FilesAgree` relates all four contents: an address on the disk is the one in the
  cache, and the copy, cached or durable, holds no other than the file's.
  `WriteOnce` says what each `phase` of `parse_bdaddr_rand` may rely on (it
  writes only over no address, and copies what it has synced), `Synced` that only a
  kill, or the gap between write and `fsync`, leaves an address in the cache alone.
  `AddressKept` is an action property: from `IInv`, a step that would replace an
  address on the disk has to be a `Writeback` or an `fsync` of another one, which
  `FilesAgree` excludes. For all addresses, options and numbers of faults.
- **Patchram_proofs** (`TypeCorrect`, `EventsLag`, `StaysInSync`, `SpeedsAgree`,
  `ImplementsHciExchange`).
  The inductive invariant is `IInv == SafeInv /\ SyncInv /\ RatesInv`. `SafeInv`
  bounds how far answers may lag: at most one thing is under way for the command
  `main()` waits for, and one per spurious reset (`Pending`), and each of them is as
  many commands old as it is deep in the queue (`PendingLag`); `EventLag`
  is the case of the one just read. Without spurious resets all that is under way
  belongs to the procedure `main()` is in (`OwnOp`), and so the two bytes of the
  minidriver are there exactly when `Confirm` reads them (`ConfInTime`): that is
  `InSync`. `RatesInv` adds where in the procedures the two speeds may differ: between
  the answer to a baud-rate command and `SetSpeed`, and from the launch to
  `EndOfFile`; `RatesAgree` follows. `StaysInSync` assumes `~Apart`:
  `patchram_apart.cfg` shows why. For every number of records and
  resends, set of rates and options. The refinement rests on `LogInv`: the commands
  written are those of the procedures behind `main()`, one after the other, and of
  the records of the file so far. What the script of the options is at each of the
  14 places is computed once (`Done`); a step that sends appends what is due there,
  any other moves to a place where nothing more is due.
- **PatchramDownload_proofs** (`StaysInBounds`, `EventsWhole`, `NothingElseSent`,
  `ImplementsHciExchange`). `IInv == FileInv /\ EventInv`. `FileInv` relates the
  position in the file to the number of commands written: between two records
  (`Between`), or behind a header whose bytes are in `buffer` (`HeaderRead`), and
  what was written so far is the first records. At the end of a file that is cut
  off in a record there is one command more, made of what the buffer held.
  `EventInv` says that the bytes read and those in the UART are one event, and
  bounds the length that a stale header can announce by the last event in
  the buffer. The index arithmetic of `Start` is done in lemmas of their own
  (`StartFacts`, `ThereFacts`). For every file, cut, set of events and size of the
  buffer; all assume `~ReadFails`, and `patchram_read_fails.cfg` shows why.
- **DeviceInput_proofs** (`LedsFollow`). `IInv == NetType /\ ReadLast /\ LedSet`: when
  no notification is left, the status the callback read is the one there is, and
  the LED set from it stays right; a change after that read has left a
  notification. For any number of pending notifications.
- **BtusbRx_proofs** (`KrefCounts`, `FreeIsSafe`, `HeadersHonest`, `WakeupsKept`,
  `TypeCorrect`). The inductive invariant is

      Base == Types /\ KrefExact /\ Teardown /\ QueueHonest /\ NoLostWakeup

  and it is one whether the kernel serialises opens or not (`BaseInvariance` assumes
  nothing): however many applications have the device open, the count is theirs.
  None of the safety properties is inductive alone. `FreedUnused` needs to know where
  in its teardown the device is when the reference count is zero: `Teardown` says at
  which points URBs are killed and the minor is given back. `FreeIsSafe` assumes
  `~ProbeFails`, as `rx_probe_fails.cfg` requires; `KrefCounts`, `HeadersHonest` and
  `WakeupsKept` assume nothing. `TypeOK` says more than `Types`: a reader has the
  message it reads. That needs a single reader, hence `SerialOpen` and

      IInv == Base /\ OneApplication /\ OpenFlag /\ ReaderHasMessage

  where `OneApplication` follows from the flag only together with `OpenFlag` (a
  process past `OpenSet` implies `opened = 1`). Under `SerialOpen` these two are the
  kernel's doing; they are steps of the proof, not results.
- **BtusbRx_proofs**, the owners (`Ownership`, `OneOwner`, `UrbsKept`, `PktsKept`,
  `ImplementsRxChannel`). On top of that `IInv`, the invariant is

      Owned == Exclusive /\ Once /\ Kept /\ pm = "active"

  The three properties of the runs each speak of some of the owners; none is
  inductive, because a buffer moves from one owner to the next and its new owner
  must be known to be none of the others. `Exclusive` therefore names all six
  places a buffer can be in (controller, still to submit, queue, reader, free
  list, channel) and says they are pairwise disjoint, `Once` that the free list
  and the channels hold nothing twice, `Kept` that nothing is missing. The proof
  has a lemma per movement (`EnqueueMoves`, `DequeueMoves`, `PutMoves`, ...) and
  one per way a step moves a buffer. That the free list has room for a packet
  outside it is a counting argument: an injection into the other packets.
  `ImplementsRxChannel` maps the message held to `p_rx_msg`, and to none once it
  has been given back; that a message received is not already in the channel is
  `Exclusive`. The theorems assume `SerialOpen` and `~Pm` (a resume submits URBs
  whose messages are with the reader, `rx_resume_resubmits`); `UrbsKept` also
  assumes `~Faults`, as a failed submission is forgotten by the code.
- **BtusbCq_proofs** (`LengthBounded`, `NoSharedSlot`, `ImplementsBoundedFifo`).
  `IInv == TypeOK /\ LenHonest`. Lemmas about modular arithmetic give the effect of
  an increment on the length and distinct slots for distinct counters less than
  `Size` apart. The refinement goes step by step: `PutPublish` is `Put`, `GetLoad`
  is `Get`, all others leave `Contents` and `cval` unchanged.
- **BtusbVoiceTx_proofs** (`TransAccounted`, `TypeCorrect`, `ActiveCounted`,
  `SentWhole`).
  `IInv == TransType /\ TransHonest /\ FillingIsFree`: the transaction the writer
  is filling is not in flight. It holds for every number of transactions, every
  data length, and with failures, cancellations and completions on other
  processors. `ActiveCounted` writes the sum of the frames in flight as the
  cardinality of the set of all (transaction, frame) pairs (`FramesIn`), so that a
  submission and a completion add and remove a finite set; it assumes `~Smp` and
  `~Cancels`, as `voice_tx_reuse.cfg` and `voice_tx_cancel.cfg` require.
  `SentWhole` follows the cursor: after `j` headers (`CutAt`), the bytes sent and
  those of the frames pending are the bytes of the bursts (`ByteInv`), and the
  frames of an URB end where a burst does (`FitsAt`). It assumes that an URB has
  room for a whole number of bursts, each filling the last of its frames
  (`WholeBursts`): three bursts of 48 + 3 bytes in nine frames of 17, or one burst per
  frame of 51 bytes and more, but not frames of 9 bytes, the case of
  `voice_tx_truncates.cfg`. A packet of more than one burst that is sent again
  after a failure has lost its data (`lost`, `voice_tx_resends.cfg`), and
  `PacketSent` says nothing of it.
- **BtusbWrite_proofs** (`TransAccounted`, `InterfaceHeld`, `StreamIsKept`,
  `PacketsWhole`, `TypeCorrect`).
  `IInv == LiteIdle /\ TransHonest /\ FoundIsFree /\ HeldSinceRequest`: the
  transaction found by the search stays free until it is marked, and the interface
  is held from its request to the completion. The search picks the least free
  index, which exists because the pool is a finite set of numbers. These two theorems
  assume `~Lite`: with the lite thread `FoundIsFree` fails, which is what
  `write_lite_race.cfg` shows.

  The bytes rest on `PlaceInv`: until a call fails, there are a packet `p` and a
  number `m` such that `write_msg` is the first `m` bytes of packet `p`, `user` is
  what follows up to the last byte written, and `m` is the whole packet exactly while
  it is being submitted (`Gathers`); and `p` is the next packet to be
  submitted (`Counted`). `StreamKept` is not inductive, as it does not say where in
  a packet the writer is. All pieces are slices of `Stream`, so that appending,
  giving back the excess and going on with the next packet are lemmas about slices
  (`SliceOfSlice`, `SliceJoin`, `BytesSlice`). `StreamIsKept` assumes `Carried`: no
  packet is of a kind that the driver drops without an error (unknown types, commands
  the lite filter handles, diagnostics without a diagnostic interface); the lite
  thread, failures and autopm are free.

  `PacketsWhole` needs what `PlaceInv` leaves open, the time after a failure.
  `WholeInv` adds that an application that splits packets has stopped, or that, for
  one that writes its packets one by one, `user` and `write_msg` are a whole packet
  each or empty, with a packet left over in `write_msg` of a kind whose header has
  its length (`Kept`). It assumes `Settled`, that no diagnostic packet can be left over
  there: `write_diag.cfg` is the case where one is.

  `TypeCorrect` assumes no more than the module does. `TypeInv` adds to `TypeOK` that a packet being
  submitted is there and of a kind that has a pipe (`OneKind`), and that what
  `write_msg` holds, diagnostics apart, is at most the packet its first byte
  announces (`Fits`): otherwise the packet left over from a failed call and the bytes
  appended after it could make `AppendWhole` give back to the user more than it took.

Only model-checked: liveness (`SleeperServed`, `UnplugCompletes`,
`UnplugNotifiesSelect`, `CallReturns`,
`WriteReturns`, `Finishes` of both modules, `RecoveryAsked`), which is out of the
prover's reach, as is ENABLED. Every safety property of the runs, action properties
and refinements included, is proved, under the assumptions named above. The type
invariants of `BtusbCq`, `BtusbVoiceTx` and `BtusbWrite` are stated but not checked by a
run of the list; they are proved.

## 6. Not modelled, and why

- **Closed or binary**: `bsa_server`, `libbsa`, the DeviceIO and media player
  libraries. There is no source to translate; DeviceIO appears as its header and its
  client show it, and its calls that no client in the repository makes do not.
- **Driven by the closed library**: app_av, app_avk, app_dg, app_hl, app_hs and
  app_mutex share state between threads and callbacks, but the order in
  which the callbacks come is the library's, and nothing in the repository states
  it. A model would check an assumption, not the code.
- **Straight line**: dhd_priv, btdl, bthid, `btusb_proc.c`; menus, parsers, user
  interface.
- **Voice reception and voice channels of btusb**: the receive path has their
  outcome (a packet is taken, completed, dropped) and the cancellations they make;
  the reassembly of SCO packets byte by byte (`btusb_isoc.c:45-291`) and the table of
  channels (`btusb_dev.c:1705-1964`) are not modelled.
- **GKI**: `BtusbRx` has enqueue and dequeue on `rx_queue` with their status; pools
  and removal from the middle of a queue, which no modelled path uses, are not.
- **btusb lite**: codec and timers, but for its ACL submissions and command filter in
  `BtusbWrite`.
- **The kick-off of a voice channel** (`btusb_update_voice_trans`) while a write of SCO
  packets is under way on another processor: `BtusbVoiceTx` runs one call at a time.
- **Two threads of one process** in `read` or `write` of the same open file: a listed
  hazard; the driver does nothing to keep them apart, so nothing could be shown.
