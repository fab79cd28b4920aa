---------------------------- MODULE PatchramArgs ----------------------------
(* brcm_patchram_plus1, the first half of main(): the command line, read one *)
(* option at a time by getopt_long_only, and the Bluetooth address that       *)
(* --bd_addr_rand keeps in /data/cfg/device_info.txt.  The process may be     *)
(* killed and the power may fail between any two steps; the files have a      *)
(* cached and a durable content.                                              *)
EXTENDS Naturals, PatchramOptions

CONSTANTS
    Addrs,      \* Bluetooth addresses, the factory default excepted
    Android,    \* built with ANDROID: main() starts with read_default_bdaddr
    MaxArgs,    \* bound: options on the command line
    MaxFaults   \* bound: kills and power failures

VARIABLES
    phase,      \* where main() is; "run" once the port is open
    args,       \* options read so far
    cfg,        \* the globals the options set
    addr,       \* bytes 4..9 of hci_write_bd_addr
    from,       \* ghost: where addr comes from
    name,       \* optargtest of parse_bdaddr_rand
    code,       \* exit code
    cache,      \* the two files as the system calls see them
    disk,       \* ... and as a power failure leaves them
    faults,     \* ghost: kills and power failures so far
    killed,     \* ghost: a run was killed since the power came on
    ignored     \* ghost: an error of the command line was passed over

vars == <<phase, args, cfg, addr, from, name, code, cache, disk, faults, killed, ignored>>

Info    == "device_info.txt"
Copied  == "device_info"
Absent  == "absent"         \* no such file
Default == "default"        \* 11:22:33:44:55:66 at offset 36
Junk    == "junk"           \* shorter than 54 bytes, or no address at offset 36
Garbage == "garbage"        \* bytes of the stack that sscanf did not fill

Contents == Addrs \cup {Absent, Default, Junk}
Files    == {Info, Copied}

ASSUME ArgsAssumption ==
    /\ Addrs \cap {Absent, Default, Junk, Garbage, "zero"} = {}
    /\ Android \in BOOLEAN /\ MaxArgs \in Nat /\ MaxFaults \in Nat

Fresh == /\ args = 0 /\ cfg = NoOptions /\ addr = "zero" /\ from = "none"
         /\ name = Garbage /\ code = 0 /\ ignored = FALSE

Init ==
    /\ phase = "default" /\ Fresh
    /\ cache \in [Files -> Contents] /\ disk = cache
    /\ cache[Copied] \in Addrs => cache[Copied] = cache[Info]
    /\ faults = 0 /\ killed = FALSE

fileVars  == <<cache, disk, faults, killed>>
Keep(v)   == UNCHANGED <<fileVars, v>>
Exit(c)   == phase' = "exit" /\ code' = c
Set(flag) == cfg' = [cfg EXCEPT !.flags = @ \cup {flag}]

----------------------------------------------------------------------------
(* read_default_bdaddr: the address of the property, if it can be read whole *)

ReadDefault ==
    /\ phase = "default" /\ phase' = "getopt"
    /\ \/ /\ Android
          /\ \E a \in Addrs \cup {Garbage} : addr' = a
          /\ from' = "property" /\ Set("bdaddr")
       \/ UNCHANGED <<addr, from, cfg>>
    /\ Keep(<<args, name, code, ignored>>)

----------------------------------------------------------------------------
(* parse_cmd_line *)

\* one option, and its parse_ function; when that returns an error, usage() and exit(1)
Option == phase = "getopt" /\ args < MaxArgs /\ args' = args + 1

\* parse_patchram: exits by itself on a bad file
ParsePatchram ==
    /\ Option
    /\ \/ UNCHANGED cfg /\ \E c \in {3, 4, 5} : Exit(c)
       \/ Set("hcd") /\ UNCHANGED <<phase, code>>
    /\ Keep(<<addr, from, name, ignored>>)

\* parse_baudrate: a rate that validate_baudrate does not find changes nothing; the
\* command of BRCM_encode_baud_rate gets the same rate as the UART
ParseBaudrate ==
    /\ Option
    /\ \/ \E b \in Rates : cfg' = [cfg EXCEPT !.baud = b] /\ UNCHANGED ignored
       \/ UNCHANGED cfg /\ ignored' = TRUE
    /\ Keep(<<phase, addr, from, name, code>>)

\* parse_bdaddr: what sscanf did not fill is left as it was on the stack
ParseBdaddr ==
    /\ Option
    /\ \E a \in Addrs \cup {Garbage} : addr' = a /\ ignored' = (ignored \/ a = Garbage)
    /\ from' = "option" /\ Set("bdaddr")
    /\ Keep(<<phase, name, code>>)

\* parse_enable_lpm, parse_use_baudrate_for_download, parse_enable_hci
ParseEnable ==
    /\ Option
    /\ \E f \in {"enable_lpm", "use_baudrate_for_download", "enable_hci"} : Set(f)
    /\ Keep(<<phase, addr, from, name, code, ignored>>)

\* all the numbers of a list, or an error
Numbers(flag) ==
    /\ Option
    /\ \/ Set(flag) /\ UNCHANGED <<phase, code>>
       \/ Exit(1) /\ UNCHANGED cfg
    /\ Keep(<<addr, from, name, ignored>>)

ParseScopcm == Numbers("scopcm")
ParseI2s    == Numbers("i2s")

ParseNo2bytes ==
    /\ Option /\ Set("no2bytes")
    /\ Keep(<<phase, addr, from, name, code, ignored>>)

\* only a delay, and an error when it is not positive
ParseTosleep ==
    /\ Option
    /\ Exit(1) \/ UNCHANGED <<phase, code>>
    /\ Keep(<<cfg, addr, from, name, ignored>>)

\* '?', an unknown option or one without its argument: usage() is printed, no more
Usage ==
    /\ Option /\ ignored' = TRUE
    /\ Keep(<<phase, cfg, addr, from, name, code>>)

----------------------------------------------------------------------------
(* parse_bdaddr_rand *)

Takes(a, src) == addr' = a /\ from' = src /\ Set("bdaddr") /\ phase' = "getopt"

\* mutant of Usable: strncmp tested the wrong way round
UsableInverted(c) == c \notin {Absent} \cup Addrs

\* readApName returned 0: a short file is not noticed, the bytes are not checked
Usable(c) == c \notin {Absent, Default}

\* sscanf of the name
Scanned(c) == IF c \in Addrs THEN c ELSE Garbage

ReadApName ==
    /\ Option
    /\ IF Usable(cache[Info])
       THEN Takes(Scanned(cache[Info]), "file") /\ UNCHANGED name
       ELSE /\ \E a \in Addrs : name' = a                \* rand()
            /\ phase' = "write" /\ UNCHANGED <<addr, from, cfg>>
    /\ Keep(<<code, ignored>>)

\* writeApName: fopen for update, fwrite and fflush
WriteApName ==
    /\ phase = "write"
    /\ IF cache[Info] = Absent
       THEN phase' = "copy" /\ UNCHANGED cache
       ELSE phase' = "fsync" /\ cache' = [cache EXCEPT ![Info] = name]
    /\ UNCHANGED <<args, cfg, addr, from, name, code, disk, faults, killed, ignored>>

\* mutant of FsyncApName: no fsync
FsyncNot ==
    /\ phase = "fsync" /\ phase' = "copy"
    /\ UNCHANGED <<args, cfg, addr, from, name, code, cache, disk, faults, killed, ignored>>

FsyncApName ==
    /\ phase = "fsync" /\ phase' = "copy"
    /\ disk' = [disk EXCEPT ![Info] = cache[Info]]
    /\ UNCHANGED <<args, cfg, addr, from, name, code, cache, faults, killed, ignored>>

\* system("cp ..."): cp empties the copy before it fills it
CopyOpen ==
    /\ phase = "copy" /\ phase' = "fill"
    /\ cache' = IF cache[Info] = Absent THEN cache ELSE [cache EXCEPT ![Copied] = Junk]
    /\ UNCHANGED <<args, cfg, addr, from, name, code, disk, faults, killed, ignored>>

CopyFill ==
    /\ phase = "fill"
    /\ cache' = IF cache[Info] = Absent THEN cache ELSE [cache EXCEPT ![Copied] = cache[Info]]
    /\ Takes(name, "random")
    /\ UNCHANGED <<args, name, code, disk, faults, killed, ignored>>

----------------------------------------------------------------------------
(* The end of the options, and what may happen to the process and its files. *)

\* open(argv[optind]): main() exits with 2 when there is no port
OpenPort ==
    /\ phase = "getopt"
    /\ \/ phase' = "run" /\ UNCHANGED code
       \/ Exit(2)
    /\ Keep(<<args, cfg, addr, from, name, ignored>>)

\* the kernel writes a file back when it likes
Writeback ==
    /\ \E f \in Files : disk' = [disk EXCEPT ![f] = cache[f]]
    /\ UNCHANGED <<phase, args, cfg, addr, from, name, code, cache, faults, killed, ignored>>

Restarted == /\ phase' = "default" /\ args' = 0 /\ cfg' = NoOptions /\ addr' = "zero"
             /\ from' = "none" /\ name' = Garbage /\ code' = 0 /\ ignored' = FALSE

Parsing == phase \notin {"run", "exit"}

\* the run ends here and another one is started
Kill ==
    /\ Parsing /\ faults < MaxFaults /\ faults' = faults + 1
    /\ killed' = TRUE /\ Restarted /\ UNCHANGED <<cache, disk>>

PowerFail ==
    /\ Parsing /\ faults < MaxFaults /\ faults' = faults + 1
    /\ killed' = FALSE /\ Restarted
    /\ cache' = disk /\ UNCHANGED disk

ParseOption == ParsePatchram \/ ParseBaudrate \/ ParseBdaddr \/ ParseEnable \/ ParseScopcm
               \/ ParseI2s \/ ParseNo2bytes \/ ParseTosleep \/ Usage \/ ReadApName
ApName      == WriteApName \/ FsyncApName \/ CopyOpen \/ CopyFill
ParseNext   == ReadDefault \/ ParseOption \/ ApName \/ OpenPort
Next    == ParseNext \/ Writeback \/ Kill \/ PowerFail
Spec    == Init /\ [][Next]_vars

----------------------------------------------------------------------------
TypeOK ==
    /\ phase \in {"default", "getopt", "write", "fsync", "copy", "fill", "run", "exit"}
    /\ args \in 0..MaxArgs /\ cfg \in Options
    /\ addr \in Addrs \cup {Garbage, "zero"}
    /\ from \in {"none", "property", "option", "file", "random"}
    /\ name \in Addrs \cup {Garbage}
    /\ code \in 0..5
    /\ cache \in [Files -> Contents] /\ disk \in [Files -> Contents]
    /\ faults \in 0..MaxFaults /\ killed \in BOOLEAN /\ ignored \in BOOLEAN

\* The copy in device_info is never an address that device_info.txt could lose: what is
\* durable in the copy is durable in the file, whenever the run is killed, the power
\* fails or the kernel writes back (writeApName syncs before it copies).
CopyHonest ==
    /\ disk[Copied] \in Addrs => disk[Copied] = disk[Info]
    /\ cache[Copied] \in Addrs => cache[Copied] = cache[Info]

\* The random address given to the controller is the one every later run will read,
\* even after a power failure, when the file was there and no earlier run was killed
\* in the middle of writing it.
AddrDurable ==
    (from \in {"file", "random"} /\ cache[Info] \in Addrs /\ ~killed) =>
        addr = cache[Info] /\ disk[Info] = addr

\* An address that has reached the file is never replaced: no later run, killed or
\* not, generates another one.
AddrPersists == [][disk[Info] \in Addrs => disk'[Info] = disk[Info]]_vars

\* An error of the command line ends the program ("a number greater than 0 for any
\* errors"): it never goes on with the rest of the line.  Not so for the code.
ErrorsReported == ignored => phase # "run"
=============================================================================
