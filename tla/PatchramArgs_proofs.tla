------------------------ MODULE PatchramArgs_proofs ------------------------
(* Proofs about PatchramArgs: the promises of parse_bdaddr_rand about its    *)
(* two files hold for any addresses, speeds, options, kills and power        *)
(* failures.                                                                 *)
EXTENDS PatchramArgs, TLAPS

\* An address on the disk is the one the system calls see, and the copy holds no other.
FilesAgree ==
    /\ disk[Info] \in Addrs => cache[Info] = disk[Info]
    /\ cache[Copied] \in Addrs => cache[Copied] = cache[Info] /\ disk[Info] = cache[Info]
    /\ disk[Copied] \in Addrs => disk[Copied] = disk[Info]

\* parse_bdaddr_rand writes only over the default, and copies what it has synced.
WriteOnce ==
    /\ phase \in {"write", "fsync", "copy", "fill"} => name \in Addrs
    /\ phase = "write" => cache[Info] \in {Absent, Default}
    /\ phase = "fsync" => cache[Info] = name
    /\ phase \in {"copy", "fill"} /\ cache[Info] # Absent => cache[Info] = name /\ disk[Info] = name

\* Between its write and its fsync, and after a kill there, the address may be lost.
Synced == ~killed /\ phase # "fsync" /\ cache[Info] \in Addrs => disk[Info] = cache[Info]

\* The address that came out of parse_bdaddr_rand is the one in the file.
AddrOfFile ==
    from \in {"file", "random"} =>
        /\ cache[Info] # Default /\ phase # "fsync"
        /\ cache[Info] \in Addrs => addr = cache[Info]

IInv == TypeOK /\ FilesAgree /\ WriteOnce /\ Synced /\ AddrOfFile

\* The files, and what parse_bdaddr_rand does to them.
FileInv == FilesAgree /\ WriteOnce /\ Synced /\ AddrOfFile

----------------------------------------------------------------------------
(* Types *)

LEMMA SetType ==
    ASSUME cfg \in Options, NEW flag \in Flags, Set(flag)
    PROVE  cfg' \in Options
  BY DEF Set, Options

LEMMA NoOptionsType == NoOptions \in Options
  BY DEF NoOptions, Options

LEMMA InitType == Init => TypeOK
<1> SUFFICES ASSUME Init PROVE TypeOK
  OBVIOUS
<1>1. cfg \in Options
  BY NoOptionsType DEF Init, Fresh
<1>2. args \in 0 .. MaxArgs /\ faults \in 0 .. MaxFaults /\ code \in 0 .. 5
  BY ArgsAssumption DEF Init, Fresh
<1> QED
  BY <1>1, <1>2 DEF Init, Fresh, TypeOK

\* An option on the command line.
LEMMA OptionType == TypeOK /\ ParseOption => TypeOK'
<1> SUFFICES ASSUME TypeOK, ParseOption PROVE TypeOK'
  OBVIOUS
<1> USE DEF Keep, fileVars
<1>0. args' \in 0 .. MaxArgs /\ UNCHANGED fileVars
  <2>1. Option /\ UNCHANGED fileVars
    BY DEF ParseOption, ParsePatchram, ParseBaudrate, ParseBdaddr, ParseEnable, ParseScopcm,
           ParseI2s, Numbers, ParseNo2bytes, ParseTosleep, Usage, ReadApName
  <2> QED
    BY <2>1, ArgsAssumption DEF Option, TypeOK
<1> USE DEF TypeOK, Exit, Option
<1>1. CASE ParsePatchram
  <2>1. cfg' \in Options
    BY <1>1, SetType DEF ParsePatchram, Flags
  <2> QED
    BY <1>0, <1>1, <2>1 DEF ParsePatchram
<1>2. CASE ParseBaudrate
  <2>1. cfg' \in Options
    BY <1>2 DEF ParseBaudrate, Options
  <2> QED
    BY <1>0, <1>2, <2>1 DEF ParseBaudrate
<1>3. CASE ParseBdaddr
  <2>1. cfg' \in Options
    BY <1>3, SetType DEF ParseBdaddr, Flags
  <2> QED
    BY <1>0, <1>3, <2>1 DEF ParseBdaddr
<1>4. CASE ParseEnable
  <2>1. cfg' \in Options
    BY <1>4, SetType DEF ParseEnable, Flags
  <2> QED
    BY <1>0, <1>4, <2>1 DEF ParseEnable
<1>5. CASE ParseScopcm \/ ParseI2s
  <2>1. cfg' \in Options
    BY <1>5, SetType DEF ParseScopcm, ParseI2s, Numbers, Flags
  <2> QED
    BY <1>0, <1>5, <2>1 DEF ParseScopcm, ParseI2s, Numbers
<1>6. CASE ParseNo2bytes
  <2>1. cfg' \in Options
    BY <1>6, SetType DEF ParseNo2bytes, Flags
  <2> QED
    BY <1>0, <1>6, <2>1 DEF ParseNo2bytes
<1>7. CASE ParseTosleep
  BY <1>0, <1>7 DEF ParseTosleep
<1>8. CASE Usage
  BY <1>0, <1>8 DEF Usage
<1>9. CASE ReadApName
  <2>1. cfg' \in Options
    BY <1>9, SetType DEF ReadApName, Takes, Flags
  <2>2. Scanned(cache[Info]) \in Addrs \cup {Garbage}
    BY DEF Scanned
  <2> QED
    BY <1>0, <1>9, <2>1, <2>2 DEF ReadApName, Takes
<1> QED
  BY <1>1, <1>2, <1>3, <1>4, <1>5, <1>6, <1>7, <1>8, <1>9 DEF ParseOption

LEMMA NextType == WriteOnce /\ TypeOK /\ [Next]_vars => TypeOK'
<1> SUFFICES ASSUME WriteOnce, TypeOK, [Next]_vars PROVE TypeOK'
  OBVIOUS
<1> USE DEF TypeOK
<1>1. CASE ReadDefault
  <2>1. cfg' \in Options
    BY <1>1, SetType DEF ReadDefault, Flags
  <2> QED
    BY <1>1, <2>1 DEF ReadDefault, Keep, fileVars
<1>2. CASE ParseOption
  BY <1>2, OptionType
<1>3. CASE WriteApName
  <2>1. name \in Contents
    BY <1>3 DEF WriteApName, WriteOnce, Contents
  <2> QED
    BY <1>3, <2>1 DEF WriteApName
<1>4. CASE FsyncApName
  <2>1. cache[Info] \in Contents
    BY DEF Files
  <2> QED
    BY <1>4, <2>1 DEF FsyncApName
<1>5. CASE CopyOpen
  <2>1. Junk \in Contents
    BY DEF Contents
  <2> QED
    BY <1>5, <2>1 DEF CopyOpen
<1>6. CASE CopyFill
  <2>1. cfg' \in Options
    BY <1>6, SetType DEF CopyFill, Takes, Flags
  <2>2. cache[Info] \in Contents
    BY DEF Files
  <2> QED
    BY <1>6, <2>1, <2>2 DEF CopyFill, Takes
<1>7. CASE OpenPort
  BY <1>7 DEF OpenPort, Exit, Keep, fileVars
<1>8. CASE Writeback
  BY <1>8 DEF Writeback
<1>9. CASE Kill \/ PowerFail
  <2>1. /\ cfg' \in Options /\ args' \in 0 .. MaxArgs /\ faults' \in 0 .. MaxFaults
        /\ code' \in 0 .. 5
    BY <1>9, NoOptionsType, ArgsAssumption DEF Kill, PowerFail, Restarted
  <2> QED
    BY <1>9, <2>1 DEF Kill, PowerFail, Restarted
<1>10. CASE UNCHANGED vars
  BY <1>10 DEF vars
<1> QED
  BY <1>1, <1>2, <1>3, <1>4, <1>5, <1>6, <1>7, <1>8, <1>9, <1>10
  DEF Next, ParseNext, ApName

----------------------------------------------------------------------------
(* The files *)

LEMMA InitFiles == Init => FileInv
  BY ArgsAssumption
  DEF Init, Fresh, FileInv, FilesAgree, WriteOnce, Synced, AddrOfFile, Files, Info, Copied

\* The two files are in different places, and an address is no other content.
LEMMA Places ==
    /\ Info # Copied /\ Info \in Files /\ Copied \in Files
    /\ Absent # Default /\ \A a \in Addrs : a \notin {Absent, Default, Junk, Garbage}
  BY ArgsAssumption DEF Info, Copied, Files, Absent, Default, Junk, Garbage

\* An option leaves the files as they are; --bd_addr_rand looks at one.
LEMMA OptionFiles == TypeOK /\ FileInv /\ ParseOption => FileInv'
<1> SUFFICES ASSUME TypeOK, FileInv, ParseOption PROVE FileInv'
  OBVIOUS
<1>1. phase = "getopt" /\ UNCHANGED <<cache, disk, killed>>
  BY DEF ParseOption, ParsePatchram, ParseBaudrate, ParseBdaddr, ParseEnable, ParseScopcm, ParseI2s,
         Numbers, ParseNo2bytes, ParseTosleep, Usage, ReadApName, Option, Keep, fileVars
<1>2. CASE ReadApName
  <2>1. CASE Usable(cache[Info])
    <3>1. /\ phase' = "getopt" /\ from' = "file" /\ addr' = Scanned(cache[Info])
          /\ cache[Info] \notin {Absent, Default}
      BY <1>2, <2>1 DEF ReadApName, Takes, Usable
    <3> QED
      BY <1>1, <3>1, Places DEF FileInv, FilesAgree, WriteOnce, Synced, AddrOfFile, Scanned
  <2>2. CASE ~Usable(cache[Info])
    <3>1. /\ phase' = "write" /\ name' \in Addrs /\ UNCHANGED <<from, addr>>
          /\ cache[Info] \in {Absent, Default}
      BY <1>2, <2>2 DEF ReadApName, Usable
    <3> QED
      BY <1>1, <3>1 DEF FileInv, FilesAgree, WriteOnce, Synced, AddrOfFile
  <2> QED
    BY <2>1, <2>2
<1>3. CASE ~ReadApName
  <2>1. /\ phase' \in {"getopt", "exit"}
        /\ from' \notin {"file", "random"} \/ UNCHANGED <<from, addr>>
    BY <1>1, <1>3
    DEF ParseOption, ParsePatchram, ParseBaudrate, ParseBdaddr, ParseEnable, ParseScopcm, ParseI2s,
        Numbers, ParseNo2bytes, ParseTosleep, Usage, Option, Keep, Exit
  <2> QED
    BY <1>1, <2>1 DEF FileInv, FilesAgree, WriteOnce, Synced, AddrOfFile
<1> QED
  BY <1>2, <1>3

LEMMA NextFiles == TypeOK /\ FileInv /\ [Next]_vars => FileInv'
<1> SUFFICES ASSUME TypeOK, FileInv, [Next]_vars PROVE FileInv'
  OBVIOUS
<1>0. cache \in [Files -> Contents] /\ disk \in [Files -> Contents]
  BY DEF TypeOK
<1> USE DEF FileInv, FilesAgree, WriteOnce, Synced, AddrOfFile
<1>1. CASE ReadDefault
  BY <1>1 DEF ReadDefault, Keep, fileVars
<1>2. CASE ParseOption
  BY <1>2, OptionFiles
<1>3. CASE WriteApName
  <2>1. CASE cache[Info] = Absent
    BY <1>3, <2>1, Places DEF WriteApName
  <2>2. CASE cache[Info] # Absent
    <3>1. cache[Info] = Default /\ from \notin {"file", "random"} /\ name \in Addrs
      BY <1>3, <2>2 DEF WriteApName
    <3>2. /\ cache'[Info] = name /\ cache'[Copied] = cache[Copied] /\ phase' = "fsync"
          /\ UNCHANGED <<disk, name, from>>
      BY <1>0, <1>3, <2>2, Places DEF WriteApName
    <3> QED
      BY <3>1, <3>2, Places
  <2> QED
    BY <2>1, <2>2
<1>4. CASE FsyncApName
  <2>1. /\ phase = "fsync" /\ phase' = "copy" /\ disk'[Info] = cache[Info]
        /\ disk'[Copied] = disk[Copied] /\ UNCHANGED <<cache, name, from, addr, killed>>
    BY <1>0, <1>4, Places DEF FsyncApName
  <2> QED
    BY <2>1
<1>5. CASE CopyOpen
  <2>1. /\ phase = "copy" /\ phase' = "fill" /\ cache'[Info] = cache[Info]
        /\ cache'[Copied] \in {Junk, cache[Copied]}
        /\ UNCHANGED <<disk, name, from, addr, killed>>
    BY <1>0, <1>5, Places DEF CopyOpen
  <2> QED
    BY <2>1, Places
<1>6. CASE CopyFill
  <2>1. /\ phase = "fill" /\ phase' = "getopt" /\ from' = "random" /\ addr' = name
        /\ cache'[Info] = cache[Info] /\ UNCHANGED <<disk, name, killed>>
        /\ cache'[Copied] = IF cache[Info] = Absent THEN cache[Copied] ELSE cache[Info]
    BY <1>0, <1>6, Places DEF CopyFill, Takes
  <2> QED
    BY <2>1, Places
<1>7. CASE OpenPort
  BY <1>7 DEF OpenPort, Exit, Keep, fileVars
<1>8. CASE Writeback
  <2> PICK f \in Files : disk' = [disk EXCEPT ![f] = cache[f]]
    BY <1>8 DEF Writeback
  <2>1. UNCHANGED <<phase, cache, name, from, addr, killed>>
    BY <1>8 DEF Writeback
  <2>2. CASE f = Info
    <3>1. disk'[Info] = cache[Info] /\ disk'[Copied] = disk[Copied]
      BY <1>0, <2>2, Places
    <3> QED
      BY <2>1, <3>1
  <2>3. CASE f = Copied
    <3>1. disk'[Info] = disk[Info] /\ disk'[Copied] = cache[Copied]
      BY <1>0, <2>3, Places
    <3> QED
      BY <2>1, <3>1
  <2> QED
    BY <2>2, <2>3 DEF Files
<1>9. CASE Kill
  BY <1>9 DEF Kill, Restarted
<1>10. CASE PowerFail
  <2>1. /\ cache' = disk /\ disk' = disk /\ phase' = "default" /\ from' = "none"
    BY <1>10 DEF PowerFail, Restarted
  <2> QED
    BY <2>1
<1>11. CASE UNCHANGED vars
  BY <1>11 DEF vars
<1> QED
  BY <1>1, <1>2, <1>3, <1>4, <1>5, <1>6, <1>7, <1>8, <1>9, <1>10, <1>11
  DEF Next, ParseNext, ApName

----------------------------------------------------------------------------
(* Theorems *)

\* The strengthening: the types and the state of the two files at every step of
\* parse_bdaddr_rand, in any run, after any kill or power failure.
THEOREM Invariance == Spec => []IInv
<1>1. Init => TypeOK /\ FileInv
  BY InitType, InitFiles
<1>2. TypeOK /\ FileInv /\ [Next]_vars => (TypeOK /\ FileInv)'
  BY NextType, NextFiles DEF FileInv
<1>3. TypeOK /\ FileInv => IInv
  BY DEF IInv, FileInv
<1> QED
  BY <1>1, <1>2, <1>3, PTL DEF Spec

\* device_info never holds an address that device_info.txt could lose.
THEOREM CopyIsHonest == Spec => []CopyHonest
<1>1. IInv => CopyHonest
  BY DEF IInv, FilesAgree, CopyHonest
<1> QED
  BY <1>1, Invariance, PTL

\* The random address given to the controller is the durable one, unless an earlier
\* run was killed before its fsync.
THEOREM AddrIsDurable == Spec => []AddrDurable
<1>1. IInv => AddrDurable
  BY DEF IInv, Synced, AddrOfFile, AddrDurable
<1> QED
  BY <1>1, Invariance, PTL

\* An address that has reached the disk stays there.
THEOREM AddressKept == Spec => AddrPersists
<1>1. IInv /\ [Next]_vars => [disk[Info] \in Addrs => disk'[Info] = disk[Info]]_vars
  <2> SUFFICES ASSUME IInv, Next, disk[Info] \in Addrs, disk' # disk PROVE disk'[Info] = disk[Info]
    OBVIOUS
  <2>1. cache[Info] = disk[Info] /\ disk \in [Files -> Contents]
    BY DEF IInv, FilesAgree, TypeOK
  <2>2. FsyncApName \/ Writeback
    BY DEF Next, ParseNext, ApName, ReadDefault, ParseOption, ParsePatchram, ParseBaudrate,
           ParseBdaddr, ParseEnable, ParseScopcm, ParseI2s, Numbers, ParseNo2bytes, ParseTosleep,
           Usage, ReadApName, WriteApName, CopyOpen, CopyFill, OpenPort, Kill, PowerFail,
           Keep, fileVars
  <2> QED
    BY <2>1, <2>2, Places DEF FsyncApName, Writeback
<1> QED
  BY <1>1, Invariance, PTL DEF Spec, AddrPersists
=============================================================================
