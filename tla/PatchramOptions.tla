-------------------------- MODULE PatchramOptions --------------------------
(* brcm_patchram_plus1: the global variables the command line sets and the   *)
(* rest of main() reads.  PatchramArgs sets them, Patchram runs under them.   *)
EXTENDS Naturals

CONSTANTS
    Low,    \* B115200
    Rates   \* the speeds of the table baud_rates[], Low among them

NoBaud == 0

ASSUME RatesAssumption == Low \in Rates /\ NoBaud \notin Rates

\* hcd: hcdfile_fd is open.  The others have the names of their variables.
Flags   == {"hcd", "bdaddr", "enable_lpm", "enable_hci", "use_baudrate_for_download",
            "scopcm", "i2s", "no2bytes"}
Options == [flags : SUBSET Flags, baud : Rates \cup {NoBaud}]
NoOptions == [flags |-> {}, baud |-> NoBaud]
=============================================================================
