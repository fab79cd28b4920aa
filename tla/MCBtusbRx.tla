----------------------------- MODULE MCBtusbRx -----------------------------
(* Small instances of BtusbRx for TLC. *)
EXTENDS BtusbRx, TLC

\* Processes, voice packets and the URBs of an endpoint are interchangeable.
Symmetry == Permutations(Procs) \cup Permutations(Pkts)
                \cup Permutations(Events) \cup Permutations(Diags)
=============================================================================
