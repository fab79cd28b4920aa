------------------------- MODULE MCPatchramDownload -------------------------
(* A file of three records, with a payload, without and with one, and events *)
(* of two lengths.                                                           *)
EXTENDS PatchramDownload

Three     == <<76, 252, 2, 7, 8,    9, 252, 0,    78, 252, 1, 255>>
Starts    == <<0, 5, 8, 12>>
TwoEvents == { <<4, 14, 2, 5, 6>>, <<4, 15, 0>> }
Anywhere  == 0 .. Len(Three)
=============================================================================
