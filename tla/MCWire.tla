-------------------------------- MODULE MCWire --------------------------------
(***************************************************************************)
(* A ring of 6 bytes, which just holds a frame with one byte of data. The   *)
(* node is slave 1; the master sends to it and to all, and slave 2 to the   *)
(* master. The altered byte 129 is an address byte for the node, a length   *)
(* other than that of any frame, and neither's data.                        *)
(***************************************************************************)
EXTENDS Wire

MCFrame(src, dest, mode, data) == [src |-> src, dest |-> dest, mode |-> mode, data |-> data]
MCSent == {MCFrame(15, 0, 1, <<1>>), MCFrame(15, 1, 0, << >>), MCFrame(2, 15, 0, <<0>>)}
MCGarbage == {129}
=============================================================================
