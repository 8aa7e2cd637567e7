----------------------------- MODULE MCLinkNode -----------------------------
(***************************************************************************)
(* Frames come from a slave without an address (0), slave 1 and the master  *)
(* (15). A master requests from the first two, a slave from the master.     *)
(***************************************************************************)
EXTENDS LinkNode

MCPeer == {0, 1, 15}
MasterDest == {0, 1}
SlaveDest == {15}
MasterWait == {0}
SlaveWait == {1, 2}       \* stands for 1..20
AnyLen == {0, 1, 2}
=============================================================================
