------------------------------ MODULE MCMaster ------------------------------
(***************************************************************************)
(* The sets of UIDs the runs of Master use. The digit '1' is the byte 49.   *)
(***************************************************************************)
EXTENDS Master

\* No UID is a prefix of another, one fills its field of 3 bytes; << >> is the
\* answer of a slave without one.
PrefixFreeUid == {<<1, 1>>, <<1, 2, 1>>, << >>}

SomeJunk == {<< >>, <<1>>}
NoJunk == {<< >>}
=============================================================================
