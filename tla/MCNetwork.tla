------------------------------ MODULE MCNetwork ------------------------------
(***************************************************************************)
(* Two slaves with different UIDs, which draw different nonces.             *)
(***************************************************************************)
EXTENDS Network, TLC

CONSTANTS n1, n2, x1, x2

TwoNodes == {n1, n2}
MCUid == {<<1>>, <<2>>}
MCUidOf == (n1 :> <<1>>) @@ (n2 :> <<2>>)
MCNonce == {x1, x2}
MCDraws == (n1 :> {x1}) @@ (n2 :> {x2})
NoJunk == {<< >>}
=============================================================================
