---------------------------- MODULE MCRlcAmLink ----------------------------
(* Lengths of SDUs for the instances of RlcAmLink.                         *)
EXTENDS RlcAmLink

Lens21111 == <<2, 1, 1, 1, 1>>
Lens31 == <<3, 1>>
Lens21 == <<2, 1>>
=============================================================================
