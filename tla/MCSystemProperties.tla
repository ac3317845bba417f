------------------------- MODULE MCSystemProperties -------------------------
(***************************************************************************)
(* Names that share a token, siblings inserted in both orders, and *)
(* one that is a prefix of others; values of two lengths with no character *)
(* in common.                                                              *)
(***************************************************************************)
EXTENDS SystemProperties

MCNames == {<<2>>, <<2, 1>>, <<1>>}
MCValues == {<<1>>, <<2, 3>>}
=============================================================================
