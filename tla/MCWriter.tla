------------------------------ MODULE MCWriter ------------------------------
(* Writer for TLC: three Submit calls over two natural keys, so that one   *)
(* key is submitted twice.                                                 *)
EXTENDS Writer, TLC

CONSTANTS c1, c2, c3, k1, k2

ThreeCalls == {c1, c2, c3}
TwoKeys    == {k1, k2}
SharedKey  == (c1 :> k1) @@ (c2 :> k1) @@ (c3 :> k2)
=============================================================================
