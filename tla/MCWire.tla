------------------------------- MODULE MCWire -------------------------------
(***************************************************************************)
(* An instance of Wire for TLC: addresses of two words.                    *)
(***************************************************************************)
EXTENDS Wire

HereWords == <<1, Base - 2>>
ThereWords == <<Base - 1, 3>>
=============================================================================
