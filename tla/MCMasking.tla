------------------------------ MODULE MCMasking ------------------------------
(* Two sessions of one file and two validations that may overlap.           *)
EXTENDS Masking
=============================================================================
