------------------------------- MODULE Answers -------------------------------
(****************************************************************************)
(* The answer of a data structure that has nothing to return: a C function  *)
(* that returns NULL or false, on which the primitives throw or push nil.   *)
(****************************************************************************)
CONSTANT NULL

=============================================================================
