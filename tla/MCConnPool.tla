----------------------------- MODULE MCConnPool -----------------------------
(***************************************************************************)
(* Instances of ConnPool for TLC: the constants are in the configurations. *)
(***************************************************************************)
EXTENDS ConnPool
=============================================================================
