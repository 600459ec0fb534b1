------------------------------ MODULE MCStream ------------------------------
(***************************************************************************)
(* Small instances of the stream for TLC.  Liveness is checked, so neither *)
(* clients nor channels are declared symmetric.                            *)
(***************************************************************************)
EXTENDS Stream

=============================================================================
