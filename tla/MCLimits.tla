------------------------------ MODULE MCLimits ------------------------------
(***************************************************************************)
(* Small instances of the executor's cap and of the notifier's limit for   *)
(* TLC.  The two share no variable and their interleavings tell nothing:   *)
(* in each behaviour one moves and the other stays at its start.           *)
(***************************************************************************)
EXTENDS Executor, Notifier, TLC

CONSTANTS s1, s2, s3

ThreeSenders == {s1, s2, s3}
Interchangeable == Permutations(ThreeSenders)

LimitsInit == Init /\ NInit
LimitsNext ==
  \/ Next /\ NInit /\ UNCHANGED nvars
  \/ NNext /\ Init /\ UNCHANGED vars
LimitsSpec == LimitsInit /\ [][LimitsNext]_<<vars, nvars>>
=============================================================================
