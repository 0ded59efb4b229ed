------------------------------- MODULE MCTask -------------------------------
(***************************************************************************)
(* Instances of Task for model checking.                                   *)
(***************************************************************************)
EXTENDS Task

\* A program may lower its priority, and root may raise it.
UpAndDown == {-1, 1}
=============================================================================
