------------------------------ MODULE MCSession ------------------------------
(* Instances of Session for TLC: one local and one remote attempt. *)
EXTENDS Session

OneRemote == {"remote"}
TwoAttempts == {"local", "remote"}

=============================================================================
