------------------------------ MODULE MCDaemon -------------------------------
(***************************************************************************)
(* Small instances of Daemon: two users, pushes for each, a command.        *)
(***************************************************************************)
EXTENDS Daemon, TLC

CONSTANTS u1, u2, p1, p2, k1, none, orig

TwoUsers  == {u1, u2}
TwoPushes == {p1, p2}
OneUser   == {u1}
OnePush   == {p1}
OneCommand == {k1}
Nothing   == {}

\* One push for each user; a command edits the rules of u1.
EachOwn == [e \in Edits |-> IF e = p2 THEN u2 ELSE u1]
\* Everything is about one user.
AllOne  == [e \in Edits |-> u1]

TwoPorts == {0, 1}
ThreePorts == 0..2

=============================================================================
