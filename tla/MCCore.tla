------------------------------- MODULE MCCore --------------------------------
(* Instances of CoreBridge for TLC: two conversations in one channel. *)
EXTENDS CoreBridge, TLC

CONSTANTS c1, c2, h1

TwoConvs == {c1, c2}
OneChannel == {h1}
\* A restart may find thread_per_conversation switched.
BothModes == [threads : BOOLEAN, route : {[c \in Convs |-> h1]}]
Text == {"text"}
ConvSymmetry == Permutations(TwoConvs)

=============================================================================
