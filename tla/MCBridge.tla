------------------------------ MODULE MCBridge -------------------------------
(***************************************************************************)
(* Small instances of Bridge: two conversations, one or two channels.       *)
(***************************************************************************)
EXTENDS Bridge, TLC

CONSTANTS c1, c2, h1, h2

TwoConvs    == {c1, c2}
OneChannel  == {h1}
TwoChannels == {h1, h2}

\* The routing rules put both conversations in one channel, or each in its own.
Together == [c \in Convs |-> h1]
Apart    == [c \in Convs |-> IF c = c1 THEN h1 ELSE h2]

Config(threads, backfill, route) ==
    [threads |-> threads, deliveryStatus |-> TRUE, markRead |-> TRUE,
     backfill |-> backfill, route |-> route]

\* A restart may find the routing edited.
Rerouted   == {Config(TRUE, 0, Together), Config(TRUE, 0, Apart)}
\* A restart may find thread_per_conversation switched.
BothModes  == {Config(TRUE, 0, Together), Config(FALSE, 0, Together)}
Backfilled == {Config(TRUE, 2, Together)}

Text    == {"text"}
AnyBody == {"blank", "text", "files"}

TwoStates == {"sending", "delivered"}
OneState  == {"sent"}

ConvSymmetry == Permutations(TwoConvs)

=============================================================================
