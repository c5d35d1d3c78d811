-------------------------------- MODULE Fifo ---------------------------------
(***************************************************************************)
(* What the event queue between a protocol client and its bridge promises:  *)
(* events come out in the order they were put in, each once; once it is     *)
(* shut nothing more goes in, and what is in still comes out.               *)
(***************************************************************************)
EXTENDS Sequences

CONSTANT Event

VARIABLES queue, open

vars == <<queue, open>>

Init == queue = <<>> /\ open = TRUE

Put  == open /\ (\E e \in Event : queue' = Append(queue, e)) /\ UNCHANGED open
Get  == queue # <<>> /\ queue' = Tail(queue) /\ UNCHANGED open
Shut == open' = FALSE /\ UNCHANGED queue

Next == Put \/ Get \/ Shut

Spec == Init /\ [][Next]_vars

=============================================================================
