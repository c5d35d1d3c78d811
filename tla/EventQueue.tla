----------------------------- MODULE EventQueue ------------------------------
(***************************************************************************)
(* The unbounded queue between a protocol library's goroutines and the      *)
(* bridge (gmessages/events.go, and its copy discord/events.go), the pump   *)
(* goroutine of Client.Events that empties it, and the second goroutine     *)
(* Discord's adapter puts behind the pump (discord/transport.go).           *)
(*                                                                         *)
(* Push, close and each pass of pop's loop hold the mutex from beginning to *)
(* end, so each is one step; the one place the pump lets go of it half way  *)
(* is cond.Wait, which is pump = "asleep".  Both channels are unbuffered: a *)
(* send is the receiver's step.                                             *)
(***************************************************************************)
EXTENDS Sequences

CONSTANTS Event,
          Nothing      \* no event

ASSUME NothingAssumption == Nothing \notin Event

VARIABLES items, closed,   \* the queue
          pump,            \* where the pump is
          hand,            \* the event the pump is sending
          relay            \* the event the adapter's goroutine is sending

queueVars == <<items, closed, pump, hand, relay>>

QueueInit ==
    /\ items = <<>> /\ closed = FALSE
    /\ pump = "pop" /\ hand = Nothing /\ relay = Nothing

\* cond.Signal and cond.Broadcast: one goroutine at most waits.
Wakes == pump' = IF pump = "asleep" THEN "pop" ELSE pump

\* Mutant: the waiting pump is not signalled.
PushesSilently == pump' = pump

\* push wakes the pump.
PushWakes == Wakes

Push(e) ==
    \/ closed /\ UNCHANGED queueVars
    \/ ~closed /\ items' = Append(items, e) /\ PushWakes
       /\ UNCHANGED <<closed, hand, relay>>

\* pop, one pass of its loop: wait, return an event, or return ok = false.
PopWaits ==
    /\ pump = "pop" /\ items = <<>> /\ ~closed
    /\ pump' = "asleep"
    /\ UNCHANGED <<items, closed, hand, relay>>

\* Mutant: the event is read and not taken out.
PopPeeks ==
    /\ pump = "pop" /\ items # <<>>
    /\ hand' = Head(items) /\ pump' = "send"
    /\ UNCHANGED <<items, closed, relay>>

PopTakes ==
    /\ pump = "pop" /\ items # <<>>
    /\ hand' = Head(items) /\ items' = Tail(items)
    /\ pump' = "send"
    /\ UNCHANGED <<closed, relay>>

PopEnds ==
    /\ pump = "pop" /\ items = <<>> /\ closed
    /\ pump' = "over"
    /\ UNCHANGED <<items, closed, hand, relay>>

\* The adapter's goroutine takes what the pump sends.
Relays ==
    /\ pump = "send" /\ relay = Nothing
    /\ relay' = hand /\ hand' = Nothing /\ pump' = "pop"
    /\ UNCHANGED <<items, closed>>

\* Run receives.
Receives ==
    /\ relay # Nothing /\ relay' = Nothing
    /\ UNCHANGED <<items, closed, pump, hand>>

\* Mutant: nobody is woken.
ClosesSilently == pump' = pump

\* close wakes everybody.
CloseWakes == Wakes

Close == closed' = TRUE /\ CloseWakes /\ UNCHANGED <<items, hand, relay>>

PumpSteps == PopWaits \/ PopTakes \/ PopEnds \/ Relays

QueueNext == (\E e \in Event : Push(e)) \/ PumpSteps \/ Receives \/ Close

QueueSpec == QueueInit /\ [][QueueNext]_queueVars

----------------------------------------------------------------------------

\* What is held at each place: the pump has an event when, and only when, it
\* is sending it, and sleeps only while there is nothing to take and no end.
QueueTypeOK ==
    /\ items \in Seq(Event) /\ closed \in BOOLEAN
    /\ pump \in {"pop", "asleep", "send", "over"}
    /\ hand \in Event \cup {Nothing} /\ relay \in Event \cup {Nothing}
    /\ pump = "send" <=> hand # Nothing
    /\ pump = "asleep" => items = <<>> /\ ~closed
    /\ pump = "over" => items = <<>> /\ closed

Held(e) == IF e = Nothing THEN <<>> ELSE <<e>>

\* All that went in and has not come out, oldest first.
InFlight == Held(relay) \o Held(hand) \o items

F == INSTANCE Fifo WITH queue <- InFlight, open <- ~closed

=============================================================================
