-------------------------- MODULE EventQueueProofs ---------------------------
(***************************************************************************)
(* For every set of events: the event queue keeps its types, and with the   *)
(* goroutines behind it implements a FIFO.  What a step does to the events  *)
(* in flight is shown action by action; the pump and the relay only move    *)
(* an event from one place to the next.                                     *)
(***************************************************************************)
EXTENDS EventQueue, SequenceTheorems, TLAPS

-----------------------------------------------------------------------------
(* Types.                                                                   *)

\* An empty queue holds nothing: newQueue (events.go:311).
LEMMA QueueInitOK == QueueInit => QueueTypeOK
<1> SUFFICES ASSUME QueueInit PROVE QueueTypeOK
  OBVIOUS
<1>1. items = <<>> /\ pump = "pop" /\ hand = Nothing /\ relay = Nothing
  BY DEF QueueInit
<1>2. closed \in BOOLEAN
  BY Zenon DEF QueueInit
<1>3. items \in Seq(Event)
  BY <1>1
<1> QED
  BY <1>1, <1>2, <1>3 DEF QueueTypeOK

\* An event enters at the end, or not at all, and the sleeper wakes.
LEMMA PushOK ==
    ASSUME QueueTypeOK, NEW e \in Event, Push(e)
    PROVE  QueueTypeOK'
<1>1. CASE closed /\ UNCHANGED queueVars
  BY <1>1 DEF QueueTypeOK, queueVars
<1>2. CASE ~closed /\ items' = Append(items, e) /\ PushWakes /\ UNCHANGED <<closed, hand, relay>>
  BY <1>2 DEF QueueTypeOK, PushWakes, Wakes
<1> QED
  BY <1>1, <1>2 DEF Push

\* Whatever the pump does, it has an event exactly while it sends one.
LEMMA PumpOK ==
    ASSUME QueueTypeOK, PumpSteps
    PROVE  QueueTypeOK'
<1>1. CASE PopWaits
  BY <1>1 DEF QueueTypeOK, PopWaits
<1>2. CASE PopTakes
  <2>1. Head(items) \in Event /\ Tail(items) \in Seq(Event)
    BY <1>2, HeadTailProperties DEF QueueTypeOK, PopTakes
  <2> QED
    BY <1>2, <2>1, NothingAssumption DEF QueueTypeOK, PopTakes
<1>3. CASE PopEnds
  BY <1>3 DEF QueueTypeOK, PopEnds
<1>4. CASE Relays
  BY <1>4, NothingAssumption DEF QueueTypeOK, Relays
<1> QED
  BY <1>1, <1>2, <1>3, <1>4 DEF PumpSteps

LEMMA ReceivesOK ==
    ASSUME QueueTypeOK, Receives
    PROVE  QueueTypeOK'
BY NothingAssumption DEF QueueTypeOK, Receives

\* close wakes the sleeper: nobody sleeps on a closed queue.
LEMMA CloseOK ==
    ASSUME QueueTypeOK, Close
    PROVE  QueueTypeOK'
BY DEF QueueTypeOK, Close, CloseWakes, Wakes

\* The queue's type invariant holds in every behaviour: in particular the pump
\* never sleeps while there is something to take or the queue is closed, so no
\* wake-up of cond.Wait is lost (events.go:330).
THEOREM QueueTypeCorrect == QueueSpec => []QueueTypeOK
<1>1. QueueTypeOK /\ [QueueNext]_queueVars => QueueTypeOK'
  <2> SUFFICES ASSUME QueueTypeOK, [QueueNext]_queueVars PROVE QueueTypeOK'
    OBVIOUS
  <2>1. CASE UNCHANGED queueVars
    BY <2>1 DEF QueueTypeOK, queueVars
  <2> QED
    BY <2>1, PushOK, PumpOK, ReceivesOK, CloseOK DEF QueueNext
<1> QED
  BY <1>1, QueueInitOK, PTL DEF QueueSpec

-----------------------------------------------------------------------------
(* What is in flight.                                                       *)

LEMMA HeldIsSeq ==
    ASSUME NEW e \in Event \cup {Nothing}
    PROVE  Held(e) \in Seq(Event)
BY DEF Held

LEMMA InFlightIsSeq == QueueTypeOK => InFlight \in Seq(Event)
BY HeldIsSeq, ConcatProperties DEF QueueTypeOK, InFlight

\* A sequence is its head and the rest.
LEMMA HeadAndTail ==
    ASSUME NEW s \in Seq(Event), s # <<>>
    PROVE  s = <<Head(s)>> \o Tail(s)
<1>1. Head(s) \in Event /\ Tail(s) \in Seq(Event) /\ Len(s) \in Nat \ {0}
      /\ Len(Tail(s)) = Len(s) - 1 /\ \A i \in 1..Len(Tail(s)) : Tail(s)[i] = s[i+1]
  BY HeadTailProperties, EmptySeq
<1>2. <<Head(s)>> \in Seq(Event) /\ Len(<<Head(s)>>) = 1 /\ <<Head(s)>>[1] = s[1]
  BY <1>1
<1> DEFINE t == <<Head(s)>> \o Tail(s)
<1>3. /\ t \in Seq(Event) /\ Len(t) = Len(s)
      /\ \A i \in 1..Len(s) : t[i] = IF i <= 1 THEN <<Head(s)>>[i] ELSE Tail(s)[i-1]
  BY <1>1, <1>2, ConcatProperties
<1>4. \A i \in 1..Len(s) : t[i] = s[i]
  BY <1>1, <1>2, <1>3
<1> QED
  BY <1>3, <1>4, SeqEqual

\* What is taken off the front of a sequence, and what is put at its end.
LEMMA TailOfCons ==
    ASSUME NEW e \in Event, NEW s \in Seq(Event)
    PROVE  Tail(<<e>> \o s) = s /\ <<e>> \o s # <<>>
<1> DEFINE t == <<e>> \o s
<1>1. <<e>> \in Seq(Event) /\ Len(<<e>>) = 1
  OBVIOUS
<1>2. /\ t \in Seq(Event) /\ Len(t) = 1 + Len(s) /\ Len(s) \in Nat
      /\ \A i \in 1..Len(t) : t[i] = IF i <= 1 THEN <<e>>[i] ELSE s[i-1]
  BY <1>1, ConcatProperties
<1>3. t # <<>>
  BY <1>2
<1>4. /\ Tail(t) \in Seq(Event) /\ Len(Tail(t)) = Len(s)
      /\ \A i \in 1..Len(s) : Tail(t)[i] = t[i+1]
  BY <1>2, <1>3, HeadTailProperties
<1>5. \A i \in 1..Len(s) : Tail(t)[i] = s[i]
  BY <1>2, <1>4
<1>6. Tail(t) = s
  BY <1>4, <1>5, SeqEqual
<1> QED
  BY <1>3, <1>6

LEMMA AppendAfter ==
    ASSUME NEW s \in Seq(Event), NEW t \in Seq(Event), NEW e \in Event
    PROVE  s \o Append(t, e) = Append(s \o t, e)
<1>1. Append(t, e) = t \o <<e>> /\ <<e>> \in Seq(Event)
  OBVIOUS
<1>2. s \o t \in Seq(Event)
  BY ConcatProperties
<1>3. Append(s \o t, e) = (s \o t) \o <<e>>
  BY <1>2
<1> QED
  BY <1>1, <1>3, ConcatAssociative

-----------------------------------------------------------------------------
(* What each step does to the events in flight.                             *)

\* Three places in a row, associated the way TLA+ reads InFlight.
LEMMA InFlightParts ==
    ASSUME QueueTypeOK
    PROVE  /\ Held(relay) \in Seq(Event) /\ Held(hand) \in Seq(Event)
           /\ items \in Seq(Event)
           /\ Held(relay) \o Held(hand) \in Seq(Event)
           /\ InFlight = Held(relay) \o (Held(hand) \o items)
<1>1. Held(relay) \in Seq(Event) /\ Held(hand) \in Seq(Event) /\ items \in Seq(Event)
  BY HeldIsSeq DEF QueueTypeOK
<1> QED
  BY <1>1, ConcatProperties, ConcatAssociative DEF InFlight

LEMMA PushIsPut ==
    ASSUME QueueTypeOK, NEW e \in Event, Push(e)
    PROVE  F!Put \/ UNCHANGED <<InFlight, closed>>
<1>1. CASE closed /\ UNCHANGED queueVars
  BY <1>1 DEF queueVars, InFlight
<1>2. CASE ~closed /\ items' = Append(items, e) /\ PushWakes /\ UNCHANGED <<closed, hand, relay>>
  <2>1. InFlight' = (Held(relay) \o Held(hand)) \o Append(items, e)
    BY <1>2 DEF InFlight
  <2>2. InFlight' = Append(InFlight, e)
    BY <2>1, InFlightParts, AppendAfter DEF InFlight
  <2> QED
    BY <1>2, <2>2 DEF F!Put
<1> QED
  BY <1>1, <1>2 DEF Push

\* The pump and the relay only move what they hold.
LEMMA PumpMoves ==
    ASSUME QueueTypeOK, PumpSteps
    PROVE  UNCHANGED <<InFlight, closed>>
<1>1. CASE PopWaits
  BY <1>1 DEF PopWaits, InFlight
<1>2. CASE PopEnds
  BY <1>2 DEF PopEnds, InFlight
<1>3. CASE PopTakes
  <2>1. hand = Nothing /\ Held(hand) = <<>>
    BY <1>3 DEF PopTakes, QueueTypeOK, Held
  <2>2. Head(items) \in Event /\ Tail(items) \in Seq(Event)
    BY <1>3, HeadTailProperties DEF PopTakes, QueueTypeOK
  <2>3. Held(hand') = <<Head(items)>>
    BY <1>3, <2>2, NothingAssumption DEF PopTakes, Held
  <2>4. items = Held(hand') \o items'
    BY <1>3, <2>3, HeadAndTail DEF PopTakes, QueueTypeOK
  <2>5. InFlight = Held(relay) \o items
    BY <2>1, InFlightParts, ConcatEmptySeq
  <2>6. InFlight' = Held(relay) \o (Held(hand') \o items')
    <3>1. relay' = relay /\ InFlight' = Held(relay) \o Held(hand') \o items'
      BY <1>3 DEF PopTakes, InFlight, Held
    <3>2. Held(hand') \in Seq(Event) /\ items' \in Seq(Event)
      <4>1. <<Head(items)>> \in Seq(Event)
        BY <2>2
      <4> QED
        BY <1>3, <2>2, <2>3, <4>1 DEF PopTakes
    <3> QED
      BY <3>1, <3>2, InFlightParts, ConcatAssociative
  <2> QED
    BY <1>3, <2>4, <2>5, <2>6 DEF PopTakes
<1>4. CASE Relays
  <2>1. Held(relay) = <<>> /\ Held(hand') = <<>> /\ Held(relay') = Held(hand)
    BY <1>4 DEF Relays, Held
  <2>2. InFlight = Held(hand) \o items
    BY <2>1, InFlightParts, ConcatEmptySeq
  <2>3. InFlight' = Held(hand) \o <<>> \o items
    BY <1>4, <2>1 DEF Relays, InFlight, Held
  <2> QED
    BY <1>4, <2>2, <2>3, InFlightParts, ConcatEmptySeq DEF Relays
<1> QED
  BY <1>1, <1>2, <1>3, <1>4 DEF PumpSteps

\* Run receives the oldest event there is.
LEMMA ReceivesIsGet ==
    ASSUME QueueTypeOK, Receives
    PROVE  F!Get
<1> DEFINE rest == Held(hand) \o items
<1>1. relay \in Event /\ Held(relay) = <<relay>> /\ Held(relay') = <<>>
  BY DEF QueueTypeOK, Receives, Held
<1>2. rest \in Seq(Event) /\ InFlight = <<relay>> \o rest
  BY <1>1, InFlightParts, ConcatProperties
<1>3. InFlight' = <<>> \o Held(hand) \o items
  BY <1>1 DEF Receives, InFlight, Held
<1>4. InFlight' = rest
  BY <1>3, InFlightParts, ConcatEmptySeq
<1>5. InFlight # <<>> /\ Tail(InFlight) = rest
  BY <1>1, <1>2, TailOfCons
<1>6. closed' = closed
  BY DEF Receives
<1> QED
  BY <1>4, <1>5, <1>6 DEF F!Get

LEMMA CloseIsShut ==
    ASSUME QueueTypeOK, Close
    PROVE  F!Shut
BY DEF Close, InFlight, F!Shut

\* One step of the queue, for whoever composes it with more.
LEMMA QueueStep ==
    ASSUME QueueTypeOK, [QueueNext]_queueVars
    PROVE  F!Next \/ UNCHANGED <<InFlight, closed>>
<1>1. CASE UNCHANGED queueVars
  BY <1>1 DEF queueVars, InFlight
<1> QED
  BY <1>1, PushIsPut, PumpMoves, ReceivesIsGet, CloseIsShut DEF QueueNext, F!Next

\* The queue, the pump and the relay together are a FIFO: events come out in
\* the order they were pushed, each once, also those pushed before the close,
\* and none pushed after it (queue's comment, gmessages/events.go:295).
THEOREM QueueImplementsFifo == QueueSpec => F!Spec
<1>1. QueueInit => F!Init
  <2> SUFFICES ASSUME QueueInit PROVE F!Init
    OBVIOUS
  <2>1. InFlight = <<>> \o <<>> \o <<>>
    BY DEF QueueInit, InFlight, Held
  <2>2. <<>> \in Seq(Event)
    OBVIOUS
  <2>3. InFlight = <<>>
    BY <2>1, <2>2, ConcatEmptySeq
  <2>4. (~closed) = TRUE
    BY Zenon DEF QueueInit
  <2> QED
    BY <2>3, <2>4 DEF F!Init
<1>2. QueueTypeOK /\ [QueueNext]_queueVars => [F!Next]_(F!vars)
  <2> SUFFICES ASSUME QueueTypeOK, [QueueNext]_queueVars PROVE [F!Next]_(F!vars)
    OBVIOUS
  <2>1. F!Next \/ UNCHANGED <<InFlight, closed>>
    BY QueueStep
  <2> QED
    BY <2>1 DEF F!vars
<1> QED
  BY <1>1, <1>2, QueueTypeCorrect, PTL DEF QueueSpec, F!Spec

=============================================================================
