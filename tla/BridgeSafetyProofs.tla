------------------------- MODULE BridgeSafetyProofs --------------------------
(***************************************************************************)
(* The safety properties of Bridge that follow from its inductive           *)
(* invariant, for every value of the constants: conversations stay where    *)
(* they are, messages are posted in their own thread, only what is bridged  *)
(* is marked read, nothing is sent twice, and a conversation has one thread *)
(* and at most one more for each mishap.                                    *)
(***************************************************************************)
EXTENDS BridgeProofs, FiniteSetTheorems

-----------------------------------------------------------------------------
(* Which actions change a variable at all.                                  *)

LEMMA PhoneChanges ==
    ASSUME [Next]_vars
    PROVE  \/ UNCHANGED phone
           \/ \E conv, mine : Hold(conv, 0, mine)
           \/ \E t \in 1..Len(sends) : PhoneSends(t)
<1>1. CASE TakeGM
  BY <1>1 DEF TakeGM, IncomingEcho, IncomingKnown, IncomingNew, IncomingIgnored,
     IncomingFails, phoneVars
<1>2. CASE TakeMM
  BY <1>2 DEF TakeMM, OutgoingIgnored, LookupFails, AttachmentsFail, SendPost, SendFails,
     phoneVars
<1>3. CASE HandlerStep
  BY <1>3 DEF HandlerStep, RecordEcho, SaveFails, EnsureKnown, OpenConversation, OpenFails,
     StoreConversation, FetchHistory, BackfillPost, BackfillSave, BackfillEnds,
     PostMessage, PostMessageFails, RecordMessage, RecordSend, RecordSendFails, phoneVars
<1>4. CASE PrunePending \/ Crash \/ Restart \/ UNCHANGED vars
  BY <1>4 DEF PrunePending, Crash, Restart, vars, phoneVars
<1>5. CASE Environment
  BY <1>5 DEF Environment, PhoneReceives, PhoneComposes, PhonePushes, HumanPosts,
     EchoIsLate, phoneVars
<1> QED
  BY <1>1, <1>2, <1>3, <1>4, <1>5 DEF Next, Process, Waiting

LEMMA ConversationsChange ==
    ASSUME [Next]_vars
    PROVE  UNCHANGED conversations \/ StoreConversation
<1>1. CASE TakeGM
  BY <1>1 DEF TakeGM, IncomingEcho, IncomingKnown, IncomingNew, IncomingIgnored,
     IncomingFails, dbVars
<1>2. CASE TakeMM
  BY <1>2 DEF TakeMM, OutgoingIgnored, LookupFails, AttachmentsFail, SendPost, SendFails,
     dbVars
<1>3. CASE HandlerStep
  BY <1>3 DEF HandlerStep, RecordEcho, SaveFails, EnsureKnown, OpenConversation, OpenFails,
     FetchHistory, BackfillPost, BackfillSave, BackfillEnds, PostMessage,
     PostMessageFails, RecordMessage, RecordSend, RecordSendFails, dbVars
<1>4. CASE PrunePending \/ Crash \/ Restart \/ UNCHANGED vars
  BY <1>4 DEF PrunePending, Crash, Restart, vars, dbVars
<1>5. CASE Environment
  BY <1>5 DEF Environment, PhoneReceives, PhoneComposes, PhoneSends, Hold, PhonePushes,
     HumanPosts, EchoIsLate, dbVars
<1> QED
  BY <1>1, <1>2, <1>3, <1>4, <1>5 DEF Next, Process, Waiting

LEMMA MessagesChange ==
    ASSUME [Next]_vars
    PROVE  UNCHANGED messages \/ IncomingKnown \/ RecordEcho \/ BackfillSave
           \/ RecordMessage
<1>1. CASE TakeGM
  BY <1>1 DEF TakeGM, IncomingEcho, IncomingNew, IncomingIgnored, IncomingFails, dbVars
<1>2. CASE TakeMM
  BY <1>2 DEF TakeMM, OutgoingIgnored, LookupFails, AttachmentsFail, SendPost, SendFails,
     dbVars
<1>3. CASE HandlerStep
  BY <1>3 DEF HandlerStep, SaveFails, EnsureKnown, OpenConversation, OpenFails,
     StoreConversation, FetchHistory, BackfillPost, BackfillEnds, PostMessage,
     PostMessageFails, RecordSend, RecordSendFails, dbVars
<1>4. CASE PrunePending \/ Crash \/ Restart \/ UNCHANGED vars
  BY <1>4 DEF PrunePending, Crash, Restart, vars, dbVars
<1>5. CASE Environment
  BY <1>5 DEF Environment, PhoneReceives, PhoneComposes, PhoneSends, Hold, PhonePushes,
     HumanPosts, EchoIsLate, dbVars
<1> QED
  BY <1>1, <1>2, <1>3, <1>4, <1>5 DEF Next, Process, Waiting

LEMMA MarksChange ==
    ASSUME [Next]_vars
    PROVE  UNCHANGED markedRead \/ RecordMessage
<1>1. CASE TakeGM
  BY <1>1 DEF TakeGM, IncomingEcho, IncomingKnown, IncomingNew, IncomingIgnored,
     IncomingFails
<1>2. CASE TakeMM
  BY <1>2 DEF TakeMM, OutgoingIgnored, LookupFails, AttachmentsFail, SendPost, SendFails
<1>3. CASE HandlerStep
  BY <1>3 DEF HandlerStep, RecordEcho, SaveFails, EnsureKnown, OpenConversation, OpenFails,
     StoreConversation, FetchHistory, BackfillPost, BackfillSave, BackfillEnds,
     PostMessage, PostMessageFails, RecordSend, RecordSendFails
<1>4. CASE PrunePending \/ Crash \/ Restart \/ UNCHANGED vars
  BY <1>4 DEF PrunePending, Crash, Restart, vars
<1>5. CASE Environment
  BY <1>5 DEF Environment, PhoneReceives, PhoneComposes, PhoneSends, Hold, PhonePushes,
     HumanPosts, EchoIsLate
<1> QED
  BY <1>1, <1>2, <1>3, <1>4, <1>5 DEF Next, Process, Waiting

-----------------------------------------------------------------------------
(* Threads and the posts in them.                                           *)

\* The phone forgets no message and changes nothing it says of one.
LEMMA PhoneKept ==
    ASSUME IInv, [Next]_vars
    PROVE  /\ Len(phone) \in Nat /\ Len(phone') \in Nat /\ Len(phone) <= Len(phone')
           /\ \A m \in 1..Len(phone) : m \in 1..Len(phone') /\ phone'[m] = phone[m]
<1> DEFINE S == [conv : Convs, tmp : Tmps \cup {0}, mine : BOOLEAN]
<1>1. phone \in Seq(S) /\ phone' \in Seq(S)
  BY NextInv DEF IInv, TypeOK
<1>2. Len(phone) \in Nat /\ Len(phone') \in Nat
  BY <1>1, LenProperties
<1>3. CASE UNCHANGED phone
  BY <1>2, <1>3
<1>4. ASSUME NEW new, phone' = Append(phone, new)
      PROVE  Len(phone') = Len(phone) + 1 /\ \A m \in 1..Len(phone) : phone'[m] = phone[m]
  BY <1>1, <1>2, <1>4
<1>5. UNCHANGED phone \/ \E new : phone' = Append(phone, new)
  BY PhoneChanges DEF PhoneSends, Hold
<1> QED
  BY <1>2, <1>3, <1>4, <1>5

LEMMA ThreadsStep ==
    ASSUME IInv, [Next]_vars
    PROVE  \A c \in Convs : Stored(conversations, c)
                              => conversations'[c] = conversations[c]
<1>1. CASE StoreConversation
  <2>1. ~Stored(conversations, ConvOf(cur.msg))
    BY <1>1 DEF StoreConversation, IInv, ThreadOK
  <2> QED
    BY <1>1, <2>1 DEF StoreConversation, SaveConversation, IInv, TypeOK
<1> QED
  BY <1>1, ConversationsChange

\* A conversation keeps its channel and thread through every retry, crash,
\* restart and change of the routing rules: ensureConversation stores one only
\* while nothing is stored.
THEOREM ThreadsStay == Spec => ThreadsNeverMove
<1>1. IInv /\ [Next]_vars => [\A c \in Convs : Stored(conversations, c)
                                => conversations'[c] = conversations[c]]_vars
  BY ThreadsStep
<1> QED
  BY <1>1, Invariance, PTL DEF Spec, ThreadsNeverMove

\* A post about a message, as postMessage and backfill make it.
IsCopyOf(q, m) ==
    /\ m \in {cur.msg} \cup cur.todo
    /\ m \in 1..Len(phone) /\ ConvOf(m) = ConvOf(cur.msg)
    /\ q = BridgePost("msg", m, Destination(cur.msg).chan, Destination(cur.msg).root)

\* A post as the code and the people make them: a copy only of a message whose
\* thread the handler is in, a root post on its own, a notice in the thread of a
\* post there is, and a typed post in the channel of the one it answers.
Sound(q) ==
    /\ q.emoji = {}
    /\ q.kind = "msg" => pc \in InThread /\ \E m : IsCopyOf(q, m)
    /\ q.kind = "root" => q.root = 0
    /\ q.kind = "notice" => \E p \in 1..Len(posts) : /\ q.chan = posts[p].chan
                                                      /\ q.root = ThreadRoot(p)
    /\ q.kind = "typed" => /\ q.root \in 0..Len(posts)
                           /\ q.root # 0 => posts[q.root].chan = q.chan

LEMMA HandlerAddsPosts ==
    ASSUME IInv, HandlerStep
    PROVE  \/ NoPostAdded
           \/ \E q : PostAdded(q) /\ Sound(q)
<1> DEFINE Goal == \/ NoPostAdded
                   \/ \E q : PostAdded(q) /\ Sound(q)
<1>1. CASE RecordEcho
  BY <1>1, DeliveryStatusPosts DEF RecordEcho, IInv
<1>2. CASE SaveFails \/ EnsureKnown \/ StoreConversation \/ FetchHistory \/ BackfillSave
           \/ RecordMessage \/ RecordSend \/ RecordSendFails
  <2>1. UNCHANGED posts
    BY <1>2 DEF SaveFails, EnsureKnown, StoreConversation, FetchHistory, BackfillSave,
       RecordMessage, RecordSend, RecordSendFails
  <2> QED
    BY <2>1, UnchangedPosts DEF IInv
<1>3. CASE OpenConversation \/ OpenFails
  <2> DEFINE q == BridgePost("root", ConvOf(cur.msg), settings.route[ConvOf(cur.msg)], 0)
  <2>1. NoPostAdded \/ PostAdded(q)
    BY <1>3, RoutedChannel, PublishPost, PublishMayFail, UnchangedPosts
       DEF OpenConversation, OpenFails, IInv
  <2>2. Sound(q)
    BY DEF Sound, BridgePost
  <2> QED
    BY <2>1, <2>2
<1>4. CASE BackfillPost \/ BackfillEnds
  <2>1. pc \in InThread
    BY <1>4 DEF BackfillPost, BackfillEnds, InThread
  <2>2. \/ UNCHANGED posts
        \/ \E m \in cur.todo :
              \/ Publish("msg", m, Destination(cur.msg).chan, Destination(cur.msg).root)
              \/ PublishFails("msg", m, Destination(cur.msg).chan,
                              Destination(cur.msg).root)
    BY <1>4 DEF BackfillPost, BackfillEnds
  <2>3. ASSUME NEW m \in cur.todo,
               \/ Publish("msg", m, Destination(cur.msg).chan, Destination(cur.msg).root)
               \/ PublishFails("msg", m, Destination(cur.msg).chan,
                               Destination(cur.msg).root)
        PROVE  Goal
    <3>1. m \in 1..Len(phone) /\ ConvOf(m) = ConvOf(cur.msg)
      BY DEF IInv, WorkOK
    <3>2. \/ NoPostAdded
          \/ PostAdded(BridgePost("msg", m, Destination(cur.msg).chan,
                                  Destination(cur.msg).root))
      BY <2>1, <2>3, <3>1, PublishInThread, PublishInThreadMayFail
    <3> QED
      BY <2>1, <3>1, <3>2 DEF Sound, IsCopyOf, BridgePost
  <2> QED
    BY <2>2, <2>3, UnchangedPosts DEF IInv
<1>5. CASE PostMessage \/ PostMessageFails
  <2>1. pc \in InThread /\ cur.msg \in 1..Len(phone)
    BY <1>5, PlaceOfMessage DEF PostMessage, PostMessageFails, InThread
  <2>2. \/ NoPostAdded
        \/ PostAdded(BridgePost("msg", cur.msg, Destination(cur.msg).chan,
                                Destination(cur.msg).root))
    BY <1>5, <2>1, PublishInThread, PublishInThreadMayFail DEF PostMessage, PostMessageFails
  <2> QED
    BY <2>1, <2>2 DEF Sound, IsCopyOf, BridgePost
<1> QED
  BY <1>1, <1>2, <1>3, <1>4, <1>5 DEF HandlerStep

\* Only a handler past ensureConversation makes posts about messages.
LEMMA StepAddsPosts ==
    ASSUME IInv, [Next]_vars
    PROVE  \/ NoPostAdded
           \/ \E q : PostAdded(q) /\ Sound(q)
<1>1. CASE TakeGM
  <2>1. NoPostAdded
    BY <1>1, DeliveryStatusPosts, UnchangedPosts DEF TakeGM, IncomingEcho, IncomingKnown,
       IncomingNew, IncomingIgnored, IncomingFails, IInv
  <2> QED
    BY <2>1
<1>2. CASE TakeMM
  <2>1. CASE SendFails
    <3>1. MMEvent /\ Head(mmq) \in 1..Len(posts)
      BY <2>1, PostTaken DEF SendFails
    <3> QED
      BY <2>1, <3>1, ReportPosts DEF SendFails, Sound
  <2>2. CASE ~SendFails
    BY <1>2, <2>2, UnchangedPosts DEF TakeMM, OutgoingIgnored, LookupFails,
       AttachmentsFail, SendPost, IInv
  <2> QED
    BY <2>1, <2>2
<1>3. CASE PrunePending \/ Crash \/ Restart \/ UNCHANGED vars
  BY <1>3, UnchangedPosts DEF PrunePending, Crash, Restart, vars, IInv
<1>4. CASE Environment
  <2>1. ASSUME NEW chan \in Channels, NEW root \in 0..Len(posts), NEW body \in Bodies,
               HumanPosts(chan, root, body)
        PROVE  \E q : PostAdded(q) /\ Sound(q)
    <3>1. PICK q : /\ PostAdded(q) /\ q.kind = "typed" /\ q.emoji = {}
                   /\ q.chan = chan /\ q.root = root
      BY <2>1, TypedPost
    <3>2. root # 0 => posts[root].chan = chan
      BY <2>1, TypedPost
    <3>3. Sound(q)
      BY <3>1, <3>2 DEF Sound
    <3> QED
      BY <3>1, <3>3
  <2>2. UNCHANGED posts
        \/ \E chan \in Channels, root \in 0..Len(posts), body \in Bodies :
              HumanPosts(chan, root, body)
    BY <1>4 DEF Environment, PhoneReceives, PhoneComposes, PhoneSends, Hold, PhonePushes,
       EchoIsLate
  <2> QED
    BY <2>1, <2>2, UnchangedPosts DEF IInv
<1> QED
  BY <1>1, <1>2, <1>3, <1>4, HandlerAddsPosts DEF Next, Process, Waiting

LEMMA PostedStep ==
    ASSUME IInv, PostedInItsThread, [Next]_vars
    PROVE  PostedInItsThread'
<1> SUFFICES ASSUME NEW m \in 1..Len(phone'), NEW p \in Copies(m)'
             PROVE  /\ Stored(conversations', ConvOf(m)')
                    /\ posts'[p].chan = conversations'[ConvOf(m)'].chan
                    /\ posts'[p].root = conversations'[ConvOf(m)'].root
  BY DEF PostedInItsThread
<1>1. p \in 1..Len(posts') /\ posts'[p].kind = "msg" /\ posts'[p].about = m
  BY DEF Copies
<1>2. Len(posts) \in Nat /\ Len(posts') \in Nat
  BY NextInv, LenProperties DEF IInv, TypeOK
<1>3. CASE p \in 1..Len(posts)
  <2>1. PostsKept
    BY StepAddsPosts DEF NoPostAdded, PostAdded
  <2>2. p \in Copies(m) /\ posts'[p].chan = posts[p].chan /\ posts'[p].root = posts[p].root
    BY <1>1, <1>3, <2>1 DEF Copies, PostsKept
  <2>3. m \in 1..Len(phone)
    BY <2>2 DEF Copies, IInv, RefsOK
  <2>4. ConvOf(m) \in Convs /\ ConvOf(m)' = ConvOf(m)
    BY <2>3, MessageType, PhoneKept DEF ConvOf, IInv
  <2>5. /\ Stored(conversations, ConvOf(m))
        /\ posts[p].chan = conversations[ConvOf(m)].chan
        /\ posts[p].root = conversations[ConvOf(m)].root
    BY <2>2, <2>3 DEF PostedInItsThread
  <2> QED
    BY <2>2, <2>4, <2>5, ThreadsStep DEF Stored
<1>4. CASE p \notin 1..Len(posts)
  <2>1. PICK q : PostAdded(q) /\ Sound(q)
    BY <1>1, <1>2, <1>4, StepAddsPosts DEF NoPostAdded
  <2>2. p = Len(posts) + 1 /\ posts'[p] = q
    BY <1>1, <1>2, <1>4, <2>1 DEF PostAdded
  <2>3. pc \in InThread /\ IsCopyOf(q, m)
    BY <1>1, <2>1, <2>2 DEF Sound, IsCopyOf, BridgePost
  <2>4. ConvOf(m) \in Convs /\ ConvOf(m)' = ConvOf(m) /\ ConvOf(m) = ConvOf(cur.msg)
    BY <2>3, MessageType, PhoneKept DEF IsCopyOf, ConvOf, IInv
  <2>5. Stored(conversations, ConvOf(m))
    BY <2>3, <2>4 DEF IInv, ThreadOK
  <2>6. q.chan = conversations[ConvOf(m)].chan /\ q.root = conversations[ConvOf(m)].root
    BY <2>3, <2>4 DEF IsCopyOf, BridgePost, Destination
  <2> QED
    BY <2>2, <2>4, <2>5, <2>6, ThreadsStep DEF Stored
<1> QED
  BY <1>3, <1>4

\* Every post about a message is in the channel and the thread stored for its
\* conversation: also those of a backfill, those whose answer was lost, and those
\* made after the routing rules changed.
THEOREM PostedInThread == Spec => []PostedInItsThread
<1>1. Init => PostedInItsThread
  <2>1. Init => posts = <<>> /\ Len(<<>>) = 0
    BY EmptySeq DEF Init
  <2>2. ASSUME Init, NEW m PROVE Copies(m) = {}
    BY <2>1, <2>2 DEF Copies
  <2> QED
    BY <2>2 DEF PostedInItsThread
<1>2. IInv /\ PostedInItsThread /\ [Next]_vars => PostedInItsThread'
  BY PostedStep
<1> QED
  BY <1>1, <1>2, Invariance, PTL DEF Spec

-----------------------------------------------------------------------------
(* What is marked read.                                                     *)

LEMMA MappedPost ==
    ASSUME TypeOK, NEW m \in Msgs
    PROVE  Mapped(messages, m) <=> messages[m].post # 0
BY DEF TypeOK, Mapped, MessageRows, NoRow

\* A mapping is never lost.
LEMMA MappedStays ==
    ASSUME IInv, [Next]_vars, NEW m \in Msgs, Mapped(messages, m)
    PROVE  Mapped(messages', m)
<1>1. messages[m].post # 0
  BY MappedPost DEF IInv
<1>2. CASE IncomingKnown
  BY <1>1, <1>2 DEF IncomingKnown, UpdateMessageStatus, Mapped, NoRow, MessageRows, IInv,
     TypeOK
<1>3. CASE RecordEcho \/ RecordMessage \/ BackfillSave
  <2>1. cur.post # 0
    BY <1>3 DEF RecordEcho, RecordMessage, BackfillSave, IInv, WorkOK
  <2>2. \E n, status : messages' = SaveMessage(messages, n, cur.post, status)
    BY <1>3 DEF RecordEcho, RecordMessage, BackfillSave
  <2> QED
    BY <1>1, <2>1, <2>2 DEF SaveMessage, Mapped, NoRow, IInv, TypeOK
<1> QED
  BY <1>2, <1>3, MessagesChange

MarksOK == markedRead \subseteq 1..Len(phone) /\ ReadOnlyWhenBridged

LEMMA MarksStep == ASSUME IInv, MarksOK, [Next]_vars PROVE MarksOK'
<1>1. \A m \in markedRead :
        m \in 1..Len(phone) /\ m \in Msgs /\ Mapped(messages, m) /\ ~phone[m].mine
  BY DEF MarksOK, ReadOnlyWhenBridged, IInv, TypeOK
<1>2. \A m \in markedRead :
        m \in 1..Len(phone') /\ Mapped(messages', m) /\ ~phone'[m].mine
  BY <1>1, PhoneKept, MappedStays
<1>3. CASE UNCHANGED markedRead
  BY <1>2, <1>3 DEF MarksOK, ReadOnlyWhenBridged
<1>4. CASE RecordMessage /\ ~UNCHANGED markedRead
  <2>1. /\ markedRead' = markedRead \cup {cur.msg} /\ ~IsFromMe(cur.msg)
        /\ messages' = SaveMessage(messages, cur.msg, cur.post, cur.status)
        /\ UNCHANGED phone
    BY <1>4 DEF RecordMessage, MarksRead, phoneVars
  <2>2. cur.msg \in 1..Len(phone) /\ cur.msg \in Msgs /\ cur.post # 0
    BY <1>4 DEF RecordMessage, IInv, TypeOK, Locals, WorkOK, RefsOK, OnMessage, Msgs
  <2>3. Mapped(messages', cur.msg)
    BY <2>1, <2>2 DEF SaveMessage, Mapped, NoRow, IInv, TypeOK
  <2> QED
    BY <1>2, <2>1, <2>2, <2>3 DEF MarksOK, ReadOnlyWhenBridged, IsFromMe
<1> QED
  BY <1>3, <1>4, MarksChange

\* The phone is told that a message was read only after its mapping is stored, a
\* mapping is never lost again, and the user's own messages are never marked:
\* no crash or failed call can hide an unread message that did not arrive.
THEOREM ReadIsBridged == Spec => []ReadOnlyWhenBridged
<1>1. Init => MarksOK
  BY DEF Init, MarksOK, ReadOnlyWhenBridged
<1>2. IInv /\ MarksOK /\ [Next]_vars => MarksOK'
  BY MarksStep
<1>3. MarksOK => ReadOnlyWhenBridged
  BY DEF MarksOK
<1> QED
  BY <1>1, <1>2, <1>3, Invariance, PTL DEF Spec

-----------------------------------------------------------------------------
(* What is sent.                                                            *)

\* The stream holds posts of people, each once, and none that was sent.
QueueOK ==
    /\ \A i \in 1..Len(mmq) : posts[mmq[i]].author = "human"
    /\ \A i, j \in 1..Len(mmq) : mmq[i] = mmq[j] => i = j
    /\ \A i \in 1..Len(mmq), t \in 1..Len(sends) : sends[t].post # mmq[i]
    /\ \A t \in 1..Len(sends) : sends[t].post \in 1..Len(posts)

\* What a step does to the stream and to what was sent.
LEMMA HandlerKeepsQueue ==
    ASSUME IInv, HandlerStep
    PROVE  UNCHANGED <<mmq, sends>>
<1>1. UNCHANGED sends
  BY DEF HandlerStep, RecordEcho, SaveFails, EnsureKnown, OpenConversation, OpenFails,
     StoreConversation, FetchHistory, BackfillPost, BackfillSave, BackfillEnds,
     PostMessage, PostMessageFails, RecordMessage, RecordSend, RecordSendFails, phoneVars
<1>2. \A kind, about, chan, root :
        /\ Publish(kind, about, chan, root) => UNCHANGED mmq
        /\ PublishFails(kind, about, chan, root) => UNCHANGED mmq
  BY DEF Publish, PublishFails, Deliver, DecodePost, BridgePost
<1>3. CASE OpenConversation \/ OpenFails \/ BackfillPost \/ BackfillEnds \/ PostMessage
           \/ PostMessageFails
  BY <1>1, <1>2, <1>3 DEF OpenConversation, OpenFails, BackfillPost, BackfillEnds,
     PostMessage, PostMessageFails
<1>4. CASE RecordEcho \/ SaveFails \/ EnsureKnown \/ StoreConversation \/ FetchHistory
           \/ BackfillSave \/ RecordMessage \/ RecordSend \/ RecordSendFails
  BY <1>1, <1>4 DEF RecordEcho, SaveFails, EnsureKnown, StoreConversation, FetchHistory,
     BackfillSave, RecordMessage, RecordSend, RecordSendFails
<1> QED
  BY <1>1, <1>3, <1>4 DEF HandlerStep

PostQueued ==
    /\ \E q : PostAdded(q) /\ q.author = "human"
    /\ mmq' = mmq \/ mmq' = Append(mmq, Len(posts) + 1)
    /\ UNCHANGED sends

PostHandled ==
    /\ MMEvent /\ mmq' = Tail(mmq)
    /\ \/ UNCHANGED sends
       \/ \E c \in Convs, r \in Msgs \cup {0} : Accepted(Head(mmq), c, r)

LEMMA QueueChanges ==
    ASSUME IInv, [Next]_vars
    PROVE  \/ UNCHANGED <<mmq, sends>>
           \/ mmq' = <<>> /\ UNCHANGED sends
           \/ PostQueued
           \/ PostHandled
<1>1. CASE TakeGM
  BY <1>1 DEF TakeGM, IncomingEcho, IncomingKnown, IncomingNew, IncomingIgnored,
     IncomingFails, phoneVars
<1>2. CASE TakeMM
  <2>1. CASE SendFails
    BY <2>1, ReportPosts DEF SendFails, PostHandled
  <2>2. CASE SendPost
    BY <2>2 DEF SendPost, PostHandled, TakeMMEvent
  <2>3. CASE OutgoingIgnored \/ LookupFails \/ AttachmentsFail
    BY <2>3 DEF OutgoingIgnored, LookupFails, AttachmentsFail, PostHandled, TakeMMEvent,
       phoneVars
  <2> QED
    BY <1>2, <2>1, <2>2, <2>3 DEF TakeMM
<1>3. CASE PrunePending \/ Crash \/ Restart \/ UNCHANGED vars
  BY <1>3 DEF PrunePending, Crash, Restart, vars, phoneVars
<1>4. CASE Environment
  <2>1. ASSUME NEW chan \in Channels, NEW root \in 0..Len(posts), NEW body \in Bodies,
               HumanPosts(chan, root, body)
        PROVE  PostQueued
    <3>1. UNCHANGED sends
      BY <2>1 DEF HumanPosts, phoneVars
    <3> QED
      BY <2>1, <3>1, TypedPost DEF PostQueued
  <2>2. UNCHANGED <<mmq, sends>>
        \/ \E chan \in Channels, root \in 0..Len(posts), body \in Bodies :
              HumanPosts(chan, root, body)
    BY <1>4 DEF Environment, PhoneReceives, PhoneComposes, PhoneSends, Hold, PhonePushes,
       EchoIsLate, phoneVars
  <2> QED
    BY <2>1, <2>2
<1> QED
  BY <1>1, <1>2, <1>3, <1>4, HandlerKeepsQueue DEF Next, Process, Waiting

LEMMA SentStep ==
    ASSUME IInv, QueueOK, SentAtMostOnce, [Next]_vars
    PROVE  QueueOK' /\ SentAtMostOnce'
<1>1. PostsKept
  BY StepAddsPosts DEF NoPostAdded, PostAdded
<1>2. /\ Len(posts) \in Nat /\ Len(posts') \in Nat /\ Len(posts) <= Len(posts')
      /\ Len(mmq) \in Nat /\ Len(sends) \in Nat
  BY <1>1, LenProperties DEF PostsKept, IInv, TypeOK
<1>3. \A i \in 1..Len(mmq) : mmq[i] \in 1..Len(posts) /\ posts'[mmq[i]].author = "human"
  BY <1>1 DEF QueueOK, PostsKept, IInv, RefsOK
<1>4. \A t \in 1..Len(sends) :
        /\ sends[t].post \in 1..Len(posts) /\ sends[t].post \in 1..Len(posts')
        /\ posts'[sends[t].post].author = "human"
  <2>1. \A t \in 1..Len(sends) :
          sends[t].post \in 1..Len(posts) /\ posts[sends[t].post].author = "human"
    BY DEF QueueOK, SentAtMostOnce
  <2> QED
    BY <1>1, <1>2, <2>1 DEF PostsKept
<1>5. CASE UNCHANGED <<mmq, sends>>
  BY <1>3, <1>4, <1>5 DEF QueueOK, SentAtMostOnce
<1>6. CASE mmq' = <<>> /\ UNCHANGED sends
  BY <1>4, <1>6, EmptySeq DEF QueueOK, SentAtMostOnce
<1>7. CASE PostQueued
  <2>1. UNCHANGED sends /\ posts'[Len(posts) + 1].author = "human"
        /\ Len(posts) + 1 \in 1..Len(posts')
    BY <1>2, <1>7 DEF PostQueued, PostAdded
  <2>2. CASE mmq' = mmq
    BY <1>3, <1>4, <2>1, <2>2 DEF QueueOK, SentAtMostOnce
  <2>3. CASE mmq' = Append(mmq, Len(posts) + 1)
    <3>1. /\ Len(mmq') = Len(mmq) + 1 /\ mmq'[Len(mmq) + 1] = Len(posts) + 1
          /\ \A i \in 1..Len(mmq) : mmq'[i] = mmq[i]
      BY <1>2, <2>3, AppendProperties DEF IInv, TypeOK
    <3>2. \A i \in 1..Len(mmq') : i \in 1..Len(mmq) \/ i = Len(mmq) + 1
      BY <1>2, <3>1
    <3>3. \A i \in 1..Len(mmq) : mmq[i] # Len(posts) + 1
      BY <1>2, <1>3
    <3>4. \A i \in 1..Len(mmq') : posts'[mmq'[i]].author = "human"
      BY <1>3, <2>1, <3>1, <3>2
    <3>5. \A i, j \in 1..Len(mmq') : mmq'[i] = mmq'[j] => i = j
      BY <3>1, <3>2, <3>3 DEF QueueOK
    <3>6. \A i \in 1..Len(mmq'), t \in 1..Len(sends') : sends'[t].post # mmq'[i]
      BY <1>2, <1>4, <2>1, <3>1, <3>2 DEF QueueOK
    <3>7. \A t \in 1..Len(sends') : sends'[t].post \in 1..Len(posts')
      BY <1>4, <2>1
    <3>8. SentAtMostOnce'
      BY <1>4, <2>1 DEF SentAtMostOnce
    <3> QED
      BY <3>4, <3>5, <3>6, <3>7, <3>8 DEF QueueOK
  <2> QED
    BY <1>7, <2>2, <2>3 DEF PostQueued
<1>8. CASE PostHandled
  <2>1. /\ Head(mmq) = mmq[1] /\ 1 \in 1..Len(mmq)
        /\ \A i \in 1..Len(mmq') : i + 1 \in 1..Len(mmq) /\ mmq'[i] = mmq[i + 1]
    BY <1>8, PostTaken DEF PostHandled
  <2>2. Len(mmq') \in Nat
    BY NextInv, LenProperties DEF IInv, TypeOK
  <2>3. \A i \in 1..Len(mmq') : mmq'[i] # mmq[1] /\ posts'[mmq'[i]].author = "human"
    BY <1>2, <1>3, <2>1, <2>2 DEF QueueOK
  <2>4. \A i, j \in 1..Len(mmq') : mmq'[i] = mmq'[j] => i = j
    BY <2>1, <2>2 DEF QueueOK
  <2>5. CASE UNCHANGED sends
    BY <1>4, <2>1, <2>3, <2>4, <2>5 DEF QueueOK, SentAtMostOnce
  <2>6. ASSUME NEW c, NEW r, Accepted(Head(mmq), c, r)
        PROVE  QueueOK' /\ SentAtMostOnce'
    <3>1. /\ Len(sends') = Len(sends) + 1 /\ sends'[Len(sends) + 1].post = mmq[1]
          /\ \A t \in 1..Len(sends) : sends'[t] = sends[t]
      <4>1. sends' = Append(sends, [post |-> mmq[1], conv |-> c, reply |-> r])
        BY <2>1, <2>6 DEF Accepted
      <4> QED
        BY <1>2, <4>1, AppendProperties DEF IInv, TypeOK
    <3>2. \A t \in 1..Len(sends') : t \in 1..Len(sends) \/ t = Len(sends) + 1
      BY <1>2, <3>1
    <3>3. mmq[1] \in 1..Len(posts') /\ posts'[mmq[1]].author = "human"
      BY <1>2, <1>3, <2>1
    <3>4. \A t \in 1..Len(sends) : sends[t].post # mmq[1]
      BY <2>1 DEF QueueOK
    <3>5. \A t \in 1..Len(sends) : \A i \in 1..Len(mmq') : sends[t].post # mmq'[i]
      BY <2>1 DEF QueueOK
    <3>6. QueueOK'
      <4>1. \A i \in 1..Len(mmq'), t \in 1..Len(sends') : sends'[t].post # mmq'[i]
        BY <2>3, <3>1, <3>2, <3>5
      <4>2. \A t \in 1..Len(sends') : sends'[t].post \in 1..Len(posts')
        BY <1>4, <3>1, <3>2, <3>3
      <4> QED
        BY <2>3, <2>4, <4>1, <4>2 DEF QueueOK
    <3>7. SentAtMostOnce'
      BY <1>4, <3>1, <3>2, <3>3, <3>4 DEF SentAtMostOnce
    <3> QED
      BY <3>6, <3>7
  <2> QED
    BY <1>8, <2>5, <2>6 DEF PostHandled
<1> QED
  BY <1>5, <1>6, <1>7, <1>8, QueueChanges

\* What a person types goes out at most once and nothing the bridge posts goes
\* out at all, whatever is lost, refused, restarted or reconfigured: the loop
\* guard of decodePost and the single goroutine suffice.
THEOREM NothingSentTwice == Spec => []SentAtMostOnce
<1>1. Init => QueueOK /\ SentAtMostOnce
  BY EmptySeq DEF Init, QueueOK, SentAtMostOnce
<1>2. IInv /\ QueueOK /\ SentAtMostOnce /\ [Next]_vars => QueueOK' /\ SentAtMostOnce'
  BY SentStep
<1> QED
  BY <1>1, <1>2, Invariance, PTL DEF Spec

-----------------------------------------------------------------------------
(* One thread for a conversation.                                           *)

\* The posts of a kind about a conversation or a message.
PostsAbout(kind, about) ==
    {p \in 1..Len(posts) : posts[p].kind = kind /\ posts[p].about = about}

LEMMA CountPosts ==
    ASSUME IInv, NEW kind, NEW about
    PROVE  /\ Cardinality(PostsAbout(kind, about)) \in Nat
           /\ NoPostAdded => PostsAbout(kind, about)' = PostsAbout(kind, about)
           /\ \A q : PostAdded(q) =>
                Cardinality(PostsAbout(kind, about)')
                  = IF q.kind = kind /\ q.about = about
                    THEN Cardinality(PostsAbout(kind, about)) + 1
                    ELSE Cardinality(PostsAbout(kind, about))
<1> DEFINE S == PostsAbout(kind, about)
<1>0. Len(posts) \in Nat
  BY DEF IInv, TypeOK
<1>1. IsFiniteSet(S) /\ Cardinality(S) \in Nat
  <2>1. IsFiniteSet(1..Len(posts))
    BY <1>0, FS_Interval
  <2> QED
    BY <2>1, FS_Subset, FS_CardinalityType DEF PostsAbout
<1>2. NoPostAdded => S' = S
  BY <1>0 DEF NoPostAdded, PostsKept, PostsAbout
<1>3. ASSUME NEW q, PostAdded(q)
      PROVE  Cardinality(S') = IF q.kind = kind /\ q.about = about
                               THEN Cardinality(S) + 1 ELSE Cardinality(S)
  <2>1. /\ Len(posts') = Len(posts) + 1 /\ posts'[Len(posts) + 1] = q
        /\ \A p \in 1..Len(posts) : posts'[p].kind = posts[p].kind
                                    /\ posts'[p].about = posts[p].about
    BY <1>3 DEF PostAdded, PostsKept
  <2>2. S' = IF q.kind = kind /\ q.about = about THEN S \cup {Len(posts) + 1} ELSE S
    BY <1>0, <2>1 DEF PostsAbout
  <2>3. Len(posts) + 1 \notin S
    BY <1>0 DEF PostsAbout
  <2> QED
    BY <1>1, <2>2, <2>3, FS_AddElement
<1> QED
  BY <1>1, <1>2, <1>3

LEMMA MishapsGrow ==
    ASSUME IInv, [Next]_vars
    PROVE  mishaps \in Nat /\ mishaps' \in Nat /\ mishaps <= mishaps'
<1>1. mishaps \in Nat /\ mishaps' \in Nat
  BY NextInv, BoundsAssumption DEF IInv, TypeOK
<1>2. mishaps' = mishaps \/ mishaps' = mishaps + 1 \/ mishaps' = mishaps + 2
  <2>1. CASE TakeGM
    BY <2>1 DEF TakeGM, IncomingEcho, IncomingKnown, IncomingNew, IncomingIgnored,
       IncomingFails, ApplyDeliveryStatus, Mishap
  <2>2. CASE TakeMM
    BY <2>2 DEF TakeMM, OutgoingIgnored, LookupFails, AttachmentsFail, SendPost, SendFails,
       ReportSendFailure, Mishap
  <2>3. CASE HandlerStep
    BY <2>3 DEF HandlerStep, RecordEcho, SaveFails, EnsureKnown, OpenConversation, OpenFails,
       StoreConversation, FetchHistory, BackfillPost, BackfillSave, BackfillEnds, PublishFails,
       PostMessage, PostMessageFails, RecordMessage, RecordSend, RecordSendFails,
       ApplyDeliveryStatus, Mishap
  <2>4. CASE PrunePending \/ Crash \/ Restart \/ UNCHANGED vars
    BY <2>4 DEF PrunePending, Crash, Restart, vars, Mishap
  <2>5. CASE Environment
    BY <2>5 DEF Environment, PhoneReceives, PhoneComposes, PhoneSends, Hold, PhonePushes,
       HumanPosts, EchoIsLate, Mishap
  <2> QED
    BY <2>1, <2>2, <2>3, <2>4, <2>5 DEF Next, Process, Waiting
<1> QED
  BY <1>1, <1>2

\* A conversation whose root post is, or may be about to be, stored.
Opened(c) == Stored(conversations, c) \/ (pc = "thread" /\ ConvOf(cur.msg) = c)

\* Each root post but that of an opened conversation has a mishap behind it.
RootsPaid ==
    \A c \in Convs :
        Cardinality(PostsAbout("root", c)) <= mishaps + (IF Opened(c) THEN 1 ELSE 0)

\* Only ensureConversation makes root posts, one at most.
LEMMA RootsAdded ==
    ASSUME IInv, [Next]_vars
    PROVE  \/ NoPostAdded
           \/ \E q : PostAdded(q) /\ q.kind # "root"
           \/ \E q : /\ PostAdded(q) /\ q.about = ConvOf(cur.msg)
                     /\ OpenConversation \/ (OpenFails /\ Mishap)
                     /\ NeedsThread(ConvOf(cur.msg))
<1> DEFINE Goal == \/ NoPostAdded
                   \/ \E q : PostAdded(q) /\ q.kind # "root"
                   \/ \E q : /\ PostAdded(q) /\ q.about = ConvOf(cur.msg)
                             /\ OpenConversation \/ (OpenFails /\ Mishap)
                             /\ NeedsThread(ConvOf(cur.msg))
<1>1. CASE \E q : PostAdded(q) /\ Sound(q) /\ ~OpenConversation /\ ~OpenFails
  <2>1. PICK q : PostAdded(q) /\ Sound(q)
    BY <1>1
  <2>2. CASE HandlerStep
    <3>1. CASE RecordEcho
      BY <3>1, DeliveryStatusPosts DEF RecordEcho, IInv
    <3>2. CASE BackfillPost \/ BackfillEnds \/ PostMessage \/ PostMessageFails
      <4>1. pc \in InThread
        BY <3>2 DEF BackfillPost, BackfillEnds, PostMessage, PostMessageFails, InThread
      <4>2. \/ UNCHANGED posts
            \/ \E m \in cur.todo \cup {cur.msg} :
                  \/ Publish("msg", m, Destination(cur.msg).chan, Destination(cur.msg).root)
                  \/ PublishFails("msg", m, Destination(cur.msg).chan,
                                  Destination(cur.msg).root)
        BY <3>2 DEF BackfillPost, BackfillEnds, PostMessage, PostMessageFails
      <4>3. \A m \in cur.todo \cup {cur.msg} : m \in 1..Len(phone)
        BY <4>1, PlaceOfMessage DEF IInv, WorkOK
      <4>4. ASSUME NEW m \in cur.todo \cup {cur.msg},
                   \/ Publish("msg", m, Destination(cur.msg).chan, Destination(cur.msg).root)
                   \/ PublishFails("msg", m, Destination(cur.msg).chan,
                                   Destination(cur.msg).root)
            PROVE  Goal
        <5>1. \/ NoPostAdded
              \/ PostAdded(BridgePost("msg", m, Destination(cur.msg).chan,
                                      Destination(cur.msg).root))
          BY <4>1, <4>3, <4>4, PublishInThread, PublishInThreadMayFail
        <5>2. BridgePost("msg", m, Destination(cur.msg).chan,
                         Destination(cur.msg).root).kind # "root"
          BY DEF BridgePost
        <5> QED
          BY <5>1, <5>2
      <4> QED
        BY <4>2, <4>4, UnchangedPosts DEF IInv
    <3>3. CASE SaveFails \/ EnsureKnown \/ StoreConversation \/ FetchHistory \/ BackfillSave
               \/ RecordMessage \/ RecordSend \/ RecordSendFails
      <4>1. UNCHANGED posts
        BY <3>3 DEF SaveFails, EnsureKnown, StoreConversation, FetchHistory, BackfillSave,
           RecordMessage, RecordSend, RecordSendFails
      <4> QED
        BY <4>1, UnchangedPosts DEF IInv
    <3> QED
      BY <1>1, <2>2, <3>1, <3>2, <3>3 DEF HandlerStep
  <2>3. CASE SendFails
    BY <2>3, ReportPosts DEF SendFails
  <2>4. CASE Environment
    <3>1. ASSUME NEW chan \in Channels, NEW root \in 0..Len(posts), NEW body \in Bodies,
                 HumanPosts(chan, root, body)
          PROVE  \E r : PostAdded(r) /\ r.kind # "root"
      BY <3>1, TypedPost
    <3>2. UNCHANGED posts
          \/ \E chan \in Channels, root \in 0..Len(posts), body \in Bodies :
                HumanPosts(chan, root, body)
      BY <2>4 DEF Environment, PhoneReceives, PhoneComposes, PhoneSends, Hold, PhonePushes,
         EchoIsLate
    <3> QED
      BY <3>1, <3>2, UnchangedPosts DEF IInv
  <2>5. CASE TakeGM
    BY <2>5, DeliveryStatusPosts, UnchangedPosts DEF TakeGM, IncomingEcho, IncomingKnown,
       IncomingNew, IncomingIgnored, IncomingFails, IInv
  <2>6. CASE TakeMM /\ ~SendFails
    BY <2>6, UnchangedPosts DEF TakeMM, OutgoingIgnored, LookupFails, AttachmentsFail,
       SendPost, IInv
  <2>7. CASE PrunePending \/ Crash \/ Restart \/ UNCHANGED vars
    BY <2>7, UnchangedPosts DEF PrunePending, Crash, Restart, vars, IInv
  <2> QED
    BY <2>2, <2>3, <2>4, <2>5, <2>6, <2>7 DEF Next, Process, Waiting
<1>2. CASE OpenConversation \/ OpenFails
  <2> DEFINE q == BridgePost("root", ConvOf(cur.msg), settings.route[ConvOf(cur.msg)], 0)
  <2>1. q.about = ConvOf(cur.msg)
    BY DEF BridgePost
  <2>2. \/ NoPostAdded
        \/ /\ PostAdded(q)
           /\ OpenConversation \/ (OpenFails /\ Mishap)
           /\ NeedsThread(ConvOf(cur.msg))
    <3>1. CASE OpenConversation
      BY <3>1, RoutedChannel, PublishPost, UnchangedPosts DEF OpenConversation, IInv
    <3>2. CASE OpenFails
      <4>1. pc = "conv" /\ Mishap
        BY <3>2 DEF OpenFails, PublishFails
      <4> QED
        BY <3>2, <4>1, RoutedChannel, PublishMayFail, UnchangedPosts DEF OpenFails, IInv
    <3> QED
      BY <1>2, <3>1, <3>2
  <2> HIDE DEF q
  <2> QED
    BY <2>1, <2>2
<1> QED
  BY <1>1, <1>2, StepAddsPosts

\* Once opened, a conversation stays so unless something goes wrong.
LEMMA OpenedStays ==
    ASSUME IInv, [Next]_vars, NEW c \in Convs, Opened(c)
    PROVE  Opened(c)' \/ Mishap
<1>1. CASE Stored(conversations, c)
  BY <1>1, ThreadsStep DEF Opened, Stored
<1>2. CASE pc = "thread" /\ ConvOf(cur.msg) = c
  <2>1. cur.msg \in 1..Len(phone)
    BY <1>2 DEF IInv, WorkOK, OnMessage
  <2>2. CASE UNCHANGED <<pc, cur>>
    BY <1>2, <2>1, <2>2, PhoneKept DEF Opened, ConvOf
  <2>3. CASE StoreConversation
    <3>1. cur.chan \in Channels /\ conversations \in [Convs -> ConversationRows(Nat)]
      BY <1>2 DEF IInv, ThreadOK, TypeOK
    <3>2. conversations'[c] = [chan |-> cur.chan, root |-> cur.post]
      BY <1>2, <2>3, <3>1 DEF StoreConversation, SaveConversation
    <3> QED
      BY <3>1, <3>2, NoneAssumption DEF Opened, Stored, NoConversation
  <2>4. CASE SaveFails \/ Crash
    BY <2>4 DEF SaveFails, Crash
  <2>5. CASE TakeGM \/ TakeMM \/ PrunePending \/ Restart
    BY <1>2, <2>5 DEF TakeGM, IncomingEcho, IncomingKnown, IncomingNew, IncomingIgnored,
       IncomingFails, TakeGMEvent, TakeMM, OutgoingIgnored, LookupFails, AttachmentsFail,
       SendPost, SendFails, TakeMMEvent, MMEvent, PrunePending, Restart
  <2>6. CASE HandlerStep /\ ~StoreConversation /\ ~SaveFails
    BY <1>2, <2>6 DEF HandlerStep, RecordEcho, EnsureKnown, OpenConversation, OpenFails,
       FetchHistory, BackfillPost, BackfillSave, BackfillEnds, PostMessage,
       PostMessageFails, RecordMessage, RecordSend, RecordSendFails
  <2>7. CASE Environment \/ UNCHANGED vars
    BY <2>2, <2>7 DEF Environment, PhoneReceives, PhoneComposes, PhoneSends, Hold,
       PhonePushes, HumanPosts, EchoIsLate, workVars, vars
  <2> QED
    BY <2>3, <2>4, <2>5, <2>6, <2>7 DEF Next, Process, Waiting
<1> QED
  BY <1>1, <1>2 DEF Opened

LEMMA RootsPaidStep ==
    ASSUME IInv, RootsPaid, [Next]_vars
    PROVE  RootsPaid'
<1> SUFFICES ASSUME NEW c \in Convs
             PROVE  Cardinality(PostsAbout("root", c)')
                      <= mishaps' + (IF Opened(c)' THEN 1 ELSE 0)
  BY DEF RootsPaid
<1> DEFINE n == Cardinality(PostsAbout("root", c))
           m == Cardinality(PostsAbout("root", c)')
<1>0. n \in Nat /\ n <= mishaps + (IF Opened(c) THEN 1 ELSE 0)
  BY CountPosts DEF RootsPaid
<1>1. mishaps \in Nat /\ mishaps' \in Nat /\ mishaps <= mishaps'
  BY MishapsGrow
<1>2. Opened(c) => Opened(c)' \/ mishaps' = mishaps + 1
  BY OpenedStays DEF Mishap
<1>3. CASE m = n
  BY <1>0, <1>1, <1>2, <1>3
<1>4. ASSUME NEW q, PostAdded(q), q.about = ConvOf(cur.msg), q.about = c,
             OpenConversation \/ (OpenFails /\ Mishap), NeedsThread(ConvOf(cur.msg))
      PROVE  m <= mishaps' + (IF Opened(c)' THEN 1 ELSE 0)
  <2>1. m = n + 1 \/ m = n
    BY <1>4, CountPosts
  <2>2. pc = "conv" /\ ~Opened(c)
    BY <1>4 DEF OpenConversation, OpenFails, NeedsThread, Opened
  <2>3. CASE OpenConversation
    <3>1. cur' \in Locals /\ pc' = "thread" /\ phone' = phone
      BY <2>3, NextInv DEF OpenConversation, Goto, IInv, TypeOK, phoneVars
    <3>2. cur'.msg = cur.msg
      BY <2>3 DEF OpenConversation, Goto, IInv, TypeOK, Locals
    <3>3. Opened(c)'
      BY <1>4, <3>1, <3>2 DEF Opened, ConvOf
    <3> QED
      BY <1>0, <1>1, <2>1, <2>2, <3>3
  <2>4. CASE Mishap
    BY <1>0, <1>1, <2>1, <2>2, <2>4 DEF Mishap
  <2> QED
    BY <1>4, <2>3, <2>4
<1>5. m = n \/ \E q : /\ PostAdded(q) /\ q.about = ConvOf(cur.msg) /\ q.about = c
                      /\ OpenConversation \/ (OpenFails /\ Mishap)
                      /\ NeedsThread(ConvOf(cur.msg))
  BY RootsAdded, CountPosts
<1> QED
  BY <1>3, <1>4, <1>5

\* ensureConversation opens a second thread for a conversation only after a call
\* that failed or a crash: one for each mishap, however often it is tried again
\* and however the rules and the layout are edited meanwhile.
THEOREM OneThreadEach == Spec => []OneThread
<1>1. Init => RootsPaid
  <2>1. Init => mishaps = 0 /\ posts = <<>> /\ Len(<<>>) = 0
    BY EmptySeq DEF Init
  <2>2. ASSUME Init, NEW c PROVE PostsAbout("root", c) = {}
    BY <2>1, <2>2 DEF PostsAbout
  <2> QED
    BY <2>1, <2>2, FS_EmptySet DEF RootsPaid
<1>2. IInv /\ RootsPaid /\ [Next]_vars => RootsPaid'
  BY RootsPaidStep
<1>3. IInv /\ RootsPaid => OneThread
  <2> SUFFICES ASSUME IInv, RootsPaid, NEW c \in Convs
               PROVE  Cardinality(PostsAbout("root", c)) <= 1 + mishaps
    BY DEF OneThread, PostsAbout
  <2>1. mishaps \in Nat /\ Cardinality(PostsAbout("root", c)) \in Nat
    BY CountPosts, BoundsAssumption DEF IInv, TypeOK
  <2> QED
    BY <2>1 DEF RootsPaid
<1> QED
  BY <1>1, <1>2, <1>3, Invariance, PTL DEF Spec

=============================================================================
