-------------------------- MODULE CoreBridgeProofs ---------------------------
(***************************************************************************)
(* The generic bridge over Discord, for every set of events, conversations, *)
(* channels and settings and every value of the bounds.                     *)
(*                                                                         *)
(* The invariant follows a message on its way: what the queue holds and a   *)
(* handler works on was written by people (OthersOK, WorkOK), posts and     *)
(* threads lie in the channel of their root (PostsOK, RootsOK), and a       *)
(* message is linked to one post, in the channel of its conversation        *)
(* (LinksOK, StreamOK).                                                     *)
(*                                                                         *)
(* What follows: the bot's messages do not come back, the queue is a FIFO,  *)
(* no post is misdelivered, the bridge implements Mirror, and a message has *)
(* one copy, a conversation one thread, and one more for each mishap.       *)
(***************************************************************************)
EXTENDS CoreBridge, EventQueueProofs, FiniteSetTheorems

-----------------------------------------------------------------------------
(* The inductive invariant.                                                 *)

\* The steps of handleIncomingMessage.
Receiving == {"conv", "thread", "post", "save"}

FromOthers(m) == m \in Event /\ m \in 1..Len(remote) /\ ~IsOwn(m)

\* The bot's own messages are nowhere behind the handlers.
OthersOK ==
    /\ \A i \in 1..Len(items) : FromOthers(items[i])
    /\ hand # Nothing => FromOthers(hand)
    /\ relay # Nothing => FromOthers(relay)

Unlinked(p) == \A n \in Event : messages[n].post # p

\* What a handler holds fits what is stored.
WorkOK ==
    /\ pc \in Receiving \cup {"sent"} =>
         cur.msg \in Event /\ cur.msg \in 1..Len(remote) /\ messages[cur.msg].post = 0
    /\ pc \in Receiving => FromOthers(cur.msg)
    /\ pc = "conv" => cur.post = 0
    /\ pc = "thread" =>
         /\ cur.chan \in Channels /\ ~Stored(conversations, ConvOf(cur.msg))
         /\ cur.post # 0 => posts[cur.post].chan = cur.chan
    /\ pc \in {"post", "save", "sent"} => Stored(conversations, ConvOf(cur.msg))
    /\ pc \in {"save", "sent"} =>
         /\ cur.post # 0 /\ Unlinked(cur.post)
         /\ posts[cur.post].chan = conversations[ConvOf(cur.msg)].chan
    /\ pc = "save" => cur.post \in Copies(cur.msg)
    /\ pc = "sent" => cur.post \in Humans

\* A copy is of a message people wrote; a reply is in its root's channel.
PostsOK ==
    \A p \in 1..Len(posts) :
        /\ posts[p].kind = "msg" => FromOthers(posts[p].about) /\ posts[p].author = "bridge"
        /\ posts[p].root # 0 => /\ posts[p].root \in 1..Len(posts)
                                /\ posts[posts[p].root].chan = posts[p].chan

\* A thread is in the channel stored with it.
RootsOK ==
    \A c \in Convs : conversations[c].root # 0 =>
        /\ conversations[c].root \in 1..Len(posts)
        /\ posts[conversations[c].root].chan = conversations[c].chan

\* A link is to a post in the channel of the message's conversation.
LinksOK ==
    \A m \in Event : messages[m].post # 0 =>
        /\ messages[m].post \in 1..Len(posts) /\ m \in 1..Len(remote)
        /\ Stored(conversations, ConvOf(m))
        /\ posts[messages[m].post].chan = conversations[ConvOf(m)].chan

\* The stream holds posts people typed, in the order they were typed; none of
\* them has been sent.
StreamOK ==
    /\ \A i \in 1..Len(mmq) : mmq[i] \in Humans /\ Unlinked(mmq[i])
    /\ \A i, j \in 1..Len(mmq) : i < j => mmq[i] < mmq[j]
    /\ pc = "sent" => \A i \in 1..Len(mmq) : mmq[i] # cur.post

CInv == CoreTypeOK /\ OthersOK /\ WorkOK /\ PostsOK /\ RootsOK /\ LinksOK /\ StreamOK

-----------------------------------------------------------------------------
(* Posts and messages are only ever added.                                  *)

LEMMA Numbers ==
    ASSUME CoreTypeOK
    PROVE  Len(posts) \in Nat /\ Len(remote) \in Nat /\ Event \subseteq Nat
           /\ posts \in Seq(Posts) /\ remote \in Seq(Messages)
BY LenProperties, EventAssumption DEF CoreTypeOK, EventAssumption

LEMMA Appended ==
    ASSUME NEW S, NEW s \in Seq(S), NEW e \in S
    PROVE  /\ Append(s, e) \in Seq(S) /\ Len(Append(s, e)) = Len(s) + 1
           /\ \A i \in 1..Len(s) : Append(s, e)[i] = s[i]
           /\ Append(s, e)[Len(s) + 1] = e
BY AppendProperties

\* What a step adds to the messages: nothing, what a person writes, or what the
\* oldest post in the stream becomes.
Written(w) ==
    /\ remote' = Append(remote, w) /\ Len(remote) + 1 \in Event /\ w \in Messages

SentFor(w) ==
    /\ pc = "idle" /\ mmq # <<>> /\ mmq' = Tail(mmq) /\ w.from = Head(mmq)
    /\ w.conv \in ConversationForPost(Head(mmq))
    /\ w.reply # 0 => w.reply \in ReplyTargets(Head(mmq), w.conv)

LEMMA HeadOfStream ==
    ASSUME CoreTypeOK, mmq # <<>>
    PROVE  /\ Head(mmq) \in 1..Len(posts) /\ Head(mmq) = mmq[1] /\ 1 \in 1..Len(mmq)
           /\ posts[Head(mmq)] \in Posts
           /\ Tail(mmq) \in Seq(1..Len(posts))
           /\ Len(mmq) \in Nat /\ Len(Tail(mmq)) = Len(mmq) - 1
           /\ \A i \in 1..Len(Tail(mmq)) : Tail(mmq)[i] = mmq[i + 1]
<1>1. mmq \in Seq(1..Len(posts)) /\ posts \in Seq(Posts)
  BY DEF CoreTypeOK
<1> QED
  BY <1>1, HeadTailProperties, EmptySeq, LenProperties, ElementOfSeq

LEMMA SendWrites ==
    ASSUME CoreTypeOK, SendPost \/ SendFails
    PROVE  \/ SendFails /\ UNCHANGED gatewayVars
           \/ \E w : /\ Arrives(w) /\ Written(w) /\ SentFor(w)
<1>1. TakePost
  BY DEF SendPost, SendFails
<1>2. Head(mmq) \in Nat
  BY <1>1, HeadOfStream, Numbers DEF TakePost
<1>3. ASSUME NEW c \in Convs, NEW r \in Event \cup {0}, Accepted(Head(mmq), c, r),
             c \in ConversationForPost(Head(mmq)),
             r \in ReplyTargets(Head(mmq), c) \/ r = 0
      PROVE  \E w : /\ Arrives(w) /\ Written(w) /\ SentFor(w)
  <2> DEFINE w == [conv |-> c, from |-> Head(mmq), body |-> "text", reply |-> r]
  <2>1. w \in Messages /\ w.conv = c /\ w.from = Head(mmq) /\ w.reply = r
    BY <1>2 DEF Messages
  <2>2. Arrives(w)
    BY <1>3 DEF Accepted
  <2> HIDE DEF w
  <2>3. Written(w)
    BY <2>1, <2>2 DEF Arrives, Written
  <2>4. SentFor(w)
    BY <1>1, <1>3, <2>1 DEF SentFor, TakePost
  <2> QED
    BY <2>2, <2>3, <2>4
<1>4. CASE SendPost
  <2>1. PICK c \in Convs, r \in Event \cup {0} :
          /\ ToSend(Head(mmq), c, r)
          /\ Accepted(Head(mmq), c, r) \/ Accepted(Head(mmq), c, 0)
    BY <1>4 DEF SendPost
  <2> QED
    BY <1>3, <2>1 DEF ToSend
<1>5. CASE SendFails
  <2>1. PICK c \in Convs, r \in Event \cup {0} :
          /\ ToSend(Head(mmq), c, r)
          /\ Accepted(Head(mmq), c, r) \/ UNCHANGED gatewayVars
    BY <1>5 DEF SendFails
  <2> QED
    BY <1>3, <1>5, <2>1 DEF ToSend
<1> QED
  BY <1>4, <1>5

LEMMA PersonWritesOne ==
    ASSUME CoreTypeOK, NEW conv \in Convs, NEW body \in Bodies, PersonWrites(conv, body)
    PROVE  \E w : Arrives(w) /\ Written(w) /\ w.from = 0
<1> DEFINE w == [conv |-> conv, from |-> 0, body |-> body, reply |-> 0]
<1>1. w \in Messages /\ w.from = 0
  BY BodiesAssumption DEF Messages, BodiesAssumption
<1>2. Arrives(w)
  BY DEF PersonWrites
<1> HIDE DEF w
<1> QED
  BY <1>1, <1>2 DEF Arrives, Written

\* Who touches Discord's side: a person or a send adds a message; the session
\* repeats, a handler returns, the session ends.
LEMMA GatewayChanges ==
    ASSUME CoreTypeOK, [Next]_vars
    PROVE  \/ UNCHANGED gatewayVars
           \/ \E w : Arrives(w) /\ Written(w) /\ (w.from = 0 \/ SentFor(w))
           \/ UNCHANGED remote /\ heard' \subseteq heard /\ handlers' \subseteq handlers \cup heard
<1>1. CASE TakeTransport
  BY <1>1 DEF TakeTransport, IncomingNew, IncomingIgnored, IncomingFails, TakeEvent
<1>2. CASE TakeMM
  BY <1>2, SendWrites DEF TakeMM, OutgoingIgnored, OutgoingFails
<1>3. CASE HandlerStep
  BY <1>3 DEF HandlerStep, EnsureKnown, OpenConversation, OpenFails, StoreConversation,
     SaveFails, PostMessage, PostMessageFails, RecordMessage, RecordSend, Run
<1>4. CASE Handlers \/ PumpStep
  BY <1>4 DEF Handlers, OnMessageCreate, PumpStep
<1>5. CASE Stop \/ Disconnect \/ Crash \/ Restart \/ UNCHANGED vars
  BY <1>5 DEF Stop, Run, Disconnect, Crash, Restart, Anew, vars
<1>6. CASE Environment
  <2>1. ASSUME NEW c \in Convs, NEW body \in Bodies, PersonWrites(c, body)
        PROVE  \E w : Arrives(w) /\ Written(w) /\ w.from = 0
    BY <2>1, PersonWritesOne
  <2>2. ASSUME NEW m \in Event, Repeats(m)
        PROVE  UNCHANGED remote /\ heard' \subseteq heard /\ handlers' \subseteq handlers \cup heard
    BY <2>2 DEF Repeats
  <2>3. ASSUME NEW chan \in Channels, NEW root \in 0..Len(posts), NEW body \in Bodies,
               HumanPosts(chan, root, body)
        PROVE  UNCHANGED gatewayVars
    BY <2>3 DEF HumanPosts
  <2> QED
    BY <1>6, <2>1, <2>2, <2>3 DEF Environment
<1> QED
  BY <1>1, <1>2, <1>3, <1>4, <1>5, <1>6 DEF Next

RemoteKept ==
    /\ remote' \in Seq(Messages) /\ Len(remote) <= Len(remote')
    /\ \A m \in 1..Len(remote) : remote'[m] = remote[m]

LEMMA WrittenKeeps ==
    ASSUME CoreTypeOK, NEW w, Written(w)
    PROVE  RemoteKept /\ Len(remote') = Len(remote) + 1 /\ remote'[Len(remote) + 1] = w
BY Numbers, Appended DEF Written, RemoteKept

LEMMA RemoteStep ==
    ASSUME CoreTypeOK, [Next]_vars
    PROVE  RemoteKept /\ heard' \cup handlers' \subseteq 1..Len(remote')
<1>1. heard \cup handlers \subseteq 1..Len(remote) /\ Len(remote) \in Nat
  BY Numbers DEF CoreTypeOK
<1>2. CASE UNCHANGED remote
  <2>1. RemoteKept
    BY <1>2, Numbers DEF RemoteKept
  <2>2. heard' \cup handlers' \subseteq heard \cup handlers
    <3>1. ~\E w : Written(w)
      <4> SUFFICES ASSUME NEW w, Written(w) PROVE FALSE
        OBVIOUS
      <4> QED
        BY <1>1, <1>2, WrittenKeeps
    <3> QED
      BY <3>1, GatewayChanges DEF gatewayVars
  <2> QED
    BY <1>1, <1>2, <2>1, <2>2
<1>3. ASSUME NEW w, Arrives(w), Written(w)
      PROVE  RemoteKept /\ heard' \cup handlers' \subseteq 1..Len(remote')
  <2>1. RemoteKept /\ Len(remote') = Len(remote) + 1
    BY <1>3, WrittenKeeps
  <2>2. heard' \cup handlers' \subseteq heard \cup handlers \cup {Len(remote) + 1}
    BY <1>3 DEF Arrives
  <2> QED
    BY <1>1, <2>1, <2>2
<1> QED
  BY <1>2, <1>3, GatewayChanges DEF gatewayVars

\* What is known of a message stays known.
LEMMA MessageStays ==
    ASSUME CoreTypeOK, [Next]_vars, NEW m \in 1..Len(remote)
    PROVE  m \in 1..Len(remote') /\ remote'[m] = remote[m]
           /\ remote[m] \in Messages /\ ConvOf(m) \in Convs
<1>1. RemoteKept /\ Len(remote) \in Nat /\ remote \in Seq(Messages)
  BY RemoteStep, Numbers
<1>2. remote[m] \in Messages
  BY <1>1, ElementOfSeq
<1>3. Len(remote') \in Nat
  BY <1>1, LenProperties DEF RemoteKept
<1> QED
  BY <1>1, <1>2, <1>3 DEF RemoteKept, ConvOf, Messages

LEMMA OthersStay ==
    ASSUME CoreTypeOK, [Next]_vars
    PROVE  \A m : FromOthers(m) =>
              m \in Event /\ m \in 1..Len(remote') /\ ~(remote'[m].from # 0)
<1> SUFFICES ASSUME NEW m, FromOthers(m)
             PROVE  m \in Event /\ m \in 1..Len(remote') /\ ~(remote'[m].from # 0)
  OBVIOUS
<1> QED
  BY MessageStays DEF FromOthers, IsOwn

-----------------------------------------------------------------------------
(* The queue.                                                               *)

LEMMA QueueChanges ==
    ASSUME CoreTypeOK, [Next]_vars
    PROVE  \/ UNCHANGED queueVars
           \/ PumpSteps
           \/ Receives /\ pc = "idle"
           \/ Close /\ pc' = "stopped"
           \/ Anew /\ pc' \in {"idle", "down"}
           \/ \E m \in Event : Push(m) /\ m \in handlers /\ ~IsOwn(m)
<1>1. CASE TakeTransport
  BY <1>1 DEF TakeTransport, IncomingNew, IncomingIgnored, IncomingFails, TakeEvent
<1>2. CASE TakeMM
  BY <1>2 DEF TakeMM, OutgoingIgnored, OutgoingFails, SendPost, SendFails, TakePost
<1>3. CASE HandlerStep
  BY <1>3 DEF HandlerStep, EnsureKnown, OpenConversation, OpenFails, StoreConversation,
     SaveFails, PostMessage, PostMessageFails, RecordMessage, RecordSend, Run
<1>4. CASE Handlers \/ PumpStep
  BY <1>4 DEF Handlers, OnMessageCreate, Emits, PumpStep
<1>5. CASE Stop \/ Disconnect \/ Crash \/ Restart \/ UNCHANGED vars
  BY <1>5 DEF Stop, Run, Disconnect, Crash, Restart, Goto, vars
<1>6. CASE Environment
  BY <1>6 DEF Environment, PersonWrites, Repeats, HumanPosts
<1> QED
  BY <1>1, <1>2, <1>3, <1>4, <1>5, <1>6 DEF Next

\* What goes into a Boolean by Close and Anew, apart from the sequences.
LEMMA AnewQueue ==
    ASSUME Anew
    PROVE  QueueTypeOK' /\ items' = <<>> /\ hand' = Nothing /\ relay' = Nothing
           /\ (closed' <=> FALSE) /\ handlers' = {} /\ heard' = {} /\ mmq' = <<>>
<1>1. items' = <<>> /\ pump' = "pop" /\ hand' = Nothing /\ relay' = Nothing
  BY DEF Anew
<1>2. closed' \in BOOLEAN /\ (closed' <=> FALSE)
  BY Zenon DEF Anew
<1>3. items' \in Seq(Event)
  BY <1>1
<1>4. handlers' = {} /\ heard' = {} /\ mmq' = <<>>
  BY DEF Anew
<1> QED
  BY <1>1, <1>2, <1>3, <1>4 DEF QueueTypeOK

\* The queue stays a queue, of messages people wrote.
LEMMA QueueStepOK ==
    ASSUME CInv, [Next]_vars
    PROVE  QueueTypeOK' /\ OthersOK'
<1>0. QueueTypeOK /\ OthersOK /\ CoreTypeOK /\ items \in Seq(Event)
  BY DEF CInv, CoreTypeOK, QueueTypeOK
<1> DEFINE Good(m) == m \in Event /\ m \in 1..Len(remote') /\ ~(remote'[m].from # 0)
<1>a. ASSUME \A i \in 1..Len(items') : Good(items'[i]),
             hand' # Nothing => Good(hand'),
             relay' # Nothing => Good(relay')
      PROVE  OthersOK'
  BY <1>a DEF OthersOK, FromOthers, IsOwn
<1>b. /\ \A i \in 1..Len(items) : Good(items[i])
      /\ hand # Nothing => Good(hand)
      /\ relay # Nothing => Good(relay)
      /\ \A m : FromOthers(m) => Good(m)
  BY <1>0, OthersStay DEF OthersOK
<1> HIDE DEF Good
<1>1. CASE UNCHANGED queueVars
  BY <1>0, <1>1, <1>a, <1>b DEF QueueTypeOK, queueVars
<1>2. CASE PumpSteps
  <2>1. QueueTypeOK'
    BY <1>0, <1>2, PumpOK
  <2>2. CASE PopWaits \/ PopEnds
    BY <2>1, <2>2, <1>a, <1>b DEF PopWaits, PopEnds
  <2>3. CASE PopTakes
    <3>1. /\ hand' = Head(items) /\ items' = Tail(items) /\ relay' = relay /\ items # <<>>
      BY <2>3 DEF PopTakes
    <3>2. /\ Len(items) \in Nat /\ Len(items) # 0 /\ Head(items) = items[1]
          /\ Len(items') = Len(items) - 1 /\ \A i \in 1..Len(items') : items'[i] = items[i + 1]
      BY <1>0, <3>1, HeadTailProperties, EmptySeq, LenProperties
    <3>3. Good(hand') /\ \A i \in 1..Len(items') : Good(items'[i])
      BY <1>b, <3>1, <3>2
    <3> QED
      BY <2>1, <3>1, <3>3, <1>a, <1>b
  <2>4. CASE Relays
    BY <2>1, <2>4, <1>a, <1>b DEF Relays
  <2> QED
    BY <1>2, <2>2, <2>3, <2>4 DEF PumpSteps
<1>3. CASE Receives
  <2>1. QueueTypeOK'
    BY <1>0, <1>3, ReceivesOK
  <2> QED
    BY <1>3, <2>1, <1>a, <1>b DEF Receives
<1>4. CASE Close
  <2>1. QueueTypeOK'
    BY <1>0, <1>4, CloseOK
  <2> QED
    BY <1>4, <2>1, <1>a, <1>b DEF Close
<1>5. CASE Anew
  BY <1>5, <1>a, AnewQueue, EmptySeq
<1>6. ASSUME NEW m \in Event, Push(m), m \in handlers, ~IsOwn(m)
      PROVE  QueueTypeOK' /\ OthersOK'
  <2>1. QueueTypeOK'
    BY <1>0, <1>6, PushOK
  <2>2. Good(m)
    BY <1>0, <1>6, <1>b DEF FromOthers, CoreTypeOK
  <2>3. hand' = hand /\ relay' = relay /\ (items' = items \/ items' = Append(items, m))
    BY <1>6 DEF Push, queueVars
  <2>4. CASE items' = items
    BY <2>1, <2>3, <2>4, <1>a, <1>b
  <2>5. CASE items' = Append(items, m)
    <3>1. /\ Len(items) \in Nat /\ Len(items') = Len(items) + 1
          /\ \A i \in 1..Len(items) : items'[i] = items[i]
          /\ items'[Len(items) + 1] = m
      BY <1>0, <2>5, Appended, LenProperties
    <3>2. \A i \in 1..Len(items') : i \in 1..Len(items) \/ i = Len(items) + 1
      BY <3>1
    <3>3. \A i \in 1..Len(items') : Good(items'[i])
      BY <2>2, <3>1, <3>2, <1>b
    <3> QED
      BY <2>1, <2>3, <3>3, <1>a, <1>b
  <2> QED
    BY <2>3, <2>4, <2>5
<1> QED
  BY <1>0, <1>1, <1>2, <1>3, <1>4, <1>5, <1>6, QueueChanges

-----------------------------------------------------------------------------
(* Posts.                                                                   *)

\* A post that may be added: a copy is of the message at hand and in its
\* conversation's thread; a reply is in its root's channel.
GoodPost(q) ==
    /\ q \in Posts
    /\ q.kind = "msg" => /\ pc = "post"
                         /\ q = BridgePost("msg", cur.msg, Destination(cur.msg).chan,
                                           Destination(cur.msg).root)
    /\ q.root # 0 => q.root \in 1..Len(posts) /\ posts[q.root].chan = q.chan

Posted(q) == posts' = Append(posts, q) /\ GoodPost(q)

LEMMA BridgePostType ==
    ASSUME NEW kind \in {"root", "msg", "notice"}, NEW about \in Convs \cup {None} \cup Nat,
           NEW chan \in Channels, NEW root \in Nat
    PROVE  /\ BridgePost(kind, about, chan, root) \in Posts
           /\ BridgePost(kind, about, chan, root).kind = kind
           /\ BridgePost(kind, about, chan, root).author = "bridge"
           /\ BridgePost(kind, about, chan, root).about = about
           /\ BridgePost(kind, about, chan, root).chan = chan
           /\ BridgePost(kind, about, chan, root).root = root
BY DEF BridgePost, Posts

LEMMA RoutedChannel ==
    ASSUME CoreTypeOK, NEW c \in Convs
    PROVE  settings.route[c] \in Channels /\ settings.threads \in BOOLEAN
BY SettingsAssumption DEF CoreTypeOK, SettingsAssumption

LEMMA OpensGoodRoot ==
    ASSUME CInv, pc = "conv"
    PROVE  /\ ConvOf(cur.msg) \in Convs
           /\ GoodPost(BridgePost("root", ConvOf(cur.msg), settings.route[ConvOf(cur.msg)], 0))
<1>1. ConvOf(cur.msg) \in Convs
  <2>1. cur.msg \in 1..Len(remote) /\ remote \in Seq(Messages)
    BY Numbers DEF CInv, WorkOK, Receiving
  <2>2. remote[cur.msg] \in Messages
    BY <2>1, ElementOfSeq
  <2> QED
    BY <2>2 DEF ConvOf, Messages
<1>2. settings.route[ConvOf(cur.msg)] \in Channels
  BY <1>1, RoutedChannel DEF CInv
<1> QED
  BY <1>1, <1>2, BridgePostType DEF GoodPost

LEMMA PlaceOfMessage ==
    ASSUME CInv, pc \in {"post", "save", "sent"}
    PROVE  /\ cur.msg \in 1..Len(remote) /\ ConvOf(cur.msg) \in Convs /\ cur.msg \in Nat
           /\ Destination(cur.msg).chan \in Channels /\ Destination(cur.msg).root \in Nat
<1>1. cur.msg \in 1..Len(remote) /\ Stored(conversations, ConvOf(cur.msg)) /\ cur.msg \in Nat
  BY Numbers DEF CInv, WorkOK, Receiving
<1>2. remote[cur.msg] \in Messages
  BY <1>1, Numbers, ElementOfSeq DEF CInv
<1>3. ConvOf(cur.msg) \in Convs
  BY <1>2 DEF ConvOf, Messages
<1> QED
  BY <1>1, <1>3 DEF CInv, CoreTypeOK, ConversationRows, Stored, Destination

LEMMA CopyIsGood ==
    ASSUME CInv, pc = "post"
    PROVE  GoodPost(BridgePost("msg", cur.msg, Destination(cur.msg).chan,
                               Destination(cur.msg).root))
<1>1. Destination(cur.msg).root # 0 =>
        /\ Destination(cur.msg).root \in 1..Len(posts)
        /\ posts[Destination(cur.msg).root].chan = Destination(cur.msg).chan
  BY PlaceOfMessage DEF CInv, RootsOK, Destination
<1> QED
  BY <1>1, PlaceOfMessage, BridgePostType DEF GoodPost

LEMMA NoticeIsGood ==
    ASSUME CInv, NEW p \in 1..Len(posts)
    PROVE  GoodPost(BridgePost("notice", p, posts[p].chan, ThreadRoot(p)))
<1>1. posts[p] \in Posts /\ p \in Nat
  BY Numbers, ElementOfSeq DEF CInv
<1>2. posts[p].chan \in Channels /\ posts[p].root \in Nat
  BY <1>1 DEF Posts
<1>3. /\ ThreadRoot(p) \in Nat /\ ThreadRoot(p) \in 1..Len(posts)
      /\ posts[ThreadRoot(p)].chan = posts[p].chan
  BY <1>1, <1>2 DEF ThreadRoot, CInv, PostsOK
<1> DEFINE q == BridgePost("notice", p, posts[p].chan, ThreadRoot(p))
<1>4. /\ q \in Posts /\ q.kind = "notice" /\ q.root = ThreadRoot(p)
      /\ q.chan = posts[p].chan
  BY <1>1, <1>2, <1>3 DEF BridgePost, Posts
<1> HIDE DEF q
<1>5. GoodPost(q)
  BY <1>3, <1>4 DEF GoodPost
<1> QED
  BY <1>5 DEF q

LEMMA TypedIsGood ==
    ASSUME CoreTypeOK, NEW chan \in Channels, NEW root \in 0..Len(posts), NEW body \in Bodies,
           HumanPosts(chan, root, body)
    PROVE  \E q : /\ Posted(q) /\ q.author = "human" /\ q.kind = "typed"
                  /\ mmq' \in {mmq, Append(mmq, Len(posts) + 1)}
<1> DEFINE q == [author |-> "human", kind |-> "typed", about |-> None,
                 chan |-> chan, root |-> root, body |-> body]
<1>1. /\ q \in Posts /\ q.author = "human" /\ q.kind = "typed"
      /\ q.root = root /\ q.chan = chan
  BY Numbers, BodiesAssumption DEF Posts, BodiesAssumption
<1>2. /\ posts' = Append(posts, q) /\ mmq' = Deliver(mmq, q)
      /\ root # 0 => posts[root].chan = chan
  BY DEF HumanPosts
<1> HIDE DEF q
<1>3. mmq' \in {mmq, Append(mmq, Len(posts) + 1)}
  BY <1>2 DEF Deliver
<1>4. GoodPost(q)
  BY <1>1, <1>2, Numbers DEF GoodPost
<1> QED
  BY <1>1, <1>2, <1>3, <1>4 DEF Posted

\* What a step posts: nothing, what a person types, or a good post of the
\* bridge's own.
LEMMA PostsChange ==
    ASSUME CInv, [Next]_vars
    PROVE  \/ UNCHANGED posts /\ mmq' \in {mmq, <<>>}
           \/ mmq # <<>> /\ mmq' = Tail(mmq) /\ pc = "idle"
              /\ (UNCHANGED posts \/ \E q : Posted(q) /\ q.author = "bridge")
           \/ \E q : Posted(q) /\ q.author = "bridge" /\ UNCHANGED mmq
           \/ \E q : /\ Posted(q) /\ q.author = "human" /\ q.kind = "typed"
                     /\ mmq' \in {mmq, Append(mmq, Len(posts) + 1)}
<1>1. CASE TakeTransport
  BY <1>1 DEF TakeTransport, IncomingNew, IncomingIgnored, IncomingFails, TakeEvent
<1>2. CASE TakeMM
  <2>1. TakePost
    BY <1>2 DEF TakeMM, OutgoingIgnored, OutgoingFails, SendPost, SendFails
  <2>2. mmq # <<>> /\ mmq' = Tail(mmq) /\ pc = "idle"
    BY <2>1 DEF TakePost
  <2>3. Head(mmq) \in 1..Len(posts)
    BY <2>2, HeadOfStream DEF CInv
  <2>4. CASE UNCHANGED posts
    BY <2>2, <2>4
  <2>5. CASE Publish("notice", Head(mmq), posts[Head(mmq)].chan, ThreadRoot(Head(mmq)))
    <3> DEFINE q == BridgePost("notice", Head(mmq), posts[Head(mmq)].chan, ThreadRoot(Head(mmq)))
    <3>1. GoodPost(q)
      BY <2>3, NoticeIsGood
    <3>2. posts' = Append(posts, q) /\ q.author = "bridge"
      BY <2>5 DEF Publish, BridgePost
    <3> HIDE DEF q
    <3> QED
      BY <2>2, <3>1, <3>2 DEF Posted
  <2> QED
    BY <1>2, <2>4, <2>5 DEF TakeMM, OutgoingIgnored, OutgoingFails, SendPost, SendFails
<1>3. CASE HandlerStep
  <2>1. CASE EnsureKnown \/ StoreConversation \/ SaveFails \/ RecordMessage \/ RecordSend
    BY <2>1 DEF EnsureKnown, StoreConversation, SaveFails, RecordMessage, RecordSend, Run
  <2>2. CASE OpenConversation \/ OpenFails
    <3> DEFINE q == BridgePost("root", ConvOf(cur.msg), settings.route[ConvOf(cur.msg)], 0)
    <3>1. pc = "conv" /\ UNCHANGED mmq /\ (UNCHANGED posts \/ posts' = Append(posts, q))
      BY <2>2 DEF OpenConversation, OpenFails, PublishFails, Publish, Run
    <3>2. GoodPost(q) /\ q.author = "bridge"
      BY <3>1, OpensGoodRoot DEF BridgePost
    <3> HIDE DEF q
    <3> QED
      BY <3>1, <3>2 DEF Posted
  <2>3. CASE PostMessage \/ PostMessageFails
    <3> DEFINE q == BridgePost("msg", cur.msg, Destination(cur.msg).chan, Destination(cur.msg).root)
    <3>1. pc = "post" /\ UNCHANGED mmq /\ (UNCHANGED posts \/ posts' = Append(posts, q))
      BY <2>3 DEF PostMessage, PostMessageFails, PublishFails, Publish, Run
    <3>2. GoodPost(q) /\ q.author = "bridge"
      BY <3>1, CopyIsGood DEF BridgePost
    <3> HIDE DEF q
    <3> QED
      BY <3>1, <3>2 DEF Posted
  <2> QED
    BY <1>3, <2>1, <2>2, <2>3 DEF HandlerStep
<1>4. CASE Handlers \/ PumpStep
  BY <1>4 DEF Handlers, OnMessageCreate, PumpStep
<1>5. CASE Stop \/ Disconnect \/ Crash \/ Restart \/ UNCHANGED vars
  BY <1>5 DEF Stop, Run, Disconnect, Crash, Restart, Anew, vars
<1>6. CASE Environment
  <2>1. CASE \E c \in Convs, body \in Bodies : PersonWrites(c, body)
    BY <2>1 DEF PersonWrites
  <2>2. CASE \E m \in Event : Repeats(m)
    BY <2>2 DEF Repeats
  <2>3. ASSUME NEW chan \in Channels, NEW root \in 0..Len(posts), NEW body \in Bodies,
               HumanPosts(chan, root, body)
        PROVE  \E q : /\ Posted(q) /\ q.author = "human" /\ q.kind = "typed"
                      /\ mmq' \in {mmq, Append(mmq, Len(posts) + 1)}
    BY <2>3, TypedIsGood DEF CInv
  <2> QED
    BY <1>6, <2>1, <2>2, <2>3 DEF Environment
<1> QED
  BY <1>1, <1>2, <1>3, <1>4, <1>5, <1>6 DEF Next

PostsKept ==
    /\ posts' \in Seq(Posts) /\ Len(posts) <= Len(posts') /\ Len(posts') \in Nat
    /\ \A p \in 1..Len(posts) : posts'[p] = posts[p]

LEMMA PostedKeeps ==
    ASSUME CoreTypeOK, NEW q, Posted(q)
    PROVE  PostsKept /\ Len(posts') = Len(posts) + 1 /\ posts'[Len(posts) + 1] = q
BY Numbers, Appended DEF Posted, GoodPost, PostsKept

LEMMA PostsStepKept ==
    ASSUME CInv, [Next]_vars
    PROVE  PostsKept
<1>1. CASE UNCHANGED posts
  BY <1>1, Numbers DEF PostsKept, CInv
<1>2. ASSUME NEW q, Posted(q) PROVE PostsKept
  BY <1>2, PostedKeeps DEF CInv
<1> QED
  BY <1>1, <1>2, PostsChange

LEMMA PostsStepOK ==
    ASSUME CInv, [Next]_vars
    PROVE  PostsOK'
<1> DEFINE Good(m) == m \in Event /\ m \in 1..Len(remote') /\ ~(remote'[m].from # 0)
<1>0. CoreTypeOK /\ PostsKept /\ Len(posts) \in Nat /\ \A m : FromOthers(m) => Good(m)
  BY PostsStepKept, Numbers, OthersStay DEF CInv
<1>1. ASSUME NEW p \in 1..Len(posts)
      PROVE  /\ posts'[p].kind = "msg" => Good(posts'[p].about) /\ posts'[p].author = "bridge"
             /\ posts'[p].root # 0 => /\ posts'[p].root \in 1..Len(posts')
                                      /\ posts'[posts'[p].root].chan = posts'[p].chan
  BY <1>0 DEF PostsKept, CInv, PostsOK
<1>2. ASSUME NEW q, Posted(q)
      PROVE  LET p == Len(posts) + 1 IN
             /\ posts'[p].kind = "msg" => Good(posts'[p].about) /\ posts'[p].author = "bridge"
             /\ posts'[p].root # 0 => /\ posts'[p].root \in 1..Len(posts')
                                      /\ posts'[posts'[p].root].chan = posts'[p].chan
  <2>1. posts'[Len(posts) + 1] = q /\ Len(posts') = Len(posts) + 1
    BY <1>0, <1>2, PostedKeeps
  <2>2. q.kind = "msg" => Good(q.about) /\ q.author = "bridge"
    <3> SUFFICES ASSUME q.kind = "msg" PROVE Good(q.about) /\ q.author = "bridge"
      OBVIOUS
    <3>1. pc = "post" /\ q.about = cur.msg /\ q.author = "bridge"
      BY <1>2 DEF Posted, GoodPost, BridgePost
    <3>2. FromOthers(cur.msg)
      BY <3>1 DEF CInv, WorkOK, Receiving
    <3> QED
      BY <1>0, <3>1, <3>2
  <2>3. q.root # 0 => q.root \in 1..Len(posts') /\ posts'[q.root].chan = q.chan
    BY <1>0, <1>2, <2>1 DEF Posted, GoodPost, PostsKept
  <2> HIDE DEF Good
  <2> QED
    BY <2>1, <2>2, <2>3
<1>3. \A p \in 1..Len(posts') : p \in 1..Len(posts) \/ (p = Len(posts) + 1 /\ \E q : Posted(q))
  <2>1. CASE UNCHANGED posts
    BY <2>1
  <2>2. ASSUME NEW q, Posted(q) PROVE \A p \in 1..Len(posts') : p \in 1..Len(posts) \/ p = Len(posts) + 1
    BY <1>0, <2>2, PostedKeeps
  <2> QED
    BY <2>1, <2>2, PostsChange
<1>4. \A p \in 1..Len(posts') :
          /\ posts'[p].kind = "msg" => Good(posts'[p].about) /\ posts'[p].author = "bridge"
          /\ posts'[p].root # 0 => /\ posts'[p].root \in 1..Len(posts')
                                   /\ posts'[posts'[p].root].chan = posts'[p].chan
  <2> HIDE DEF Good
  <2> QED
    BY <1>1, <1>2, <1>3
<1> QED
  BY <1>4 DEF PostsOK, FromOthers, IsOwn

-----------------------------------------------------------------------------
(* The handler's locals and the tables.                                     *)

Resting == {"idle", "closing", "stopped", "down"}

\* Between two handlers Run holds nothing; the tables are written in three places.
LEMMA WorkChanges ==
    ASSUME [Next]_vars
    PROVE  \/ UNCHANGED <<workVars, dbVars>>
           \/ IncomingNew \/ EnsureKnown \/ OpenConversation \/ StoreConversation
           \/ PostMessage \/ SendPost \/ RecordMessage \/ RecordSend
           \/ UNCHANGED dbVars /\ cur' = NoWork /\ pc' \in Resting
<1>1. CASE TakeTransport
  BY <1>1 DEF TakeTransport, IncomingIgnored, IncomingFails, TakeEvent, dbVars
<1>2. CASE TakeMM
  BY <1>2 DEF TakeMM, OutgoingIgnored, OutgoingFails, SendFails, TakePost
<1>3. CASE HandlerStep
  BY <1>3 DEF HandlerStep, OpenFails, SaveFails, PostMessageFails, Done, Goto, Resting
<1>4. CASE Handlers \/ PumpStep
  BY <1>4 DEF Handlers, OnMessageCreate, PumpStep
<1>5. CASE Stop \/ Disconnect \/ Crash \/ Restart \/ UNCHANGED vars
  BY <1>5 DEF Stop, Disconnect, Crash, Restart, Goto, Resting, dbVars, vars
<1>6. CASE Environment
  BY <1>6 DEF Environment, PersonWrites, Repeats, HumanPosts
<1> QED
  BY <1>1, <1>2, <1>3, <1>4, <1>5, <1>6 DEF Next

\* A closed queue belongs to a bridge that is stopped.
LEMMA ClosedStep ==
    ASSUME CInv, [Next]_vars
    PROVE  closed' => pc' = "stopped"
<1>0. closed => pc = "stopped"
  BY DEF CInv, CoreTypeOK
<1>1. pc = "stopped" => pc' = "stopped" \/ Anew
  <2> SUFFICES ASSUME pc = "stopped" PROVE pc' = "stopped" \/ Anew
    OBVIOUS
  <2>1. CASE TakeTransport \/ TakeMM \/ HandlerStep
    BY <2>1 DEF TakeTransport, IncomingNew, IncomingIgnored, IncomingFails, TakeEvent,
       TakeMM, OutgoingIgnored, OutgoingFails, SendPost, SendFails, TakePost,
       HandlerStep, EnsureKnown, OpenConversation, OpenFails, StoreConversation,
       SaveFails, PostMessage, PostMessageFails, RecordMessage, RecordSend
  <2>2. CASE Handlers \/ PumpStep \/ Environment \/ UNCHANGED vars
    BY <2>2 DEF Handlers, OnMessageCreate, PumpStep, Environment, PersonWrites, Repeats,
       HumanPosts, workVars, vars
  <2>3. CASE Stop \/ Disconnect \/ Crash \/ Restart
    BY <2>3 DEF Stop, Disconnect, Crash, Restart
  <2> QED
    BY <2>1, <2>2, <2>3 DEF Next
<1>2. (closed' <=> closed) \/ pc' = "stopped" \/ Anew
  BY QueueChanges DEF CInv, queueVars, PumpSteps, PopWaits, PopTakes, PopEnds, Relays,
     Receives, Push
<1> QED
  BY <1>0, <1>1, <1>2, AnewQueue

Locals(msgs, ps) == [msg : msgs, post : ps, chan : Channels \cup {None}]

\* What the next state's locals must satisfy.
WorkGood ==
    /\ pc' \in {"idle", "conv", "thread", "post", "save", "sent", "closing", "stopped", "down"}
    /\ cur' \in Locals(0..Len(remote'), 0..Len(posts'))
    /\ WorkOK'

LEMMA NothingAtHand ==
    ASSUME CInv, [Next]_vars, cur' = NoWork, pc' \in Resting
    PROVE  WorkGood
<1>1. Len(remote') \in Nat /\ Len(posts') \in Nat
  BY RemoteStep, PostsStepKept, LenProperties DEF CInv, RemoteKept, PostsKept
<1>2. cur' \in Locals(0..Len(remote'), 0..Len(posts'))
  BY <1>1 DEF NoWork, Locals
<1> QED
  BY <1>2 DEF WorkGood, WorkOK, Resting, Receiving

\* What stays true of the posts and messages a handler holds.
LEMMA HeldStays ==
    ASSUME CInv, [Next]_vars
    PROVE  /\ \A p \in 1..Len(posts) : p \in 1..Len(posts') /\ posts'[p] = posts[p]
           /\ \A m \in 1..Len(remote) : /\ m \in 1..Len(remote') /\ remote'[m] = remote[m]
                                        /\ remote[m].conv \in Convs
           /\ Len(remote) \in Nat /\ Len(posts) \in Nat
           /\ Len(remote') \in Nat /\ Len(posts') \in Nat
           /\ Len(remote) <= Len(remote') /\ Len(posts) <= Len(posts')
<1>1. PostsKept /\ RemoteKept /\ CoreTypeOK
  BY PostsStepKept, RemoteStep DEF CInv
<1>2. /\ Len(remote) \in Nat /\ Len(posts) \in Nat
      /\ Len(remote') \in Nat /\ Len(posts') \in Nat
  BY <1>1, Numbers, LenProperties DEF PostsKept, RemoteKept
<1>3. \A m \in 1..Len(remote) : remote[m].conv \in Convs
  BY <1>1, MessageStays DEF ConvOf
<1> QED
  BY <1>1, <1>2, <1>3 DEF PostsKept, RemoteKept

LEMMA SameAtHand ==
    ASSUME CInv, [Next]_vars, UNCHANGED <<workVars, dbVars>>
    PROVE  WorkGood
<1>1. UNCHANGED <<pc, cur, conversations, messages>>
  BY DEF workVars, dbVars
<1>2. cur \in Locals(0..Len(remote), 0..Len(posts)) /\ WorkOK
  BY DEF CInv, CoreTypeOK, Locals
<1>3. /\ pc' \in {"idle", "conv", "thread", "post", "save", "sent", "closing", "stopped", "down"}
      /\ cur' \in Locals(0..Len(remote'), 0..Len(posts'))
  BY <1>1, <1>2, HeldStays DEF CInv, CoreTypeOK, Locals
<1>4. cur.post # 0 => cur.post \in 1..Len(posts)
  BY <1>2, HeldStays DEF Locals
<1>5. WorkOK'
  BY <1>1, <1>2, <1>4, HeldStays
     DEF WorkOK, FromOthers, IsOwn, ConvOf, Unlinked, Copies, Humans, Receiving
<1> QED
  BY <1>3, <1>5 DEF WorkGood

LEMMA IncomingNewWork ==
    ASSUME CInv, [Next]_vars, IncomingNew
    PROVE  WorkGood
<1>1. /\ pc' = "conv" /\ cur'.msg = relay /\ cur'.post = 0 /\ cur'.chan = None
      /\ relay # Nothing /\ messages[relay] = NoRow /\ UNCHANGED messages
      /\ cur' = [NoWork EXCEPT !.msg = relay]
  BY DEF IncomingNew, TakeEvent, Receives, IsNew, Mapped, Goto, NoWork, dbVars
<1>2. FromOthers(relay)
  BY <1>1 DEF CInv, OthersOK
<1>3. relay \in Event /\ relay \in 1..Len(remote') /\ ~(remote'[relay].from # 0)
      /\ messages'[relay].post = 0
  BY <1>1, <1>2, OthersStay DEF CInv, NoRow
<1>4. cur' \in Locals(0..Len(remote'), 0..Len(posts'))
  BY <1>1, <1>3, HeldStays DEF NoWork, Locals
<1> QED
  BY <1>1, <1>3, <1>4 DEF WorkGood, WorkOK, FromOthers, IsOwn, Receiving

LEMMA EnsureKnownWork ==
    ASSUME CInv, [Next]_vars, EnsureKnown
    PROVE  WorkGood
<1>1. /\ pc = "conv" /\ pc' = "post" /\ UNCHANGED <<cur, conversations, messages>>
      /\ Stored(conversations, ConvOf(cur.msg))
  BY DEF EnsureKnown, dbVars
<1>2. WorkOK /\ cur \in Locals(0..Len(remote), 0..Len(posts))
  BY DEF CInv, CoreTypeOK, Locals
<1>3. cur' \in Locals(0..Len(remote'), 0..Len(posts'))
  BY <1>1, <1>2, HeldStays DEF Locals
<1>4. WorkOK'
  BY <1>1, <1>2, HeldStays DEF WorkOK, FromOthers, IsOwn, ConvOf, Receiving
<1> QED
  BY <1>1, <1>3, <1>4 DEF WorkGood

LEMMA OpenConversationWork ==
    ASSUME CInv, [Next]_vars, OpenConversation
    PROVE  WorkGood
<1> DEFINE conv == ConvOf(cur.msg)
           chan == settings.route[conv]
<1>1. /\ pc = "conv" /\ pc' = "thread" /\ UNCHANGED <<conversations, messages>>
      /\ ~Stored(conversations, conv)
      /\ \/ Publish("root", conv, chan, 0) /\ cur' = [cur EXCEPT !.chan = chan, !.post = Len(posts) + 1]
         \/ cur' = [cur EXCEPT !.chan = chan]
  BY DEF OpenConversation, Goto, dbVars
<1>2. WorkOK /\ cur \in Locals(0..Len(remote), 0..Len(posts))
  BY DEF CInv, CoreTypeOK, Locals
<1>3. conv \in Convs /\ chan \in Channels /\ BridgePost("root", conv, chan, 0) \in Posts
  BY <1>1, OpensGoodRoot, RoutedChannel DEF CInv, GoodPost
<1>4. /\ cur'.msg = cur.msg /\ cur'.chan = chan
      /\ cur' \in Locals(0..Len(remote'), 0..Len(posts'))
      /\ cur'.post = cur.post \/ (cur'.post = Len(posts) + 1 /\ Publish("root", conv, chan, 0))
  <2>1. CASE cur' = [cur EXCEPT !.chan = chan]
    BY <1>2, <1>3, <2>1, HeldStays DEF Locals
  <2>2. CASE Publish("root", conv, chan, 0) /\ cur' = [cur EXCEPT !.chan = chan, !.post = Len(posts) + 1]
    <3>1. Len(posts') = Len(posts) + 1
      BY <1>3, <2>2, Numbers, Appended DEF Publish, CInv
    <3>2. cur' = [msg |-> cur.msg, post |-> Len(posts) + 1, chan |-> chan]
      BY <1>2, <2>2 DEF Locals
    <3>3. Len(posts) + 1 \in 0..Len(posts') /\ cur.msg \in 0..Len(remote')
      BY <1>2, <3>1, HeldStays DEF Locals
    <3> QED
      BY <1>3, <2>2, <3>2, <3>3 DEF Locals
  <2> QED
    BY <1>1, <2>1, <2>2
<1>5. cur'.post # 0 => posts'[cur'.post].chan = chan
  <2>1. CASE cur'.post = cur.post
    BY <1>1, <1>2, <2>1 DEF CInv, WorkOK
  <2>2. CASE Publish("root", conv, chan, 0) /\ cur'.post = Len(posts) + 1
    <3>1. posts'[Len(posts) + 1] = BridgePost("root", conv, chan, 0)
      BY <1>3, <2>2, Numbers, Appended DEF Publish, CInv
    <3> QED
      BY <2>2, <3>1 DEF BridgePost
  <2> QED
    BY <1>4, <2>1, <2>2
<1> HIDE DEF chan
<1>6. WorkOK'
  BY <1>1, <1>2, <1>3, <1>4, <1>5, HeldStays DEF WorkOK, FromOthers, IsOwn, ConvOf, Receiving
<1> QED
  BY <1>1, <1>4, <1>6 DEF WorkGood

LEMMA StoreConversationWork ==
    ASSUME CInv, [Next]_vars, StoreConversation
    PROVE  WorkGood
<1>1. /\ pc = "thread" /\ pc' = "post" /\ UNCHANGED messages
      /\ cur' = [NoWork EXCEPT !.msg = cur.msg]
      /\ conversations' = SaveConversation(conversations, ConvOf(cur.msg), cur.chan, cur.post)
  BY DEF StoreConversation, Goto
<1>2. WorkOK /\ cur \in Locals(0..Len(remote), 0..Len(posts))
  BY DEF CInv, CoreTypeOK, Locals
<1>3. cur'.msg = cur.msg /\ cur' \in Locals(0..Len(remote'), 0..Len(posts'))
  BY <1>1, <1>2, HeldStays DEF NoWork, Locals
<1>4. cur.msg \in 1..Len(remote) /\ cur.chan \in Channels
  BY <1>1, <1>2 DEF WorkOK, Receiving
<1>5. conversations'[ConvOf(cur.msg)].chan # None
  BY <1>1, <1>4, HeldStays, NoneAssumption
     DEF SaveConversation, CInv, CoreTypeOK, ConvOf, NoneAssumption
<1>6. WorkOK'
  BY <1>1, <1>2, <1>3, <1>4, <1>5, HeldStays
     DEF WorkOK, FromOthers, IsOwn, ConvOf, Stored, NoConversation, Receiving
<1> QED
  BY <1>1, <1>3, <1>6 DEF WorkGood

LEMMA PostMessageWork ==
    ASSUME CInv, [Next]_vars, PostMessage
    PROVE  WorkGood
<1> DEFINE q == BridgePost("msg", cur.msg, Destination(cur.msg).chan, Destination(cur.msg).root)
           p == Len(posts) + 1
<1>1. /\ pc = "post" /\ pc' = "save" /\ UNCHANGED <<conversations, messages>>
      /\ cur' = [cur EXCEPT !.post = p] /\ posts' = Append(posts, q)
  BY DEF PostMessage, Publish, Goto, dbVars
<1>2. WorkOK /\ cur \in Locals(0..Len(remote), 0..Len(posts))
  BY DEF CInv, CoreTypeOK, Locals
<1>3. Len(posts') = p /\ posts'[p] = q
  BY <1>1, CopyIsGood, PostedKeeps DEF Posted, CInv
<1>4. /\ cur'.msg = cur.msg /\ cur'.post = p
      /\ cur' \in Locals(0..Len(remote'), 0..Len(posts'))
  BY <1>1, <1>2, <1>3, HeldStays DEF Locals
<1>5. q.kind = "msg" /\ q.about = cur.msg /\ q.chan = conversations[ConvOf(cur.msg)].chan
  BY DEF BridgePost, Destination
<1>6. \A n \in Event : messages[n].post # p
  BY HeldStays DEF CInv, LinksOK
<1>7. p \in 1..Len(posts') /\ p # 0
  BY <1>3, HeldStays
<1> HIDE DEF q, p
<1>8. WorkOK'
  BY <1>1, <1>2, <1>3, <1>4, <1>5, <1>6, <1>7, HeldStays
     DEF WorkOK, FromOthers, IsOwn, ConvOf, Unlinked, Copies, Receiving
<1> QED
  BY <1>1, <1>4, <1>8 DEF WorkGood

LEMMA RecordWork ==
    ASSUME CInv, [Next]_vars, RecordMessage \/ RecordSend
    PROVE  WorkGood
BY NothingAtHand DEF RecordMessage, RecordSend, Done, Goto, Resting

\* Where a post goes that may be sent (conversationForPost).
LEMMA ConversationOfPost ==
    ASSUME CInv, NEW p \in 1..Len(posts), NEW c \in ConversationForPost(p)
    PROVE  /\ c \in Convs /\ Stored(conversations, c)
           /\ conversations[c].chan = posts[p].chan
           /\ \/ conversations[c].root \in {p, posts[p].root} \ {0}
              \/ \A other \in Convs \ {c} : conversations[other].chan # posts[p].chan
<1>1. p \in Nat /\ p # 0 /\ posts[p] \in Posts
  BY Numbers, ElementOfSeq DEF CInv
<1>2. CASE settings.threads
  <2>1. c \in Convs /\ conversations[c].root = ThreadRoot(p) /\ ThreadRoot(p) # 0
    BY <1>1, <1>2 DEF ConversationForPost, ByRootPost
  <2>2. posts[ThreadRoot(p)].chan = posts[p].chan
    BY <1>1 DEF ThreadRoot, CInv, PostsOK
  <2>3. conversations[c].chan = posts[p].chan
    BY <2>1, <2>2 DEF CInv, RootsOK
  <2>4. ThreadRoot(p) \in {p, posts[p].root}
    BY DEF ThreadRoot
  <2> QED
    BY <2>1, <2>3, <2>4 DEF Stored, NoConversation
<1>3. CASE ~settings.threads
  <2>1. c \in InChannel(conversations, posts[p].chan)
        /\ InChannel(conversations, posts[p].chan) = {c}
    BY <1>3 DEF ConversationForPost, SoleInChannel
  <2>2. c \in Convs /\ conversations[c].chan = posts[p].chan
        /\ \A other \in Convs \ {c} : conversations[other].chan # posts[p].chan
    BY <2>1 DEF InChannel
  <2>3. posts[p].chan # None
    BY <1>1, NoneAssumption DEF Posts, NoneAssumption
  <2> QED
    BY <2>2, <2>3 DEF Stored, NoConversation
<1> QED
  BY <1>2, <1>3

LEMMA SendPostWork ==
    ASSUME CInv, [Next]_vars, SendPost
    PROVE  WorkGood
<1>1. /\ pc = "idle" /\ pc' = "sent" /\ UNCHANGED <<posts, conversations, messages>>
      /\ cur' = [NoWork EXCEPT !.post = Head(mmq), !.msg = Len(remote) + 1]
      /\ mmq # <<>>
  BY DEF SendPost, TakePost, Goto, dbVars
<1>2. ~(SendFails /\ UNCHANGED gatewayVars)
  BY <1>1 DEF SendFails, workVars
<1>3. PICK w : Written(w) /\ SentFor(w)
  BY <1>2, SendWrites DEF CInv
<1> DEFINE p == Head(mmq)
           m == Len(remote) + 1
<1>4. /\ Len(remote') = m /\ remote'[m] = w /\ m \in Event /\ m \in 1..Len(remote')
  BY <1>3, WrittenKeeps, HeldStays DEF CInv, Written
<1>5. /\ p \in 1..Len(posts) /\ p = mmq[1] /\ 1 \in 1..Len(mmq) /\ p # 0
  BY <1>1, HeadOfStream, HeldStays DEF CInv
<1>6. p \in Humans /\ Unlinked(p)
  BY <1>5 DEF CInv, StreamOK
<1>7. /\ w.conv \in Convs /\ Stored(conversations, w.conv)
      /\ conversations[w.conv].chan = posts[p].chan
  BY <1>3, <1>5, ConversationOfPost DEF SentFor
<1>8. messages[m].post = 0
  BY <1>4, HeldStays DEF CInv, LinksOK
<1>9. cur'.msg = m /\ cur'.post = p /\ cur'.chan = None
  BY <1>1 DEF NoWork
<1>10. cur' \in Locals(0..Len(remote'), 0..Len(posts'))
  <2>1. cur' = [msg |-> m, post |-> p, chan |-> None]
    BY <1>1 DEF NoWork
  <2>2. m \in 0..Len(remote') /\ p \in 0..Len(posts')
    BY <1>1, <1>4, <1>5, HeldStays
  <2> HIDE DEF m, p
  <2> QED
    BY <2>1, <2>2 DEF Locals
<1> HIDE DEF m, p
<1>11. WorkOK'
  BY <1>1, <1>4, <1>5, <1>6, <1>7, <1>8, <1>9
     DEF WorkOK, ConvOf, Unlinked, Humans, Receiving
<1> QED
  BY <1>1, <1>10, <1>11 DEF WorkGood

LEMMA WorkStepOK ==
    ASSUME CInv, [Next]_vars
    PROVE  WorkGood
BY WorkChanges, SameAtHand, IncomingNewWork, EnsureKnownWork, OpenConversationWork,
   StoreConversationWork, PostMessageWork, SendPostWork, RecordWork, NothingAtHand

-----------------------------------------------------------------------------
(* The tables.                                                              *)

LEMMA ConversationsChange ==
    ASSUME [Next]_vars
    PROVE  UNCHANGED conversations \/ StoreConversation
BY WorkChanges DEF IncomingNew, TakeEvent, EnsureKnown, OpenConversation, PostMessage,
   SendPost, TakePost, RecordMessage, RecordSend, dbVars

LEMMA MessagesChange ==
    ASSUME [Next]_vars
    PROVE  UNCHANGED messages \/ RecordMessage \/ RecordSend
BY WorkChanges DEF IncomingNew, TakeEvent, EnsureKnown, OpenConversation, PostMessage,
   StoreConversation, SendPost, TakePost, dbVars

\* What a handler at its end has to write.
LEMMA AtHand ==
    ASSUME CInv
    PROVE  /\ pc = "thread" =>
                /\ ConvOf(cur.msg) \in Convs /\ cur.chan \in Channels /\ cur.post \in Nat
                /\ ~Stored(conversations, ConvOf(cur.msg))
                /\ cur.post # 0 => /\ cur.post \in 1..Len(posts)
                                   /\ posts[cur.post].chan = cur.chan
           /\ pc \in {"save", "sent"} =>
                /\ cur.msg \in Event /\ cur.msg \in 1..Len(remote)
                /\ cur.post \in 1..Len(posts) /\ cur.post \in Nat \ {0}
                /\ messages[cur.msg].post = 0 /\ Unlinked(cur.post)
                /\ Stored(conversations, ConvOf(cur.msg))
                /\ posts[cur.post].chan = conversations[ConvOf(cur.msg)].chan
<1>1. cur \in Locals(0..Len(remote), 0..Len(posts)) /\ WorkOK
  BY DEF CInv, CoreTypeOK, Locals
<1>2. /\ Len(posts) \in Nat /\ Len(remote) \in Nat
      /\ \A m \in 1..Len(remote) : remote[m].conv \in Convs
  <2>1. remote \in Seq(Messages)
    BY Numbers DEF CInv
  <2>2. ASSUME NEW m \in 1..Len(remote) PROVE remote[m].conv \in Convs
    <3>1. remote[m] \in Messages
      BY <2>1, ElementOfSeq
    <3> QED
      BY <3>1 DEF Messages
  <2> QED
    BY <2>2, Numbers DEF CInv
<1>3. cur.post # 0 => cur.post \in 1..Len(posts) /\ cur.post \in Nat \ {0}
  BY <1>1, <1>2 DEF Locals
<1>4. cur.post \in Nat
  BY <1>1, <1>2 DEF Locals
<1> QED
  BY <1>1, <1>2, <1>3, <1>4 DEF WorkOK, Receiving, ConvOf

LEMMA TablesStepOK ==
    ASSUME CInv, [Next]_vars
    PROVE  /\ conversations' \in [Convs -> ConversationRows(Nat)]
           /\ messages' \in [Event -> MessageRows(Nat \ {0}, {"none"})]
           /\ settings' \in Settings
<1>1. conversations' \in [Convs -> ConversationRows(Nat)]
  <2>1. CASE UNCHANGED conversations
    BY <2>1 DEF CInv, CoreTypeOK
  <2>2. CASE StoreConversation
    <3> DEFINE row == [chan |-> cur.chan, root |-> cur.post]
    <3>1. pc = "thread" /\ conversations' = [conversations EXCEPT ![ConvOf(cur.msg)] = row]
      BY <2>2 DEF StoreConversation, SaveConversation
    <3>2. row \in ConversationRows(Nat)
      BY <3>1, AtHand DEF ConversationRows
    <3> HIDE DEF row
    <3> QED
      BY <3>1, <3>2 DEF CInv, CoreTypeOK
  <2> QED
    BY <2>1, <2>2, ConversationsChange
<1>2. messages' \in [Event -> MessageRows(Nat \ {0}, {"none"})]
  <2>1. CASE UNCHANGED messages
    BY <2>1 DEF CInv, CoreTypeOK
  <2>2. CASE RecordMessage \/ RecordSend
    <3> DEFINE row == [post |-> cur.post, status |-> "none"]
    <3>1. pc \in {"save", "sent"} /\ messages' = [messages EXCEPT ![cur.msg] = row]
      BY <2>2 DEF RecordMessage, RecordSend, SaveMessage
    <3>2. row \in MessageRows(Nat \ {0}, {"none"})
      BY <3>1, AtHand DEF MessageRows
    <3> HIDE DEF row
    <3> QED
      BY <3>1, <3>2 DEF CInv, CoreTypeOK
  <2> QED
    BY <2>1, <2>2, MessagesChange
<1>3. settings' \in Settings
  <2>0. settings \in Settings
    BY DEF CInv, CoreTypeOK
  <2>1. CASE TakeTransport \/ TakeMM
    BY <2>0, <2>1 DEF TakeTransport, IncomingNew, IncomingIgnored, IncomingFails, TakeEvent,
       TakeMM, OutgoingIgnored, OutgoingFails, SendPost, SendFails, TakePost
  <2>2. CASE HandlerStep
    BY <2>0, <2>2 DEF HandlerStep, EnsureKnown, OpenConversation, OpenFails, StoreConversation,
       SaveFails, PostMessage, PostMessageFails, RecordMessage, RecordSend, Run
  <2>3. CASE Handlers \/ PumpStep \/ Environment
    BY <2>0, <2>3 DEF Handlers, OnMessageCreate, PumpStep, Environment, PersonWrites, Repeats,
       HumanPosts
  <2>4. CASE Stop \/ Disconnect \/ Crash \/ Restart \/ UNCHANGED vars
    BY <2>0, <2>4 DEF Stop, Run, Disconnect, Crash, Restart, vars
  <2> QED
    BY <2>1, <2>2, <2>3, <2>4 DEF Next
<1> QED
  BY <1>1, <1>2, <1>3

LEMMA RootsStepOK ==
    ASSUME CInv, [Next]_vars
    PROVE  RootsOK'
<1>0. conversations \in [Convs -> ConversationRows(Nat)] /\ RootsOK
  BY DEF CInv, CoreTypeOK
<1>1. CASE UNCHANGED conversations
  BY <1>0, <1>1, HeldStays DEF RootsOK
<1>2. CASE StoreConversation
  <2>1. /\ pc = "thread"
        /\ conversations' = [conversations EXCEPT ![ConvOf(cur.msg)] =
                               [chan |-> cur.chan, root |-> cur.post]]
    BY <1>2 DEF StoreConversation, SaveConversation
  <2> QED
    BY <1>0, <2>1, AtHand, HeldStays DEF RootsOK
<1> QED
  BY <1>1, <1>2, ConversationsChange

LEMMA LinksStepOK ==
    ASSUME CInv, [Next]_vars
    PROVE  LinksOK'
<1>0. /\ conversations \in [Convs -> ConversationRows(Nat)] /\ LinksOK
      /\ messages \in [Event -> MessageRows(Nat \ {0}, {"none"})]
  BY DEF CInv, CoreTypeOK
<1>1. CASE UNCHANGED <<messages, conversations>>
  BY <1>0, <1>1, HeldStays DEF LinksOK, ConvOf, Stored
<1>2. CASE StoreConversation
  <2>1. /\ pc = "thread" /\ UNCHANGED messages
        /\ conversations' = [conversations EXCEPT ![ConvOf(cur.msg)] =
                               [chan |-> cur.chan, root |-> cur.post]]
    BY <1>2 DEF StoreConversation, SaveConversation
  <2>2. \A c \in Convs : Stored(conversations, c) => conversations'[c] = conversations[c]
    BY <1>0, <2>1, AtHand
  <2> QED
    BY <1>0, <2>1, <2>2, HeldStays DEF LinksOK, ConvOf, Stored
<1>3. CASE RecordMessage \/ RecordSend
  <2>1. /\ pc \in {"save", "sent"} /\ UNCHANGED conversations
        /\ messages' = [messages EXCEPT ![cur.msg] = [post |-> cur.post, status |-> "none"]]
    BY <1>3 DEF RecordMessage, RecordSend, SaveMessage
  <2>2. \A m \in Event : m # cur.msg => messages'[m] = messages[m]
    BY <1>0, <2>1
  <2>3. messages'[cur.msg].post = cur.post
    BY <1>0, <2>1, AtHand
  <2>4. /\ cur.msg \in 1..Len(remote) /\ Stored(conversations, ConvOf(cur.msg))
        /\ cur.post # 0 => /\ cur.post \in 1..Len(posts)
                            /\ posts[cur.post].chan = conversations[ConvOf(cur.msg)].chan
    BY <2>1, AtHand
  <2>5. SUFFICES ASSUME NEW m \in Event, messages'[m].post # 0
                 PROVE  /\ messages'[m].post \in 1..Len(posts)
                        /\ m \in 1..Len(remote) /\ Stored(conversations, ConvOf(m))
                        /\ posts[messages'[m].post].chan = conversations[ConvOf(m)].chan
    BY <2>1, HeldStays DEF LinksOK, ConvOf, Stored
  <2>6. CASE m = cur.msg
    BY <2>3, <2>4, <2>5, <2>6
  <2>7. CASE m # cur.msg
    BY <1>0, <2>2, <2>5, <2>7 DEF LinksOK
  <2> QED
    BY <2>6, <2>7
<1> QED
  BY <1>1, <1>2, <1>3, ConversationsChange, MessagesChange

-----------------------------------------------------------------------------
(* The stream of posts.                                                     *)

\* A copy is not what somebody typed.
LEMMA CopiesAreNotTyped ==
    ASSUME CInv, NEW m
    PROVE  Copies(m) \cap Humans = {}
BY DEF CInv, PostsOK, Copies, Humans

\* No post that waits in the stream is being linked now.
LEMMA WaitingStaysUnlinked ==
    ASSUME CInv, [Next]_vars, NEW p \in 1..Len(posts), Unlinked(p), p \in Humans,
           pc = "sent" => p # cur.post
    PROVE  \A n \in Event : messages'[n].post # p
<1>0. messages \in [Event -> MessageRows(Nat \ {0}, {"none"})]
  BY DEF CInv, CoreTypeOK
<1>1. CASE UNCHANGED messages
  BY <1>1 DEF Unlinked
<1>2. CASE RecordMessage \/ RecordSend
  <2>1. /\ pc \in {"save", "sent"}
        /\ messages' = [messages EXCEPT ![cur.msg] = [post |-> cur.post, status |-> "none"]]
    BY <1>2 DEF RecordMessage, RecordSend, SaveMessage
  <2>2. p # cur.post
    BY <2>1, CopiesAreNotTyped DEF CInv, WorkOK
  <2>3. \A n \in Event : messages'[n].post = IF n = cur.msg THEN cur.post ELSE messages[n].post
    BY <1>0, <2>1
  <2> QED
    BY <2>2, <2>3 DEF Unlinked
<1> QED
  BY <1>1, <1>2, MessagesChange

LEMMA HumansStay ==
    ASSUME CInv, [Next]_vars
    PROVE  \A p \in Humans : p \in 1..Len(posts) /\ p \in 1..Len(posts')
                             /\ posts'[p].author = "human"
BY HeldStays DEF Humans

\* After a send the rest of the stream is later than the post that was sent.
LEMMA SentIsPast ==
    ASSUME CInv, [Next]_vars, pc' = "sent"
    PROVE  \/ SendPost /\ cur'.post = Head(mmq) /\ mmq # <<>> /\ mmq' = Tail(mmq)
           \/ pc = "sent" /\ cur' = cur
<1>1. CASE SendPost
  BY <1>1 DEF SendPost, TakePost, Goto, NoWork
<1>2. CASE ~SendPost
  BY <1>2, WorkChanges DEF workVars, IncomingNew, EnsureKnown, OpenConversation,
     StoreConversation, PostMessage, RecordMessage, RecordSend, Done, Goto, Resting
<1> QED
  BY <1>1, <1>2

\* The stream after a step: what it was, its tail, nothing, or one post more.
LEMMA StreamStepOK ==
    ASSUME CInv, [Next]_vars
    PROVE  mmq' \in Seq(1..Len(posts')) /\ StreamOK'
<1> DEFINE Good(p) == /\ p \in 1..Len(posts') /\ posts'[p].author = "human"
                      /\ \A n \in Event : messages'[n].post # p
           Rising(s) == /\ s \in Seq(1..Len(posts'))
                        /\ \A i \in 1..Len(s) : Good(s[i])
                        /\ \A i, j \in 1..Len(s) : i < j => s[i] < s[j]
<1>0. /\ mmq \in Seq(1..Len(posts)) /\ StreamOK /\ WorkOK /\ LinksOK /\ Len(mmq) \in Nat
      /\ cur.post \in 0..Len(posts)
  BY LenProperties DEF CInv, CoreTypeOK
<1>1. /\ Len(posts) \in Nat /\ Len(posts') \in Nat /\ Len(posts) <= Len(posts')
      /\ \A i \in 1..Len(mmq) : mmq[i] \in 1..Len(posts) /\ mmq[i] \in Nat
  BY <1>0, HeldStays, ElementOfSeq
<1>2. \A i \in 1..Len(mmq) : Good(mmq[i])
  <2> SUFFICES ASSUME NEW i \in 1..Len(mmq) PROVE Good(mmq[i])
    OBVIOUS
  <2>1. mmq[i] \in 1..Len(posts) /\ mmq[i] \in Humans /\ Unlinked(mmq[i])
        /\ (pc = "sent" => mmq[i] # cur.post)
    BY <1>0, <1>1 DEF StreamOK
  <2> QED
    BY <2>1, WaitingStaysUnlinked, HumansStay
<1>3. Rising(mmq)
  <2>1. mmq \in Seq(1..Len(posts'))
    BY <1>0, <1>1, SeqMonotonic
  <2> HIDE DEF Good
  <2> QED
    BY <1>0, <1>2, <2>1 DEF StreamOK
<1>4. Rising(<<>>)
  BY EmptySeq
<1>5. mmq # <<>> => Rising(Tail(mmq))
  <2> HIDE DEF Good
  <2> SUFFICES ASSUME mmq # <<>> PROVE Rising(Tail(mmq))
    OBVIOUS
  <2>1. /\ Tail(mmq) \in Seq(1..Len(posts')) /\ Len(mmq) \in Nat
        /\ Len(Tail(mmq)) = Len(mmq) - 1
        /\ \A i \in 1..Len(Tail(mmq)) : Tail(mmq)[i] = mmq[i + 1]
    BY <1>3, HeadTailProperties, LenProperties
  <2> QED
    BY <1>3, <2>1
<1>6. ASSUME NEW q, Posted(q), q.author = "human"
      PROVE  Rising(Append(mmq, Len(posts) + 1))
  <2> DEFINE s == Append(mmq, Len(posts) + 1)
  <2>1. Len(posts') = Len(posts) + 1 /\ posts'[Len(posts) + 1] = q
    BY <1>6, PostedKeeps DEF CInv
  <2>2. /\ s \in Seq(1..Len(posts')) /\ Len(s) = Len(mmq) + 1
        /\ \A i \in 1..Len(mmq) : s[i] = mmq[i]
        /\ s[Len(mmq) + 1] = Len(posts) + 1
    BY <1>1, <1>3, <2>1, Appended
  <2>3. ~RecordMessage /\ ~RecordSend
    BY <1>1, <2>1 DEF RecordMessage, RecordSend
  <2>4. Good(Len(posts) + 1)
    <3>1. \A n \in Event : messages[n].post # Len(posts) + 1
      BY <1>0, <1>1 DEF LinksOK
    <3> QED
      BY <1>1, <1>6, <2>1, <2>3, <3>1, MessagesChange
  <2> HIDE DEF s, Good
  <2>5. \A i \in 1..Len(s) : Good(s[i])
    <3>1. \A i \in 1..Len(s) : i \in 1..Len(mmq) \/ i = Len(mmq) + 1
      BY <1>0, <2>2
    <3> QED
      BY <1>2, <2>2, <2>4, <3>1
  <2>6. \A i, j \in 1..Len(s) : i < j => s[i] < s[j]
    <3> SUFFICES ASSUME NEW i \in 1..Len(s), NEW j \in 1..Len(s), i < j PROVE s[i] < s[j]
      OBVIOUS
    <3>0. Len(s) = Len(mmq) + 1 /\ Len(mmq) \in Nat
      BY <1>0, <2>2
    <3>1. i \in 1..Len(mmq) /\ s[i] = mmq[i] /\ mmq[i] <= Len(posts) /\ mmq[i] \in Nat
      BY <1>0, <1>1, <2>2
    <3>2. CASE j \in 1..Len(mmq)
      BY <1>0, <2>2, <3>1, <3>2 DEF StreamOK
    <3>3. CASE j = Len(mmq) + 1
      BY <1>1, <2>2, <3>1, <3>3
    <3>4. j \in 1..Len(mmq) \/ j = Len(mmq) + 1
      BY <3>0
    <3> QED
      BY <3>2, <3>3, <3>4
  <2> QED
    BY <2>2, <2>5, <2>6 DEF s
<1>7. Rising(mmq')
  <2> HIDE DEF Rising
  <2> QED
    BY <1>3, <1>4, <1>5, <1>6, PostsChange
<1>8. pc' = "sent" => \A i \in 1..Len(mmq') : mmq'[i] # cur'.post
  <2> SUFFICES ASSUME pc' = "sent", NEW i \in 1..Len(mmq') PROVE mmq'[i] # cur'.post
    OBVIOUS
  <2>1. CASE cur'.post = Head(mmq) /\ mmq # <<>> /\ mmq' = Tail(mmq)
    <3>1. /\ Head(mmq) = mmq[1] /\ 1 \in 1..Len(mmq) /\ mmq'[i] = mmq[i + 1]
          /\ i + 1 \in 1..Len(mmq) /\ 1 < i + 1
      BY <2>1, HeadOfStream DEF CInv
    <3>2. mmq[1] < mmq[i + 1] /\ mmq[1] \in Nat
      BY <1>0, <1>1, <3>1 DEF StreamOK
    <3> QED
      BY <2>1, <3>1, <3>2
  <2>2. CASE pc = "sent" /\ cur' = cur
    <3>1. \A k \in 1..Len(mmq) : mmq[k] # cur.post
      BY <1>0, <2>2 DEF StreamOK
    <3>2. CASE mmq' = mmq
      BY <2>2, <3>1, <3>2
    <3>3. CASE mmq' = <<>>
      BY <3>3, EmptySeq
    <3>4. CASE mmq' = Append(mmq, Len(posts) + 1)
      <4>1. /\ Len(mmq') = Len(mmq) + 1 /\ mmq'[Len(mmq) + 1] = Len(posts) + 1
            /\ \A k \in 1..Len(mmq) : mmq'[k] = mmq[k]
        BY <1>0, <3>4
      <4> QED
        BY <1>0, <1>1, <2>2, <3>1, <4>1
    <3> QED
      BY <2>2, <3>2, <3>3, <3>4, PostsChange
  <2> QED
    BY <2>1, <2>2, SentIsPast
<1> QED
  BY <1>7, <1>8 DEF StreamOK, Humans, Unlinked

-----------------------------------------------------------------------------
(* The invariant.                                                           *)

LEMMA InitOK == Init => CInv
<1> SUFFICES ASSUME Init PROVE CInv
  OBVIOUS
<1>1. /\ settings \in Settings /\ remote = <<>> /\ heard = {} /\ handlers = {}
      /\ QueueInit /\ mmq = <<>> /\ posts = <<>>
      /\ messages = [m \in Event |-> NoRow] /\ pc = "idle" /\ cur = NoWork
  BY DEF Init
<1>2. PICK known \in SUBSET Earlier : conversations = Bridged(known)
  BY DEF Init
<1>3. /\ conversations \in [Convs -> ConversationRows(Nat)]
      /\ \A c \in Convs : conversations[c].root = 0
  BY <1>1, <1>2, SettingsAssumption
     DEF Bridged, ConversationRows, NoConversation, SettingsAssumption
<1>4. /\ messages \in [Event -> MessageRows(Nat \ {0}, {"none"})]
      /\ \A m \in Event : messages[m].post = 0
  BY <1>1 DEF MessageRows, NoRow
<1>5. QueueTypeOK /\ items = <<>> /\ hand = Nothing /\ relay = Nothing
  BY <1>1, QueueInitOK DEF QueueInit
<1>6. Nothing = 0
  BY EventAssumption DEF EventAssumption
<1>7. (closed <=> FALSE)
  BY <1>1, Zenon DEF QueueInit
<1>8. Len(<<>>) = 0 /\ remote \in Seq(Messages) /\ posts \in Seq(Posts)
      /\ mmq \in Seq(1..Len(posts))
  BY <1>1, EmptySeq
<1>9. cur \in [msg : 0..Len(remote), post : 0..Len(posts), chan : Channels \cup {None}]
  BY <1>1, <1>8 DEF NoWork
<1>10. CoreTypeOK
  BY <1>1, <1>3, <1>4, <1>5, <1>6, <1>7, <1>8, <1>9 DEF CoreTypeOK
<1> QED
  BY <1>1, <1>3, <1>4, <1>5, <1>8, <1>10
     DEF CInv, OthersOK, WorkOK, PostsOK, RootsOK, LinksOK, StreamOK, Receiving

LEMMA NextOK == CInv /\ [Next]_vars => CInv'
<1> SUFFICES ASSUME CInv, [Next]_vars PROVE CInv'
  OBVIOUS
<1>1. /\ QueueTypeOK' /\ OthersOK' /\ PostsOK' /\ RootsOK' /\ LinksOK'
      /\ mmq' \in Seq(1..Len(posts')) /\ StreamOK'
  BY QueueStepOK, PostsStepOK, RootsStepOK, LinksStepOK, StreamStepOK
<1>2. WorkGood /\ (closed' => pc' = "stopped")
  BY WorkStepOK, ClosedStep
<1>3. /\ RemoteKept /\ PostsKept /\ heard' \cup handlers' \subseteq 1..Len(remote')
  BY RemoteStep, PostsStepKept DEF CInv
<1>4. /\ \A i \in 1..Len(items') : items'[i] <= Len(remote')
      /\ hand' <= Len(remote') /\ relay' <= Len(remote')
  <2>1. Nothing = 0 /\ Len(remote') \in Nat
    BY <1>3, EventAssumption, LenProperties DEF EventAssumption, RemoteKept
  <2> QED
    BY <1>1, <2>1 DEF OthersOK, FromOthers
<1>5. /\ conversations' \in [Convs -> ConversationRows(Nat)]
      /\ messages' \in [Event -> MessageRows(Nat \ {0}, {"none"})]
      /\ settings' \in Settings
  BY TablesStepOK
<1>6. CoreTypeOK'
  BY <1>1, <1>2, <1>3, <1>4, <1>5 DEF CoreTypeOK, WorkGood, Locals, RemoteKept, PostsKept
<1> QED
  BY <1>1, <1>2, <1>6 DEF CInv, WorkGood

\* The inductive invariant of the generic bridge.
THEOREM CoreInvariance == Spec => []CInv
BY InitOK, NextOK, PTL DEF Spec


-----------------------------------------------------------------------------
(* Safety.                                                                  *)

\* Every variable keeps its type: every queued event, waiting post, row and
\* local names a message or a post there is.
THEOREM CoreTypeCorrect == Spec => []CoreTypeOK
<1>1. CInv => CoreTypeOK
  BY DEF CInv
<1> QED
  BY <1>1, CoreInvariance, PTL

\* The bot's own messages never appear in Mattermost a second time, whatever
\* fails between a send and its mapping: onMessageCreate drops them before the
\* queue (discord/client.go:272), so no mapping is needed to know them.
THEOREM OwnSendsStayAway == Spec => []OwnSendsNeverComeBack
<1>1. CInv => OwnSendsNeverComeBack
  BY DEF CInv, PostsOK, FromOthers, OwnSendsNeverComeBack, Copies
<1> QED
  BY <1>1, CoreInvariance, PTL

\* Whatever the bridge does around it, and until it dies or starts anew, the
\* queue between discordgo's goroutines and Run is a FIFO (discord/events.go:56).
THEOREM CoreQueueIsFifo == Spec => QueueIsFifo
<1>1. CInv /\ [Next]_vars => [F!Next \/ Crash \/ Restart]_<<InFlight, closed>>
  <2> SUFFICES ASSUME CInv, [Next]_vars
               PROVE  F!Next \/ Crash \/ Restart \/ UNCHANGED <<InFlight, closed>>
    OBVIOUS
  <2>1. [QueueNext]_queueVars \/ Crash \/ Restart
    <3>1. CASE Crash \/ Restart
      BY <3>1
    <3>2. CASE ~Crash /\ ~Restart
      <4>1. CASE TakeTransport \/ TakeMM \/ HandlerStep
        BY <4>1 DEF TakeTransport, IncomingNew, IncomingIgnored, IncomingFails, TakeEvent,
           TakeMM, OutgoingIgnored, OutgoingFails, SendPost, SendFails, TakePost,
           HandlerStep, EnsureKnown, OpenConversation, OpenFails, StoreConversation,
           SaveFails, PostMessage, PostMessageFails, RecordMessage, RecordSend, Run,
           QueueNext
      <4>2. CASE Handlers \/ PumpStep \/ Environment
        BY <4>2 DEF Handlers, OnMessageCreate, PumpStep, Environment, PersonWrites,
           Repeats, HumanPosts, QueueNext
      <4>3. CASE Stop \/ Disconnect \/ UNCHANGED vars
        BY <4>3 DEF Stop, Run, Disconnect, vars, QueueNext
      <4> QED
        BY <3>2, <4>1, <4>2, <4>3 DEF Next
    <3> QED
      BY <3>1, <3>2
  <2>2. QueueTypeOK
    BY DEF CInv, CoreTypeOK
  <2> QED
    BY <2>1, <2>2, QueueStep
<1> QED
  BY <1>1, CoreInvariance, PTL DEF Spec, QueueIsFifo

\* The message a quoted post stands for is linked to a post in the channel of
\* its own conversation, and that channel has one conversation only.
LEMMA QuotesItsConversation ==
    ASSUME CInv, NEW p \in 1..Len(posts), NEW c \in ConversationForPost(p),
           NEW r \in ReplyTargets(p, c)
    PROVE  ConvOf(r) = c
<1>1. /\ posts[p].root \notin {0, conversations[c].root}
      /\ r \in DOMAIN messages /\ messages[r].post = posts[p].root
  BY DEF ReplyTargets, MessagesByPost
<1>2. r \in Event
  BY <1>1 DEF CInv, CoreTypeOK
<1>3. /\ r \in 1..Len(remote) /\ posts[posts[p].root].chan = conversations[ConvOf(r)].chan
  BY <1>1, <1>2 DEF CInv, LinksOK
<1>4. conversations[ConvOf(r)].chan = posts[p].chan
  BY <1>1, <1>3 DEF CInv, PostsOK
<1>5. ConvOf(r) \in Convs
  <2>1. remote[r] \in Messages
    BY <1>3, Numbers, ElementOfSeq DEF CInv
  <2> QED
    BY <2>1 DEF ConvOf, Messages
<1>6. ~settings.threads
  <2>1. settings.threads => conversations[c].root = ThreadRoot(p)
    BY DEF ConversationForPost, ByRootPost
  <2> QED
    BY <1>1, <2>1 DEF ThreadRoot
<1>7. InChannel(conversations, posts[p].chan) = {c}
  BY <1>6 DEF ConversationForPost, SoleInChannel
<1> QED
  BY <1>4, <1>5, <1>7 DEF InChannel

\* No post is misdelivered: it goes to the conversation of its thread, or to the
\* only conversation of its channel, and quotes what was said there
\* (conversationForPost and replyTarget, corebridge/outbound.go:72).
THEOREM CoreNothingMisdelivered == Spec => CoreNoMisdelivery
<1>1. CInv /\ [Next]_vars =>
        [remote' # remote /\ Sent.from # 0 =>
           LET post == posts[Sent.from]
               c    == conversations[Sent.conv]
           IN  /\ c.chan = post.chan
               /\ \/ c.root \in {Sent.from, post.root} \ {0}
                  \/ \A other \in Convs \ {Sent.conv} : conversations[other].chan # post.chan
               /\ Sent.reply # 0 => ConvOf(Sent.reply) = Sent.conv]_vars
  <2> SUFFICES ASSUME CInv, [Next]_vars, remote' # remote, Sent.from # 0
               PROVE  /\ conversations[Sent.conv].chan = posts[Sent.from].chan
                      /\ \/ conversations[Sent.conv].root \in {Sent.from, posts[Sent.from].root} \ {0}
                         \/ \A other \in Convs \ {Sent.conv} :
                               conversations[other].chan # posts[Sent.from].chan
                      /\ Sent.reply # 0 => ConvOf(Sent.reply) = Sent.conv
    BY Zenon
  <2>1. PICK w : Written(w) /\ (w.from = 0 \/ SentFor(w))
    BY GatewayChanges DEF CInv, gatewayVars
  <2>2. Sent = w
    BY <2>1, WrittenKeeps DEF CInv, Sent
  <2>3. SentFor(w)
    BY <2>1, <2>2
  <2>4. w.from \in 1..Len(posts) /\ w.conv \in ConversationForPost(w.from)
        /\ (w.reply # 0 => w.reply \in ReplyTargets(w.from, w.conv))
    BY <2>3, HeadOfStream DEF SentFor, CInv
  <2> QED
    BY <2>2, <2>4, ConversationOfPost, QuotesItsConversation
<1> QED
  BY <1>1, CoreInvariance, PTL DEF Spec, CoreNoMisdelivery

-----------------------------------------------------------------------------
(* The generic bridge implements Mirror.                                    *)

\* What one more post does to the copies of a message and to what was typed.
LEMMA CopiesAndHumans ==
    ASSUME CoreTypeOK, NEW q, Posted(q)
    PROVE  /\ \A m : /\ q.kind = "msg" /\ q.about = m
                          => Copies(m)' = Copies(m) \cup {Len(posts) + 1}
                     /\ q.kind # "msg" \/ q.about # m => Copies(m)' = Copies(m)
           /\ q.author = "human" => Humans' = Humans \cup {Len(posts) + 1}
           /\ q.author # "human" => Humans' = Humans
           /\ \A m : Len(posts) + 1 \notin Copies(m)
           /\ Len(posts) + 1 \notin Humans
<1>1. /\ PostsKept /\ Len(posts') = Len(posts) + 1 /\ posts'[Len(posts) + 1] = q
      /\ Len(posts) \in Nat
  BY PostedKeeps, Numbers
<1>2. \A p : p \in 1..Len(posts') <=> p \in 1..Len(posts) \/ p = Len(posts) + 1
  BY <1>1
<1>3. \A p \in 1..Len(posts) : posts'[p] = posts[p]
  BY <1>1 DEF PostsKept
<1>4. ASSUME NEW m
      PROVE  \A p : p \in Copies(m)' <=>
                p \in Copies(m) \/ (p = Len(posts) + 1 /\ q.kind = "msg" /\ q.about = m)
  BY <1>1, <1>2, <1>3 DEF Copies
<1>5. \A p : p \in Humans' <=> p \in Humans \/ (p = Len(posts) + 1 /\ q.author = "human")
  BY <1>1, <1>2, <1>3 DEF Humans
<1>6. (\A m : Len(posts) + 1 \notin Copies(m)) /\ Len(posts) + 1 \notin Humans
  BY <1>1 DEF Copies, Humans
<1>7. ASSUME NEW m
      PROVE  /\ q.kind = "msg" /\ q.about = m
                  => Copies(m)' = Copies(m) \cup {Len(posts) + 1}
             /\ q.kind # "msg" \/ q.about # m => Copies(m)' = Copies(m)
  <2>1. CASE q.kind = "msg" /\ q.about = m
    <3>1. \A p : p \in Copies(m)' <=> p \in Copies(m) \cup {Len(posts) + 1}
      BY <1>4, <2>1
    <3>2. Copies(m)' = Copies(m) \cup {Len(posts) + 1}
      BY <3>1, Zenon
    <3> QED
      BY <2>1, <3>2
  <2>2. CASE q.kind # "msg" \/ q.about # m
    <3>1. \A p : p \in Copies(m)' <=> p \in Copies(m)
      BY <1>4, <2>2
    <3>2. Copies(m)' = Copies(m)
      BY <3>1, Zenon
    <3> QED
      BY <2>2, <3>2
  <2> QED
    BY <2>1, <2>2
<1>8. /\ q.author = "human" => Humans' = Humans \cup {Len(posts) + 1}
      /\ q.author # "human" => Humans' = Humans
  BY <1>5
<1> QED
  BY <1>6, <1>7, <1>8

LEMMA SamePosts ==
    ASSUME UNCHANGED posts
    PROVE  (\A m : Copies(m)' = Copies(m)) /\ Humans' = Humans
BY DEF Copies, Humans

\* The mapping a handler writes at its end.
LEMMA RecordsLink ==
    ASSUME CInv, RecordMessage \/ RecordSend
    PROVE  /\ cur.msg \in Event /\ messages[cur.msg].post = 0
           /\ cur.post \in Copies(cur.msg) \cup Humans
           /\ \A n \in Event : messages[n].post # cur.post
           /\ \A n \in Event : messages'[n].post =
                                 IF n = cur.msg THEN cur.post ELSE messages[n].post
           /\ UNCHANGED posts
<1>1. /\ pc \in {"save", "sent"} /\ UNCHANGED posts
      /\ messages' = [messages EXCEPT ![cur.msg] = [post |-> cur.post, status |-> "none"]]
  BY DEF RecordMessage, RecordSend, SaveMessage
<1>2. cur.post \in Copies(cur.msg) \cup Humans
  BY <1>1 DEF CInv, WorkOK
<1>3. /\ cur.msg \in Event /\ messages[cur.msg].post = 0
      /\ \A n \in Event : messages[n].post # cur.post
  BY <1>1, AtHand DEF Unlinked
<1>4. messages \in [Event -> MessageRows(Nat \ {0}, {"none"})]
  BY DEF CInv, CoreTypeOK
<1> QED
  BY <1>1, <1>2, <1>3, <1>4

LEMMA MirrorInit == Init => M!Init
<1> SUFFICES ASSUME Init PROVE M!Init
  OBVIOUS
<1>1. posts = <<>> /\ Len(<<>>) = 0 /\ messages = [m \in Event |-> NoRow]
  BY EmptySeq DEF Init
<1>2. Humans = {} /\ \A m \in Event : Copies(m) = {} /\ messages[m].post = 0
  BY <1>1 DEF Humans, Copies, NoRow
<1> QED
  BY <1>2 DEF M!Init

\* Each step shows a message, links one, adds what somebody typed, or leaves all
\* three as they are.
LEMMA MirrorStep ==
    ASSUME CInv, [Next]_vars
    PROVE  [M!Next]_(M!vars)
<1> DEFINE copies == [m \in Event |-> Copies(m)]
           link   == [m \in Event |-> messages[m].post]
<1>0. CoreTypeOK
  BY DEF CInv
<1>1. CASE RecordMessage \/ RecordSend
  <2>1. UNCHANGED Humans /\ UNCHANGED copies
    BY <1>1, RecordsLink, SamePosts
  <2>2. PICK m \in Event : m = cur.msg
    BY <1>1, RecordsLink
  <2>3. PICK p : p = cur.post
    OBVIOUS
  <2>4. /\ link[m] = 0 /\ p \in Copies(m) \cup Humans
        /\ \A n \in Event : link[n] # p
        /\ link' = [link EXCEPT ![m] = p]
    BY <1>1, <2>2, <2>3, RecordsLink
  <2>5. link'[m] = p
    BY <2>2, <2>4
  <2>6. M!Link(m)
    BY <2>1, <2>4, <2>5 DEF M!Link
  <2> QED
    BY <2>6 DEF M!Next
<1>2. CASE UNCHANGED messages
  <2>1. UNCHANGED link
    BY <1>2
  <2>2. CASE UNCHANGED posts
    BY <2>1, <2>2, SamePosts DEF M!vars
  <2>3. ASSUME NEW q, Posted(q), q.author = "human", q.kind = "typed"
        PROVE  M!Type
    <3>1. UNCHANGED copies
      <4>1. q.kind # "msg"
        BY <2>3
      <4> QED
        BY <1>0, <2>3, <4>1, CopiesAndHumans
    <3>2. Humans' = Humans \cup {Len(posts) + 1}
      BY <1>0, <2>3, CopiesAndHumans
    <3>3. Len(posts) + 1 \notin Humans /\ \A n \in Event : Len(posts) + 1 \notin copies[n]
      BY <1>0, <2>3, CopiesAndHumans
    <3> QED
      BY <2>1, <3>1, <3>2, <3>3 DEF M!Type
  <2>4. ASSUME NEW q, Posted(q), q.author = "bridge"
        PROVE  [M!Next]_(M!vars)
    <3>1. UNCHANGED Humans
      BY <1>0, <2>4, CopiesAndHumans
    <3>2. CASE q.kind # "msg"
      <4>1. UNCHANGED copies
        BY <1>0, <2>4, <3>2, CopiesAndHumans
      <4> QED
        BY <2>1, <3>1, <4>1 DEF M!vars
    <3>3. CASE q.kind = "msg"
      <4>1. PICK m \in Event : m = cur.msg /\ q.about = m /\ messages[m].post = 0
        <5>1. pc = "post" /\ q.about = cur.msg
          BY <2>4, <3>3 DEF Posted, GoodPost, BridgePost
        <5> QED
          BY <5>1 DEF CInv, WorkOK, Receiving
      <4> DEFINE p == Len(posts) + 1
      <4>2. /\ Copies(m)' = Copies(m) \cup {p}
            /\ \A n \in Event : n # m => Copies(n)' = Copies(n)
        BY <1>0, <2>4, <3>3, <4>1, CopiesAndHumans
      <4>3. p \notin Humans /\ \A n \in Event : p \notin copies[n]
        BY <1>0, <2>4, CopiesAndHumans
      <4>4. copies' = [copies EXCEPT ![m] = @ \cup {p}] /\ p \in copies'[m]
        BY <4>2
      <4> HIDE DEF p
      <4>5. M!Show(m)
        BY <2>1, <3>1, <4>1, <4>3, <4>4 DEF M!Show
      <4> QED
        BY <4>5 DEF M!Next
    <3> QED
      BY <3>2, <3>3
  <2> QED
    BY <2>2, <2>3, <2>4, PostsChange DEF M!Next
<1> QED
  BY <1>1, <1>2, MessagesChange

\* The generic bridge keeps the promise of Mirror, with no hypothesis on its
\* configuration: a message is shown until it is linked to a copy of itself or
\* to the post somebody typed, then it is never shown or linked again.
THEOREM CoreImplementsMirror == Spec => CoreRefinesMirror
<1>1. CInv /\ [Next]_vars => [M!Next]_(M!vars)
  BY MirrorStep
<1> QED
  BY <1>1, MirrorInit, CoreInvariance, PTL DEF Spec, CoreRefinesMirror, M!Spec

-----------------------------------------------------------------------------
(* One copy and one thread.                                                 *)

\* The posts of a kind about a message or a conversation.
About(kind, x) == {p \in 1..Len(posts) : posts[p].kind = kind /\ posts[p].about = x}

\* What is behind a copy of m and a root post of c besides mishaps: a row of the
\* database, written or to come.
CopyKept(m) == messages[m].post # 0 \/ (pc = "save" /\ cur.msg = m)
RootKept(c) == Stored(conversations, c) \/ (pc = "thread" /\ ConvOf(cur.msg) = c)

CountsOK ==
    /\ mishaps \in Nat
    /\ \A m \in Event :
          Cardinality(About("msg", m)) <= mishaps + (IF CopyKept(m) THEN 1 ELSE 0)
    /\ \A c \in Convs :
          Cardinality(About("root", c)) <= mishaps + (IF RootKept(c) THEN 1 ELSE 0)

LEMMA CountAbout ==
    ASSUME CoreTypeOK, NEW kind, NEW x
    PROVE  /\ Cardinality(About(kind, x)) \in Nat
           /\ \A q : Posted(q) =>
                Cardinality(About(kind, x)')
                  = IF q.kind = kind /\ q.about = x
                    THEN Cardinality(About(kind, x)) + 1 ELSE Cardinality(About(kind, x))
<1> DEFINE S == About(kind, x)
<1>0. Len(posts) \in Nat
  BY Numbers
<1>1. IsFiniteSet(S) /\ Cardinality(S) \in Nat
  <2>1. IsFiniteSet(1..Len(posts))
    BY <1>0, FS_Interval
  <2> QED
    BY <2>1, FS_Subset, FS_CardinalityType DEF About
<1>2. ASSUME NEW q, Posted(q)
      PROVE  Cardinality(S') = IF q.kind = kind /\ q.about = x
                               THEN Cardinality(S) + 1 ELSE Cardinality(S)
  <2>1. /\ Len(posts') = Len(posts) + 1 /\ posts'[Len(posts) + 1] = q
        /\ \A p \in 1..Len(posts) : posts'[p] = posts[p]
    BY <1>2, PostedKeeps DEF PostsKept
  <2>2. S' = IF q.kind = kind /\ q.about = x THEN S \cup {Len(posts) + 1} ELSE S
    BY <1>0, <2>1 DEF About
  <2>3. Len(posts) + 1 \notin S
    BY <1>0 DEF About
  <2> QED
    BY <1>1, <2>2, <2>3, FS_AddElement
<1> QED
  BY <1>1, <1>2

\* A copy is made by postMessage and a root post by ensureConversation, when no
\* row knows the message or the conversation; where no handler goes on with the
\* post, something went wrong.
LEMMA CountedPosts ==
    ASSUME CInv, [Next]_vars
    PROVE  \/ UNCHANGED posts
           \/ \E q : Posted(q) /\ q.kind \notin {"msg", "root"}
           \/ \E q : /\ Posted(q) /\ q.kind = "msg" /\ q.about = cur.msg
                     /\ pc = "post" /\ (PostMessage \/ Mishap)
           \/ \E q : /\ Posted(q) /\ q.kind = "root" /\ q.about = ConvOf(cur.msg)
                     /\ pc = "conv" /\ ~Stored(conversations, ConvOf(cur.msg))
                     /\ (OpenConversation \/ Mishap)
<1>1. CASE TakeTransport
  BY <1>1 DEF TakeTransport, IncomingNew, IncomingIgnored, IncomingFails, TakeEvent
<1>2. CASE TakeMM
  <2>1. Head(mmq) \in 1..Len(posts)
    BY <1>2, HeadOfStream DEF TakeMM, OutgoingIgnored, OutgoingFails, SendPost, SendFails,
       TakePost, CInv
  <2>2. CASE Publish("notice", Head(mmq), posts[Head(mmq)].chan, ThreadRoot(Head(mmq)))
    <3> DEFINE q == BridgePost("notice", Head(mmq), posts[Head(mmq)].chan, ThreadRoot(Head(mmq)))
    <3>1. GoodPost(q) /\ q.kind = "notice" /\ posts' = Append(posts, q)
      BY <2>1, <2>2, NoticeIsGood DEF Publish, BridgePost
    <3> HIDE DEF q
    <3> QED
      BY <3>1 DEF Posted
  <2> QED
    BY <1>2, <2>2 DEF TakeMM, OutgoingIgnored, OutgoingFails, SendPost, SendFails
<1>3. CASE OpenConversation \/ OpenFails
  <2> DEFINE q == BridgePost("root", ConvOf(cur.msg), settings.route[ConvOf(cur.msg)], 0)
  <2>1. /\ pc = "conv"
        /\ \/ UNCHANGED posts
           \/ /\ posts' = Append(posts, q) /\ ~Stored(conversations, ConvOf(cur.msg))
              /\ OpenConversation \/ Mishap
    BY <1>3 DEF OpenConversation, OpenFails, PublishFails, Publish
  <2>2. GoodPost(q) /\ q.kind = "root" /\ q.about = ConvOf(cur.msg)
    BY <2>1, OpensGoodRoot DEF BridgePost
  <2> HIDE DEF q
  <2> QED
    BY <2>1, <2>2 DEF Posted
<1>4. CASE PostMessage \/ PostMessageFails
  <2> DEFINE q == BridgePost("msg", cur.msg, Destination(cur.msg).chan, Destination(cur.msg).root)
  <2>1. /\ pc = "post"
        /\ \/ UNCHANGED posts
           \/ posts' = Append(posts, q) /\ (PostMessage \/ Mishap)
    BY <1>4 DEF PostMessage, PostMessageFails, PublishFails, Publish
  <2>2. GoodPost(q) /\ q.kind = "msg" /\ q.about = cur.msg
    BY <2>1, CopyIsGood DEF BridgePost
  <2> HIDE DEF q
  <2> QED
    BY <2>1, <2>2 DEF Posted
<1>5. CASE EnsureKnown \/ StoreConversation \/ SaveFails \/ RecordMessage \/ RecordSend
  BY <1>5 DEF EnsureKnown, StoreConversation, SaveFails, RecordMessage, RecordSend, Run
<1>6. CASE Handlers \/ PumpStep \/ Stop \/ Disconnect \/ Crash \/ Restart \/ UNCHANGED vars
  BY <1>6 DEF Handlers, OnMessageCreate, PumpStep, Stop, Run, Disconnect, Crash, Restart, vars
<1>7. CASE Environment
  <2>1. UNCHANGED posts
        \/ \E chan \in Channels, root \in 0..Len(posts), body \in Bodies :
              HumanPosts(chan, root, body)
    BY <1>7 DEF Environment, PersonWrites, Repeats
  <2>2. ASSUME NEW chan \in Channels, NEW root \in 0..Len(posts), NEW body \in Bodies,
               HumanPosts(chan, root, body)
        PROVE  \E q : Posted(q) /\ q.kind = "typed"
    BY <2>2, TypedIsGood DEF CInv
  <2> QED
    BY <2>1, <2>2
<1> QED
  BY <1>1, <1>2, <1>3, <1>4, <1>5, <1>6, <1>7 DEF Next, HandlerStep

LEMMA CountMishaps ==
    ASSUME mishaps \in Nat, [Next]_vars
    PROVE  mishaps' \in Nat /\ mishaps <= mishaps'
<1>1. mishaps' = mishaps \/ mishaps' = mishaps + 1 \/ mishaps' = mishaps + 2
  <2>1. CASE TakeTransport \/ TakeMM
    BY <2>1 DEF TakeTransport, IncomingNew, IncomingIgnored, IncomingFails, TakeMM,
       OutgoingIgnored, OutgoingFails, SendPost, SendFails, Mishap
  <2>2. CASE HandlerStep
    BY <2>2 DEF HandlerStep, EnsureKnown, OpenConversation, OpenFails, StoreConversation,
       SaveFails, PostMessage, PostMessageFails, PublishFails, RecordMessage, RecordSend, Mishap
  <2>3. CASE Handlers \/ PumpStep \/ Stop \/ Disconnect \/ Crash \/ Restart \/ UNCHANGED vars
    BY <2>3 DEF Handlers, OnMessageCreate, PumpStep, Stop, Disconnect, Crash, Restart, vars,
       Mishap
  <2>4. CASE Environment
    BY <2>4 DEF Environment, PersonWrites, Repeats, HumanPosts
  <2> QED
    BY <2>1, <2>2, <2>3, <2>4 DEF Next
<1> QED
  BY <1>1

\* A handler with a post to write down writes it, unless something goes wrong.
LEMMA LeavesBySaving ==
    ASSUME [Next]_vars, pc \in {"thread", "save"}
    PROVE  \/ UNCHANGED workVars \/ Mishap
           \/ pc = "thread" /\ StoreConversation
           \/ pc = "save" /\ RecordMessage
<1>1. ~TakeTransport /\ ~TakeMM /\ ~Stop /\ ~Disconnect /\ ~Restart
  BY DEF TakeTransport, IncomingNew, IncomingIgnored, IncomingFails, TakeEvent, TakeMM,
     OutgoingIgnored, OutgoingFails, SendPost, SendFails, TakePost, Stop, Disconnect, Restart
<1>2. CASE HandlerStep
  BY <1>2 DEF HandlerStep, EnsureKnown, OpenConversation, OpenFails, SaveFails, PostMessage,
     PostMessageFails, StoreConversation, RecordMessage, RecordSend
<1>3. CASE Handlers \/ PumpStep \/ Crash \/ Environment \/ UNCHANGED vars
  BY <1>3 DEF Handlers, OnMessageCreate, PumpStep, Crash, Environment, PersonWrites, Repeats,
     HumanPosts, vars
<1> QED
  BY <1>1, <1>2, <1>3 DEF Next

LEMMA CopyStaysKept ==
    ASSUME CInv, [Next]_vars, NEW m \in Event, CopyKept(m)
    PROVE  CopyKept(m)' \/ Mishap
<1>1. CASE messages[m].post # 0
  BY <1>1, MessagesChange, RecordsLink DEF CopyKept
<1>2. CASE pc = "save" /\ cur.msg = m
  <2>1. CASE RecordMessage
    BY <1>2, <2>1, RecordsLink, AtHand DEF CopyKept
  <2> QED
    BY <1>2, <2>1, LeavesBySaving DEF CopyKept, workVars
<1> QED
  BY <1>1, <1>2 DEF CopyKept

LEMMA RootStaysKept ==
    ASSUME CInv, [Next]_vars, NEW c \in Convs, RootKept(c)
    PROVE  RootKept(c)' \/ Mishap
<1>1. ASSUME StoreConversation
      PROVE  \A d \in Convs : conversations'[d] = IF d = ConvOf(cur.msg)
                                  THEN [chan |-> cur.chan, root |-> cur.post]
                                  ELSE conversations[d]
  BY <1>1 DEF StoreConversation, SaveConversation, CInv, CoreTypeOK
<1>2. CASE Stored(conversations, c)
  <2>1. CASE StoreConversation
    <3>1. ConvOf(cur.msg) # c
      BY <1>2, <2>1, AtHand DEF StoreConversation
    <3> QED
      BY <1>1, <1>2, <2>1, <3>1 DEF RootKept, Stored
  <2> QED
    BY <1>2, <2>1, ConversationsChange DEF RootKept, Stored
<1>3. CASE pc = "thread" /\ ConvOf(cur.msg) = c
  <2>1. CASE StoreConversation
    <3>1. conversations'[c].chan = cur.chan /\ cur.chan # None
      BY <1>1, <1>3, <2>1, AtHand, NoneAssumption
    <3> QED
      BY <3>1 DEF RootKept, Stored, NoConversation
  <2>2. CASE UNCHANGED workVars
    <3>1. cur.msg \in 1..Len(remote)
      BY <1>3 DEF CInv, WorkOK, Receiving
    <3> QED
      BY <1>3, <2>2, <3>1, HeldStays DEF RootKept, ConvOf, workVars
  <2> QED
    BY <1>3, <2>1, <2>2, LeavesBySaving
<1> QED
  BY <1>2, <1>3 DEF RootKept

\* The arithmetic of a step: one more post only where nothing was kept and where
\* something is kept now or one more thing went wrong.
LEMMA OneMore ==
    ASSUME NEW n \in Nat, NEW k \in Nat, NEW a \in Nat, NEW b \in Nat, a <= b,
           NEW was \in BOOLEAN, NEW is \in BOOLEAN,
           n <= a + (IF was THEN 1 ELSE 0),
           was => is \/ b = a + 1,
           k = n \/ (k = n + 1 /\ ~was /\ (is \/ b = a + 1))
    PROVE  k <= b + (IF is THEN 1 ELSE 0)
<1>1. CASE was /\ is
  BY <1>1
<1>2. CASE was /\ ~is
  BY <1>2
<1>3. CASE ~was /\ is
  BY <1>3
<1>4. CASE ~was /\ ~is
  BY <1>4
<1> QED
  BY <1>1, <1>2, <1>3, <1>4

LEMMA CountsStep == ASSUME CInv, CountsOK, [Next]_vars PROVE CountsOK'
<1>0. /\ mishaps \in Nat /\ mishaps' \in Nat /\ mishaps <= mishaps'
      /\ Mishap => mishaps' = mishaps + 1
  BY CountMishaps DEF CountsOK, Mishap
<1>1. ASSUME NEW m \in Event
      PROVE  Cardinality(About("msg", m)')
               <= mishaps' + (IF CopyKept(m)' THEN 1 ELSE 0)
  <2> DEFINE n == Cardinality(About("msg", m))
             k == Cardinality(About("msg", m)')
             was == CopyKept(m)
             is == CopyKept(m)'
  <2>1. n \in Nat /\ n <= mishaps + (IF was THEN 1 ELSE 0)
    BY CountAbout DEF CountsOK, CInv
  <2>2. was => is \/ mishaps' = mishaps + 1
    BY <1>0, CopyStaysKept
  <2>3. k = n \/ (k = n + 1 /\ ~was /\ (is \/ mishaps' = mishaps + 1))
    <3>1. CASE UNCHANGED posts
      BY <3>1 DEF About
    <3>2. ASSUME NEW q, Posted(q), q.kind # "msg" PROVE k = n
      BY <3>2, CountAbout DEF CInv
    <3>3. ASSUME NEW q, Posted(q), q.kind = "msg", q.about = cur.msg, pc = "post",
                 PostMessage \/ Mishap
          PROVE  k = n \/ (k = n + 1 /\ ~was /\ (is \/ mishaps' = mishaps + 1))
      <4>1. CASE cur.msg # m
        BY <3>3, <4>1, CountAbout DEF CInv
      <4>2. CASE cur.msg = m
        <5>1. k = n + 1
          BY <3>3, <4>2, CountAbout DEF CInv
        <5>2. ~was
          BY <3>3, <4>2 DEF CopyKept, CInv, WorkOK, Receiving
        <5>3. PostMessage => is
          <6> SUFFICES ASSUME PostMessage PROVE is
            OBVIOUS
          <6>1. pc' = "save" /\ cur' = [cur EXCEPT !.post = Len(posts) + 1]
            BY DEF PostMessage, Goto
          <6>2. cur'.msg = cur.msg
            BY <6>1 DEF CInv, CoreTypeOK
          <6> QED
            BY <4>2, <6>1, <6>2 DEF CopyKept
        <5> QED
          BY <1>0, <3>3, <5>1, <5>2, <5>3
      <4> QED
        BY <4>1, <4>2
    <3> HIDE DEF n, k, was, is
    <3> QED
      BY <3>1, <3>2, <3>3, CountedPosts
  <2>4. k \in Nat
    BY <2>1, <2>3
  <2>5. was \in BOOLEAN /\ is \in BOOLEAN
    BY DEF CopyKept
  <2> HIDE DEF n, k, was, is
  <2>6. k <= mishaps' + (IF is THEN 1 ELSE 0)
    BY <1>0, <2>1, <2>2, <2>3, <2>4, <2>5, OneMore
  <2> QED
    BY <2>6 DEF k, is
<1>2. ASSUME NEW c \in Convs
      PROVE  Cardinality(About("root", c)')
               <= mishaps' + (IF RootKept(c)' THEN 1 ELSE 0)
  <2> DEFINE n == Cardinality(About("root", c))
             k == Cardinality(About("root", c)')
             was == RootKept(c)
             is == RootKept(c)'
  <2>1. n \in Nat /\ n <= mishaps + (IF was THEN 1 ELSE 0)
    BY CountAbout DEF CountsOK, CInv
  <2>2. was => is \/ mishaps' = mishaps + 1
    BY <1>0, RootStaysKept
  <2>3. k = n \/ (k = n + 1 /\ ~was /\ (is \/ mishaps' = mishaps + 1))
    <3>1. CASE UNCHANGED posts
      BY <3>1 DEF About
    <3>2. ASSUME NEW q, Posted(q), q.kind # "root" PROVE k = n
      BY <3>2, CountAbout DEF CInv
    <3>3. ASSUME NEW q, Posted(q), q.kind = "root", q.about = ConvOf(cur.msg), pc = "conv",
                 ~Stored(conversations, ConvOf(cur.msg)), OpenConversation \/ Mishap
          PROVE  k = n \/ (k = n + 1 /\ ~was /\ (is \/ mishaps' = mishaps + 1))
      <4>1. CASE ConvOf(cur.msg) # c
        BY <3>3, <4>1, CountAbout DEF CInv
      <4>2. CASE ConvOf(cur.msg) = c
        <5>1. k = n + 1
          BY <3>3, <4>2, CountAbout DEF CInv
        <5>2. ~was
          BY <3>3, <4>2 DEF RootKept
        <5>3. OpenConversation => is
          <6> SUFFICES ASSUME OpenConversation PROVE is
            OBVIOUS
          <6>1. pc' = "thread" /\ remote' = remote
            BY DEF OpenConversation, Goto, Run, gatewayVars
          <6>2. cur'.msg = cur.msg
            BY DEF OpenConversation, Goto, CInv, CoreTypeOK
          <6> QED
            BY <4>2, <6>1, <6>2 DEF RootKept, ConvOf
        <5> QED
          BY <1>0, <3>3, <5>1, <5>2, <5>3
      <4> QED
        BY <4>1, <4>2
    <3> HIDE DEF n, k, was, is
    <3> QED
      BY <3>1, <3>2, <3>3, CountedPosts
  <2>4. k \in Nat
    BY <2>1, <2>3
  <2>5. was \in BOOLEAN /\ is \in BOOLEAN
    BY DEF RootKept
  <2> HIDE DEF n, k, was, is
  <2>6. k <= mishaps' + (IF is THEN 1 ELSE 0)
    BY <1>0, <2>1, <2>2, <2>3, <2>4, <2>5, OneMore
  <2> QED
    BY <2>6 DEF k, is
<1> QED
  BY <1>0, <1>1, <1>2 DEF CountsOK

\* However often the gateway repeats an event and wherever a handler is cut short,
\* a Discord message is posted once more than things went wrong at most, and a
\* conversation is given one more thread at most: Run handles one event at a time,
\* so what handleIncomingMessage and ensureConversation looked up is still so when
\* they post.
THEOREM OneCopyOneThreadEach == Spec => []OneCopyOneThread
<1>1. Init => CountsOK
  <2>1. SUFFICES ASSUME Init PROVE CountsOK
    OBVIOUS
  <2>2. mishaps = 0 /\ 1..Len(posts) = {}
    BY <2>1, EmptySeq DEF Init
  <2>3. \A kind, x : Cardinality(About(kind, x)) = 0
    <3>1. \A kind, x : About(kind, x) = {}
      BY <2>2 DEF About
    <3> QED
      BY <3>1, FS_EmptySet
  <2> QED
    BY <2>2, <2>3 DEF CountsOK
<1>2. CInv /\ CountsOK /\ [Next]_vars => CountsOK'
  BY CountsStep
<1>3. CInv /\ CountsOK => OneCopyOneThread
  <2> SUFFICES ASSUME CInv, CountsOK PROVE OneCopyOneThread
    OBVIOUS
  <2>1. \A kind, x : Cardinality(About(kind, x)) \in Nat
    BY CountAbout DEF CInv
  <2>2. /\ \A m \in Event : Cardinality(About("msg", m)) <= 1 + mishaps
        /\ \A c \in Convs : Cardinality(About("root", c)) <= 1 + mishaps
    BY <2>1 DEF CountsOK
  <2> QED
    BY <2>2 DEF OneCopyOneThread, Copies, Roots, About
<1> QED
  BY <1>1, <1>2, <1>3, CoreInvariance, PTL DEF Spec

=============================================================================
