---------------------------- MODULE BridgeProofs -----------------------------
(***************************************************************************)
(* The inductive invariant of Bridge, proved for every set of               *)
(* conversations, channels and settings and every value of the bounds.      *)
(*                                                                         *)
(* TypeOK alone is not inductive: a handler writes what its locals hold, so *)
(* WorkOK says that these refer to messages and posts there are, ThreadOK   *)
(* that a handler which posts has a conversation to post in, and RefsOK     *)
(* that queued events name messages and posts there are.                    *)
(***************************************************************************)
EXTENDS Bridge, SequenceTheorems, TLAPS

-----------------------------------------------------------------------------
(* The inductive invariant.                                                 *)

\* The steps of a handler that works on a message, and those of them that come
\* after ensureConversation.
OnMessage == {"echo", "conv", "thread", "fetch", "backfill", "bfsave", "post", "save"}
InThread  == {"fetch", "backfill", "bfsave", "post", "save"}

\* What the goroutine holds refers to what exists.
WorkOK ==
    /\ pc \in OnMessage => cur.msg \in 1..Len(phone) /\ cur.status \in Statuses
    /\ pc \in {"echo", "bfsave", "save", "pend"} => cur.post # 0
    /\ \A m \in cur.todo : m \in 1..Len(phone) /\ ConvOf(m) = ConvOf(cur.msg)
    /\ cur.todo # {} => pc \in {"backfill", "bfsave"}

\* A handler past ensureConversation has a conversation; one that opened a
\* thread is the only one that could have stored it.
ThreadOK ==
    /\ pc = "thread" => /\ cur.chan \in Channels
                        /\ ~Stored(conversations, ConvOf(cur.msg))
    /\ pc \in InThread => Stored(conversations, ConvOf(cur.msg))

\* The queues and the posts refer to what exists.
RefsOK ==
    /\ Len(phone) <= MaxMsgs
    /\ \A i \in 1..Len(gmq) : gmq[i].msg \in 1..Len(phone)
    /\ \A i \in 1..Len(mmq) : mmq[i] \in 1..Len(posts)
    /\ \A p \in 1..Len(posts) :
          posts[p].kind = "msg" => posts[p].about \in 1..Len(phone)

IInv == TypeOK /\ WorkOK /\ ThreadOK /\ RefsOK

-----------------------------------------------------------------------------
(* What a step does to the posts and to the phone.                          *)

\* Posts are never removed, and only their reactions ever change.
PostsKept ==
    /\ posts' \in Seq(Posts)
    /\ Len(posts) <= Len(posts')
    /\ \A p \in 1..Len(posts) :
          /\ posts'[p].author = posts[p].author
          /\ posts'[p].kind = posts[p].kind
          /\ posts'[p].about = posts[p].about
          /\ posts'[p].chan = posts[p].chan
          /\ posts'[p].root = posts[p].root

\* A post is added, and it is q but for its reactions.
PostAdded(q) ==
    /\ PostsKept
    /\ Len(posts') = Len(posts) + 1
    /\ posts'[Len(posts) + 1] = q

NoPostAdded == PostsKept /\ Len(posts') = Len(posts)

LEMMA UnchangedPosts ==
    ASSUME TypeOK, UNCHANGED posts
    PROVE  NoPostAdded
BY DEF TypeOK, NoPostAdded, PostsKept

LEMMA AppendPost ==
    ASSUME TypeOK, NEW q \in Posts, posts' = Append(posts, q)
    PROVE  PostAdded(q)
<1>1. posts \in Seq(Posts)
  BY DEF TypeOK
<1> QED
  BY <1>1, AppendProperties DEF PostAdded, PostsKept

LEMMA ReactPosts ==
    ASSUME TypeOK, NEW p, NEW gone \in SUBSET Emojis, NEW new \in SUBSET Emojis,
           React(p, gone, new)
    PROVE  NoPostAdded
<1>1. CASE p \in 1..Len(posts)
  <2>1. posts[p] \in Posts
    BY <1>1, ElementOfSeq DEF TypeOK
  <2> DEFINE q == [posts[p] EXCEPT !.emoji = (@ \ gone) \cup new]
  <2>2. q \in Posts /\ q.author = posts[p].author /\ q.kind = posts[p].kind
        /\ q.about = posts[p].about /\ q.chan = posts[p].chan /\ q.root = posts[p].root
    BY <2>1 DEF Posts
  <2>3. posts' = [posts EXCEPT ![p] = q]
    BY DEF React
  <2> QED
    BY <1>1, <2>2, <2>3, ExceptSeq DEF TypeOK, NoPostAdded, PostsKept
<1>2. CASE p \notin 1..Len(posts)
  <2>1. posts' = posts
    BY <1>2 DEF React, TypeOK
  <2> QED
    BY <2>1 DEF TypeOK, NoPostAdded, PostsKept
<1> QED
  BY <1>1, <1>2


LEMMA PublishPost ==
    ASSUME TypeOK, NEW kind \in {"root", "msg", "notice"},
           NEW about \in Convs \cup {None} \cup Nat, NEW chan \in Channels,
           NEW root \in Nat, Publish(kind, about, chan, root)
    PROVE  PostAdded(BridgePost(kind, about, chan, root)) /\ mmq' = mmq
<1>1. BridgePost(kind, about, chan, root) \in Posts
  BY DEF BridgePost, Posts
<1>2. posts' = Append(posts, BridgePost(kind, about, chan, root))
  BY DEF Publish
<1>3. mmq' = mmq
  BY DEF Publish, Deliver, DecodePost, BridgePost
<1> QED
  BY <1>1, <1>2, <1>3, AppendPost

LEMMA PublishMayFail ==
    ASSUME TypeOK, NEW kind \in {"root", "msg", "notice"},
           NEW about \in Convs \cup {None} \cup Nat, NEW chan \in Channels,
           NEW root \in Nat, PublishFails(kind, about, chan, root)
    PROVE  /\ NoPostAdded \/ PostAdded(BridgePost(kind, about, chan, root))
           /\ mmq' = mmq
           /\ mishaps' \in 0..MaxMishaps
<1>1. mishaps' \in 0..MaxMishaps
  BY BoundsAssumption DEF PublishFails, Mishap, TypeOK, Locals
<1>2. CASE UNCHANGED <<posts, mmq>>
  BY <1>1, <1>2, UnchangedPosts
<1>3. CASE Publish(kind, about, chan, root)
  BY <1>1, <1>3, PublishPost
<1> QED
  BY <1>2, <1>3 DEF PublishFails

LEMMA EmojiType == ASSUME NEW s PROVE StatusEmoji(s) \in SUBSET Emojis
BY DEF StatusEmoji, Emojis

\* A change of delivery state touches nothing but reactions.
LEMMA DeliveryStatusPosts ==
    ASSUME TypeOK, NEW p, NEW new, NEW old, ApplyDeliveryStatus(p, new, old)
    PROVE  NoPostAdded /\ mishaps' \in 0..MaxMishaps
<1> DEFINE drop == StatusEmoji(old)
           add  == StatusEmoji(new)
<1>1. drop \in SUBSET Emojis /\ add \in SUBSET Emojis /\ {} \in SUBSET Emojis
  BY EmojiType
<1>2. mishaps' \in 0..MaxMishaps
  BY BoundsAssumption DEF ApplyDeliveryStatus, Mishap, TypeOK
<1>3. \/ UNCHANGED posts \/ React(p, drop, add)
      \/ React(p, drop, {}) \/ React(p, {}, add)
  BY DEF ApplyDeliveryStatus
<1> HIDE DEF drop, add
<1> QED
  BY <1>1, <1>2, <1>3, UnchangedPosts, ReactPosts

LEMMA QueueTail ==
    ASSUME NEW S, NEW q \in Seq(S), q # <<>>
    PROVE  /\ Head(q) \in S /\ Head(q) = q[1] /\ 1 \in 1..Len(q)
           /\ Tail(q) \in Seq(S)
           /\ \A i \in 1..Len(Tail(q)) : i + 1 \in 1..Len(q) /\ Tail(q)[i] = q[i + 1]
BY HeadTailProperties, EmptySeq, LenProperties

\* What a handler that takes the oldest message event knows of it.
LEMMA EventTaken ==
    ASSUME IInv, TakeGMEvent
    PROVE  /\ pc = "idle"
           /\ Head(gmq) \in Events
           /\ Head(gmq).msg \in 1..Len(phone) /\ Head(gmq).msg \in Msgs
           /\ Head(gmq).status \in Statuses
           /\ gmq' \in Seq(Events)
           /\ \A i \in 1..Len(gmq') : gmq'[i].msg \in 1..Len(phone)
<1>1. gmq \in Seq(Events) /\ gmq # <<>> /\ gmq' = Tail(gmq) /\ pc = "idle"
  BY DEF IInv, TypeOK, TakeGMEvent
<1>2. \A i \in 1..Len(gmq) : gmq[i].msg \in 1..Len(phone)
  BY DEF IInv, RefsOK
<1>3. /\ Head(gmq) \in Events /\ Head(gmq) = gmq[1] /\ 1 \in 1..Len(gmq)
      /\ Tail(gmq) \in Seq(Events)
      /\ \A i \in 1..Len(Tail(gmq)) :
            i + 1 \in 1..Len(gmq) /\ Tail(gmq)[i] = gmq[i + 1]
  BY <1>1, QueueTail
<1>4. \A i \in 1..Len(Tail(gmq)) : Tail(gmq)[i].msg \in 1..Len(phone)
  BY <1>2, <1>3
<1>5. Head(gmq).msg \in 1..Len(phone)
  BY <1>2, <1>3
<1> QED
  BY <1>1, <1>3, <1>4, <1>5 DEF Events

\* What a handler that takes the oldest post knows of it.
LEMMA PostTaken ==
    ASSUME IInv, MMEvent
    PROVE  /\ Head(mmq) \in 1..Len(posts)
           /\ posts[Head(mmq)] \in Posts
           /\ Head(mmq) = mmq[1] /\ 1 \in 1..Len(mmq)
           /\ Tail(mmq) \in Seq(Nat \ {0})
           /\ \A i \in 1..Len(Tail(mmq)) : i + 1 \in 1..Len(mmq) /\ Tail(mmq)[i] = mmq[i + 1]
<1>1. mmq \in Seq(Nat \ {0}) /\ mmq # <<>>
  BY DEF IInv, TypeOK, MMEvent
<1>2. \A i \in 1..Len(mmq) : mmq[i] \in 1..Len(posts)
  BY DEF IInv, RefsOK
<1>3. posts \in Seq(Posts)
  BY DEF IInv, TypeOK
<1> QED
  BY <1>1, <1>2, <1>3, QueueTail, ElementOfSeq

\* The locals of a handler that has just made a post.
LEMMA LocalsType ==
    ASSUME TypeOK, NEW n \in Nat
    PROVE  /\ [cur EXCEPT !.post = n] \in Locals
           /\ \A chan \in Channels :
                 /\ [cur EXCEPT !.chan = chan, !.post = n] \in Locals
                 /\ [cur EXCEPT !.chan = chan] \in Locals
<1>1. cur \in Locals
  BY DEF TypeOK
<1> QED
  BY <1>1 DEF Locals

LEMMA MessageType ==
    ASSUME TypeOK, NEW m \in 1..Len(phone)
    PROVE  ConvOf(m) \in Convs /\ TmpOf(m) \in Tmps \cup {0} /\ IsFromMe(m) \in BOOLEAN
<1>1. phone[m] \in [conv : Convs, tmp : Tmps \cup {0}, mine : BOOLEAN]
  BY ElementOfSeq DEF TypeOK
<1> QED
  BY <1>1 DEF ConvOf, TmpOf, IsFromMe

\* Where a message goes that a handler past ensureConversation works on.
LEMMA PlaceOfMessage ==
    ASSUME IInv, pc \in InThread
    PROVE  /\ cur.msg \in 1..Len(phone) /\ ConvOf(cur.msg) \in Convs
           /\ Destination(cur.msg).chan \in Channels
           /\ Destination(cur.msg).root \in Nat
<1>1. cur.msg \in 1..Len(phone) /\ Stored(conversations, ConvOf(cur.msg))
  BY DEF IInv, WorkOK, ThreadOK, InThread, OnMessage
<1>2. ConvOf(cur.msg) \in Convs
  BY <1>1, MessageType DEF IInv
<1> QED
  BY <1>1, <1>2 DEF IInv, TypeOK, ConversationRows, Stored, Destination

\* The references stay good when queues and posts only gain good ones.
LEMMA RefsKept ==
    ASSUME IInv, UNCHANGED phone, PostsKept,
           \A i \in 1..Len(gmq') : gmq'[i].msg \in 1..Len(phone),
           \A i \in 1..Len(mmq') : mmq'[i] \in 1..Len(posts'),
           \/ NoPostAdded
           \/ \E q : PostAdded(q) /\ (q.kind = "msg" => q.about \in 1..Len(phone))
    PROVE  RefsOK'
<1>1. Len(posts) \in Nat
  BY LenProperties DEF IInv, TypeOK
<1>2. ASSUME NEW p \in 1..Len(posts'), posts'[p].kind = "msg"
      PROVE  posts'[p].about \in 1..Len(phone)
  <2>1. CASE p \in 1..Len(posts)
    BY <1>2, <2>1 DEF IInv, RefsOK, PostsKept
  <2>2. CASE p \notin 1..Len(posts)
    BY <1>1, <1>2, <2>2 DEF NoPostAdded, PostAdded
  <2> QED
    BY <2>1, <2>2
<1> QED
  BY <1>2 DEF IInv, RefsOK

LEMMA RefsUntouched ==
    ASSUME IInv, UNCHANGED <<phone, gmq, mmq>>,
           \/ NoPostAdded
           \/ \E q : PostAdded(q) /\ (q.kind = "msg" => q.about \in 1..Len(phone))
    PROVE  RefsOK'
<1>1. PostsKept
  BY DEF NoPostAdded, PostAdded
<1>2. Len(posts) \in Nat /\ Len(posts') \in Nat /\ Len(posts) <= Len(posts')
  BY <1>1, LenProperties DEF IInv, TypeOK, PostsKept
<1>3. \A i \in 1..Len(mmq') : mmq'[i] \in 1..Len(posts')
  BY <1>2 DEF IInv, RefsOK
<1>4. \A i \in 1..Len(gmq') : gmq'[i].msg \in 1..Len(phone)
  BY DEF IInv, RefsOK
<1> QED
  BY <1>1, <1>3, <1>4, RefsKept

-----------------------------------------------------------------------------
(* Every step of the bridge keeps the invariant: taking message events.     *)

LEMMA IncomingEchoInv == ASSUME IInv, IncomingEcho PROVE IInv'
<1> DEFINE e == Head(gmq)
           t == TmpOf(e.msg)
<1>1. /\ pc = "idle" /\ e.msg \in 1..Len(phone) /\ e.msg \in Msgs
      /\ e.status \in Statuses /\ gmq' \in Seq(Events)
      /\ \A i \in 1..Len(gmq') : gmq'[i].msg \in 1..Len(phone)
  BY EventTaken DEF IncomingEcho
<1>2. t \in Tmps /\ pending[t] \in [post : Nat \ {0}, aged : BOOLEAN]
  BY DEF IncomingEcho, Issued, IInv, TypeOK, PendingRows, NoPending
<1>3. cur' = [NoWork EXCEPT !.msg = e.msg, !.status = e.status, !.post = pending[t].post]
      /\ pc' = "echo"
  BY DEF IncomingEcho, Goto
<1>4. TypeOK'
  BY <1>1, <1>2, <1>3 DEF IncomingEcho, TakePendingOutbound, PendingRows, NoWork,
     IInv, TypeOK, Locals, phoneVars, Steps
<1>5. WorkOK' /\ ThreadOK'
  BY <1>1, <1>2, <1>3 DEF IncomingEcho, NoWork, WorkOK, ThreadOK, OnMessage, InThread,
     phoneVars
<1>6. RefsOK'
  BY <1>1 DEF IncomingEcho, IInv, RefsOK, phoneVars
<1> QED
  BY <1>4, <1>5, <1>6 DEF IInv

LEMMA IncomingKnownInv == ASSUME IInv, IncomingKnown PROVE IInv'
<1> DEFINE e == Head(gmq)
<1>1. /\ pc = "idle" /\ e.msg \in Msgs /\ e.status \in Statuses
      /\ gmq' \in Seq(Events)
      /\ \A i \in 1..Len(gmq') : gmq'[i].msg \in 1..Len(phone)
  BY EventTaken DEF IncomingKnown
<1>2. NoPostAdded /\ mishaps' \in 0..MaxMishaps
  BY DeliveryStatusPosts, UnchangedPosts DEF IncomingKnown, IInv, TypeOK
<1>3. messages' \in [Msgs -> MessageRows(Nat \ {0}, Statuses)]
  BY <1>1 DEF IncomingKnown, UpdateMessageStatus, StatusChanges, Mapped, MessageRows,
     NoRow, IInv, TypeOK
<1>4. TypeOK'
  BY <1>1, <1>2, <1>3 DEF IncomingKnown, NoPostAdded, PostsKept, IInv, TypeOK, phoneVars,
     workVars
<1>5. WorkOK' /\ ThreadOK'
  BY <1>1 DEF IncomingKnown, IInv, WorkOK, ThreadOK, OnMessage, InThread, phoneVars,
     workVars
<1>6. RefsOK'
  BY <1>1, <1>2, RefsKept DEF IncomingKnown, NoPostAdded, IInv, RefsOK, phoneVars
<1> QED
  BY <1>4, <1>5, <1>6 DEF IInv

LEMMA IncomingNewInv == ASSUME IInv, IncomingNew PROVE IInv'
BY EventTaken DEF IncomingNew, Goto, NoWork, IInv, TypeOK, Locals, WorkOK, ThreadOK, RefsOK,
   OnMessage, InThread, phoneVars, dbVars, Steps

LEMMA IncomingIgnoredInv == ASSUME IInv, IncomingIgnored PROVE IInv'
BY EventTaken DEF IncomingIgnored, IInv, TypeOK, WorkOK, ThreadOK, RefsOK, OnMessage,
   InThread, ConvOf, phoneVars, dbVars, workVars

LEMMA IncomingFailsInv == ASSUME IInv, IncomingFails PROVE IInv'
BY EventTaken, BoundsAssumption DEF IncomingFails, Mishap, IInv, TypeOK, Locals, WorkOK, ThreadOK,
   RefsOK, OnMessage, InThread, ConvOf, phoneVars, dbVars, workVars

LEMMA RecordEchoInv == ASSUME IInv, RecordEcho PROVE IInv'
<1>1. cur.msg \in Msgs /\ cur.status \in Statuses /\ cur.post \in Nat \ {0}
  BY DEF RecordEcho, IInv, TypeOK, Locals, WorkOK, RefsOK, OnMessage, Msgs
<1>2. NoPostAdded /\ mishaps' \in 0..MaxMishaps
  BY DeliveryStatusPosts DEF RecordEcho, IInv
<1>3. messages' \in [Msgs -> MessageRows(Nat \ {0}, Statuses)]
  BY <1>1 DEF RecordEcho, SaveMessage, MessageRows, IInv, TypeOK
<1>4. TypeOK'
  BY <1>2, <1>3 DEF RecordEcho, Done, Goto, NoWork, NoPostAdded, PostsKept, IInv, TypeOK, Locals,
     phoneVars, Steps
<1>5. WorkOK' /\ ThreadOK'
  BY DEF RecordEcho, Done, Goto, NoWork, WorkOK, ThreadOK, OnMessage, InThread
<1>6. RefsOK'
  BY <1>2, RefsUntouched DEF RecordEcho, phoneVars
<1> QED
  BY <1>4, <1>5, <1>6 DEF IInv

LEMMA SaveFailsInv == ASSUME IInv, SaveFails PROVE IInv'
BY BoundsAssumption DEF SaveFails, Mishap, Done, Goto, NoWork, IInv, TypeOK, Locals, WorkOK,
   ThreadOK, RefsOK, OnMessage, InThread, phoneVars, dbVars, Steps

-----------------------------------------------------------------------------
(* ... opening a conversation and posting in it.                            *)

LEMMA EnsureKnownInv == ASSUME IInv, EnsureKnown PROVE IInv'
BY DEF EnsureKnown, NeedsThread, IInv, TypeOK, Locals, WorkOK, ThreadOK, RefsOK, OnMessage,
   InThread, ConvOf, phoneVars, dbVars, Steps

\* The routing table gives every conversation a channel.
LEMMA RoutedChannel ==
    ASSUME IInv, pc = "conv"
    PROVE  /\ cur.msg \in 1..Len(phone) /\ ConvOf(cur.msg) \in Convs
           /\ settings.route[ConvOf(cur.msg)] \in Channels
<1>1. cur.msg \in 1..Len(phone)
  BY DEF IInv, WorkOK, OnMessage
<1>2. ConvOf(cur.msg) \in Convs
  BY <1>1, MessageType DEF IInv
<1> QED
  BY <1>1, <1>2, SettingsAssumption DEF IInv, TypeOK, SettingsType

LEMMA OpenConversationInv == ASSUME IInv, OpenConversation PROVE IInv'
<1> DEFINE conv == ConvOf(cur.msg)
           chan == settings.route[conv]
<1>1. /\ pc = "conv" /\ ~Stored(conversations, conv)
      /\ cur.msg \in 1..Len(phone) /\ conv \in Convs /\ chan \in Channels
  BY RoutedChannel DEF OpenConversation, NeedsThread
<1>2. Len(posts) \in Nat
  BY LenProperties DEF IInv, TypeOK
<1>3. /\ NoPostAdded \/ PostAdded(BridgePost("root", conv, chan, 0))
      /\ UNCHANGED mmq
  BY <1>1, PublishPost, UnchangedPosts DEF OpenConversation, IInv
<1>locals. /\ pc' = "thread"
      /\ \/ cur' = [cur EXCEPT !.chan = chan, !.post = Len(posts) + 1]
         \/ cur' = [cur EXCEPT !.chan = chan]
  BY DEF OpenConversation, Goto
<1>4. /\ pc' = "thread" /\ cur'.chan = chan /\ cur'.msg = cur.msg
      /\ cur'.status = cur.status /\ cur'.todo = cur.todo /\ cur'.post \in Nat
      /\ cur' \in Locals
  <2>1. Len(posts) + 1 \in Nat /\ cur \in Locals
    BY <1>2 DEF IInv, TypeOK
  <2>2. cur' \in Locals
    BY <1>1, <1>locals, <2>1, LocalsType DEF IInv
  <2> QED
    BY <1>locals, <2>1, <2>2 DEF Locals
<1>5. TypeOK'
  BY <1>3, <1>4 DEF OpenConversation, NoPostAdded, PostAdded, PostsKept, IInv, TypeOK,
     phoneVars, dbVars, Steps
<1>6. WorkOK' /\ ThreadOK'
  BY <1>1, <1>4 DEF OpenConversation, IInv, WorkOK, ThreadOK, OnMessage, InThread, ConvOf,
     phoneVars, dbVars
<1>7. RefsOK'
  BY <1>3, RefsUntouched DEF OpenConversation, BridgePost, phoneVars
<1> QED
  BY <1>5, <1>6, <1>7 DEF IInv

LEMMA OpenFailsInv == ASSUME IInv, OpenFails PROVE IInv'
<1> DEFINE q == BridgePost("root", ConvOf(cur.msg), settings.route[ConvOf(cur.msg)], 0)
<1>1. /\ NoPostAdded \/ PostAdded(q)
      /\ UNCHANGED mmq
      /\ mishaps' \in 0..MaxMishaps
  BY RoutedChannel, PublishMayFail, UnchangedPosts, BoundsAssumption
     DEF OpenFails, Mishap, IInv, TypeOK
<1>2. TypeOK'
  BY <1>1 DEF OpenFails, Done, Goto, NoWork, NoPostAdded, PostAdded, PostsKept, IInv,
     TypeOK, Locals, phoneVars, dbVars, Steps
<1>3. WorkOK' /\ ThreadOK'
  BY DEF OpenFails, Done, Goto, NoWork, WorkOK, ThreadOK, OnMessage, InThread
<1>4. RefsOK'
  BY <1>1, RefsUntouched DEF OpenFails, BridgePost, phoneVars
<1> QED
  BY <1>2, <1>3, <1>4 DEF IInv

LEMMA StoreConversationInv == ASSUME IInv, StoreConversation PROVE IInv'
<1> DEFINE conv == ConvOf(cur.msg)
<1>1. cur.msg \in 1..Len(phone) /\ cur.chan \in Channels /\ cur.post \in Nat
  BY DEF StoreConversation, IInv, TypeOK, Locals, WorkOK, ThreadOK, OnMessage
<1>2. conv \in Convs
  BY <1>1, MessageType DEF IInv
<1>3. /\ conversations' \in [Convs -> ConversationRows(Nat)]
      /\ conversations'[conv] = [chan |-> cur.chan, root |-> cur.post]
  BY <1>1, <1>2 DEF StoreConversation, SaveConversation, ConversationRows, IInv, TypeOK
<1>4. Stored(conversations', conv)
  BY <1>1, <1>3, NoneAssumption DEF Stored, NoConversation
<1>5. TypeOK'
  BY <1>3 DEF StoreConversation, Goto, IInv, TypeOK, Locals, phoneVars, Steps
<1>6. WorkOK' /\ ThreadOK'
  BY <1>1, <1>4 DEF StoreConversation, Goto, IInv, TypeOK, WorkOK, ThreadOK, OnMessage,
     InThread, ConvOf, phoneVars
<1>7. RefsOK'
  BY DEF StoreConversation, IInv, RefsOK, phoneVars
<1> QED
  BY <1>5, <1>6, <1>7 DEF IInv

LEMMA FetchHistoryInv == ASSUME IInv, FetchHistory PROVE IInv'
<1>1. Newest(ConvOf(cur.msg), settings.backfill)
        \subseteq {m \in 1..Len(phone) : ConvOf(m) = ConvOf(cur.msg)}
  BY DEF Newest
<1>2. Len(phone) \in Nat /\ Len(phone) <= MaxMsgs
  BY LenProperties DEF IInv, TypeOK, RefsOK
<1>3. Newest(ConvOf(cur.msg), settings.backfill) \subseteq Msgs
  BY <1>1, <1>2, BoundsAssumption DEF Msgs
<1>4. TypeOK'
  BY <1>3 DEF FetchHistory, Goto, IInv, TypeOK, Locals, phoneVars, dbVars, Steps
<1>5. WorkOK' /\ ThreadOK'
  BY <1>1 DEF FetchHistory, Goto, IInv, TypeOK, WorkOK, ThreadOK, OnMessage, InThread,
     ConvOf, phoneVars, dbVars
<1>6. RefsOK'
  BY DEF FetchHistory, IInv, RefsOK, phoneVars
<1> QED
  BY <1>4, <1>5, <1>6 DEF IInv

\* A post about a message of the phone, in the thread of the one being handled.
LEMMA PublishInThread ==
    ASSUME IInv, pc \in InThread, NEW m \in 1..Len(phone),
           Publish("msg", m, Destination(cur.msg).chan, Destination(cur.msg).root)
    PROVE  /\ PostAdded(BridgePost("msg", m, Destination(cur.msg).chan,
                                   Destination(cur.msg).root))
           /\ mmq' = mmq
<1>1. m \in Nat
  OBVIOUS
<1> QED
  BY <1>1, PlaceOfMessage, PublishPost DEF IInv

LEMMA PublishInThreadMayFail ==
    ASSUME IInv, pc \in InThread, NEW m \in 1..Len(phone),
           PublishFails("msg", m, Destination(cur.msg).chan, Destination(cur.msg).root)
    PROVE  /\ \/ NoPostAdded
              \/ PostAdded(BridgePost("msg", m, Destination(cur.msg).chan,
                                      Destination(cur.msg).root))
           /\ mmq' = mmq
           /\ mishaps' \in 0..MaxMishaps
<1>1. m \in Nat
  OBVIOUS
<1> QED
  BY <1>1, PlaceOfMessage, PublishMayFail DEF IInv

LEMMA BackfillPostInv == ASSUME IInv, BackfillPost PROVE IInv'
<1>1. PICK m \in cur.todo :
        /\ Publish("msg", m, Destination(cur.msg).chan, Destination(cur.msg).root)
        /\ Goto("bfsave", [cur EXCEPT !.post = Len(posts) + 1])
  BY DEF BackfillPost
<1>2. m \in 1..Len(phone) /\ pc = "backfill" /\ pc \in InThread
  BY DEF BackfillPost, IInv, WorkOK, InThread
<1> DEFINE q == BridgePost("msg", m, Destination(cur.msg).chan, Destination(cur.msg).root)
<1>3. PostAdded(q) /\ UNCHANGED mmq
  BY <1>1, <1>2, PublishInThread
<1>4. q.kind = "msg" /\ q.about = m
  BY DEF BridgePost
<1>5. Len(posts) \in Nat
  BY LenProperties DEF IInv, TypeOK
<1> HIDE DEF q
<1>locals. cur' \in Locals
  <2>1. Len(posts) + 1 \in Nat /\ cur' = [cur EXCEPT !.post = Len(posts) + 1]
    BY <1>1, <1>5 DEF Goto
  <2> QED
    BY <2>1, LocalsType DEF IInv
<1>6. TypeOK'
  BY <1>1, <1>3, <1>locals DEF BackfillPost, Goto, PostAdded, PostsKept, IInv, TypeOK,
     phoneVars, dbVars, Steps
<1>7. WorkOK' /\ ThreadOK'
  BY <1>1, <1>2, <1>5 DEF BackfillPost, Goto, IInv, TypeOK, WorkOK, ThreadOK, OnMessage,
     InThread, ConvOf, phoneVars, dbVars
<1>8. RefsOK'
  BY <1>2, <1>3, <1>4, RefsUntouched DEF BackfillPost, phoneVars
<1> QED
  BY <1>6, <1>7, <1>8 DEF IInv

LEMMA BackfillSaveInv == ASSUME IInv, BackfillSave PROVE IInv'
<1>1. PICK m \in cur.todo, status \in StatusesOf(cur.msg) \cup Statuses :
        /\ messages' = SaveMessage(messages, m, cur.post, status)
        /\ Goto("backfill", [cur EXCEPT !.post = 0, !.todo = @ \ {m}])
        /\ status \in Statuses
  BY InputsAssumption DEF BackfillSave, StatusesOf, Statuses
<1>2. pc = "bfsave" /\ cur.post \in Nat \ {0} /\ m \in Msgs
  BY DEF BackfillSave, IInv, TypeOK, Locals, WorkOK
<1>3. messages' \in [Msgs -> MessageRows(Nat \ {0}, Statuses)]
  BY <1>1, <1>2 DEF SaveMessage, MessageRows, IInv, TypeOK
<1>4. TypeOK'
  BY <1>1, <1>3 DEF BackfillSave, Goto, IInv, TypeOK, Locals, phoneVars, Steps
<1>5. WorkOK' /\ ThreadOK'
  BY <1>1, <1>2 DEF BackfillSave, Goto, IInv, TypeOK, WorkOK, ThreadOK, OnMessage,
     InThread, ConvOf, phoneVars
<1>6. RefsOK'
  BY DEF BackfillSave, IInv, RefsOK, phoneVars
<1> QED
  BY <1>4, <1>5, <1>6 DEF IInv

LEMMA BackfillEndsInv == ASSUME IInv, BackfillEnds PROVE IInv'
<1>1. pc \in {"fetch", "backfill", "bfsave"} /\ pc \in InThread
  BY DEF BackfillEnds, InThread
<1>2. /\ \/ NoPostAdded
         \/ \E m \in 1..Len(phone) :
               PostAdded(BridgePost("msg", m, Destination(cur.msg).chan,
                                    Destination(cur.msg).root))
      /\ UNCHANGED mmq
      /\ mishaps' \in 0..MaxMishaps
  <2>1. CASE UNCHANGED <<posts, mmq, mishaps>>
    BY <2>1, UnchangedPosts DEF IInv, TypeOK
  <2>2. CASE Mishap /\ UNCHANGED <<posts, mmq>>
    BY <2>2, UnchangedPosts, BoundsAssumption DEF Mishap, IInv, TypeOK
  <2>3. ASSUME NEW m \in cur.todo,
               PublishFails("msg", m, Destination(cur.msg).chan, Destination(cur.msg).root)
        PROVE  <1>2!1 /\ <1>2!2 /\ <1>2!3
    <3>1. m \in 1..Len(phone)
      BY DEF IInv, WorkOK
    <3> QED
      BY <1>1, <2>3, <3>1, PublishInThreadMayFail
  <2> QED
    BY <2>1, <2>2, <2>3 DEF BackfillEnds
<1>3. TypeOK'
  BY <1>2 DEF BackfillEnds, Goto, NoPostAdded, PostAdded, PostsKept, IInv, TypeOK, Locals, phoneVars,
     dbVars, Steps
<1>4. WorkOK' /\ ThreadOK'
  BY <1>1 DEF BackfillEnds, Goto, IInv, TypeOK, WorkOK, ThreadOK, OnMessage, InThread,
     ConvOf, phoneVars, dbVars
<1>5. \/ NoPostAdded
      \/ \E q : PostAdded(q) /\ (q.kind = "msg" => q.about \in 1..Len(phone))
  <2>1. \A m, chan, root : BridgePost("msg", m, chan, root).about = m
    BY DEF BridgePost
  <2> QED
    BY <1>2, <2>1
<1>6. RefsOK'
  BY <1>2, <1>5, RefsUntouched DEF BackfillEnds, phoneVars
<1> QED
  BY <1>3, <1>4, <1>6 DEF IInv

LEMMA PostMessageInv == ASSUME IInv, PostMessage PROVE IInv'
<1> DEFINE q == BridgePost("msg", cur.msg, Destination(cur.msg).chan,
                           Destination(cur.msg).root)
<1>1. pc = "post" /\ pc \in InThread /\ cur.msg \in 1..Len(phone)
  BY PlaceOfMessage DEF PostMessage, InThread
<1>2. PostAdded(q) /\ UNCHANGED mmq
  BY <1>1, PublishInThread DEF PostMessage
<1>3. q.kind = "msg" /\ q.about = cur.msg
  BY DEF BridgePost
<1>4. Len(posts) \in Nat
  BY LenProperties DEF IInv, TypeOK
<1> HIDE DEF q
<1>locals. cur' \in Locals
  <2>1. Len(posts) + 1 \in Nat /\ cur' = [cur EXCEPT !.post = Len(posts) + 1]
    BY <1>4 DEF PostMessage, Goto
  <2> QED
    BY <2>1, LocalsType DEF IInv
<1>5. TypeOK'
  BY <1>2, <1>locals DEF PostMessage, Goto, PostAdded, PostsKept, IInv, TypeOK, phoneVars,
     dbVars, Steps
<1>6. WorkOK' /\ ThreadOK'
  BY <1>1, <1>4 DEF PostMessage, Goto, IInv, TypeOK, WorkOK, ThreadOK, OnMessage, InThread,
     ConvOf, phoneVars, dbVars
<1>7. RefsOK'
  BY <1>1, <1>2, <1>3, RefsUntouched DEF PostMessage, phoneVars
<1> QED
  BY <1>5, <1>6, <1>7 DEF IInv

LEMMA PostMessageFailsInv == ASSUME IInv, PostMessageFails PROVE IInv'
<1> DEFINE q == BridgePost("msg", cur.msg, Destination(cur.msg).chan,
                           Destination(cur.msg).root)
<1>1. pc \in InThread /\ cur.msg \in 1..Len(phone)
  BY PlaceOfMessage DEF PostMessageFails, InThread
<1>2. NoPostAdded \/ PostAdded(q)
  BY <1>1, PublishInThreadMayFail DEF PostMessageFails
<1>3. UNCHANGED mmq /\ mishaps' \in 0..MaxMishaps
  BY <1>1, PublishInThreadMayFail DEF PostMessageFails
<1>4. q.kind = "msg" /\ q.about = cur.msg
  BY DEF BridgePost
<1> HIDE DEF q
<1>5. TypeOK'
  BY <1>2, <1>3 DEF PostMessageFails, Done, Goto, NoWork, NoPostAdded, PostAdded, PostsKept,
     IInv, TypeOK, Locals, phoneVars, dbVars, Steps
<1>6. WorkOK' /\ ThreadOK'
  BY DEF PostMessageFails, Done, Goto, NoWork, WorkOK, ThreadOK, OnMessage, InThread
<1>7. RefsOK'
  BY <1>1, <1>2, <1>3, <1>4, RefsUntouched DEF PostMessageFails, phoneVars
<1> QED
  BY <1>5, <1>6, <1>7 DEF IInv

LEMMA RecordMessageInv == ASSUME IInv, RecordMessage PROVE IInv'
<1>1. cur.msg \in Msgs /\ cur.status \in Statuses /\ cur.post \in Nat \ {0}
  BY DEF RecordMessage, IInv, TypeOK, Locals, WorkOK, RefsOK, OnMessage, Msgs
<1>2. messages' \in [Msgs -> MessageRows(Nat \ {0}, Statuses)]
  BY <1>1 DEF RecordMessage, SaveMessage, MessageRows, IInv, TypeOK
<1>3. markedRead' \subseteq Msgs /\ mishaps' \in 0..MaxMishaps
  BY <1>1, BoundsAssumption DEF RecordMessage, Mishap, IInv, TypeOK
<1>4. TypeOK'
  BY <1>2, <1>3 DEF RecordMessage, Done, Goto, NoWork, IInv, TypeOK, Locals, phoneVars, Steps
<1>5. WorkOK' /\ ThreadOK'
  BY DEF RecordMessage, Done, Goto, NoWork, WorkOK, ThreadOK, OnMessage, InThread
<1>6. RefsOK'
  BY DEF RecordMessage, IInv, RefsOK, phoneVars
<1> QED
  BY <1>4, <1>5, <1>6 DEF IInv

-----------------------------------------------------------------------------
(* ... taking posts and sending them.                                       *)

LEMMA MMQueueKept ==
    ASSUME IInv, TakeMMEvent
    PROVE  mmq' \in Seq(Nat \ {0}) /\ \A i \in 1..Len(mmq') : mmq'[i] \in 1..Len(posts)
<1>1. \A i \in 1..Len(mmq) : mmq[i] \in 1..Len(posts)
  BY DEF IInv, RefsOK
<1>2. /\ Tail(mmq) \in Seq(Nat \ {0})
      /\ \A i \in 1..Len(Tail(mmq)) : i + 1 \in 1..Len(mmq) /\ Tail(mmq)[i] = mmq[i + 1]
  BY PostTaken DEF TakeMMEvent
<1>3. \A i \in 1..Len(Tail(mmq)) : Tail(mmq)[i] \in 1..Len(posts)
  BY <1>1, <1>2
<1> QED
  BY <1>2, <1>3 DEF TakeMMEvent

LEMMA OutgoingIgnoredInv == ASSUME IInv, OutgoingIgnored PROVE IInv'
BY MMQueueKept DEF OutgoingIgnored, IInv, TypeOK, WorkOK, ThreadOK, RefsOK, OnMessage,
   InThread, ConvOf, phoneVars, dbVars, workVars

LEMMA LookupFailsInv == ASSUME IInv, LookupFails PROVE IInv'
<1>1. TypeOK'
  BY MMQueueKept, BoundsAssumption DEF LookupFails, Mishap, IInv, TypeOK, phoneVars, dbVars, workVars
<1>2. WorkOK' /\ ThreadOK'
  BY DEF LookupFails, IInv, WorkOK, ThreadOK, OnMessage, InThread, ConvOf, phoneVars, dbVars, workVars
<1>3. RefsOK'
  BY MMQueueKept DEF LookupFails, IInv, RefsOK, phoneVars, dbVars, workVars
<1> QED
  BY <1>1, <1>2, <1>3 DEF IInv

LEMMA AttachmentsFailInv == ASSUME IInv, AttachmentsFail PROVE IInv'
<1>1. TypeOK'
  BY MMQueueKept, BoundsAssumption DEF AttachmentsFail, Mishap, IInv, TypeOK, phoneVars, dbVars, workVars
<1>2. WorkOK' /\ ThreadOK'
  BY DEF AttachmentsFail, IInv, WorkOK, ThreadOK, OnMessage, InThread, ConvOf, phoneVars, dbVars, workVars
<1>3. RefsOK'
  BY MMQueueKept DEF AttachmentsFail, IInv, RefsOK, phoneVars, dbVars, workVars
<1> QED
  BY <1>1, <1>2, <1>3 DEF IInv

Sends == [post : Nat \ {0}, conv : Convs, reply : Msgs \cup {0}]

LEMMA AcceptedType ==
    ASSUME TypeOK, NEW p \in Nat \ {0}, NEW c \in Convs, NEW r \in Msgs \cup {0},
           Accepted(p, c, r)
    PROVE  sends' \in Seq(Sends) /\ Len(sends') <= MaxHumans
<1>1. sends \in Seq(Sends) /\ [post |-> p, conv |-> c, reply |-> r] \in Sends
  BY DEF TypeOK, Sends
<1>2. Len(sends) \in Nat
  BY <1>1, LenProperties
<1> QED
  BY <1>1, <1>2, AppendProperties, BoundsAssumption DEF Accepted

LEMMA SendPostInv == ASSUME IInv, SendPost PROVE IInv'
<1> DEFINE p == Head(mmq)
<1>1. TakeMMEvent /\ pc = "idle" /\ p \in 1..Len(posts)
  BY PostTaken DEF SendPost, TakeMMEvent, MMEvent
<1>2. p \in Nat \ {0}
  BY <1>1
<1>3. \E c \in Convs, r \in Msgs \cup {0} : Accepted(p, c, r)
  BY DEF SendPost
<1>4. sends' \in Seq(Sends) /\ Len(sends') <= MaxHumans
  BY <1>2, <1>3, AcceptedType DEF IInv
<1>5. mishaps' \in 0..MaxMishaps
  BY BoundsAssumption DEF SendPost, Mishap, IInv, TypeOK
<1>6. pc' = "pend" /\ cur' = [NoWork EXCEPT !.post = p]
  BY DEF SendPost, Goto
<1>7. TypeOK'
  BY <1>1, <1>2, <1>4, <1>5, <1>6, MMQueueKept DEF SendPost, Sends, NoWork, Locals, IInv,
     TypeOK, dbVars, Steps
<1>8. WorkOK' /\ ThreadOK'
  BY <1>2, <1>6 DEF NoWork, WorkOK, ThreadOK, OnMessage, InThread
<1>9. RefsOK'
  BY <1>1, MMQueueKept DEF SendPost, IInv, RefsOK
<1> QED
  BY <1>7, <1>8, <1>9 DEF IInv

\* The report of a failed send is a post, a reaction, both or neither.
LEMMA ReportPosts ==
    ASSUME IInv, MMEvent, ReportSendFailure(Head(mmq))
    PROVE  /\ \/ NoPostAdded
              \/ \E q : /\ PostAdded(q) /\ q.author = "bridge" /\ q.kind = "notice"
                        /\ q.chan = posts[Head(mmq)].chan /\ q.root = ThreadRoot(Head(mmq))
                        /\ q.emoji = {}
           /\ mmq' = Tail(mmq)
           /\ mishaps' \in 0..MaxMishaps
<1> DEFINE p == Head(mmq)
           post == [posts[p] EXCEPT !.emoji =
                      IF settings.deliveryStatus THEN @ \cup {"warning"} ELSE @]
           warned == [posts EXCEPT ![p] = post]
           notice == BridgePost("notice", p, posts[p].chan, ThreadRoot(p))
<1>1. p \in 1..Len(posts) /\ posts[p] \in Posts /\ posts \in Seq(Posts)
  BY PostTaken DEF IInv, TypeOK
<1>2. /\ notice \in Posts /\ notice.author = "bridge" /\ notice.kind = "notice"
      /\ notice.chan = posts[p].chan /\ notice.root = ThreadRoot(p) /\ notice.emoji = {}
  BY <1>1 DEF BridgePost, ThreadRoot, Posts
<1>3. post \in Posts /\ post.author = posts[p].author /\ post.kind = posts[p].kind
      /\ post.about = posts[p].about /\ post.chan = posts[p].chan
      /\ post.root = posts[p].root
  BY <1>1 DEF Posts, Emojis
<1>4. Deliver(Tail(mmq), notice) = Tail(mmq)
  BY DEF Deliver, DecodePost, BridgePost
<1>5. mishaps' \in 0..MaxMishaps
  <2>1. \/ mishaps < MaxMishaps /\ mishaps' = mishaps + 1
        \/ mishaps + 2 <= MaxMishaps /\ mishaps' = mishaps + 2
    BY DEF ReportSendFailure, Mishap
  <2>2. mishaps \in 0..MaxMishaps
    BY DEF IInv, TypeOK
  <2> QED
    BY <2>1, <2>2, BoundsAssumption
<1>6. \/ posts' = Append(warned, notice) \/ posts' = warned
      \/ posts' = posts \/ posts' = Append(posts, notice)
  BY DEF ReportSendFailure
<1>7. mmq' = Tail(mmq)
  BY <1>4 DEF ReportSendFailure
<1> HIDE DEF notice, post
<1>8. warned \in Seq(Posts) /\ Len(warned) = Len(posts)
      /\ \A i \in 1..Len(posts) : warned[i] = IF i = p THEN post ELSE posts[i]
  BY <1>1, <1>3, ExceptSeq
<1> HIDE DEF warned
<1>9. CASE posts' = Append(warned, notice)
  <2>1. PostAdded(notice)
    BY <1>2, <1>3, <1>8, <1>9, AppendProperties DEF PostAdded, PostsKept
  <2> QED
    BY <1>2, <1>5, <1>7, <2>1
<1>10. CASE posts' = warned
  <2>1. NoPostAdded
    BY <1>3, <1>8, <1>10, LenProperties DEF NoPostAdded, PostsKept
  <2> QED
    BY <1>5, <1>7, <2>1
<1>11. CASE posts' = posts
  BY <1>5, <1>7, <1>11, UnchangedPosts DEF IInv
<1>12. CASE posts' = Append(posts, notice)
  BY <1>2, <1>5, <1>7, <1>12, AppendPost DEF IInv
<1> QED
  BY <1>6, <1>9, <1>10, <1>11, <1>12

LEMMA SendFailsInv == ASSUME IInv, SendFails PROVE IInv'
<1> DEFINE p == Head(mmq)
<1>1. MMEvent /\ pc = "idle" /\ p \in Nat \ {0}
  BY PostTaken DEF SendFails, MMEvent
<1>2. /\ \/ NoPostAdded
         \/ \E q : PostAdded(q) /\ q.kind = "notice"
      /\ mmq' = Tail(mmq)
      /\ mishaps' \in 0..MaxMishaps
  BY <1>1, ReportPosts DEF SendFails
<1>3. sends' \in Seq(Sends) /\ Len(sends') <= MaxHumans
  <2>1. sends \in Seq(Sends) /\ Len(sends) <= MaxHumans
    BY DEF IInv, TypeOK, Sends
  <2>2. UNCHANGED sends \/ \E c \in Convs, r \in Msgs \cup {0} : Accepted(p, c, r)
    BY DEF SendFails
  <2> QED
    BY <1>1, <2>1, <2>2, AcceptedType DEF IInv
<1>4. TakeMMEvent
  BY <1>1, <1>2 DEF TakeMMEvent
<1>5. mmq' \in Seq(Nat \ {0}) /\ \A i \in 1..Len(mmq') : mmq'[i] \in 1..Len(posts)
  BY <1>4, MMQueueKept
<1>6. TypeOK'
  BY <1>2, <1>3, <1>5 DEF SendFails, NoPostAdded, PostAdded, PostsKept, Sends, IInv, TypeOK,
     dbVars, workVars
<1>7. WorkOK' /\ ThreadOK'
  BY <1>1 DEF SendFails, IInv, WorkOK, ThreadOK, OnMessage, InThread, ConvOf, dbVars,
     workVars
<1>8. RefsOK'
  <2>1. PostsKept /\ Len(posts) <= Len(posts') /\ Len(posts) \in Nat /\ Len(posts') \in Nat
    BY <1>2, LenProperties DEF NoPostAdded, PostAdded, PostsKept, IInv, TypeOK
  <2>2. \A i \in 1..Len(mmq') : mmq'[i] \in 1..Len(posts')
    BY <1>5, <2>1
  <2>3. \A i \in 1..Len(gmq') : gmq'[i].msg \in 1..Len(phone)
    BY DEF SendFails, IInv, RefsOK
  <2>4. \/ NoPostAdded
        \/ \E q : PostAdded(q) /\ (q.kind = "msg" => q.about \in 1..Len(phone))
    BY <1>2
  <2> QED
    BY <2>1, <2>2, <2>3, <2>4, RefsKept DEF SendFails
<1> QED
  BY <1>6, <1>7, <1>8 DEF IInv

LEMMA RecordSendInv == ASSUME IInv, RecordSend PROVE IInv'
<1>1. cur.post \in Nat \ {0}
  BY DEF RecordSend, IInv, TypeOK, WorkOK, Locals
<1>2. pending' \in [Tmps -> PendingRows(Nat \ {0})]
  BY <1>1 DEF RecordSend, AddPendingOutbound, PendingRows, IInv, TypeOK
<1>3. TypeOK'
  BY <1>2 DEF RecordSend, Done, Goto, NoWork, Locals, IInv, TypeOK, phoneVars, Steps
<1>4. WorkOK' /\ ThreadOK'
  BY DEF RecordSend, Done, Goto, NoWork, WorkOK, ThreadOK, OnMessage, InThread
<1>5. RefsOK'
  BY DEF RecordSend, IInv, RefsOK, phoneVars
<1> QED
  BY <1>3, <1>4, <1>5 DEF IInv

LEMMA RecordSendFailsInv == ASSUME IInv, RecordSendFails PROVE IInv'
BY BoundsAssumption DEF RecordSendFails, Mishap, Done, Goto, NoWork, Locals, IInv, TypeOK,
   WorkOK, ThreadOK, RefsOK, OnMessage, InThread, phoneVars, dbVars, Steps

-----------------------------------------------------------------------------
(* ... the life of the process, the phone and the people.                   *)

LEMMA PrunePendingInv == ASSUME IInv, PrunePending PROVE IInv'
<1>1. pending' \in [Tmps -> PendingRows(Nat \ {0})]
  BY DEF PrunePending, PrunePendingOutbound, PendingRows, IInv, TypeOK
<1> QED
  BY <1>1 DEF PrunePending, IInv, TypeOK, WorkOK, ThreadOK, RefsOK, OnMessage, InThread,
     ConvOf, phoneVars, workVars

LEMMA CrashInv == ASSUME IInv, Crash PROVE IInv'
BY BoundsAssumption, EmptySeq DEF Crash, Goto, Mishap, NoWork, Locals, IInv, TypeOK, WorkOK,
   ThreadOK, RefsOK, OnMessage, InThread, phoneVars, dbVars, Steps

LEMMA RestartInv == ASSUME IInv, Restart PROVE IInv'
BY DEF Restart, Goto, NoWork, Locals, IInv, TypeOK, WorkOK, ThreadOK, RefsOK, OnMessage,
   InThread, phoneVars, dbVars, Steps

LEMMA HoldInv ==
    ASSUME IInv, NEW conv \in Convs, NEW tmp \in Tmps \cup {0}, NEW mine \in BOOLEAN,
           Hold(conv, tmp, mine)
    PROVE  IInv'
<1> DEFINE S == [conv : Convs, tmp : Tmps \cup {0}, mine : BOOLEAN]
           new == [conv |-> conv, tmp |-> tmp, mine |-> mine]
<1>1. phone \in Seq(S) /\ new \in S /\ phone' = Append(phone, new)
  BY DEF Hold, IInv, TypeOK
<1>2. /\ phone' \in Seq(S) /\ Len(phone) \in Nat /\ Len(phone') = Len(phone) + 1
      /\ \A m \in 1..Len(phone) : phone'[m] = phone[m]
  BY <1>1, AppendProperties, LenProperties
<1>3. Len(phone') <= MaxMsgs
  BY <1>2, BoundsAssumption DEF Hold
<1>4. 1..Len(phone) \subseteq 1..Len(phone')
  BY <1>2
<1>5. TypeOK'
  BY <1>2 DEF Hold, IInv, TypeOK, dbVars, workVars
<1>6. \A m \in 1..Len(phone) : ConvOf(m)' = ConvOf(m)
  BY <1>2 DEF ConvOf
<1>7. WorkOK'
  <2>1. ASSUME NEW m \in cur.todo PROVE m \in 1..Len(phone') /\ ConvOf(m)' = ConvOf(cur.msg)'
    <3>1. m \in 1..Len(phone) /\ ConvOf(m) = ConvOf(cur.msg)
      BY DEF IInv, WorkOK
    <3>2. cur.msg \in 1..Len(phone)
      BY DEF IInv, WorkOK, OnMessage
    <3> QED
      BY <1>4, <1>6, <3>1, <3>2 DEF Hold, workVars
  <2>2. /\ pc' \in OnMessage => cur'.msg \in 1..Len(phone') /\ cur'.status \in Statuses
        /\ pc' \in {"echo", "bfsave", "save", "pend"} => cur'.post # 0
        /\ cur'.todo # {} => pc' \in {"backfill", "bfsave"}
    BY <1>4 DEF Hold, IInv, WorkOK, workVars
  <2> QED
    BY <2>1, <2>2 DEF Hold, WorkOK, workVars
<1>9. ThreadOK'
  <2>1. pc \in OnMessage => ConvOf(cur.msg)' = ConvOf(cur.msg)
    BY <1>6 DEF Hold, IInv, WorkOK, workVars
  <2> QED
    BY <2>1 DEF Hold, IInv, ThreadOK, OnMessage, InThread, dbVars, workVars
<1>8. RefsOK'
  BY <1>3, <1>4 DEF Hold, IInv, RefsOK
<1> QED
  BY <1>5, <1>7, <1>8, <1>9 DEF IInv

LEMMA PhoneSendsInv ==
    ASSUME IInv, NEW t \in 1..Len(sends), PhoneSends(t) PROVE IInv'
<1>1. sends[t].conv \in Convs
  <2>1. sends[t] \in [post : Nat \ {0}, conv : Convs, reply : Msgs \cup {0}]
    BY ElementOfSeq DEF IInv, TypeOK
  <2> QED
    BY <2>1
<1>2. t \in Tmps
  <2>1. Len(sends) \in Nat /\ Len(sends) <= MaxHumans
    BY LenProperties DEF IInv, TypeOK
  <2> QED
    BY <2>1, BoundsAssumption DEF Tmps
<1>3. Hold(sends[t].conv, t, TRUE)
  BY DEF PhoneSends
<1> QED
  BY <1>1, <1>2, <1>3, HoldInv

LEMMA PhonePushesInv ==
    ASSUME IInv, NEW m \in 1..Len(phone), NEW status \in StatusesOf(m), NEW kind \in Kinds,
           PhonePushes(m, status, kind)
    PROVE  IInv'
<1> DEFINE e == [msg |-> m, status |-> status, kind |-> kind]
<1>1. m \in Msgs
  BY LenProperties, BoundsAssumption DEF IInv, TypeOK, RefsOK, Msgs
<1>2. status \in Statuses
  BY InputsAssumption DEF StatusesOf, Statuses
<1>3. gmq \in Seq(Events) /\ e \in Events /\ gmq' = Append(gmq, e)
  BY <1>1, <1>2 DEF PhonePushes, IInv, TypeOK, Events
<1>4. /\ gmq' \in Seq(Events) /\ Len(gmq) \in Nat /\ Len(gmq') = Len(gmq) + 1
      /\ gmq'[Len(gmq) + 1] = e
      /\ \A i \in 1..Len(gmq) : gmq'[i] = gmq[i]
  BY <1>3, AppendProperties, LenProperties
<1>5. \A i \in 1..Len(gmq') : gmq'[i].msg \in 1..Len(phone)
  BY <1>4 DEF IInv, RefsOK
<1>6. TypeOK'
  BY <1>1, <1>4, BoundsAssumption DEF PhonePushes, IInv, TypeOK, dbVars, workVars
<1>7. WorkOK' /\ ThreadOK'
  BY DEF PhonePushes, IInv, WorkOK, ThreadOK, OnMessage, InThread, ConvOf, dbVars, workVars
<1>8. RefsOK'
  BY <1>5 DEF PhonePushes, IInv, RefsOK
<1> QED
  BY <1>6, <1>7, <1>8 DEF IInv

\* A typed post is added, and the stream gains it or, in a process that is
\* down, nothing.
LEMMA TypedPost ==
    ASSUME IInv, NEW chan \in Channels, NEW root \in 0..Len(posts), NEW body \in Bodies,
           HumanPosts(chan, root, body)
    PROVE  /\ \E q : /\ PostAdded(q) /\ q.author = "human" /\ q.kind = "typed"
                     /\ q.chan = chan /\ q.root = root /\ q.emoji = {}
           /\ root # 0 => posts[root].chan = chan
           /\ mmq' = mmq \/ mmq' = Append(mmq, Len(posts) + 1)
<1> DEFINE q == [author |-> "human", kind |-> "typed", about |-> None,
                 chan |-> chan, root |-> root, body |-> body, emoji |-> {}]
<1>1. q \in Posts
  BY InputsAssumption DEF Posts
<1>2. posts' = Append(posts, q)
  BY DEF HumanPosts
<1>3. /\ mmq' = mmq \/ mmq' = Append(mmq, Len(posts) + 1)
      /\ root # 0 => posts[root].chan = chan
  BY DEF HumanPosts, Deliver
<1> QED
  BY <1>1, <1>2, <1>3, AppendPost DEF IInv

LEMMA HumanPostsInv ==
    ASSUME IInv, NEW chan \in Channels, NEW root \in 0..Len(posts), NEW body \in Bodies,
           HumanPosts(chan, root, body)
    PROVE  IInv'
<1>1. /\ \E q : PostAdded(q) /\ q.kind = "typed"
      /\ mmq' = mmq \/ mmq' = Append(mmq, Len(posts) + 1)
  BY TypedPost
<1>2. /\ Len(posts) \in Nat /\ Len(posts') = Len(posts) + 1 /\ PostsKept
      /\ mmq \in Seq(Nat \ {0}) /\ Len(posts) + 1 \in Nat \ {0}
  BY <1>1, LenProperties DEF PostAdded, IInv, TypeOK
<1>3. mmq' \in Seq(Nat \ {0}) /\ \A i \in 1..Len(mmq') : mmq'[i] \in 1..Len(posts')
  <2>1. \A i \in 1..Len(mmq) : mmq[i] \in 1..Len(posts')
    BY <1>2 DEF IInv, RefsOK
  <2>2. CASE mmq' = mmq
    BY <1>2, <2>1, <2>2
  <2>3. CASE mmq' = Append(mmq, Len(posts) + 1)
    BY <1>2, <2>1, <2>3, AppendProperties, LenProperties
  <2> QED
    BY <1>1, <2>2, <2>3
<1>4. TypeOK'
  BY <1>2, <1>3 DEF HumanPosts, PostsKept, IInv, TypeOK, phoneVars, dbVars, workVars
<1>5. WorkOK' /\ ThreadOK'
  BY DEF HumanPosts, IInv, WorkOK, ThreadOK, OnMessage, InThread, ConvOf, phoneVars, dbVars,
     workVars
<1>6. RefsOK'
  BY <1>1, <1>2, <1>3, RefsKept DEF HumanPosts, IInv, RefsOK, phoneVars
<1> QED
  BY <1>4, <1>5, <1>6 DEF IInv

LEMMA EchoIsLateInv == ASSUME IInv, NEW t \in Tmps, EchoIsLate(t) PROVE IInv'
<1>1. pending' \in [Tmps -> PendingRows(Nat \ {0})]
  BY DEF EchoIsLate, Issued, PendingRows, NoPending, IInv, TypeOK
<1> QED
  BY <1>1, BoundsAssumption DEF EchoIsLate, Mishap, IInv, TypeOK, WorkOK, ThreadOK, RefsOK,
     OnMessage, InThread, ConvOf, phoneVars, workVars

LEMMA StutterInv == ASSUME IInv, UNCHANGED vars PROVE IInv'
BY DEF vars, IInv, TypeOK, WorkOK, ThreadOK, RefsOK, OnMessage, InThread, ConvOf

-----------------------------------------------------------------------------
(* The invariant of every behaviour.                                        *)

LEMMA InitInv == ASSUME Init PROVE IInv
<1>1. /\ phone = <<>> /\ sends = <<>> /\ gmq = <<>> /\ mmq = <<>> /\ posts = <<>>
      /\ acked = {} /\ markedRead = {} /\ pc = "idle" /\ cur = NoWork
      /\ pushes = 0 /\ mishaps = 0 /\ settings \in Settings
      /\ conversations = [c \in Convs |-> NoConversation]
      /\ messages = [m \in Msgs |-> NoRow]
      /\ pending = [t \in Tmps |-> NoPending]
  BY DEF Init
<1>2. Len(<<>>) = 0 /\ \A S : <<>> \in Seq(S)
  BY EmptySeq
<1>3. cur \in Locals /\ pc \in Steps
  BY <1>1 DEF NoWork, Locals, Steps
<1>4. /\ conversations \in [Convs -> ConversationRows(Nat)]
      /\ messages \in [Msgs -> MessageRows(Nat \ {0}, Statuses)]
      /\ pending \in [Tmps -> PendingRows(Nat \ {0})]
  BY <1>1 DEF ConversationRows, MessageRows, PendingRows
<1>5. TypeOK
  BY <1>1, <1>2, <1>3, <1>4, BoundsAssumption DEF TypeOK
<1>6. WorkOK /\ ThreadOK
  BY <1>1 DEF WorkOK, ThreadOK, OnMessage, InThread, NoWork
<1>7. RefsOK
  BY <1>1, <1>2, BoundsAssumption DEF RefsOK
<1> QED
  BY <1>5, <1>6, <1>7 DEF IInv

LEMMA TakeGMInv == ASSUME IInv, TakeGM PROVE IInv'
BY IncomingEchoInv, IncomingKnownInv, IncomingNewInv, IncomingIgnoredInv,
   IncomingFailsInv DEF TakeGM

LEMMA TakeMMInv == ASSUME IInv, TakeMM PROVE IInv'
BY OutgoingIgnoredInv, LookupFailsInv, AttachmentsFailInv, SendPostInv, SendFailsInv
   DEF TakeMM

LEMMA HandlerStepInv == ASSUME IInv, HandlerStep PROVE IInv'
BY RecordEchoInv, SaveFailsInv, EnsureKnownInv, OpenConversationInv, OpenFailsInv,
   StoreConversationInv, FetchHistoryInv, BackfillPostInv, BackfillSaveInv,
   BackfillEndsInv, PostMessageInv, PostMessageFailsInv, RecordMessageInv,
   RecordSendInv, RecordSendFailsInv DEF HandlerStep

LEMMA EnvironmentInv == ASSUME IInv, Environment PROVE IInv'
<1>1. ASSUME NEW c \in Convs, PhoneReceives(c) \/ PhoneComposes(c) PROVE IInv'
  <2>1. \E mine \in BOOLEAN : Hold(c, 0, mine)
    BY <1>1 DEF PhoneReceives, PhoneComposes
  <2> QED
    BY <2>1, HoldInv
<1> QED
  BY <1>1, PhoneSendsInv, PhonePushesInv, HumanPostsInv, EchoIsLateInv DEF Environment

LEMMA NextInv == ASSUME IInv, [Next]_vars PROVE IInv'
BY TakeGMInv, TakeMMInv, HandlerStepInv, PrunePendingInv, CrashInv, RestartInv,
   EnvironmentInv, StutterInv DEF Next, Process, Waiting

\* What the goroutine, the queues and the posts refer to exists, whatever fails.
THEOREM Invariance == Spec => []IInv
BY InitInv, NextInv, PTL DEF Spec

\* No variable ever leaves its type: for any conversations, channels, settings
\* and bounds, every handler finds and leaves well-formed rows, posts and events.
THEOREM TypeCorrect == Spec => []TypeOK
<1>1. IInv => TypeOK
  BY DEF IInv
<1> QED
  BY <1>1, Invariance, PTL

=============================================================================
