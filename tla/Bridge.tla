------------------------------- MODULE Bridge --------------------------------
(***************************************************************************)
(* The bridge of one tenant between Google Messages and Mattermost          *)
(* (internal/bridge), with the database it keeps, the phone on one side and *)
(* the Mattermost server on the other.                                      *)
(*                                                                         *)
(* Run is a single goroutine: it takes one event from either stream and     *)
(* finishes its handler before it takes the next.  A handler is cut here    *)
(* where a crash or a failing call leaves something behind: between two     *)
(* calls that change the database, Mattermost or the phone.  pc names the   *)
(* call the goroutine makes next.  Meanwhile the phone and the people in    *)
(* Mattermost go on: they fill the two event streams at any moment.         *)
(*                                                                         *)
(* `mishaps' counts everything that goes wrong in a behaviour: a call that  *)
(* fails, a process that dies, an echo that takes longer than an hour.      *)
(***************************************************************************)
EXTENDS Storage, Delivery, Sequences, FiniteSets

CONSTANTS Settings,     \* the configurations the operator may run with
          Bodies,       \* what people may post: "blank", "text", "files"
          Reported,     \* delivery states the phone reports for messages sent
          MaxMsgs,      \* bound: messages the phone ever holds
          MaxHumans,    \* bound: posts people type in Mattermost
          MaxPushes,    \* bound: message events the phone pushes
          MaxMishaps    \* bound: failed calls, crashes and late echoes

Msgs  == 1..MaxMsgs     \* message IDs, in the order the phone got them
Kinds == {"message", "status", "replay"}
Tmps  == 1..MaxHumans   \* temporary IDs, one per message sent

SettingsType ==
    [threads : BOOLEAN, deliveryStatus : BOOLEAN, markRead : BOOLEAN,
     backfill : Nat, route : [Convs -> Channels]]

ASSUME SettingsAssumption == Settings \subseteq SettingsType
ASSUME InputsAssumption == /\ Bodies \subseteq {"blank", "text", "files"}
                           /\ Reported \subseteq {s \in Statuses : Outgoing(s)}
ASSUME BoundsAssumption ==
    /\ MaxMsgs \in Nat /\ MaxHumans \in Nat
    /\ MaxPushes \in Nat /\ MaxMishaps \in Nat

VARIABLES
    settings,       \* the configuration this process runs with
    phone,          \* messages the phone holds; a message's ID is its index
    acked,          \* messages of which some event reached a session
    sends,          \* messages the phone accepted from the bridge; the
                    \*   temporary ID of one is its index
    gmq,            \* events.go queue and channel: message events, oldest first
    mmq,            \* Mattermost event channel: IDs of posts, oldest first
    posts,          \* posts in Mattermost; a post's ID is its index
    markedRead,     \* messages the bridge marked read on the phone
    conversations, messages, pending,   \* the database
    pc,             \* the call the bridge goroutine is about to make
    cur,            \* the local variables of the handler it is in
    pushes, mishaps

phoneVars  == <<phone, acked, sends>>
dbVars     == <<conversations, messages, pending>>
workVars   == <<pc, cur>>
vars == <<settings, phone, acked, sends, gmq, mmq, posts, markedRead,
          conversations, messages, pending, pc, cur, pushes, mishaps>>

NoWork == [msg |-> 0, status |-> "none", post |-> 0, chan |-> None, todo |-> {}]

\* The conversation, temporary ID and sender the phone reports with a message.
ConvOf(m) == phone[m].conv
TmpOf(m)  == phone[m].tmp
IsFromMe(m) == phone[m].mine

\* What the phone may say of the state of a message.
StatusesOf(m) == IF IsFromMe(m) THEN Reported ELSE {"incoming"}

ThreadRoot(p) == IF posts[p].root = 0 THEN p ELSE posts[p].root

-----------------------------------------------------------------------------
(* Calls to the outside.                                                    *)

\* One more thing goes wrong.
Mishap == mishaps < MaxMishaps /\ mishaps' = mishaps + 1

\* Mutant: the loop guard is missing.
DecodeAnyPost(post) == TRUE

\* decodePost: the posts that reach the bridge are those people write.
DecodePost(post) == post.author = "human"

\* The event stream once the server has told its clients of a new post.
Deliver(events, post) ==
    IF DecodePost(post) /\ pc # "down"
    THEN Append(events, Len(posts) + 1) ELSE events

BridgePost(kind, about, chan, root) ==
    [author |-> "bridge", kind |-> kind, about |-> about, chan |-> chan,
     root |-> root, body |-> "text", emoji |-> {}]

\* CreatePost by the bridge account, and the WebSocket event it causes.
Publish(kind, about, chan, root) ==
    LET post == BridgePost(kind, about, chan, root)
    IN  /\ posts' = Append(posts, post)
        /\ mmq' = Deliver(mmq, post)

\* CreatePost returns an error: the post was refused, or its answer was lost.
PublishFails(kind, about, chan, root) ==
    /\ Mishap
    /\ \/ UNCHANGED <<posts, mmq>>
       \/ Publish(kind, about, chan, root)

\* Mutant: the reaction of the state before is left on the post.
ReactOnTop(p, gone, new) == posts' = [posts EXCEPT ![p].emoji = @ \cup new]

React(p, gone, new) ==
    posts' = [posts EXCEPT ![p].emoji = (@ \ gone) \cup new]

\* applyDeliveryStatus: the old reaction is removed at best effort, then the
\* new one is added; either call may fail, and nothing is retried.
ApplyDeliveryStatus(p, new, old) ==
    LET drop == StatusEmoji(old)
        add  == StatusEmoji(new)
    IN  \/ /\ ~settings.deliveryStatus \/ drop = add
           /\ UNCHANGED <<posts, mishaps>>
        \/ /\ settings.deliveryStatus /\ drop # add
           /\ React(p, drop, add)
           /\ UNCHANGED mishaps
        \/ /\ settings.deliveryStatus /\ drop # add
           /\ Mishap
           /\ \/ React(p, drop, {})
              \/ React(p, {}, add)
              \/ UNCHANGED posts

Goto(step, locals) == pc' = step /\ cur' = locals
Done == Goto("idle", NoWork)

-----------------------------------------------------------------------------
(* The start of a message event: handleIncomingMessage decides what it is.  *)

TakeGMEvent == pc = "idle" /\ gmq # <<>> /\ gmq' = Tail(gmq)

\* The echo of one of the bridge's own sends, known by its temporary ID.
IncomingEcho ==
    LET e == Head(gmq) IN
    /\ TakeGMEvent
    /\ Issued(pending, TmpOf(e.msg))
    /\ pending' = TakePendingOutbound(pending, TmpOf(e.msg))
    /\ Goto("echo", [NoWork EXCEPT !.msg = e.msg, !.status = e.status,
                                   !.post = pending[TmpOf(e.msg)].post])
    /\ UNCHANGED <<settings, phoneVars, mmq, posts, markedRead,
                   conversations, messages, pushes, mishaps>>

\* A message already bridged: handleStatusUpdate.
IncomingKnown ==
    LET e == Head(gmq) IN
    /\ TakeGMEvent
    /\ ~Issued(pending, TmpOf(e.msg))
    /\ Mapped(messages, e.msg)
    /\ messages' = UpdateMessageStatus(messages, e.msg, e.status)
    /\ IF StatusChanges(messages, e.msg, e.status)
       THEN ApplyDeliveryStatus(messages[e.msg].post, e.status,
                                messages[e.msg].status)
       ELSE UNCHANGED <<posts, mishaps>>
    /\ UNCHANGED <<settings, phoneVars, mmq, markedRead, conversations,
                   pending, workVars, pushes>>

\* Mutants: the deduplication is missing; what the user sends is not bridged.
IsNewOrKnown(e) == ~Issued(pending, TmpOf(e.msg)) /\ e.kind = "message"
IsNewFromOthers(e) == /\ ~Issued(pending, TmpOf(e.msg)) /\ ~Mapped(messages, e.msg)
                      /\ e.kind = "message" /\ ~IsFromMe(e.msg)

\* A message the bridge has no record of, and which is worth posting.
IsNew(e) ==
    /\ ~Issued(pending, TmpOf(e.msg))
    /\ ~Mapped(messages, e.msg)
    /\ e.kind = "message"

IncomingNew ==
    LET e == Head(gmq) IN
    /\ TakeGMEvent
    /\ IsNew(e)
    /\ Goto("conv", [NoWork EXCEPT !.msg = e.msg, !.status = e.status])
    /\ UNCHANGED <<settings, phoneVars, mmq, posts, markedRead, dbVars,
                   pushes, mishaps>>

\* A replay of something never bridged, or a status without a message.
IncomingIgnored ==
    LET e == Head(gmq) IN
    /\ TakeGMEvent
    /\ ~Issued(pending, TmpOf(e.msg)) /\ ~Mapped(messages, e.msg)
    /\ ~IsNew(e)
    /\ UNCHANGED <<settings, phoneVars, mmq, posts, markedRead, dbVars,
                   workVars, pushes, mishaps>>

\* A lookup or the status update fails: the event is logged and gone.
IncomingFails ==
    /\ TakeGMEvent
    /\ Mishap
    /\ UNCHANGED <<settings, phoneVars, mmq, posts, markedRead, dbVars,
                   workVars, pushes>>

\* The pending row is gone already when the mapping is written.
RecordEcho ==
    /\ pc = "echo"
    /\ messages' = SaveMessage(messages, cur.msg, cur.post, cur.status)
    /\ ApplyDeliveryStatus(cur.post, cur.status, "none")
    /\ Done
    /\ UNCHANGED <<settings, phoneVars, gmq, mmq, markedRead, conversations,
                   pending, pushes>>

\* SaveMessage or SaveConversation fails: the handler returns the error.
SaveFails ==
    /\ pc \in {"echo", "thread", "save"}
    /\ Mishap
    /\ Done
    /\ UNCHANGED <<settings, phoneVars, gmq, mmq, posts, markedRead, dbVars,
                   pushes>>

-----------------------------------------------------------------------------
(* ensureConversation.                                                      *)

\* Mutant: a changed routing rule opens a new thread.
NeedsRouting(conv) == \/ ~Stored(conversations, conv)
                      \/ conversations[conv].chan # settings.route[conv]

\* Only a conversation that is not stored yet is given a channel and a thread.
NeedsThread(conv) == ~Stored(conversations, conv)

EnsureKnown ==
    /\ pc = "conv"
    /\ ~NeedsThread(ConvOf(cur.msg))
    /\ pc' = "post"
    /\ UNCHANGED <<settings, phoneVars, gmq, mmq, posts, markedRead, dbVars,
                   cur, pushes, mishaps>>

\* The conversation is routed and, in thread mode, its root post is made.
OpenConversation ==
    LET conv == ConvOf(cur.msg)
        chan == settings.route[conv]
    IN  /\ pc = "conv"
        /\ NeedsThread(conv)
        /\ IF settings.threads
           THEN /\ Publish("root", conv, chan, 0)
                /\ Goto("thread", [cur EXCEPT !.chan = chan,
                                              !.post = Len(posts) + 1])
           ELSE /\ Goto("thread", [cur EXCEPT !.chan = chan])
                /\ UNCHANGED <<posts, mmq>>
        /\ UNCHANGED <<settings, phoneVars, gmq, markedRead, dbVars, pushes,
                       mishaps>>

\* A lookup, the routing or the root post fails.
OpenFails ==
    /\ pc = "conv"
    /\ \/ Mishap /\ UNCHANGED <<posts, mmq>>
       \/ /\ settings.threads /\ NeedsThread(ConvOf(cur.msg))
          /\ PublishFails("root", ConvOf(cur.msg),
                          settings.route[ConvOf(cur.msg)], 0)
    /\ Done
    /\ UNCHANGED <<settings, phoneVars, gmq, markedRead, dbVars, pushes>>

StoreConversation ==
    /\ pc = "thread"
    /\ conversations' =
         SaveConversation(conversations, ConvOf(cur.msg), cur.chan, cur.post)
    /\ Goto(IF settings.backfill > 0 THEN "fetch" ELSE "post",
            [cur EXCEPT !.chan = None, !.post = 0])
    /\ UNCHANGED <<settings, phoneVars, gmq, mmq, posts, markedRead, messages,
                   pending, pushes, mishaps>>

\* Mutant: the channel is the one the routing rules name today.
RoutedDestination(m) == [chan |-> settings.route[ConvOf(m)],
                         root |-> conversations[ConvOf(m)].root]

\* Where postMessage puts a message: the stored channel and thread.
Destination(m) == conversations[ConvOf(m)]

\* backfill asks the phone for the newest messages of the conversation; what
\* the phone answers includes the message that opened it.
Newest(conv, n) ==
    LET held == {m \in 1..Len(phone) : ConvOf(m) = conv}
    IN  {m \in held : Cardinality({k \in held : k > m}) < n}

FetchHistory ==
    /\ pc = "fetch"
    /\ Goto("backfill",
            [cur EXCEPT !.todo = Newest(ConvOf(cur.msg), settings.backfill)])
    /\ UNCHANGED <<settings, phoneVars, gmq, mmq, posts, markedRead, dbVars,
                   pushes, mishaps>>

\* Oldest first, with no look at what is mapped already.
BackfillPost ==
    /\ pc = "backfill"
    /\ \E m \in cur.todo :
          /\ \A n \in cur.todo : m <= n
          /\ Publish("msg", m, Destination(cur.msg).chan, Destination(cur.msg).root)
          /\ Goto("bfsave", [cur EXCEPT !.post = Len(posts) + 1])
    /\ UNCHANGED <<settings, phoneVars, gmq, markedRead, dbVars, pushes,
                   mishaps>>

BackfillSave ==
    /\ pc = "bfsave"
    /\ \E m \in cur.todo : \E status \in StatusesOf(m) :
          /\ \A n \in cur.todo : m <= n
          /\ messages' = SaveMessage(messages, m, cur.post, status)
          /\ Goto("backfill", [cur EXCEPT !.post = 0, !.todo = @ \ {m}])
    /\ UNCHANGED <<settings, phoneVars, gmq, mmq, posts, markedRead,
                   conversations, pending, pushes, mishaps>>

\* All posted, or the first error, which only ends the backfill.
BackfillEnds ==
    /\ \/ pc = "backfill" /\ cur.todo = {} /\ UNCHANGED <<posts, mmq, mishaps>>
       \/ /\ pc = "backfill"
          /\ \E m \in cur.todo :
                /\ \A n \in cur.todo : m <= n
                /\ PublishFails("msg", m, Destination(cur.msg).chan,
                                Destination(cur.msg).root)
       \/ pc \in {"fetch", "bfsave"} /\ Mishap /\ UNCHANGED <<posts, mmq>>
    /\ Goto("post", [cur EXCEPT !.post = 0, !.todo = {}])
    /\ UNCHANGED <<settings, phoneVars, gmq, markedRead, dbVars, pushes>>

-----------------------------------------------------------------------------
(* postMessage, then the end of handleIncomingMessage.                      *)

PostMessage ==
    /\ pc = "post"
    /\ Publish("msg", cur.msg, Destination(cur.msg).chan, Destination(cur.msg).root)
    /\ Goto("save", [cur EXCEPT !.post = Len(posts) + 1])
    /\ UNCHANGED <<settings, phoneVars, gmq, markedRead, dbVars, pushes,
                   mishaps>>

PostMessageFails ==
    /\ pc = "post"
    /\ PublishFails("msg", cur.msg, Destination(cur.msg).chan,
                    Destination(cur.msg).root)
    /\ Done
    /\ UNCHANGED <<settings, phoneVars, gmq, markedRead, dbVars, pushes>>

\* Mutant: the user's own messages count as read by the user.
MarksAnyRead(m) == settings.markRead

MarksRead(m) == settings.markRead /\ ~IsFromMe(m)

\* The mapping is written, and then the phone is told at best effort that the
\* conversation was read.
RecordMessage ==
    /\ pc = "save"
    /\ messages' = SaveMessage(messages, cur.msg, cur.post, cur.status)
    /\ \/ /\ MarksRead(cur.msg)
          /\ \/ markedRead' = markedRead \cup {cur.msg} /\ UNCHANGED mishaps
             \/ Mishap /\ UNCHANGED markedRead
       \/ ~MarksRead(cur.msg) /\ UNCHANGED <<markedRead, mishaps>>
    /\ Done
    /\ UNCHANGED <<settings, phoneVars, gmq, mmq, posts, conversations,
                   pending, pushes>>

-----------------------------------------------------------------------------
(* handleOutgoingPost.                                                      *)

MMEvent == pc = "idle" /\ mmq # <<>>
TakeMMEvent == MMEvent /\ mmq' = Tail(mmq)

\* conversationForPost: at most one conversation, and none when in doubt.
ConversationForPost(p) ==
    IF settings.threads THEN ByRootPost(conversations, ThreadRoot(p))
    ELSE SoleInChannel(conversations, posts[p].chan)

\* replyTarget: the messages p may be answering; none for a post that only
\* continues its thread.
ReplyTargets(p, c) ==
    IF posts[p].root = 0 \/ posts[p].root = conversations[c].root THEN {}
    ELSE MessagesByPost(messages, posts[p].root)

OutgoingIgnored ==
    /\ TakeMMEvent
    /\ \/ ConversationForPost(Head(mmq)) = {}
       \/ posts[Head(mmq)].body = "blank"
    /\ UNCHANGED <<settings, phoneVars, gmq, posts, markedRead, dbVars,
                   workVars, pushes, mishaps>>

\* A post that is to be sent to conversation c as an answer to r (0: to none).
ToSend(p, c, r) ==
    /\ posts[p].body # "blank"
    /\ c \in ConversationForPost(p)
    /\ \/ r \in ReplyTargets(p, c)
       \/ r = 0 /\ ReplyTargets(p, c) = {}

\* conversationForPost fails: the error goes to the log, the post nowhere.
LookupFails ==
    /\ TakeMMEvent
    /\ Mishap
    /\ UNCHANGED <<settings, phoneVars, gmq, posts, markedRead, dbVars,
                   workVars, pushes>>

\* fetchAttachments fails: again the error is returned, not reported.
AttachmentsFail ==
    /\ TakeMMEvent
    /\ posts[Head(mmq)].body = "files"
    /\ ConversationForPost(Head(mmq)) # {}
    /\ Mishap
    /\ UNCHANGED <<settings, phoneVars, gmq, posts, markedRead, dbVars,
                   workVars, pushes>>

\* The phone takes the message under a fresh temporary ID.  A reply target that
\* could not be looked up (a mishap) does not stop the message.
Accepted(p, c, r) ==
    /\ Len(sends) < MaxHumans
    /\ sends' = Append(sends, [post |-> p, conv |-> c, reply |-> r])

SendPost ==
    LET p == Head(mmq) IN
    /\ TakeMMEvent
    /\ \E c \in Convs, r \in Msgs \cup {0} :
          /\ ToSend(p, c, r)
          /\ \/ Accepted(p, c, r) /\ UNCHANGED mishaps
             \/ r # 0 /\ Accepted(p, c, 0) /\ Mishap
    /\ Goto("pend", [NoWork EXCEPT !.post = p])
    /\ UNCHANGED <<settings, phone, acked, gmq, posts, markedRead, dbVars,
                   pushes>>

\* reportSendFailure: a warning reaction and a notice in the thread.  Both are
\* best effort: one of them, or both, may fail in turn.
ReportSendFailure(p) ==
    LET warned == [posts EXCEPT ![p].emoji =
                     IF settings.deliveryStatus THEN @ \cup {"warning"} ELSE @]
        notice == BridgePost("notice", p, posts[p].chan, ThreadRoot(p))
    IN  \/ /\ Mishap
           /\ posts' = Append(warned, notice)
           /\ mmq' = Deliver(Tail(mmq), notice)
        \/ /\ mishaps + 2 <= MaxMishaps /\ mishaps' = mishaps + 2
           /\ \/ posts' = warned /\ mmq' = Tail(mmq)
              \/ posts' = posts /\ mmq' = Tail(mmq)
              \/ posts' = Append(posts, notice) /\ mmq' = Deliver(Tail(mmq), notice)

\* SendMessage returns an error.  Either the phone refused the message, or it
\* took it and the answer was lost.
SendFails ==
    /\ MMEvent
    /\ \E c \in Convs, r \in Msgs \cup {0} :
          /\ ToSend(Head(mmq), c, r)
          /\ Accepted(Head(mmq), c, r) \/ UNCHANGED sends
    /\ ReportSendFailure(Head(mmq))
    /\ UNCHANGED <<settings, phone, acked, gmq, markedRead, dbVars, workVars,
                   pushes>>

\* AddPendingOutbound: from here on the echo will be recognised.
RecordSend ==
    /\ pc = "pend"
    /\ pending' = AddPendingOutbound(pending, Len(sends), cur.post)
    /\ Done
    /\ UNCHANGED <<settings, phoneVars, gmq, mmq, posts, markedRead,
                   conversations, messages, pushes, mishaps>>

RecordSendFails ==
    /\ pc = "pend"
    /\ Mishap
    /\ Done
    /\ UNCHANGED <<settings, phoneVars, gmq, mmq, posts, markedRead, dbVars,
                   pushes>>

-----------------------------------------------------------------------------
(* The rest of Run, and the life of the process.                            *)

PrunePending ==
    /\ pc = "idle"
    /\ \E t \in Tmps : pending[t].aged
    /\ pending' = PrunePendingOutbound(pending)
    /\ UNCHANGED <<settings, phoneVars, gmq, mmq, posts, markedRead,
                   conversations, messages, workVars, pushes, mishaps>>

\* The process dies, or is stopped or reloaded with its context cancelled in
\* the middle of a handler.  Both event streams live in memory.
Crash ==
    /\ pc # "down"
    /\ Mishap
    /\ Goto("down", NoWork)
    /\ gmq' = <<>> /\ mmq' = <<>>
    /\ UNCHANGED <<settings, phoneVars, posts, markedRead, dbVars, pushes>>

\* A process starts on the same database, perhaps with an edited configuration.
Restart ==
    /\ pc = "down"
    /\ settings' \in Settings
    /\ Goto("idle", NoWork)
    /\ UNCHANGED <<phoneVars, gmq, mmq, posts, markedRead, dbVars, pushes,
                   mishaps>>
-----------------------------------------------------------------------------
(* The phone (libgm and the Google Messages network) and the people.        *)

\* The phone comes to hold one more message.
Hold(conv, tmp, mine) ==
    /\ Len(phone) < MaxMsgs
    /\ phone' = Append(phone, [conv |-> conv, tmp |-> tmp, mine |-> mine])
    /\ UNCHANGED <<settings, acked, sends, gmq, mmq, posts, markedRead, dbVars,
                   workVars, pushes, mishaps>>

\* Somebody writes to the user, or the user writes on the phone itself.
PhoneReceives(conv) == Hold(conv, 0, FALSE)
PhoneComposes(conv) == Hold(conv, 0, TRUE)

\* The phone gives a message the bridge sent its real ID.
PhoneSends(t) ==
    /\ \A m \in 1..Len(phone) : TmpOf(m) # t
    /\ Hold(sends[t].conv, t, TRUE)

\* The phone reports a message, for the first time or again at any later moment
\* and in any state: with what it says, as a bare status, or in the replay
\* (IsOld) that follows a reconnect.
PhonePushes(m, status, kind) ==
    /\ pc # "down"
    /\ pushes < MaxPushes /\ pushes' = pushes + 1
    /\ kind = "replay" => m \in acked
    /\ gmq' = Append(gmq, [msg |-> m, status |-> status, kind |-> kind])
    /\ acked' = acked \cup {m}
    /\ UNCHANGED <<settings, phone, sends, mmq, posts, markedRead, dbVars,
                   workVars, mishaps>>

Humans == {p \in 1..Len(posts) : posts[p].author = "human"}

\* A person posts in a channel, on its own or under a top-level post (root).
HumanPosts(chan, root, body) ==
    LET post == [author |-> "human", kind |-> "typed", about |-> None,
                 chan |-> chan, root |-> root, body |-> body, emoji |-> {}]
    IN  /\ Cardinality(Humans) < MaxHumans
        /\ root # 0 => posts[root].root = 0 /\ posts[root].chan = chan
        /\ posts' = Append(posts, post)
        /\ mmq' = Deliver(mmq, post)
        /\ UNCHANGED <<settings, phoneVars, gmq, markedRead, dbVars, workVars,
                       pushes, mishaps>>

\* An hour passes without the echo of t.
EchoIsLate(t) ==
    /\ Issued(pending, t) /\ ~pending[t].aged
    /\ Mishap
    /\ pending' = [pending EXCEPT ![t].aged = TRUE]
    /\ UNCHANGED <<settings, phoneVars, gmq, mmq, posts, markedRead,
                   conversations, messages, workVars, pushes>>

-----------------------------------------------------------------------------
Init ==
    /\ settings \in Settings
    /\ phone = <<>> /\ acked = {} /\ sends = <<>>
    /\ gmq = <<>> /\ mmq = <<>>
    /\ posts = <<>> /\ markedRead = {}
    /\ conversations = [c \in Convs |-> NoConversation]
    /\ messages = [m \in Msgs |-> NoRow]
    /\ pending = [t \in Tmps |-> NoPending]
    /\ pc = "idle" /\ cur = NoWork
    /\ pushes = 0 /\ mishaps = 0

\* The arms of Run's select ...
TakeGM == IncomingEcho \/ IncomingKnown \/ IncomingNew \/ IncomingIgnored
          \/ IncomingFails
TakeMM == OutgoingIgnored \/ LookupFails \/ AttachmentsFail \/ SendPost \/ SendFails

\* ... and the rest of the handlers they start.
HandlerStep ==
    \/ RecordEcho \/ SaveFails
    \/ EnsureKnown \/ OpenConversation \/ OpenFails \/ StoreConversation
    \/ FetchHistory \/ BackfillPost \/ BackfillSave \/ BackfillEnds
    \/ PostMessage \/ PostMessageFails \/ RecordMessage
    \/ RecordSend \/ RecordSendFails

Process == TakeGM \/ TakeMM \/ HandlerStep \/ PrunePending \/ Crash \/ Restart

Environment ==
    \/ \E c \in Convs : PhoneReceives(c) \/ PhoneComposes(c)
    \/ \E t \in 1..Len(sends) : PhoneSends(t)
    \/ \E m \in 1..Len(phone) :
          \E status \in StatusesOf(m), kind \in Kinds : PhonePushes(m, status, kind)
    \/ \E chan \in Channels, root \in 0..Len(posts),
          body \in Bodies : HumanPosts(chan, root, body)
    \/ \E t \in Tmps : EchoIsLate(t)

\* The goroutine waits in select with nothing to read.
Waiting ==
    /\ pc = "idle" /\ gmq = <<>> /\ mmq = <<>>
    /\ UNCHANGED vars

Next == Process \/ Environment \/ Waiting

Spec == Init /\ [][Next]_vars

\* The runtime keeps running a goroutine that can run; select picks among the
\* ready cases at random, so none of them is passed over for ever.
FairSpec == /\ Spec
            /\ WF_vars(HandlerStep)
            /\ SF_vars(TakeGM) /\ SF_vars(TakeMM) /\ SF_vars(PrunePending)
            /\ WF_vars(Restart)

-----------------------------------------------------------------------------
(* Correctness.                                                             *)

Events == [msg : Msgs, status : Statuses, kind : Kinds]

Posts == [author : {"bridge", "human"}, kind : {"root", "msg", "notice", "typed"},
          about : Convs \cup {None} \cup Nat, chan : Channels, root : Nat,
          body : {"blank", "text", "files"}, emoji : SUBSET Emojis]

Locals == [msg : Msgs \cup {0}, status : Statuses \cup {"none"}, post : Nat,
           chan : Channels \cup {None}, todo : SUBSET Msgs]

Steps == {"idle", "echo", "conv", "thread", "fetch", "backfill", "bfsave",
          "post", "save", "pend", "down"}

\* Every variable has its shape: rows are complete, and the handlers' locals are
\* of the kinds the calls they wait to make expect.
TypeOK ==
    /\ settings \in Settings
    /\ phone \in Seq([conv : Convs, tmp : Tmps \cup {0}, mine : BOOLEAN])
    /\ acked \subseteq Msgs
    /\ sends \in Seq([post : Nat \ {0}, conv : Convs, reply : Msgs \cup {0}])
    /\ Len(sends) <= MaxHumans
    /\ gmq \in Seq(Events)
    /\ mmq \in Seq(Nat \ {0})
    /\ posts \in Seq(Posts)
    /\ markedRead \subseteq Msgs
    /\ conversations \in [Convs -> ConversationRows(Nat)]
    /\ messages \in [Msgs -> MessageRows(Nat \ {0}, Statuses)]
    /\ pending \in [Tmps -> PendingRows(Nat \ {0})]
    /\ pc \in Steps
    /\ cur \in Locals
    /\ pushes \in 0..MaxPushes
    /\ mishaps \in 0..MaxMishaps

\* The posts the bridge made for message m.
Copies(m) == {p \in 1..Len(posts) : posts[p].kind = "msg" /\ posts[p].about = m}

\* A message that is already mapped is not posted again, by whatever handler
\* (GetMessage, storage/messages.go:58).
NeverPostsMapped ==
    [][\A m \in Msgs : Mapped(messages, m) => Copies(m)' = Copies(m)]_vars

\* Whatever the phone repeats or replays, a message shows in Mattermost once,
\* as the post somebody typed or as a post of the bridge; each further copy has
\* a mishap of its own behind it (deduplication, README.md:671).
CopiesArePaidFor ==
    \A m \in 1..Len(phone) :
        Cardinality(Copies(m)) + (IF TmpOf(m) = 0 THEN 0 ELSE 1) <= 1 + mishaps

\* No two messages stand behind one post, so the reverse lookup of a reply's
\* target has one answer (GetMessageByPost takes the first row).
LinksAreInjective ==
    \A m, n \in Msgs :
        Mapped(messages, m) /\ messages[n].post = messages[m].post => m = n

\* What people type goes out once, and nothing the bridge wrote goes out at
\* all: the bridge does not talk to itself.
SentAtMostOnce ==
    \A t, u \in 1..Len(sends) :
        /\ posts[sends[t].post].author = "human"
        /\ sends[t].post = sends[u].post => t = u

\* A post is never sent to the wrong person: not outside the conversation whose
\* thread it was typed in, and, where several conversations share its channel,
\* not on a guess; what it quotes belongs to the same conversation.
NoMisdelivery ==
    \A t \in 1..Len(sends) :
        LET post == posts[sends[t].post] IN
        /\ conversations[sends[t].conv].chan = post.chan
        /\ \A c \in Convs :
             post.root # 0 /\ conversations[c].root = post.root => c = sends[t].conv
        /\ sends[t].reply # 0 => ConvOf(sends[t].reply) = sends[t].conv

\* Every copy of a message is in the thread of its own conversation.
PostedInItsThread ==
    \A m \in 1..Len(phone) : \A p \in Copies(m) :
        /\ Stored(conversations, ConvOf(m))
        /\ posts[p].chan = conversations[ConvOf(m)].chan
        /\ posts[p].root = conversations[ConvOf(m)].root

\* A conversation stays in the channel and thread it was given, whatever the
\* routing says later (handleConversationUpdate's comment, conversations.go:90).
ThreadsNeverMove ==
    [][\A c \in Convs : Stored(conversations, c)
                          => conversations'[c] = conversations[c]]_vars

\* A second thread for a conversation is the trace of a mishap.
OneThread ==
    \A c \in Convs :
        Cardinality({p \in 1..Len(posts) : posts[p].kind = "root"
                                           /\ posts[p].about = c}) <= 1 + mishaps

\* The abstract specification of posts and mappings, over the bridge's state.
M == INSTANCE Mirror WITH
        Messages <- Msgs,
        copies   <- [m \in Msgs |-> Copies(m)],
        link     <- [m \in Msgs |-> messages[m].post],
        typed    <- Humans

\* Posts and mappings behave as Mirror allows: what postMessage and SaveMessage
\* do together is to show a message until it is linked, and then never again.
RefinesMirror == M!Spec

\* As long as nothing failed, the reaction on a post is that of the status last
\* recorded; a post written by the bridge may still have none.
ReactionShowsStatus ==
    (mishaps = 0 /\ pc = "idle" /\ settings.deliveryStatus) =>
        \A m \in Msgs : Mapped(messages, m) =>
            LET shown == posts[messages[m].post].emoji
                due   == StatusEmoji(messages[m].status)
            IN  shown = due \/ (shown = {} /\ TmpOf(m) = 0)

\* The phone shows a message as read only when Mattermost really has it.
ReadOnlyWhenBridged ==
    \A m \in markedRead : Mapped(messages, m) /\ ~phone[m].mine

\* A message somebody typed in a bridged conversation is sent, or its author is
\* told in the thread (reportSendFailure's comment, outbound.go:151).
UnsentIsReported ==
    [][(mmq # <<>> /\ mmq' = Tail(mmq) /\ pc' # "down") =>
         LET p == Head(mmq) IN
           \/ ConversationForPost(p) = {} \/ posts[p].body = "blank"
           \/ sends' # sends
           \/ Len(posts') > Len(posts) /\ posts'[Len(posts')].about = p]_vars

\* Without mishaps, a new message the phone reports is posted, whatever else
\* goes on.
NewIsPosted ==
    \A m \in Msgs :
        (gmq # <<>> /\ Head(gmq).msg = m /\ Head(gmq).kind = "message")
            ~> (Mapped(messages, m) \/ mishaps > 0)

\* An echo that never comes does not keep its row in outbound_pending.
PendingIsPruned ==
    \A t \in Tmps : pending[t].aged ~> ~pending[t].aged

=============================================================================
