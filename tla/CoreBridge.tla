----------------------------- MODULE CoreBridge ------------------------------
(***************************************************************************)
(* The generic bridge (internal/corebridge) over Discord (internal/discord),*)
(* with the database, the Mattermost server and the Discord gateway.        *)
(*                                                                         *)
(* discordgo calls the message handler on a goroutine of its own for every  *)
(* event, the handler pushes into the event queue, two goroutines carry     *)
(* what is queued to Run, and Run handles one event at a time (pc, cur, as  *)
(* in Bridge).  A send is synchronous, so there are no temporary IDs; what  *)
(* keeps the bridge from repeating itself is that the bot's own messages    *)
(* are dropped by the handler, before the queue.                            *)
(*                                                                         *)
(* An Event is the ID of a Discord message, its place in `remote'; the      *)
(* ready and connection events, which are only logged, are left out.        *)
(***************************************************************************)
EXTENDS Storage, EventQueue, FiniteSets

CONSTANTS Settings,     \* the configurations the operator may run with
          Earlier,      \* conversations an earlier life may have bridged
          Bodies,       \* what people may write: "blank", "text"
          MaxHumans,    \* bound: posts people type in Mattermost
          MaxReplays,   \* bound: events the gateway repeats after a reconnect
          MaxMishaps    \* bound: failed calls and crashes

ASSUME EventAssumption ==
    Nothing = 0 /\ Event \subseteq Nat /\ \A n \in Event : 1..n \subseteq Event
ASSUME SettingsAssumption ==
    Settings \subseteq [threads : BOOLEAN, route : [Convs -> Channels]]
ASSUME EarlierAssumption == Earlier \subseteq Convs
ASSUME BodiesAssumption == Bodies \subseteq {"blank", "text"}
ASSUME BoundsAssumption ==
    MaxHumans \in Nat /\ MaxReplays \in Nat /\ MaxMishaps \in Nat

VARIABLES
    settings,                  \* the configuration this bridge runs with
    remote,                    \* the messages Discord holds
    heard,                     \* those this gateway session was told of
    handlers,                  \* those a handler goroutine is working on
    mmq, posts,                \* as in Bridge
    conversations, messages,   \* the database
    pc, cur,                   \* Run: the next call, and the handler's locals
    replays, mishaps

workVars == <<pc, cur>>
dbVars == <<conversations, messages>>
gatewayVars == <<remote, heard, handlers, replays>>
vars == <<settings, gatewayVars, queueVars, mmq, posts, dbVars, workVars, mishaps>>

NoWork == [msg |-> 0, post |-> 0, chan |-> None]

\* A message of a person (from = 0), or of the bot: then from is the post it
\* was sent for.
IsOwn(m) == remote[m].from # 0
ConvOf(m) == remote[m].conv

ThreadRoot(p) == IF posts[p].root = 0 THEN p ELSE posts[p].root

Mishap == mishaps < MaxMishaps /\ mishaps' = mishaps + 1
Goto(step, locals) == pc' = step /\ cur' = locals
Done == Goto("idle", NoWork)

\* Run has not been left, and the gateway session is open.
Connected == pc \notin {"stopped", "down"}

-----------------------------------------------------------------------------
(* Discord: what it holds, and what it tells the session that is open.      *)

\* Discord holds one more message, and sends it to every session, the bot's
\* own included.
Arrives(message) ==
    LET m == Len(remote) + 1 IN
    /\ m \in Event
    /\ remote' = Append(remote, message)
    /\ IF Connected THEN heard' = heard \cup {m} /\ handlers' = handlers \cup {m}
                    ELSE UNCHANGED <<heard, handlers>>
    /\ UNCHANGED replays

PersonWrites(conv, body) ==
    /\ Arrives([conv |-> conv, from |-> 0, body |-> body, reply |-> 0])
    /\ UNCHANGED <<settings, queueVars, mmq, posts, dbVars, workVars, mishaps>>

\* The gateway session is resumed and repeats an event.
Repeats(m) ==
    /\ Connected /\ m \in heard \ handlers
    /\ replays < MaxReplays /\ replays' = replays + 1
    /\ handlers' = handlers \cup {m}
    /\ UNCHANGED <<settings, remote, heard, queueVars, mmq, posts, dbVars,
                   workVars, mishaps>>

\* Mutant: the loop guard is missing.
EmitsAny(m) == TRUE

\* onMessageCreate: the bot's own messages stop here.
Emits(m) == ~IsOwn(m)

OnMessageCreate(m) ==
    /\ pc # "down" /\ m \in handlers
    /\ handlers' = handlers \ {m}
    /\ \/ Emits(m) /\ Push(m)
       \/ ~Emits(m) /\ UNCHANGED queueVars
    /\ UNCHANGED <<settings, remote, heard, replays, mmq, posts, dbVars,
                   workVars, mishaps>>

PumpStep ==
    /\ pc # "down" /\ PumpSteps
    /\ UNCHANGED <<settings, gatewayVars, mmq, posts, dbVars, workVars, mishaps>>

-----------------------------------------------------------------------------
(* Mattermost: posts, and the stream of those people write.                 *)

Deliver(events, post) ==
    IF post.author = "human" /\ Connected
    THEN Append(events, Len(posts) + 1) ELSE events

BridgePost(kind, about, chan, root) ==
    [author |-> "bridge", kind |-> kind, about |-> about, chan |-> chan,
     root |-> root, body |-> "text"]

Publish(kind, about, chan, root) ==
    posts' = Append(posts, BridgePost(kind, about, chan, root))

\* The post was refused, or its answer was lost.
PublishFails(kind, about, chan, root) ==
    Mishap /\ (UNCHANGED posts \/ Publish(kind, about, chan, root))

Humans == {p \in 1..Len(posts) : posts[p].author = "human"}

HumanPosts(chan, root, body) ==
    LET post == [author |-> "human", kind |-> "typed", about |-> None,
                 chan |-> chan, root |-> root, body |-> body]
    IN  /\ Cardinality(Humans) < MaxHumans
        /\ root # 0 => posts[root].root = 0 /\ posts[root].chan = chan
        /\ posts' = Append(posts, post) /\ mmq' = Deliver(mmq, post)
        /\ UNCHANGED <<settings, gatewayVars, queueVars, dbVars, workVars, mishaps>>

-----------------------------------------------------------------------------
(* handleIncomingMessage.                                                   *)

TakeEvent ==
    /\ pc = "idle" /\ Receives
    /\ UNCHANGED <<settings, gatewayVars, mmq, posts, dbVars>>

\* Mutant: what is bridged already is not looked up.
IsWorthPosting(m) == remote[m].body # "blank"

\* Not bridged yet, and with text or attachments.
IsNew(m) == ~Mapped(messages, m) /\ remote[m].body # "blank"

IncomingNew ==
    /\ TakeEvent /\ IsNew(relay)
    /\ Goto("conv", [NoWork EXCEPT !.msg = relay])
    /\ UNCHANGED mishaps

IncomingIgnored == TakeEvent /\ ~IsNew(relay) /\ UNCHANGED <<workVars, mishaps>>

\* The lookup fails: the event is logged and gone.
IncomingFails == TakeEvent /\ Mishap /\ UNCHANGED workVars

Run == UNCHANGED <<settings, gatewayVars, queueVars, mmq>>

\* ensureConversation.
EnsureKnown ==
    /\ pc = "conv" /\ Stored(conversations, ConvOf(cur.msg))
    /\ pc' = "post"
    /\ Run /\ UNCHANGED <<posts, dbVars, cur, mishaps>>

OpenConversation ==
    LET conv == ConvOf(cur.msg)
        chan == settings.route[conv]
    IN  /\ pc = "conv" /\ ~Stored(conversations, conv)
        /\ \/ /\ settings.threads
              /\ Publish("root", conv, chan, 0)
              /\ Goto("thread", [cur EXCEPT !.chan = chan, !.post = Len(posts) + 1])
           \/ /\ ~settings.threads
              /\ Goto("thread", [cur EXCEPT !.chan = chan])
              /\ UNCHANGED posts
        /\ Run /\ UNCHANGED <<dbVars, mishaps>>

\* A lookup, the routing or the root post fails.
OpenFails ==
    LET conv == ConvOf(cur.msg) IN
    /\ pc = "conv"
    /\ \/ Mishap /\ UNCHANGED posts
       \/ /\ settings.threads /\ ~Stored(conversations, conv)
          /\ PublishFails("root", conv, settings.route[conv], 0)
    /\ Done /\ Run /\ UNCHANGED dbVars

StoreConversation ==
    /\ pc = "thread"
    /\ conversations' =
         SaveConversation(conversations, ConvOf(cur.msg), cur.chan, cur.post)
    /\ Goto("post", [NoWork EXCEPT !.msg = cur.msg])
    /\ Run /\ UNCHANGED <<posts, messages, mishaps>>

\* SaveConversation or SaveMessage fails: the handler returns the error.
SaveFails ==
    /\ pc \in {"thread", "save", "sent"}
    /\ Mishap
    /\ Done /\ Run /\ UNCHANGED <<posts, dbVars>>

Destination(m) == conversations[ConvOf(m)]

\* postMessage.  An attachment that cannot be moved leaves a note in the post.
PostMessage ==
    /\ pc = "post"
    /\ Publish("msg", cur.msg, Destination(cur.msg).chan, Destination(cur.msg).root)
    /\ Goto("save", [cur EXCEPT !.post = Len(posts) + 1])
    /\ Run /\ UNCHANGED <<dbVars, mishaps>>

PostMessageFails ==
    /\ pc = "post"
    /\ PublishFails("msg", cur.msg, Destination(cur.msg).chan,
                    Destination(cur.msg).root)
    /\ Done /\ Run /\ UNCHANGED dbVars

RecordMessage ==
    /\ pc = "save"
    /\ messages' = SaveMessage(messages, cur.msg, cur.post, "none")
    /\ Done /\ Run /\ UNCHANGED <<posts, conversations, mishaps>>

-----------------------------------------------------------------------------
(* handleOutgoingPost.                                                      *)

TakePost ==
    /\ pc = "idle" /\ mmq # <<>> /\ mmq' = Tail(mmq)
    /\ UNCHANGED <<settings, queueVars, dbVars>>

\* conversationForPost: at most one conversation, and none when in doubt.
ConversationForPost(p) ==
    IF settings.threads THEN ByRootPost(conversations, ThreadRoot(p))
    ELSE SoleInChannel(conversations, posts[p].chan)

\* replyTarget.
ReplyTargets(p, c) ==
    IF posts[p].root \in {0, conversations[c].root} THEN {}
    ELSE MessagesByPost(messages, posts[p].root)

OutgoingIgnored ==
    /\ TakePost
    /\ ConversationForPost(Head(mmq)) = {} \/ posts[Head(mmq)].body = "blank"
    /\ UNCHANGED <<gatewayVars, posts, workVars, mishaps>>

\* conversationForPost or fetchAttachments fails: the error is only logged.
OutgoingFails ==
    /\ TakePost /\ Mishap
    /\ UNCHANGED <<gatewayVars, posts, workVars>>

ToSend(p, c, r) ==
    /\ posts[p].body # "blank" /\ c \in ConversationForPost(p)
    /\ r \in ReplyTargets(p, c) \/ (r = 0 /\ ReplyTargets(p, c) = {})

\* Discord takes the message; its answer holds the ID.
Accepted(p, c, r) ==
    Arrives([conv |-> c, from |-> p, body |-> "text", reply |-> r])

\* A reply target that could not be looked up does not stop the message.
SendPost ==
    LET p == Head(mmq) IN
    /\ TakePost
    /\ \E c \in Convs, r \in Event \cup {0} :
          /\ ToSend(p, c, r)
          /\ \/ Accepted(p, c, r) /\ UNCHANGED mishaps
             \/ r # 0 /\ Accepted(p, c, 0) /\ Mishap
    /\ Goto("sent", [NoWork EXCEPT !.post = p, !.msg = Len(remote) + 1])
    /\ UNCHANGED posts

\* Send returns an error, after Discord took the message or before; the notice
\* in the thread may fail in turn.
SendFails ==
    LET p == Head(mmq) IN
    /\ TakePost
    /\ \E c \in Convs, r \in Event \cup {0} :
          ToSend(p, c, r) /\ (Accepted(p, c, r) \/ UNCHANGED gatewayVars)
    /\ \/ Mishap /\ Publish("notice", p, posts[p].chan, ThreadRoot(p))
       \/ /\ mishaps + 2 <= MaxMishaps /\ mishaps' = mishaps + 2
          /\ UNCHANGED posts
    /\ UNCHANGED workVars

RecordSend ==
    /\ pc = "sent"
    /\ messages' = SaveMessage(messages, cur.msg, cur.post, "none")
    /\ Done /\ Run /\ UNCHANGED <<posts, conversations, mishaps>>

-----------------------------------------------------------------------------
(* The life of the bridge.                                                  *)

\* The context is cancelled: Run returns between two events.
Stop ==
    /\ pc = "idle"
    /\ Goto("closing", NoWork)
    /\ Run /\ UNCHANGED <<posts, dbVars, mishaps>>

\* runDiscord's deferred Disconnect: the gateway session, then the queue.  The
\* Mattermost stream ended with Run's context.
Disconnect ==
    /\ pc = "closing"
    /\ Close
    /\ Goto("stopped", NoWork)
    /\ heard' = {} /\ mmq' = <<>>
    /\ UNCHANGED <<settings, remote, handlers, replays, posts, dbVars, mishaps>>

\* A client, with a session and a queue of its own.
Anew ==
    /\ handlers' = {} /\ heard' = {} /\ mmq' = <<>>
    /\ items' = <<>> /\ closed' = FALSE
    /\ pump' = "pop" /\ hand' = Nothing /\ relay' = Nothing

\* The process dies, or its context is cancelled in the middle of a handler.
Crash ==
    /\ pc # "down" /\ Mishap
    /\ Goto("down", NoWork)
    /\ Anew
    /\ UNCHANGED <<settings, remote, replays, posts, dbVars>>

\* runDiscord, on the same database, perhaps with an edited configuration.
\* Nothing is caught up.
Restart ==
    /\ pc \in {"stopped", "down"}
    /\ settings' \in Settings
    /\ Goto("idle", NoWork)
    /\ Anew
    /\ UNCHANGED <<remote, replays, posts, dbVars, mishaps>>

-----------------------------------------------------------------------------
\* What the database holds when the model begins: conversations bridged without
\* threads, whose messages are older than those the model follows.
Bridged(known) ==
    [c \in Convs |-> IF c \in known THEN [chan |-> settings.route[c], root |-> 0]
                                   ELSE NoConversation]

Init ==
    /\ settings \in Settings
    /\ remote = <<>> /\ heard = {} /\ handlers = {}
    /\ QueueInit
    /\ mmq = <<>> /\ posts = <<>>
    /\ \E known \in SUBSET Earlier : conversations = Bridged(known)
    /\ messages = [m \in Event |-> NoRow]
    /\ pc = "idle" /\ cur = NoWork
    /\ replays = 0 /\ mishaps = 0

\* The arms of Run's select, and the rest of the handlers.
TakeTransport == IncomingNew \/ IncomingIgnored \/ IncomingFails
TakeMM == OutgoingIgnored \/ OutgoingFails \/ SendPost \/ SendFails
HandlerStep ==
    \/ EnsureKnown \/ OpenConversation \/ OpenFails \/ StoreConversation
    \/ SaveFails \/ PostMessage \/ PostMessageFails \/ RecordMessage \/ RecordSend

Handlers == \E m \in Event : OnMessageCreate(m)

Environment ==
    \/ \E c \in Convs, body \in Bodies : PersonWrites(c, body)
    \/ \E m \in Event : Repeats(m)
    \/ \E chan \in Channels, root \in 0..Len(posts), body \in Bodies :
          HumanPosts(chan, root, body)

Next ==
    \/ TakeTransport \/ TakeMM \/ HandlerStep \/ Handlers \/ PumpStep
    \/ Stop \/ Disconnect \/ Crash \/ Restart \/ Environment

Spec == Init /\ [][Next]_vars

\* Goroutines that can run are run; select picks among ready cases at random.
\* A stopped or dead bridge need not come back.
FairSpec == /\ Spec
            /\ WF_vars(HandlerStep) /\ WF_vars(PumpStep) /\ WF_vars(Disconnect)
            /\ SF_vars(TakeTransport) /\ SF_vars(TakeMM)
            /\ \A m \in Event : WF_vars(OnMessageCreate(m))

-----------------------------------------------------------------------------
(* Correctness.                                                             *)

Messages == [conv : Convs, from : Nat, body : {"blank", "text"}, reply : Event \cup {0}]

Posts == [author : {"bridge", "human"}, kind : {"root", "msg", "notice", "typed"},
          about : Convs \cup {None} \cup Nat, chan : Channels, root : Nat,
          body : {"blank", "text"}]

\* Rows, queues and locals have their shape; every event is of a message
\* Discord holds; a client that is not open has told the bridge nothing new.
CoreTypeOK ==
    /\ settings \in Settings
    /\ remote \in Seq(Messages)
    /\ heard \cup handlers \subseteq 1..Len(remote)
    /\ QueueTypeOK
    /\ \A i \in 1..Len(items) : items[i] <= Len(remote)
    /\ hand <= Len(remote) /\ relay <= Len(remote)
    /\ mmq \in Seq(1..Len(posts)) /\ posts \in Seq(Posts)
    /\ conversations \in [Convs -> ConversationRows(Nat)]
    /\ messages \in [Event -> MessageRows(Nat \ {0}, {"none"})]
    /\ pc \in {"idle", "conv", "thread", "post", "save", "sent", "closing",
               "stopped", "down"}
    /\ cur \in [msg : 0..Len(remote), post : 0..Len(posts), chan : Channels \cup {None}]
    /\ closed => pc = "stopped"

Copies(m) == {p \in 1..Len(posts) : posts[p].kind = "msg" /\ posts[p].about = m}
Roots(c)  == {p \in 1..Len(posts) : posts[p].kind = "root" /\ posts[p].about = c}

\* Whatever the gateway repeats, a message is posted once and a conversation
\* has one thread; a further post has a mishap of its own behind it (the lookup
\* inbound.go:28, and the comment at inbound.go:84).
OneCopyOneThread ==
    /\ \A m \in Event : Cardinality(Copies(m)) <= 1 + mishaps
    /\ \A c \in Convs : Cardinality(Roots(c)) <= 1 + mishaps

\* What the bridge sent to Discord never appears in Mattermost a second time,
\* not even when the sending failed half way and no mapping exists
\* (onMessageCreate's comment, discord/client.go:266).
OwnSendsNeverComeBack ==
    \A m \in 1..Len(remote) : IsOwn(m) => Copies(m) = {}

\* A post goes to the conversation whose thread it was typed in; where only the
\* channel can tell, it goes nowhere unless no other conversation of the channel
\* could be meant; and what it quotes is said there (conversationForPost,
\* replyTarget).
Sent == remote'[Len(remote')]
CoreNoMisdelivery ==
    [][remote' # remote /\ Sent.from # 0 =>
         LET post == posts[Sent.from]
             c    == conversations[Sent.conv]
         IN  /\ c.chan = post.chan
             /\ \/ c.root \in {Sent.from, post.root} \ {0}
                \/ \A other \in Convs \ {Sent.conv} : conversations[other].chan # post.chan
             /\ Sent.reply # 0 => ConvOf(Sent.reply) = Sent.conv]_vars

M == INSTANCE Mirror WITH
        Messages <- Event,
        copies   <- [m \in Event |-> Copies(m)],
        link     <- [m \in Event |-> messages[m].post],
        typed    <- Humans

\* The generic bridge keeps the promise the Google Messages bridge keeps
\* without its backfill: shown until linked, and then never again.
CoreRefinesMirror == M!Spec

\* Between the handlers and Run no event is lost, doubled or overtaken, and
\* nothing enters a queue that was closed (queue, discord/events.go:58).
QueueIsFifo ==
    [][F!Next \/ Crash \/ Restart]_<<InFlight, closed>>

\* What a person writes while the bridge is up reaches Mattermost, however slow
\* the calls and however many events come in between; only a failed call, a
\* crash or the end of the bridge is in its way (queue's comment).
AcceptedIsBridged ==
    \A m \in Event :
        (m \in handlers /\ ~IsOwn(m) /\ remote[m].body # "blank")
            ~> (Mapped(messages, m) \/ mishaps > 0 \/ pc \in {"closing", "stopped"})

\* Once the client is disconnected, the pump ends; unless an event is stuck
\* that nobody will receive any more (Events' comment, discord/client.go:103).
PumpEnds ==
    (pc = "stopped" /\ InFlight = <<>>) ~> (pump = "over" \/ pc # "stopped")

=============================================================================
