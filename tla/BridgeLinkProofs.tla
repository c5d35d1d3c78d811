-------------------------- MODULE BridgeLinkProofs ---------------------------
(***************************************************************************)
(* Messages and the posts that stand for them, for every value of the       *)
(* constants.  No two messages are ever mapped to one post: what a row of   *)
(* the database or a handler holds is a post no message is mapped to yet,   *)
(* and no two of them hold the same (LinksOK).  What is typed goes to the   *)
(* conversation of its thread or channel (RootsOK, PlacedOK).               *)
(*                                                                         *)
(* Without backfill, Bridge implements Mirror: a mapped message is never    *)
(* posted again and its mapping never changes (MapOK).  Then each copy of a *)
(* message but one has a mishap behind it (PaidOK), and, while nothing      *)
(* failed, reactions are those of the recorded statuses (ReactOK).  With    *)
(* backfill it does not (run bridge_backfill).                              *)
(***************************************************************************)
EXTENDS BridgeSafetyProofs

\* No message is mapped to post p.
Unlinked(rows, p) == \A m \in Msgs : rows[m].post # p

\* The steps at which a handler is about to write cur.post to the database.
Holding == {"echo", "bfsave", "save", "pend"}

LinksOK ==
    /\ \A m \in Msgs : messages[m].post \in 0..Len(posts)
    /\ LinksAreInjective
    /\ pc \in {"bfsave", "save"} => /\ cur.post \in 1..Len(posts)
                                    /\ posts[cur.post].author = "bridge"
    /\ pc = "pend" => Len(sends) > 0 /\ cur.post = sends[Len(sends)].post
    /\ pc = "echo" => \E t \in 1..Len(sends) :
                         cur.post = sends[t].post /\ ~Issued(pending, t)
    /\ pc \in Holding => Unlinked(messages, cur.post)
    /\ \A t \in Tmps : Issued(pending, t) =>
          /\ t \in 1..Len(sends) /\ pending[t].post = sends[t].post
          /\ Unlinked(messages, sends[t].post)
    /\ \A i \in 1..Len(mmq) : Unlinked(messages, mmq[i])

\* All that is known of what was sent and what is waiting to be.
SentInv == IInv /\ QueueOK /\ SentAtMostOnce

-----------------------------------------------------------------------------
(* What a step does to the links, the pending rows and what is held.        *)

LinksSame == \A m \in Msgs : messages'[m].post = messages[m].post

\* One message is mapped to the post the handler holds.
LinkSaved ==
    \E m \in Msgs : \A n \in Msgs :
        messages'[n].post = IF n = m THEN cur.post ELSE messages[n].post

LEMMA LinksChange ==
    ASSUME IInv, [Next]_vars
    PROVE  \/ LinksSame
           \/ LinkSaved /\ (RecordEcho \/ BackfillSave \/ RecordMessage)
<1>1. CASE IncomingKnown
  BY <1>1 DEF IncomingKnown, UpdateMessageStatus, LinksSame, MessageRows, NoRow, IInv, TypeOK
<1>2. ASSUME NEW m \in Msgs, NEW status,
             messages' = SaveMessage(messages, m, cur.post, status)
      PROVE  LinkSaved
  BY <1>2 DEF SaveMessage, LinkSaved, IInv, TypeOK
<1>3. CASE RecordEcho \/ RecordMessage
  <2>1. cur.msg \in Msgs
    BY <1>3 DEF RecordEcho, RecordMessage, IInv, TypeOK, Locals, WorkOK, RefsOK, OnMessage,
       Msgs
  <2> QED
    BY <1>2, <1>3, <2>1 DEF RecordEcho, RecordMessage
<1>4. CASE BackfillSave
  <2>1. \E m \in cur.todo, status \in Statuses \cup Reported :
          messages' = SaveMessage(messages, m, cur.post, status)
    BY <1>4 DEF BackfillSave, StatusesOf, Statuses
  <2>2. cur.todo \subseteq Msgs
    BY DEF IInv, TypeOK, Locals
  <2> QED
    BY <1>2, <1>4, <2>1, <2>2
<1> QED
  BY <1>1, <1>3, <1>4, MessagesChange DEF LinksSame

\* Rows leave outbound_pending, or stay with their post.
PendingShrinks ==
    \A t \in Tmps : Issued(pending', t)
                      => Issued(pending, t) /\ pending'[t].post = pending[t].post

LEMMA PendingChanges ==
    ASSUME IInv, [Next]_vars
    PROVE  PendingShrinks \/ RecordSend
<1>1. ASSUME UNCHANGED pending PROVE PendingShrinks
  BY <1>1 DEF PendingShrinks
<1>2. CASE IncomingEcho
  BY <1>2 DEF IncomingEcho, TakePendingOutbound, PendingShrinks, Issued, IInv, TypeOK
<1>3. CASE PrunePending
  BY <1>3 DEF PrunePending, PrunePendingOutbound, PendingShrinks, Issued, IInv, TypeOK
<1>4. ASSUME NEW t \in Tmps, EchoIsLate(t) PROVE PendingShrinks
  BY <1>4 DEF EchoIsLate, PendingShrinks, Issued, PendingRows, NoPending, IInv, TypeOK
<1>5. CASE TakeGM /\ ~IncomingEcho
  BY <1>1, <1>5 DEF TakeGM, IncomingKnown, IncomingNew, IncomingIgnored, IncomingFails, dbVars
<1>6. CASE TakeMM
  BY <1>1, <1>6 DEF TakeMM, OutgoingIgnored, LookupFails, AttachmentsFail, SendPost,
     SendFails, dbVars
<1>7. CASE HandlerStep /\ ~RecordSend
  BY <1>1, <1>7 DEF HandlerStep, RecordEcho, SaveFails, EnsureKnown, OpenConversation,
     OpenFails, StoreConversation, FetchHistory, BackfillPost, BackfillSave, BackfillEnds,
     PostMessage, PostMessageFails, RecordMessage, RecordSendFails, dbVars
<1>8. CASE Crash \/ Restart \/ UNCHANGED vars
  BY <1>1, <1>8 DEF Crash, Restart, vars, dbVars
<1>9. CASE Environment
  BY <1>1, <1>4, <1>9 DEF Environment, PhoneReceives, PhoneComposes, PhoneSends, Hold,
     PhonePushes, HumanPosts, dbVars
<1> QED
  BY <1>2, <1>3, <1>5, <1>6, <1>7, <1>8, <1>9 DEF Next, Process, Waiting

\* A handler comes to hold a post in one of four ways, and otherwise holds what
\* it held.
LEMMA HoldingChanges ==
    ASSUME IInv, [Next]_vars
    PROVE  \/ pc' \notin Holding
           \/ UNCHANGED <<pc, cur, sends>> /\ PendingShrinks
           \/ IncomingEcho \/ BackfillPost \/ PostMessage \/ SendPost
<1>1. CASE TakeGM /\ ~IncomingEcho
  BY <1>1 DEF TakeGM, IncomingKnown, IncomingNew, IncomingIgnored, IncomingFails,
     TakeGMEvent, Goto, Holding, workVars
<1>2. CASE TakeMM /\ ~SendPost
  BY <1>2 DEF TakeMM, OutgoingIgnored, LookupFails, AttachmentsFail, SendFails,
     TakeMMEvent, MMEvent, Holding, workVars
<1>3. CASE HandlerStep /\ ~BackfillPost /\ ~PostMessage
  BY <1>3 DEF HandlerStep, RecordEcho, SaveFails, EnsureKnown, OpenConversation, OpenFails,
     StoreConversation, FetchHistory, BackfillSave, BackfillEnds, PostMessageFails,
     RecordMessage, RecordSend, RecordSendFails, Done, Goto, Holding
<1>4. CASE PrunePending \/ Crash \/ Restart
  BY <1>4 DEF PrunePending, Crash, Restart, Goto, Holding, workVars
<1>5. CASE Environment \/ UNCHANGED vars
  <2>1. UNCHANGED <<pc, cur, sends>>
    BY <1>5 DEF Environment, PhoneReceives, PhoneComposes, PhoneSends, Hold, PhonePushes,
       HumanPosts, EchoIsLate, phoneVars, workVars, vars
  <2>2. ~RecordSend \/ pc' \notin Holding
    BY DEF RecordSend, Done, Goto, Holding
  <2> QED
    BY <2>1, <2>2, PendingChanges
<1> QED
  BY <1>1, <1>2, <1>3, <1>4, <1>5 DEF Next, Process, Waiting

-----------------------------------------------------------------------------
(* The parts of the invariant, one by one.                                  *)

\* What lies in the sequences of posts and sends after a step.
LEMMA Lengths ==
    ASSUME SentInv, [Next]_vars
    PROVE  /\ PostsKept /\ Len(posts) \in Nat /\ Len(posts') \in Nat
           /\ Len(posts) <= Len(posts')
           /\ Len(sends) \in Nat /\ Len(sends') \in Nat
           /\ Len(mmq) \in Nat /\ Len(mmq') \in Nat
           /\ \A t \in 1..Len(sends) : t \in 1..Len(sends') /\ sends'[t] = sends[t]
<1>1. PostsKept
  BY StepAddsPosts DEF SentInv, NoPostAdded, PostAdded
<1>2. /\ posts \in Seq(Posts) /\ posts' \in Seq(Posts)
      /\ sends \in Seq(Sends) /\ sends' \in Seq(Sends)
      /\ mmq \in Seq(Nat \ {0}) /\ mmq' \in Seq(Nat \ {0})
  BY NextInv DEF SentInv, IInv, TypeOK, Sends
<1>3. /\ Len(posts) \in Nat /\ Len(posts') \in Nat /\ Len(sends) \in Nat
      /\ Len(sends') \in Nat /\ Len(mmq) \in Nat /\ Len(mmq') \in Nat
  BY <1>2, LenProperties
<1>4. UNCHANGED sends \/ \E new : sends' = Append(sends, new)
  BY QueueChanges DEF SentInv, PostQueued, PostHandled, Accepted
<1>5. ASSUME NEW new, sends' = Append(sends, new)
      PROVE  \A t \in 1..Len(sends) : t \in 1..Len(sends') /\ sends'[t] = sends[t]
  BY <1>2, <1>3, <1>5
<1> QED
  BY <1>1, <1>3, <1>4, <1>5 DEF PostsKept

\* A handler that writes its post to the database holds a good one, and no other
\* row and no queued post has it.
LEMMA HeldPost ==
    ASSUME SentInv, LinksOK, pc \in {"echo", "bfsave", "save"}
    PROVE  /\ cur.post \in 1..Len(posts) /\ Unlinked(messages, cur.post)
           /\ \A i \in 1..Len(mmq) : mmq[i] # cur.post
           /\ \A t \in Tmps : Issued(pending, t) => sends[t].post # cur.post
<1>1. Unlinked(messages, cur.post)
  BY DEF LinksOK, Holding
<1>2. CASE pc = "echo"
  <2>1. PICK t \in 1..Len(sends) : cur.post = sends[t].post /\ ~Issued(pending, t)
    BY <1>2 DEF LinksOK
  <2>2. cur.post \in 1..Len(posts) /\ \A i \in 1..Len(mmq) : mmq[i] # cur.post
    BY <2>1 DEF SentInv, QueueOK
  <2>3. ASSUME NEW u \in Tmps, Issued(pending, u) PROVE sends[u].post # cur.post
    BY <2>1, <2>3 DEF LinksOK, SentInv, SentAtMostOnce
  <2> QED
    BY <1>1, <2>2, <2>3
<1>3. CASE pc \in {"bfsave", "save"}
  <2>1. cur.post \in 1..Len(posts) /\ posts[cur.post].author = "bridge"
    BY <1>3 DEF LinksOK
  <2>2. \A i \in 1..Len(mmq) : mmq[i] # cur.post
    BY <2>1 DEF SentInv, QueueOK
  <2>3. ASSUME NEW u \in Tmps, Issued(pending, u) PROVE sends[u].post # cur.post
    BY <2>1, <2>3 DEF LinksOK, SentInv, SentAtMostOnce
  <2> QED
    BY <1>1, <2>1, <2>2, <2>3
<1> QED
  BY <1>2, <1>3

LEMMA InjectiveStep ==
    ASSUME SentInv, LinksOK, [Next]_vars
    PROVE  /\ \A m \in Msgs : messages'[m].post \in 0..Len(posts')
           /\ LinksAreInjective'
<1>1. \A m \in Msgs : messages[m].post \in 0..Len(posts')
  BY Lengths DEF LinksOK
<1>2. TypeOK /\ TypeOK'
  BY NextInv DEF SentInv, IInv
<1>3. \A m \in Msgs : /\ Mapped(messages, m) <=> messages[m].post # 0
                      /\ Mapped(messages', m) <=> messages'[m].post # 0
  BY <1>2 DEF TypeOK, Mapped, MessageRows, NoRow
<1>4. \A m, n \in Msgs : messages[m].post # 0 /\ messages[n].post = messages[m].post => m = n
  BY <1>3 DEF LinksOK, LinksAreInjective
<1>5. CASE LinksSame
  BY <1>1, <1>3, <1>4, <1>5 DEF LinksSame, LinksAreInjective
<1>6. CASE LinkSaved /\ (RecordEcho \/ BackfillSave \/ RecordMessage)
  <2>1. pc \in {"echo", "bfsave", "save"}
    BY <1>6 DEF RecordEcho, BackfillSave, RecordMessage
  <2>2. cur.post \in 1..Len(posts') /\ Unlinked(messages, cur.post)
    BY <2>1, HeldPost, Lengths
  <2> QED
    BY <1>1, <1>3, <1>4, <1>6, <2>2 DEF LinkSaved, Unlinked, LinksAreInjective
<1> QED
  BY <1>5, <1>6, LinksChange DEF SentInv

LEMMA PendingStep ==
    ASSUME SentInv, LinksOK, [Next]_vars
    PROVE  \A t \in Tmps : Issued(pending', t) =>
              /\ t \in 1..Len(sends') /\ pending'[t].post = sends'[t].post
              /\ Unlinked(messages', sends'[t].post)
<1> SUFFICES ASSUME NEW t \in Tmps, Issued(pending', t)
             PROVE  /\ t \in 1..Len(sends') /\ pending'[t].post = sends'[t].post
                    /\ Unlinked(messages', sends'[t].post)
  OBVIOUS
<1>1. CASE RecordSend
  <2>1. /\ LinksSame /\ UNCHANGED sends /\ Len(sends) \in Nat /\ Len(sends) > 0
        /\ pc = "pend" /\ cur.post = sends[Len(sends)].post /\ Unlinked(messages, cur.post)
    BY <1>1, Lengths DEF RecordSend, LinksSame, phoneVars, LinksOK, Holding
  <2>2. CASE t = Len(sends)
    <3>1. pending'[t].post = cur.post
      BY <1>1, <2>2 DEF RecordSend, AddPendingOutbound, SentInv, IInv, TypeOK
    <3> QED
      BY <2>1, <2>2, <3>1 DEF LinksSame, Unlinked
  <2>3. CASE t # Len(sends)
    <3>1. pending'[t] = pending[t] /\ Issued(pending, t)
      BY <1>1, <2>3 DEF RecordSend, AddPendingOutbound, Issued, SentInv, IInv, TypeOK
    <3>2. t \in 1..Len(sends) /\ pending[t].post = sends[t].post /\ Unlinked(messages, sends[t].post)
      BY <3>1 DEF LinksOK
    <3> QED
      BY <2>1, <3>1, <3>2 DEF LinksSame, Unlinked
  <2> QED
    BY <2>2, <2>3
<1>2. CASE PendingShrinks
  <2>1. Issued(pending, t) /\ pending'[t].post = pending[t].post
    BY <1>2 DEF PendingShrinks
  <2>2. /\ t \in 1..Len(sends) /\ pending[t].post = sends[t].post
        /\ Unlinked(messages, sends[t].post)
    BY <2>1 DEF LinksOK
  <2>3. t \in 1..Len(sends') /\ sends'[t] = sends[t]
    BY <2>2, Lengths
  <2>4. CASE LinksSame
    BY <2>1, <2>2, <2>3, <2>4 DEF LinksSame, Unlinked
  <2>5. CASE LinkSaved /\ (RecordEcho \/ BackfillSave \/ RecordMessage)
    <3>1. sends[t].post # cur.post
      BY <2>1, <2>5, HeldPost DEF RecordEcho, BackfillSave, RecordMessage
    <3> QED
      BY <2>1, <2>2, <2>3, <2>5, <3>1 DEF LinkSaved, Unlinked
  <2> QED
    BY <2>4, <2>5, LinksChange DEF SentInv
<1> QED
  BY <1>1, <1>2, PendingChanges DEF SentInv

LEMMA QueueStep ==
    ASSUME SentInv, LinksOK, [Next]_vars
    PROVE  \A i \in 1..Len(mmq') : Unlinked(messages', mmq'[i])
<1>1. CASE LinkSaved /\ (RecordEcho \/ BackfillSave \/ RecordMessage)
  <2>1. UNCHANGED mmq /\ pc \in {"echo", "bfsave", "save"}
    BY <1>1 DEF RecordEcho, BackfillSave, RecordMessage
  <2>2. \A i \in 1..Len(mmq) : mmq[i] # cur.post /\ Unlinked(messages, mmq[i])
    BY <2>1, HeldPost DEF LinksOK
  <2> QED
    BY <1>1, <2>1, <2>2 DEF LinkSaved, Unlinked
<1>2. CASE LinksSame
  <2>1. \A p : Unlinked(messages, p) => Unlinked(messages', p)
    BY <1>2 DEF LinksSame, Unlinked
  <2>2. \A i \in 1..Len(mmq) : Unlinked(messages, mmq[i])
    BY DEF LinksOK
  <2>3. Unlinked(messages, Len(posts) + 1)
    BY Lengths DEF LinksOK, Unlinked
  <2>4. CASE mmq' = mmq
    BY <2>1, <2>2, <2>4
  <2>5. CASE mmq' = <<>>
    BY <2>5, EmptySeq
  <2>6. CASE mmq' = Append(mmq, Len(posts) + 1)
    BY <2>1, <2>2, <2>3, <2>6, Lengths, AppendProperties DEF SentInv, IInv, TypeOK
  <2>7. CASE PostHandled
    <3>1. \A i \in 1..Len(mmq') : i + 1 \in 1..Len(mmq) /\ mmq'[i] = mmq[i + 1]
      BY <2>7, PostTaken DEF PostHandled, SentInv
    <3> QED
      BY <2>1, <2>2, <3>1
  <2> QED
    BY <2>4, <2>5, <2>6, <2>7, QueueChanges DEF SentInv, PostQueued
<1> QED
  BY <1>1, <1>2, LinksChange DEF SentInv

\* Nothing is written to the messages table by a step that leaves a handler
\* holding a post.
LEMMA HoldingLinks ==
    ASSUME IInv, [Next]_vars, pc' \in Holding
    PROVE  LinksSame
BY LinksChange DEF RecordEcho, BackfillSave, RecordMessage, Done, Goto, Holding

LEMMA HeldStep ==
    ASSUME SentInv, LinksOK, [Next]_vars
    PROVE  /\ pc' \in {"bfsave", "save"} => /\ cur'.post \in 1..Len(posts')
                                            /\ posts'[cur'.post].author = "bridge"
           /\ pc' = "pend" => Len(sends') > 0 /\ cur'.post = sends'[Len(sends')].post
           /\ pc' = "echo" => \E t \in 1..Len(sends') :
                                 cur'.post = sends'[t].post /\ ~Issued(pending', t)
           /\ pc' \in Holding => Unlinked(messages', cur'.post)
<1>1. CASE pc' \notin Holding
  BY <1>1 DEF Holding
<1>2. CASE pc' \in Holding /\ UNCHANGED <<pc, cur, sends>> /\ PendingShrinks
  <2>1. LinksSame
    BY <1>2, HoldingLinks DEF SentInv
  <2>2. Unlinked(messages', cur'.post)
    BY <1>2, <2>1 DEF LinksOK, LinksSame, Unlinked
  <2>3. pc' \in {"bfsave", "save"} => /\ cur'.post \in 1..Len(posts')
                                      /\ posts'[cur'.post].author = "bridge"
    BY <1>2, Lengths DEF LinksOK, PostsKept
  <2>4. pc' = "echo" => \E t \in 1..Len(sends') :
                           cur'.post = sends'[t].post /\ ~Issued(pending', t)
    <3>1. ASSUME NEW t, ~Issued(pending, t) PROVE ~Issued(pending', t)
      BY <1>2, <3>1, NextInv DEF PendingShrinks, Issued, SentInv, IInv, TypeOK
    <3> QED
      BY <1>2, <3>1 DEF LinksOK
  <2> QED
    BY <1>2, <2>2, <2>3, <2>4 DEF LinksOK
<1>3. CASE IncomingEcho
  <2> DEFINE t == TmpOf(Head(gmq).msg)
  <2>1. pc' = "echo" /\ cur'.post = pending[t].post /\ Issued(pending, t)
        /\ pending' = TakePendingOutbound(pending, t) /\ UNCHANGED <<messages, sends>>
    BY <1>3 DEF IncomingEcho, Goto, NoWork, phoneVars
  <2>2. t \in Tmps
    BY <2>1 DEF Issued, SentInv, IInv, TypeOK
  <2>3. /\ t \in 1..Len(sends) /\ pending[t].post = sends[t].post
        /\ Unlinked(messages, sends[t].post)
    BY <2>1, <2>2 DEF LinksOK
  <2>4. ~Issued(pending', t)
    BY <2>1, <2>2 DEF TakePendingOutbound, Issued, SentInv, IInv, TypeOK
  <2> HIDE DEF t
  <2> QED
    BY <2>1, <2>3, <2>4
<1>4. CASE BackfillPost \/ PostMessage
  <2>1. /\ pc' \in {"bfsave", "save"} /\ cur'.post = Len(posts) + 1
        /\ UNCHANGED messages
        /\ \E m, chan, root : posts' = Append(posts, BridgePost("msg", m, chan, root))
    BY <1>4 DEF BackfillPost, PostMessage, Goto, Publish, dbVars, SentInv, IInv, TypeOK, Locals
  <2>2. /\ cur'.post \in 1..Len(posts') /\ posts'[cur'.post].author = "bridge"
    BY <2>1, Lengths DEF BridgePost, SentInv, IInv, TypeOK
  <2>3. Unlinked(messages', cur'.post)
    BY <2>1, Lengths DEF LinksOK, Unlinked
  <2> QED
    BY <2>1, <2>2, <2>3
<1>5. CASE SendPost
  <2>1. /\ pc' = "pend" /\ cur'.post = Head(mmq) /\ UNCHANGED messages
        /\ Head(mmq) = mmq[1] /\ 1 \in 1..Len(mmq)
    BY <1>5, PostTaken DEF SendPost, TakeMMEvent, Goto, NoWork, dbVars, SentInv
  <2>2. \E c, r : sends' = Append(sends, [post |-> Head(mmq), conv |-> c, reply |-> r])
    BY <1>5 DEF SendPost, Accepted
  <2>3. Len(sends') > 0 /\ sends'[Len(sends')].post = Head(mmq)
    BY <2>2, Lengths DEF SentInv, IInv, TypeOK
  <2>4. Unlinked(messages', cur'.post)
    BY <2>1 DEF LinksOK
  <2> QED
    BY <2>1, <2>3, <2>4
<1> QED
  BY <1>1, <1>2, <1>3, <1>4, <1>5, HoldingChanges DEF SentInv

LEMMA LinksInit == Init => LinksOK
<1> SUFFICES ASSUME Init PROVE LinksOK
  OBVIOUS
<1>1. /\ \A m \in Msgs : messages[m] = NoRow
      /\ \A t \in Tmps : ~Issued(pending, t)
      /\ pc = "idle" /\ posts = <<>> /\ mmq = <<>> /\ sends = <<>>
  BY DEF Init, Issued
<1>2. Len(posts) = 0 /\ Len(mmq) = 0
  BY <1>1, EmptySeq
<1>3. \A m \in Msgs : messages[m].post = 0 /\ ~Mapped(messages, m)
  BY <1>1 DEF NoRow, Mapped
<1> QED
  BY <1>1, <1>2, <1>3 DEF LinksOK, LinksAreInjective, Holding

LEMMA LinksStep == ASSUME SentInv, LinksOK, [Next]_vars PROVE LinksOK'
BY InjectiveStep, PendingStep, QueueStep, HeldStep DEF LinksOK

\* No two messages are ever mapped to one post, whatever the phone repeats and
\* whatever fails between a send, its pending row, its echo and the mapping: the
\* reverse lookup of a reply's target has one answer.
THEOREM LinksInjective == Spec => []LinksAreInjective
<1>1. Init => QueueOK /\ SentAtMostOnce
  BY EmptySeq DEF Init, QueueOK, SentAtMostOnce
<1>2. IInv /\ QueueOK /\ SentAtMostOnce /\ [Next]_vars => QueueOK' /\ SentAtMostOnce'
  BY SentStep
<1>3. IInv /\ QueueOK /\ SentAtMostOnce /\ LinksOK /\ [Next]_vars => LinksOK'
  BY LinksStep DEF SentInv
<1>4. LinksOK => LinksAreInjective
  BY DEF LinksOK
<1> QED
  BY <1>1, <1>2, <1>3, <1>4, LinksInit, Invariance, PTL DEF Spec

-----------------------------------------------------------------------------
(* Nothing is sent to the wrong person.                                     *)

\* Post r is a root post of conversation c, in channel chan.
IsRootOf(r, c, chan) ==
    /\ r \in 1..Len(posts) /\ posts[r].kind = "root"
    /\ posts[r].about = c /\ posts[r].chan = chan

\* A post with root r answers a post there is, in the same channel.
Answers(q) == q.root # 0 => q.root \in 1..Len(posts) /\ posts[q.root].chan = q.chan

\* Each conversation has a thread of its own, and no post that was sent is in
\* the thread about to be stored.
RootsOK ==
    /\ \A c \in Convs : conversations[c].root # 0 =>
          IsRootOf(conversations[c].root, c, conversations[c].chan)
    /\ pc = "conv" => cur.post = 0
    /\ pc = "thread" /\ cur.post # 0 =>
          /\ IsRootOf(cur.post, ConvOf(cur.msg), cur.chan)
          /\ \A t \in 1..Len(sends) : posts[sends[t].post].root # cur.post
    /\ \A p \in 1..Len(posts) : Answers(posts[p])

\* Post p is in the channel stored for the conversation of message m.
Beside(p, m) == m \in 1..Len(phone) /\ posts[p].chan = conversations[ConvOf(m)].chan

\* What stands for a message is a post in the channel of its conversation, and
\* what the phone sent for the bridge is in the conversation it was sent to.
PlacedOK ==
    /\ \A m \in 1..Len(phone) : TmpOf(m) # 0 =>
          TmpOf(m) \in 1..Len(sends) /\ ConvOf(m) = sends[TmpOf(m)].conv
    /\ \A m \in Msgs : messages[m].post # 0 => Beside(messages[m].post, m)
    /\ pc \in {"echo", "save", "bfsave"} => Beside(cur.post, cur.msg)
    /\ \A t \in 1..Len(sends) : sends[t].reply # 0 => sends[t].reply \in 1..Len(phone)

PlaceInv == SentInv /\ LinksOK /\ RootsOK /\ PlacedOK /\ NoMisdelivery

\* What was true of posts, messages, sends and stored conversations stays true.
LEMMA PlacesKept ==
    ASSUME PlaceInv, [Next]_vars
    PROVE  /\ \A p \in 1..Len(posts) :
                /\ p \in 1..Len(posts') /\ posts[p].chan \in Channels
                /\ posts'[p].chan = posts[p].chan /\ posts'[p].root = posts[p].root
                /\ posts'[p].kind = posts[p].kind /\ posts'[p].about = posts[p].about
           /\ \A m \in 1..Len(phone) :
                m \in 1..Len(phone') /\ phone'[m] = phone[m] /\ ConvOf(m) \in Convs
           /\ \A t \in 1..Len(sends) :
                /\ t \in 1..Len(sends') /\ sends'[t] = sends[t]
                /\ sends[t].conv \in Convs /\ sends[t].post \in 1..Len(posts)
           /\ \A c \in Convs : conversations[c].chan \in Channels
                                => conversations'[c] = conversations[c]
<1>1. \A p \in 1..Len(posts) :
        /\ p \in 1..Len(posts') /\ posts[p].chan \in Channels
        /\ posts'[p].chan = posts[p].chan /\ posts'[p].root = posts[p].root
        /\ posts'[p].kind = posts[p].kind /\ posts'[p].about = posts[p].about
  <2>1. posts \in Seq(Posts)
    BY DEF PlaceInv, SentInv, IInv, TypeOK
  <2>2. ASSUME NEW p \in 1..Len(posts) PROVE posts[p].chan \in Channels
    <3>1. posts[p] \in Posts
      BY <2>1, ElementOfSeq
    <3> QED
      BY <3>1 DEF Posts
  <2> QED
    BY <2>2, Lengths DEF PlaceInv, PostsKept
<1>2. \A m \in 1..Len(phone) :
        m \in 1..Len(phone') /\ phone'[m] = phone[m] /\ ConvOf(m) \in Convs
  BY PhoneKept, MessageType DEF PlaceInv, SentInv, IInv
<1>3. \A t \in 1..Len(sends) :
        /\ t \in 1..Len(sends') /\ sends'[t] = sends[t]
        /\ sends[t].conv \in Convs /\ sends[t].post \in 1..Len(posts)
  <2>1. sends \in Seq(Sends)
    BY DEF PlaceInv, SentInv, IInv, TypeOK, Sends
  <2>2. ASSUME NEW t \in 1..Len(sends) PROVE sends[t].conv \in Convs
    <3>1. sends[t] \in Sends
      BY <2>1, ElementOfSeq
    <3> QED
      BY <3>1 DEF Sends
  <2> QED
    BY <2>2, Lengths DEF PlaceInv, SentInv, QueueOK
<1>4. \A c \in Convs : conversations[c].chan \in Channels
                         => conversations'[c] = conversations[c]
  BY ThreadsStep, NoneAssumption DEF PlaceInv, SentInv, Stored, NoConversation
<1> QED
  BY <1>1, <1>2, <1>3, <1>4

\* ensureConversation begins in one way, and opens a thread in one way.
LEMMA OpeningChanges ==
    ASSUME [Next]_vars
    PROVE  \/ pc' \notin {"conv", "thread"}
           \/ UNCHANGED <<pc, cur, sends>>
           \/ IncomingNew \/ OpenConversation
<1>1. CASE TakeGM /\ ~IncomingNew
  BY <1>1 DEF TakeGM, IncomingEcho, IncomingKnown, IncomingIgnored, IncomingFails, Goto,
     phoneVars, workVars
<1>2. CASE TakeMM
  BY <1>2 DEF TakeMM, OutgoingIgnored, LookupFails, AttachmentsFail, SendPost, SendFails,
     TakeMMEvent, MMEvent, Goto, workVars
<1>3. CASE HandlerStep /\ ~OpenConversation
  BY <1>3 DEF HandlerStep, RecordEcho, SaveFails, EnsureKnown, OpenFails,
     StoreConversation, FetchHistory, BackfillPost, BackfillSave, BackfillEnds, PostMessage,
     PostMessageFails, RecordMessage, RecordSend, RecordSendFails, Done, Goto
<1>4. CASE PrunePending \/ Crash \/ Restart \/ UNCHANGED vars
  BY <1>4 DEF PrunePending, Crash, Restart, Goto, phoneVars, workVars, vars
<1>5. CASE Environment
  BY <1>5 DEF Environment, PhoneReceives, PhoneComposes, PhoneSends, Hold, PhonePushes,
     HumanPosts, EchoIsLate, phoneVars, workVars
<1> QED
  BY <1>1, <1>2, <1>3, <1>4, <1>5 DEF Next, Process, Waiting

LEMMA RootStays ==
    ASSUME PlaceInv, [Next]_vars, NEW r, NEW c, NEW chan, IsRootOf(r, c, chan)
    PROVE  IsRootOf(r, c, chan)'
BY PlacesKept DEF IsRootOf

LEMMA ThreadRootsStep ==
    ASSUME PlaceInv, [Next]_vars, NEW c \in Convs, conversations'[c].root # 0
    PROVE  IsRootOf(conversations[c].root, c, conversations[c].chan)'
<1>1. CASE conversations'[c] = conversations[c]
  <2>1. IsRootOf(conversations[c].root, c, conversations[c].chan)
    BY <1>1 DEF PlaceInv, RootsOK
  <2> QED
    BY <1>1, <2>1, PlacesKept DEF IsRootOf
<1>2. CASE conversations'[c] # conversations[c]
  <2>1. StoreConversation /\ pc = "thread" /\ c = ConvOf(cur.msg)
        /\ conversations'[c] = [chan |-> cur.chan, root |-> cur.post]
    BY <1>2, ConversationsChange
       DEF StoreConversation, SaveConversation, PlaceInv, SentInv, IInv, TypeOK
  <2>2. IsRootOf(cur.post, c, cur.chan)
    BY <2>1 DEF PlaceInv, RootsOK
  <2> QED
    BY <2>1, <2>2, PlacesKept DEF IsRootOf
<1> QED
  BY <1>1, <1>2

LEMMA OpeningStep ==
    ASSUME PlaceInv, [Next]_vars
    PROVE  /\ pc' = "conv" => cur'.post = 0
           /\ pc' = "thread" /\ cur'.post # 0 =>
                 /\ IsRootOf(cur.post, ConvOf(cur.msg), cur.chan)'
                 /\ \A t \in 1..Len(sends') : posts'[sends'[t].post].root # cur'.post
<1>1. CASE pc' \notin {"conv", "thread"}
  BY <1>1
<1>2. CASE UNCHANGED <<pc, cur, sends>>
  <2>1. CASE pc = "thread" /\ cur.post # 0
    <3>1. cur.msg \in 1..Len(phone)
      BY <2>1 DEF PlaceInv, SentInv, IInv, WorkOK, OnMessage
    <3>2. ConvOf(cur.msg)' = ConvOf(cur.msg)
      BY <1>2, <3>1, PlacesKept DEF ConvOf
    <3>3. IsRootOf(cur.post, ConvOf(cur.msg), cur.chan)
          /\ \A t \in 1..Len(sends) : posts[sends[t].post].root # cur.post
      BY <2>1 DEF PlaceInv, RootsOK
    <3>4. \A t \in 1..Len(sends') : posts'[sends'[t].post].root # cur'.post
      BY <1>2, <3>3, PlacesKept
    <3>5. IsRootOf(cur.post, ConvOf(cur.msg), cur.chan)'
      BY <1>2, <3>2, <3>3, PlacesKept DEF IsRootOf
    <3> QED
      BY <1>2, <2>1, <3>4, <3>5
  <2>2. CASE pc = "conv"
    BY <1>2, <2>2 DEF PlaceInv, RootsOK
  <2> QED
    BY <1>2, <2>1, <2>2
<1>3. CASE IncomingNew
  BY <1>3 DEF IncomingNew, Goto, NoWork
<1>4. CASE OpenConversation
  <2> DEFINE c == ConvOf(cur.msg)
             n == Len(posts) + 1
  <2>1. /\ pc = "conv" /\ cur.post = 0 /\ cur \in Locals /\ cur.msg \in 1..Len(phone)
        /\ pc' = "thread" /\ UNCHANGED <<phone, sends>>
    BY <1>4 DEF OpenConversation, Goto, phoneVars, PlaceInv, SentInv, IInv, TypeOK, RootsOK,
       WorkOK, OnMessage
  <2>2. c \in Convs /\ settings.route[c] \in Channels
    BY <2>1, RoutedChannel DEF PlaceInv, SentInv, IInv
  <2>3. CASE ~settings.threads
    BY <1>4, <2>1, <2>3 DEF OpenConversation, Goto, Locals
  <2>4. CASE settings.threads
    <3>1. /\ cur' = [cur EXCEPT !.chan = settings.route[c], !.post = n]
          /\ Publish("root", c, settings.route[c], 0)
      BY <1>4, <2>4 DEF OpenConversation, Goto
    <3>2. cur'.msg = cur.msg /\ cur'.chan = settings.route[c] /\ cur'.post = n
      BY <2>1, <3>1 DEF Locals
    <3>3. PostAdded(BridgePost("root", c, settings.route[c], 0))
      BY <2>2, <3>1, PublishPost DEF PlaceInv, SentInv, IInv
    <3>4. n \in 1..Len(posts') /\ posts'[n] = BridgePost("root", c, settings.route[c], 0)
      BY <3>3, Lengths DEF PostAdded, PlaceInv
    <3>5. IsRootOf(cur.post, ConvOf(cur.msg), cur.chan)'
      BY <2>1, <3>2, <3>4 DEF IsRootOf, BridgePost, ConvOf
    <3>6. \A t \in 1..Len(sends) : posts[sends[t].post].root # n
      <4>1. \A p \in 1..Len(posts) : posts[p].root # n
        BY Lengths DEF PlaceInv, RootsOK, Answers
      <4> QED
        BY <4>1, PlacesKept
    <3>7. \A t \in 1..Len(sends') : posts'[sends'[t].post].root # cur'.post
      BY <2>1, <3>2, <3>6, PlacesKept
    <3> QED
      BY <2>1, <3>5, <3>7
  <2> QED
    BY <2>3, <2>4
<1> QED
  BY <1>1, <1>2, <1>3, <1>4, OpeningChanges

LEMMA AnswersStep ==
    ASSUME PlaceInv, [Next]_vars, NEW p \in 1..Len(posts')
    PROVE  Answers(posts[p])'
<1>0. Len(posts) \in Nat
  BY Lengths DEF PlaceInv
<1>1. CASE p \in 1..Len(posts)
  <2>1. Answers(posts[p])
    BY <1>1 DEF PlaceInv, RootsOK
  <2> QED
    BY <1>1, <2>1, PlacesKept DEF Answers
<1>2. CASE p \notin 1..Len(posts)
  <2>1. PICK q : PostAdded(q) /\ Sound(q)
    BY <1>0, <1>2, StepAddsPosts DEF NoPostAdded, PlaceInv, SentInv
  <2>2. posts'[p] = q /\ q \in Posts
    <3>1. p = Len(posts) + 1 /\ posts'[p] = q /\ posts' \in Seq(Posts)
      BY <1>0, <1>2, <2>1 DEF PostAdded, PostsKept
    <3> QED
      BY <3>1, ElementOfSeq
  <2>3. q.root # 0 => q.root \in 1..Len(posts) /\ posts[q.root].chan = q.chan
    <3>1. CASE q.kind = "msg"
      <4>1. /\ pc \in InThread
            /\ q.root = conversations[ConvOf(cur.msg)].root
            /\ q.chan = conversations[ConvOf(cur.msg)].chan
        BY <2>1, <3>1 DEF Sound, IsCopyOf, BridgePost, Destination
      <4>2. ConvOf(cur.msg) \in Convs
        BY <4>1, PlaceOfMessage DEF PlaceInv, SentInv
      <4> QED
        BY <4>1, <4>2 DEF PlaceInv, RootsOK, IsRootOf
    <3>2. CASE q.kind = "root"
      BY <2>1, <3>2 DEF Sound
    <3>3. CASE q.kind = "notice"
      <4>1. PICK r \in 1..Len(posts) : q.chan = posts[r].chan /\ q.root = ThreadRoot(r)
        BY <2>1, <3>3 DEF Sound
      <4>2. Answers(posts[r])
        BY DEF PlaceInv, RootsOK
      <4> QED
        BY <4>1, <4>2 DEF ThreadRoot, Answers
    <3>4. CASE q.kind = "typed"
      BY <1>0, <2>1, <3>4 DEF Sound
    <3> QED
      BY <2>2, <3>1, <3>2, <3>3, <3>4 DEF Posts
  <2> QED
    BY <2>2, <2>3, PlacesKept DEF Answers
<1> QED
  BY <1>1, <1>2

LEMMA RootsStep == ASSUME PlaceInv, [Next]_vars PROVE RootsOK'
BY ThreadRootsStep, OpeningStep, AnswersStep DEF RootsOK

\* Where a post may be sent, and what it may quote.
LEMMA SentWhereTyped ==
    ASSUME PlaceInv, MMEvent, NEW c \in Convs, NEW r, ToSend(Head(mmq), c, r)
    PROVE  /\ conversations[c].chan = posts[Head(mmq)].chan
           /\ \A d \in Convs :
                posts[Head(mmq)].root # 0 /\ conversations[d].root = posts[Head(mmq)].root
                  => d = c
           /\ r # 0 => r \in 1..Len(phone) /\ ConvOf(r) = c
<1> DEFINE p == Head(mmq)
<1>1. p \in 1..Len(posts) /\ Answers(posts[p])
  BY PostTaken DEF PlaceInv, SentInv, RootsOK
<1>2. c \in ConversationForPost(p) /\ (r \in ReplyTargets(p, c) \/ r = 0)
  BY DEF ToSend
<1> HIDE DEF p
<1>3. \A d \in Convs : conversations[d].root # 0 =>
                         IsRootOf(conversations[d].root, d, conversations[d].chan)
  BY DEF PlaceInv, RootsOK
<1>4. CASE settings.threads
  <2>1. ThreadRoot(p) # 0 /\ conversations[c].root = ThreadRoot(p)
    BY <1>2, <1>4 DEF ConversationForPost, ByRootPost
  <2>2. IsRootOf(ThreadRoot(p), c, conversations[c].chan)
    BY <1>3, <2>1
  <2>3. conversations[c].chan = posts[p].chan
    BY <1>1, <2>2 DEF ThreadRoot, Answers, IsRootOf
  <2>4. ASSUME NEW d \in Convs, posts[p].root # 0, conversations[d].root = posts[p].root
        PROVE  d = c
    BY <1>3, <2>2, <2>4 DEF ThreadRoot, IsRootOf
  <2>5. r = 0
    BY <1>2, <2>1 DEF ReplyTargets, ThreadRoot
  <2> QED
    BY <2>3, <2>4, <2>5 DEF p
<1>5. CASE ~settings.threads
  <2>1. /\ conversations[c].chan = posts[p].chan
        /\ \A d \in Convs : conversations[d].chan = posts[p].chan => d = c
    BY <1>2, <1>5 DEF ConversationForPost, SoleInChannel, InChannel
  <2>2. ASSUME NEW d \in Convs, posts[p].root # 0, conversations[d].root = posts[p].root
        PROVE  d = c
    BY <1>1, <1>3, <2>1, <2>2 DEF IsRootOf, Answers
  <2>3. ASSUME r # 0 PROVE r \in 1..Len(phone) /\ ConvOf(r) = c
    <3>1. r \in Msgs /\ posts[p].root # 0 /\ messages[r].post = posts[p].root
      BY <1>2, <2>3 DEF ReplyTargets, MessagesByPost, PlaceInv, SentInv, IInv, TypeOK
    <3>2. Beside(posts[p].root, r)
      BY <3>1 DEF PlaceInv, PlacedOK
    <3>3. r \in 1..Len(phone) /\ conversations[ConvOf(r)].chan = posts[p].chan
      BY <1>1, <3>1, <3>2 DEF Beside, Answers
    <3>4. ConvOf(r) \in Convs
      BY <3>3, MessageType DEF PlaceInv, SentInv, IInv
    <3> QED
      BY <2>1, <3>3, <3>4
  <2> QED
    BY <2>1, <2>2, <2>3 DEF p
<1> QED
  BY <1>4, <1>5

\* Only a handler of a post gives the phone something to send.
LEMMA SendersSend ==
    ASSUME IInv, [Next]_vars
    PROVE  UNCHANGED sends \/ SendPost \/ SendFails
<1>1. CASE TakeGM
  BY <1>1 DEF TakeGM, IncomingEcho, IncomingKnown, IncomingNew, IncomingIgnored,
     IncomingFails, phoneVars
<1>2. CASE TakeMM
  BY <1>2 DEF TakeMM, OutgoingIgnored, LookupFails, AttachmentsFail, phoneVars
<1>3. CASE PrunePending \/ Crash \/ Restart \/ UNCHANGED vars
  BY <1>3 DEF PrunePending, Crash, Restart, vars, phoneVars
<1>4. CASE Environment
  BY <1>4 DEF Environment, PhoneReceives, PhoneComposes, PhoneSends, Hold, PhonePushes,
     HumanPosts, EchoIsLate, phoneVars
<1> QED
  BY <1>1, <1>2, <1>3, <1>4, HandlerKeepsQueue DEF Next, Process, Waiting

\* The phone is only ever given what a handler looked up for the oldest post; a
\* reply may be sent without its target.
LEMMA SendsChange ==
    ASSUME IInv, [Next]_vars
    PROVE  \/ UNCHANGED sends
           \/ /\ MMEvent /\ UNCHANGED <<phone, conversations>>
              /\ \E c \in Convs, target, r \in Msgs \cup {0} :
                    /\ ToSend(Head(mmq), c, target) /\ r \in {target, 0}
                    /\ Accepted(Head(mmq), c, r)
<1> SUFFICES ASSUME SendPost \/ SendFails
             PROVE  \/ UNCHANGED sends
                    \/ /\ MMEvent /\ UNCHANGED <<phone, conversations>>
                       /\ \E c \in Convs, target, r \in Msgs \cup {0} :
                             /\ ToSend(Head(mmq), c, target) /\ r \in {target, 0}
                             /\ Accepted(Head(mmq), c, r)
  BY SendersSend
<1>1. MMEvent /\ UNCHANGED <<phone, conversations>>
  BY DEF SendPost, SendFails, TakeMMEvent, dbVars
<1>2. \/ UNCHANGED sends
      \/ \E c \in Convs, r \in Msgs \cup {0} :
            ToSend(Head(mmq), c, r) /\ (Accepted(Head(mmq), c, r) \/ Accepted(Head(mmq), c, 0))
  BY DEF SendPost, SendFails
<1> QED
  BY <1>1, <1>2

LEMMA BesideStays ==
    ASSUME PlaceInv, [Next]_vars, NEW p \in 1..Len(posts), NEW m, Beside(p, m)
    PROVE  Beside(p, m)'
BY PlacesKept DEF Beside, ConvOf

LEMMA PhoneSentStep ==
    ASSUME PlaceInv, [Next]_vars
    PROVE  \A m \in 1..Len(phone') : TmpOf(m)' # 0 =>
              TmpOf(m)' \in 1..Len(sends') /\ ConvOf(m)' = sends'[TmpOf(m)'].conv
<1>1. \A m \in 1..Len(phone) : phone[m].tmp # 0 =>
        phone[m].tmp \in 1..Len(sends) /\ phone[m].conv = sends[phone[m].tmp].conv
  BY DEF PlaceInv, PlacedOK, TmpOf, ConvOf
<1>2. \A m \in 1..Len(phone) : phone'[m].tmp # 0 =>
        phone'[m].tmp \in 1..Len(sends') /\ phone'[m].conv = sends'[phone'[m].tmp].conv
  BY <1>1, PlacesKept
<1>3. ASSUME NEW conv, NEW tmp, NEW mine, Hold(conv, tmp, mine),
             tmp # 0 => tmp \in 1..Len(sends) /\ conv = sends[tmp].conv,
             NEW m \in 1..Len(phone'), phone'[m].tmp # 0
      PROVE  phone'[m].tmp \in 1..Len(sends') /\ phone'[m].conv = sends'[phone'[m].tmp].conv
  <2>1. Len(phone) \in Nat
    BY PhoneKept DEF PlaceInv, SentInv
  <2>2. /\ m \in 1..Len(phone) \/ m = Len(phone) + 1
        /\ phone'[Len(phone) + 1] = [conv |-> conv, tmp |-> tmp, mine |-> mine]
    <3> DEFINE S == [conv : Convs, tmp : Tmps \cup {0}, mine : BOOLEAN]
               new == [conv |-> conv, tmp |-> tmp, mine |-> mine]
    <3>1. phone \in Seq(S)
      BY DEF PlaceInv, SentInv, IInv, TypeOK
    <3>2. phone' = Append(phone, new) /\ m \in 1..Len(phone')
      BY <1>3 DEF Hold
    <3> HIDE DEF S, new
    <3>3. Len(Append(phone, new)) = Len(phone) + 1 /\ Append(phone, new)[Len(phone) + 1] = new
      BY <3>1
    <3> QED
      BY <2>1, <3>2, <3>3 DEF new
  <2>3. CASE m \in 1..Len(phone)
    BY <1>2, <1>3, <2>3
  <2>4. CASE m = Len(phone) + 1
    <3>1. phone'[m].tmp = tmp /\ phone'[m].conv = conv /\ tmp \in 1..Len(sends)
          /\ conv = sends[tmp].conv
      BY <1>3, <2>2, <2>4
    <3>2. tmp \in 1..Len(sends') /\ sends'[tmp] = sends[tmp]
      BY <3>1, PlacesKept
    <3> QED
      BY <3>1, <3>2
  <2> QED
    BY <2>2, <2>3, <2>4
<1>4. ASSUME UNCHANGED phone, NEW m \in 1..Len(phone'), phone'[m].tmp # 0
      PROVE  phone'[m].tmp \in 1..Len(sends') /\ phone'[m].conv = sends'[phone'[m].tmp].conv
  BY <1>2, <1>4
<1>5. ASSUME NEW t \in 1..Len(sends), PhoneSends(t)
      PROVE  Hold(sends[t].conv, t, TRUE)
  BY <1>5 DEF PhoneSends
<1>6. \A m \in 1..Len(phone') : phone'[m].tmp # 0 =>
        phone'[m].tmp \in 1..Len(sends') /\ phone'[m].conv = sends'[phone'[m].tmp].conv
  BY <1>3, <1>4, <1>5, PhoneChanges
<1> QED
  BY <1>6 DEF TmpOf, ConvOf

\* The post that is linked is beside the message it is linked to.
LEMMA LinkedBeside ==
    ASSUME PlaceInv, [Next]_vars, NEW m \in Msgs, messages'[m].post # 0
    PROVE  Beside(messages[m].post, m)'
<1>1. CASE messages'[m].post = messages[m].post
  <2>1. Beside(messages[m].post, m) /\ messages[m].post \in 1..Len(posts)
    BY <1>1, Lengths DEF PlaceInv, PlacedOK, LinksOK
  <2>2. PICK p \in 1..Len(posts) : p = messages[m].post /\ Beside(p, m)
    BY <2>1
  <2>3. Beside(p, m)'
    BY <2>2, BesideStays
  <2> QED
    BY <1>1, <2>2, <2>3 DEF Beside
<1>2. CASE messages'[m].post # messages[m].post
  <2>1. RecordEcho \/ BackfillSave \/ RecordMessage
    BY <1>2, LinksChange DEF LinksSame, PlaceInv, SentInv
  <2>2. /\ pc \in {"echo", "save", "bfsave"} /\ messages'[m].post = cur.post
        /\ m \in 1..Len(phone) /\ ConvOf(m) = ConvOf(cur.msg)
    <3>1. CASE RecordEcho \/ RecordMessage
      <4>1. /\ pc \in {"echo", "save"} /\ cur.msg \in 1..Len(phone)
            /\ \E status : messages' = SaveMessage(messages, cur.msg, cur.post, status)
        BY <3>1 DEF RecordEcho, RecordMessage, PlaceInv, SentInv, IInv, WorkOK, OnMessage
      <4> QED
        BY <1>2, <4>1 DEF SaveMessage, PlaceInv, SentInv, IInv, TypeOK
    <3>2. CASE BackfillSave
      <4>1. PICK n \in cur.todo :
              \E status : messages' = SaveMessage(messages, n, cur.post, status)
        BY <3>2 DEF BackfillSave
      <4>2. n \in 1..Len(phone) /\ ConvOf(n) = ConvOf(cur.msg)
        BY DEF PlaceInv, SentInv, IInv, WorkOK
      <4>3. m = n /\ messages'[m].post = cur.post
        BY <1>2, <4>1 DEF SaveMessage, PlaceInv, SentInv, IInv, TypeOK
      <4> QED
        BY <3>2, <4>2, <4>3 DEF BackfillSave
    <3> QED
      BY <2>1, <3>1, <3>2
  <2>3. Beside(cur.post, cur.msg) /\ cur.post \in 1..Len(posts)
    BY <2>2, HeldPost DEF PlaceInv, PlacedOK
  <2>4. posts[cur.post].chan \in Channels /\ posts'[cur.post].chan = posts[cur.post].chan
    BY <2>3, PlacesKept
  <2>5. m \in 1..Len(phone') /\ phone'[m] = phone[m] /\ ConvOf(m) \in Convs
    BY <2>2, PlacesKept
  <2>6. conversations[ConvOf(m)].chan = posts[cur.post].chan
    BY <2>2, <2>3 DEF Beside
  <2>7. conversations'[ConvOf(m)] = conversations[ConvOf(m)]
    BY <2>4, <2>5, <2>6, PlacesKept
  <2> QED
    BY <2>2, <2>4, <2>5, <2>6, <2>7 DEF Beside, ConvOf
<1> QED
  BY <1>1, <1>2

LEMMA HeldBeside ==
    ASSUME PlaceInv, [Next]_vars, pc' \in {"echo", "save", "bfsave"}
    PROVE  Beside(cur.post, cur.msg)'
<1>1. CASE UNCHANGED <<pc, cur, sends>>
  <2>1. Beside(cur.post, cur.msg) /\ cur.post \in 1..Len(posts)
    BY <1>1, HeldPost DEF PlaceInv, PlacedOK
  <2> QED
    BY <1>1, <2>1, PlacesKept DEF Beside, ConvOf
<1>2. CASE IncomingEcho
  <2> DEFINE m == Head(gmq).msg
             t == TmpOf(m)
  <2>1. /\ m \in 1..Len(phone) /\ cur'.msg = m /\ cur'.post = pending[t].post
        /\ Issued(pending, t) /\ UNCHANGED <<phone, posts, conversations>>
    BY <1>2, EventTaken DEF IncomingEcho, Goto, NoWork, phoneVars, PlaceInv, SentInv
  <2>2. t \in Tmps /\ t # 0
    BY <2>1 DEF Issued, Tmps, PlaceInv, SentInv, IInv, TypeOK
  <2>3. t \in 1..Len(sends) /\ pending[t].post = sends[t].post /\ ConvOf(m) = sends[t].conv
    BY <2>1, <2>2 DEF PlaceInv, LinksOK, PlacedOK
  <2>4. conversations[sends[t].conv].chan = posts[sends[t].post].chan
    BY <2>3 DEF PlaceInv, NoMisdelivery
  <2> HIDE DEF m, t
  <2> QED
    BY <2>1, <2>3, <2>4 DEF Beside, ConvOf
<1>3. CASE BackfillPost \/ PostMessage
  <2>1. /\ pc \in InThread /\ UNCHANGED <<phone, conversations>>
        /\ cur' = [cur EXCEPT !.post = Len(posts) + 1] /\ cur \in Locals
        /\ \E m : posts' = Append(posts, BridgePost("msg", m, Destination(cur.msg).chan,
                                                   Destination(cur.msg).root))
    BY <1>3 DEF BackfillPost, PostMessage, Goto, Publish, InThread, phoneVars, dbVars,
       PlaceInv, SentInv, IInv, TypeOK
  <2>2. posts'[Len(posts) + 1].chan = Destination(cur.msg).chan
    BY <2>1, Lengths DEF BridgePost, PlaceInv, SentInv, IInv, TypeOK
  <2>3. cur'.msg = cur.msg /\ cur'.post = Len(posts) + 1 /\ cur.msg \in 1..Len(phone)
    BY <2>1, PlaceOfMessage DEF Locals, PlaceInv, SentInv
  <2> QED
    BY <2>1, <2>2, <2>3 DEF Beside, Destination, ConvOf
<1>4. CASE SendPost
  BY <1>4 DEF SendPost, Goto
<1> QED
  BY <1>1, <1>2, <1>3, <1>4, HoldingChanges DEF Holding, PlaceInv, SentInv

LEMMA NoMisdeliveryStep ==
    ASSUME PlaceInv, [Next]_vars
    PROVE  /\ NoMisdelivery'
           /\ \A t \in 1..Len(sends') : sends'[t].reply # 0 => sends'[t].reply \in 1..Len(phone')
<1> DEFINE Good(t) ==
             LET post == posts[sends[t].post] IN
             /\ conversations[sends[t].conv].chan = post.chan
             /\ \A c \in Convs :
                  post.root # 0 /\ conversations[c].root = post.root => c = sends[t].conv
             /\ sends[t].reply # 0 => ConvOf(sends[t].reply) = sends[t].conv
<1>1. ASSUME NEW t \in 1..Len(sends)
      PROVE  Good(t)' /\ (sends'[t].reply # 0 => sends'[t].reply \in 1..Len(phone'))
  <2>1. Good(t) /\ (sends[t].reply # 0 => sends[t].reply \in 1..Len(phone))
    BY DEF PlaceInv, NoMisdelivery, PlacedOK
  <2>2. /\ sends'[t] = sends[t] /\ sends[t].conv \in Convs
        /\ posts'[sends[t].post].chan = posts[sends[t].post].chan
        /\ posts'[sends[t].post].root = posts[sends[t].post].root
        /\ posts[sends[t].post].chan \in Channels
    BY PlacesKept
  <2>3. conversations'[sends[t].conv].chan = posts[sends[t].post].chan
    BY <2>1, <2>2, PlacesKept
  <2>4. ASSUME NEW c \in Convs, posts[sends[t].post].root # 0,
               conversations'[c].root = posts[sends[t].post].root
        PROVE  c = sends[t].conv
    <3>1. CASE conversations'[c] = conversations[c]
      BY <2>1, <2>4, <3>1
    <3>2. CASE conversations'[c] # conversations[c]
      <4>1. pc = "thread" /\ conversations'[c].root = cur.post
        BY <3>2, ConversationsChange
           DEF StoreConversation, SaveConversation, PlaceInv, SentInv, IInv, TypeOK
      <4> QED
        BY <2>4, <4>1 DEF PlaceInv, RootsOK
    <3> QED
      BY <3>1, <3>2
  <2>5. sends[t].reply # 0 => /\ sends[t].reply \in 1..Len(phone')
                              /\ phone'[sends[t].reply].conv = sends[t].conv
    BY <2>1, PlacesKept DEF ConvOf
  <2> QED
    BY <2>2, <2>3, <2>4, <2>5 DEF ConvOf
<1>2. CASE UNCHANGED sends
  BY <1>1, <1>2 DEF NoMisdelivery
<1>3. ASSUME NEW c \in Convs, NEW target \in Msgs \cup {0}, NEW r \in {target, 0},
             MMEvent, UNCHANGED <<phone, conversations>>,
             ToSend(Head(mmq), c, target), Accepted(Head(mmq), c, r)
      PROVE  \A t \in 1..Len(sends') :
                Good(t)' /\ (sends'[t].reply # 0 => sends'[t].reply \in 1..Len(phone'))
  <2> DEFINE p == Head(mmq)
             n == Len(sends) + 1
  <2>1. /\ Len(sends') = n /\ sends'[n] = [post |-> p, conv |-> c, reply |-> r]
        /\ Len(sends) \in Nat
    BY <1>3, Lengths DEF Accepted, PlaceInv, SentInv, IInv, TypeOK
  <2>2. /\ posts'[p].chan = posts[p].chan /\ posts'[p].root = posts[p].root
    BY <1>3, PostTaken, PlacesKept DEF PlaceInv, SentInv
  <2>3. /\ conversations[c].chan = posts[p].chan
        /\ \A d \in Convs :
             posts[p].root # 0 /\ conversations[d].root = posts[p].root => d = c
        /\ target # 0 => target \in 1..Len(phone) /\ ConvOf(target) = c
    BY <1>3, SentWhereTyped
  <2>4. r # 0 => r \in 1..Len(phone) /\ phone[r].conv = c
    BY <2>3 DEF ConvOf
  <2> HIDE DEF p
  <2>5. ASSUME NEW t \in 1..Len(sends'), t = n
        PROVE  Good(t)' /\ (sends'[t].reply # 0 => sends'[t].reply \in 1..Len(phone'))
    <3>1. sends'[t].post = p /\ sends'[t].conv = c /\ sends'[t].reply = r
      BY <2>1, <2>5
    <3> QED
      BY <1>3, <2>2, <2>3, <2>4, <3>1 DEF ConvOf
  <2>6. \A t \in 1..Len(sends') : t \in 1..Len(sends) \/ t = n
    BY <2>1
  <2> HIDE DEF Good, n
  <2> QED
    BY <1>1, <2>5, <2>6
<1> QED
  BY <1>2, <1>3, SendsChange DEF NoMisdelivery, PlaceInv, SentInv

LEMMA PlacedStep == ASSUME PlaceInv, [Next]_vars PROVE PlacedOK'
BY PhoneSentStep, LinkedBeside, HeldBeside, NoMisdeliveryStep DEF PlacedOK

LEMMA PlaceInit == Init => RootsOK /\ PlacedOK /\ NoMisdelivery
<1> SUFFICES ASSUME Init PROVE RootsOK /\ PlacedOK /\ NoMisdelivery
  OBVIOUS
<1>1. /\ \A c \in Convs : conversations[c].root = 0
      /\ \A m \in Msgs : messages[m].post = 0
      /\ pc = "idle" /\ posts = <<>> /\ sends = <<>> /\ phone = <<>>
  BY DEF Init, NoConversation, NoRow
<1>2. Len(posts) = 0 /\ Len(sends) = 0 /\ Len(phone) = 0
  BY <1>1, EmptySeq
<1> QED
  BY <1>1, <1>2 DEF RootsOK, PlacedOK, NoMisdelivery

\* A post is only ever sent to the conversation in whose thread, or alone in
\* whose channel, it was typed, and quotes only messages of that conversation:
\* with and without backfill, through changes of the layout and the rules, and
\* whatever fails or is typed anywhere else (conversationForPost, replyTarget).
THEOREM NothingMisdelivered == Spec => []NoMisdelivery
<1>1. Init => QueueOK /\ SentAtMostOnce
  BY EmptySeq DEF Init, QueueOK, SentAtMostOnce
<1>2. IInv /\ QueueOK /\ SentAtMostOnce /\ [Next]_vars => QueueOK' /\ SentAtMostOnce'
  BY SentStep
<1>3. IInv /\ QueueOK /\ SentAtMostOnce /\ LinksOK /\ [Next]_vars => LinksOK'
  BY LinksStep DEF SentInv
<1>4. IInv /\ QueueOK /\ SentAtMostOnce /\ LinksOK /\ RootsOK /\ PlacedOK /\ NoMisdelivery
        /\ [Next]_vars => RootsOK' /\ PlacedOK' /\ NoMisdelivery'
  BY RootsStep, PlacedStep, NoMisdeliveryStep DEF PlaceInv, SentInv
<1> QED
  BY <1>1, <1>2, <1>3, <1>4, LinksInit, PlaceInit, Invariance, PTL DEF Spec

-----------------------------------------------------------------------------
(* Without backfill, a mapped message is never posted again.                *)

\* No configuration asks for a backfill.
NoBackfill == \A s \in Settings : s.backfill = 0

\* The steps of a handler that may post or map the message it works on.
Handling == {"echo", "conv", "thread", "post", "save"}

MapOK ==
    /\ pc \notin {"fetch", "backfill", "bfsave"}
    /\ \A m \in Msgs : Mapped(messages, m) =>
          /\ m \in 1..Len(phone) /\ ~Issued(pending, TmpOf(m))
          /\ pc = "pend" => TmpOf(m) # Len(sends)
    /\ \A m \in 1..Len(phone) : TmpOf(m) \in 0..Len(sends)
    /\ pc \in Handling => /\ ~Mapped(messages, cur.msg)
                          /\ ~Issued(pending, TmpOf(cur.msg))
    /\ pc = "save" => cur.post \in Copies(cur.msg)

\* All that is known when no backfill runs.
FullInv == SentInv /\ LinksOK /\ MapOK

-----------------------------------------------------------------------------
(* The parts of the invariant, one by one.                                  *)

LEMMA NoBackfillStep ==
    ASSUME NoBackfill, IInv, MapOK, [Next]_vars
    PROVE  pc' \notin {"fetch", "backfill", "bfsave"}
<1>1. pc \notin {"fetch", "backfill", "bfsave"} /\ settings.backfill = 0
  BY DEF NoBackfill, MapOK, IInv, TypeOK
<1>2. CASE TakeGM
  BY <1>1, <1>2 DEF TakeGM, IncomingEcho, IncomingKnown, IncomingNew, IncomingIgnored,
     IncomingFails, Goto, workVars
<1>3. CASE TakeMM
  BY <1>1, <1>3 DEF TakeMM, OutgoingIgnored, LookupFails, AttachmentsFail, SendPost,
     SendFails, Goto, workVars
<1>4. CASE HandlerStep
  <2>1. CASE StoreConversation
    <3>1. ~(settings.backfill > 0)
      BY <1>1
    <3> QED
      BY <2>1, <3>1 DEF StoreConversation, Goto
  <2>2. CASE RecordEcho \/ SaveFails \/ EnsureKnown \/ OpenConversation \/ OpenFails
             \/ PostMessage \/ PostMessageFails \/ RecordMessage \/ RecordSend
             \/ RecordSendFails
    BY <2>2 DEF RecordEcho, SaveFails, EnsureKnown, OpenConversation, OpenFails,
       PostMessage, PostMessageFails, RecordMessage, RecordSend, RecordSendFails, Done, Goto
  <2>3. CASE FetchHistory \/ BackfillPost \/ BackfillSave \/ BackfillEnds
    BY <1>1, <2>3 DEF FetchHistory, BackfillPost, BackfillSave, BackfillEnds
  <2> QED
    BY <1>4, <2>1, <2>2, <2>3 DEF HandlerStep
<1>5. CASE PrunePending \/ Crash \/ Restart \/ UNCHANGED vars
  BY <1>1, <1>5 DEF PrunePending, Crash, Restart, Goto, workVars, vars
<1>6. CASE Environment
  BY <1>1, <1>6 DEF Environment, PhoneReceives, PhoneComposes, PhoneSends, Hold,
     PhonePushes, HumanPosts, EchoIsLate, workVars
<1> QED
  BY <1>2, <1>3, <1>4, <1>5, <1>6 DEF Next, Process, Waiting

\* A handler takes up a message in one of two ways, and otherwise goes on with
\* the one it had.
LEMMA HandlingChanges ==
    ASSUME IInv, MapOK, [Next]_vars
    PROVE  \/ pc' \notin Handling
           \/ IncomingEcho \/ IncomingNew
           \/ /\ pc \in Handling /\ cur'.msg = cur.msg
              /\ UNCHANGED messages /\ PendingShrinks
<1>1. CASE TakeGM /\ ~IncomingEcho /\ ~IncomingNew
  BY <1>1 DEF TakeGM, IncomingKnown, IncomingIgnored, IncomingFails, TakeGMEvent, Handling,
     workVars
<1>2. CASE TakeMM
  BY <1>2 DEF TakeMM, OutgoingIgnored, LookupFails, AttachmentsFail, SendPost, SendFails,
     TakeMMEvent, MMEvent, Goto, Handling, workVars
<1>3. CASE EnsureKnown \/ OpenConversation \/ StoreConversation \/ PostMessage
  <2>1. /\ pc \in Handling /\ UNCHANGED <<messages, pending>>
        /\ cur' = cur \/ \E chan, post : \/ cur' = [cur EXCEPT !.chan = chan, !.post = post]
                                         \/ cur' = [cur EXCEPT !.chan = chan]
                                         \/ cur' = [cur EXCEPT !.post = post]
    BY <1>3 DEF EnsureKnown, OpenConversation, StoreConversation, PostMessage, Goto,
       Handling, dbVars
  <2>2. cur'.msg = cur.msg
    BY <2>1 DEF IInv, TypeOK, Locals
  <2>3. PendingShrinks
    BY <2>1 DEF PendingShrinks
  <2> QED
    BY <2>1, <2>2, <2>3
<1>4. CASE HandlerStep /\ ~(EnsureKnown \/ OpenConversation \/ StoreConversation
                            \/ PostMessage)
  BY <1>4 DEF HandlerStep, RecordEcho, SaveFails, OpenFails, FetchHistory, BackfillPost,
     BackfillSave, BackfillEnds, PostMessageFails, RecordMessage, RecordSend,
     RecordSendFails, Done, Goto, Handling, MapOK
<1>5. CASE PrunePending \/ Crash \/ Restart
  BY <1>5 DEF PrunePending, Crash, Restart, Goto, Handling, workVars
<1>6. CASE Environment \/ UNCHANGED vars
  <2>1. UNCHANGED <<pc, cur, messages>>
    BY <1>6 DEF Environment, PhoneReceives, PhoneComposes, PhoneSends, Hold, PhonePushes,
       HumanPosts, EchoIsLate, dbVars, workVars, vars
  <2>2. ~RecordSend \/ pc' \notin Handling
    BY DEF RecordSend, Done, Goto, Handling
  <2> QED
    BY <2>1, <2>2, PendingChanges
<1> QED
  BY <1>1, <1>2, <1>3, <1>4, <1>5, <1>6 DEF Next, Process, Waiting, HandlerStep

LEMMA TmpStep ==
    ASSUME SentInv, MapOK, [Next]_vars
    PROVE  \A m \in 1..Len(phone') : TmpOf(m)' \in 0..Len(sends')
<1>1. /\ Len(phone) \in Nat /\ Len(sends) \in Nat /\ Len(sends') \in Nat
      /\ Len(sends) <= Len(sends')
  BY Lengths, PhoneKept DEF SentInv
<1>2. \A m \in 1..Len(phone) : TmpOf(m) \in 0..Len(sends')
  BY <1>1 DEF MapOK
<1>3. CASE UNCHANGED phone
  BY <1>2, <1>3 DEF TmpOf
<1>4. ASSUME NEW conv, NEW tmp \in 0..Len(sends), NEW mine, Hold(conv, tmp, mine)
      PROVE  \A m \in 1..Len(phone') : TmpOf(m)' \in 0..Len(sends')
  <2>1. /\ Len(phone') = Len(phone) + 1 /\ phone'[Len(phone) + 1].tmp = tmp
        /\ \A m \in 1..Len(phone) : phone'[m] = phone[m]
    BY <1>1, <1>4 DEF Hold, SentInv, IInv, TypeOK
  <2>2. \A m \in 1..Len(phone') : m \in 1..Len(phone) \/ m = Len(phone) + 1
    BY <1>1, <2>1
  <2> QED
    BY <1>1, <1>2, <2>1, <2>2 DEF TmpOf
<1>5. ASSUME NEW t \in 1..Len(sends), PhoneSends(t)
      PROVE  \A m \in 1..Len(phone') : TmpOf(m)' \in 0..Len(sends')
  <2>1. t \in 0..Len(sends)
    BY <1>1
  <2>2. Hold(sends[t].conv, t, TRUE)
    BY <1>5 DEF PhoneSends
  <2> QED
    BY <1>4, <2>1, <2>2
<1>6. 0 \in 0..Len(sends)
  BY <1>1
<1> QED
  BY <1>3, <1>4, <1>5, <1>6, PhoneChanges

LEMMA StaysUnissued ==
    ASSUME IInv, [Next]_vars, PendingShrinks, NEW t, ~Issued(pending, t)
    PROVE  ~Issued(pending', t)
BY NextInv DEF PendingShrinks, Issued, IInv, TypeOK

\* Of two handlers only those that map the message they work on map a new one.
LEMMA NewlyMapped ==
    ASSUME IInv, MapOK, [Next]_vars, NEW m \in Msgs,
           ~Mapped(messages, m), Mapped(messages', m)
    PROVE  m = cur.msg /\ (RecordEcho \/ RecordMessage)
<1>1. CASE IncomingKnown
  BY <1>1 DEF IncomingKnown, UpdateMessageStatus, StatusChanges, Mapped, IInv, TypeOK
<1>2. CASE RecordEcho \/ RecordMessage
  BY <1>2 DEF RecordEcho, RecordMessage, SaveMessage, Mapped, IInv, TypeOK
<1>3. ~BackfillSave
  BY DEF BackfillSave, MapOK
<1> QED
  BY <1>1, <1>2, <1>3, MessagesChange

LEMMA MappedStep ==
    ASSUME SentInv, MapOK, [Next]_vars, NEW m \in Msgs, Mapped(messages', m)
    PROVE  /\ m \in 1..Len(phone') /\ ~Issued(pending', TmpOf(m)')
           /\ pc' = "pend" => TmpOf(m)' # Len(sends')
<1>1. CASE Mapped(messages, m)
  <2>1. /\ m \in 1..Len(phone) /\ ~Issued(pending, TmpOf(m))
        /\ TmpOf(m) \in 0..Len(sends)
        /\ pc = "pend" => TmpOf(m) # Len(sends)
    BY <1>1 DEF MapOK
  <2>2. m \in 1..Len(phone') /\ TmpOf(m)' = TmpOf(m)
    BY <2>1, PhoneKept DEF TmpOf, SentInv
  <2>3. ~Issued(pending', TmpOf(m))
    <3>1. CASE RecordSend
      BY <2>1, <3>1 DEF RecordSend, AddPendingOutbound, Issued, SentInv, IInv, TypeOK
    <3> QED
      BY <2>1, <3>1, PendingChanges, StaysUnissued DEF SentInv
  <2>4. pc' = "pend" => TmpOf(m) # Len(sends')
    <3>1. CASE SendPost
      <4>1. \E new : sends' = Append(sends, new)
        BY <3>1 DEF SendPost, Accepted
      <4> QED
        BY <2>1, <4>1, Lengths DEF SentInv, IInv, TypeOK
    <3>2. CASE IncomingEcho \/ BackfillPost \/ PostMessage
      BY <3>2 DEF IncomingEcho, BackfillPost, PostMessage, Goto
    <3> QED
      BY <2>1, <3>1, <3>2, HoldingChanges DEF SentInv, Holding
  <2> QED
    BY <2>2, <2>3, <2>4
<1>2. CASE ~Mapped(messages, m)
  <2>1. m = cur.msg /\ (RecordEcho \/ RecordMessage)
    BY <1>2, NewlyMapped DEF SentInv
  <2>2. /\ pc \in {"echo", "save"} /\ pc' = "idle" /\ UNCHANGED <<phone, pending>>
    BY <2>1 DEF RecordEcho, RecordMessage, Done, Goto, phoneVars
  <2>3. m \in 1..Len(phone) /\ ~Issued(pending, TmpOf(m))
    BY <2>1, <2>2 DEF MapOK, Handling, SentInv, IInv, WorkOK, OnMessage
  <2> QED
    BY <2>2, <2>3 DEF TmpOf
<1> QED
  BY <1>1, <1>2

LEMMA HandlingStep ==
    ASSUME SentInv, MapOK, [Next]_vars, pc' \in Handling
    PROVE  ~Mapped(messages', cur'.msg) /\ ~Issued(pending', TmpOf(cur.msg)')
<1>1. CASE IncomingEcho \/ IncomingNew
  <2> DEFINE m == Head(gmq).msg
             t == TmpOf(m)
  <2>1. /\ cur'.msg = m /\ UNCHANGED <<messages, phone>>
        /\ \/ Issued(pending, t) /\ pending' = TakePendingOutbound(pending, t)
           \/ ~Issued(pending, t) /\ ~Mapped(messages, m) /\ UNCHANGED pending
    BY <1>1 DEF IncomingEcho, IncomingNew, IsNew, Goto, NoWork, phoneVars, dbVars
  <2>2. m \in Msgs
    BY <1>1, EventTaken DEF IncomingEcho, IncomingNew, SentInv
  <2>3. ~Issued(pending', t)
    BY <2>1 DEF TakePendingOutbound, Issued, SentInv, IInv, TypeOK
  <2>4. ~Mapped(messages, m)
    BY <2>1, <2>2 DEF MapOK
  <2>5. TmpOf(cur.msg)' = t
    BY <2>1 DEF TmpOf
  <2> HIDE DEF t
  <2> QED
    BY <2>1, <2>3, <2>4, <2>5
<1>2. CASE pc \in Handling /\ cur'.msg = cur.msg /\ UNCHANGED messages /\ PendingShrinks
  <2>1. ~Mapped(messages, cur.msg) /\ ~Issued(pending, TmpOf(cur.msg))
    BY <1>2 DEF MapOK
  <2>2. cur.msg \in 1..Len(phone)
    BY <1>2 DEF SentInv, IInv, WorkOK, OnMessage, Handling
  <2>3. TmpOf(cur.msg)' = TmpOf(cur.msg)
    BY <1>2, <2>2, PhoneKept DEF TmpOf, SentInv
  <2> QED
    BY <1>2, <2>1, <2>3, StaysUnissued DEF SentInv
<1> QED
  BY <1>1, <1>2, HandlingChanges DEF SentInv

\* A step adds at most one post to the copies of a message.
LEMMA CopiesStep ==
    ASSUME IInv, NEW m
    PROVE  /\ NoPostAdded => Copies(m)' = Copies(m)
           /\ \A q : PostAdded(q) =>
                /\ q.kind = "msg" /\ q.about = m
                     => Copies(m)' = Copies(m) \cup {Len(posts) + 1}
                /\ q.kind # "msg" \/ q.about # m => Copies(m)' = Copies(m)
<1>1. Len(posts) \in Nat
  BY LenProperties DEF IInv, TypeOK
<1>2. ASSUME NoPostAdded PROVE Copies(m)' = Copies(m)
  BY <1>2 DEF NoPostAdded, PostsKept, Copies
<1>3. ASSUME NEW q, PostAdded(q)
      PROVE  Copies(m)' = Copies(m) \cup
               {p \in {Len(posts) + 1} : q.kind = "msg" /\ q.about = m}
  <2>1. \A p : p \in 1..Len(posts') <=> p \in 1..Len(posts) \/ p = Len(posts) + 1
    BY <1>1, <1>3 DEF PostAdded
  <2>2. \A p \in 1..Len(posts) : p \in Copies(m)' <=> p \in Copies(m)
    BY <1>3, <2>1 DEF PostAdded, PostsKept, Copies
  <2>3. Len(posts) + 1 \in Copies(m)' <=> q.kind = "msg" /\ q.about = m
    BY <1>3, <2>1 DEF PostAdded, Copies
  <2>4. Copies(m)' \subseteq 1..Len(posts') /\ Copies(m) \subseteq 1..Len(posts)
    BY DEF Copies
  <2> QED
    BY <2>1, <2>2, <2>3, <2>4
<1> QED
  BY <1>2, <1>3

\* postMessage leaves its handler with a copy of the message to map.
LEMMA SaveStep ==
    ASSUME NoBackfill, SentInv, MapOK, [Next]_vars, pc' = "save"
    PROVE  (cur.post \in Copies(cur.msg))'
<1>1. CASE PostMessage
  <2>1. /\ cur'.msg = cur.msg /\ cur'.post = Len(posts) + 1
        /\ PostAdded(BridgePost("msg", cur.msg, Destination(cur.msg).chan,
                                Destination(cur.msg).root))
    BY <1>1, PlaceOfMessage, PublishInThread
       DEF PostMessage, InThread, Goto, SentInv, IInv, TypeOK, Locals
  <2>2. posts'[Len(posts) + 1].kind = "msg" /\ posts'[Len(posts) + 1].about = cur.msg
    BY <2>1 DEF PostAdded, BridgePost
  <2>3. Len(posts) + 1 \in 1..Len(posts')
    BY <2>1, Lengths DEF PostAdded
  <2> QED
    BY <2>1, <2>2, <2>3 DEF Copies
<1>2. CASE UNCHANGED <<pc, cur, sends>> /\ PendingShrinks
  <2>1. cur.post \in Copies(cur.msg)
    BY <1>2 DEF MapOK
  <2>2. cur.post \in 1..Len(posts')
    BY <2>1, Lengths DEF Copies
  <2> QED
    BY <1>2, <2>1, <2>2, Lengths DEF Copies, PostsKept
<1> QED
  BY <1>1, <1>2, HoldingChanges
     DEF SentInv, Holding, IncomingEcho, BackfillPost, SendPost, Goto

LEMMA MapInit == Init => MapOK
<1> SUFFICES ASSUME Init PROVE MapOK
  OBVIOUS
<1>1. /\ \A m \in Msgs : ~Mapped(messages, m)
      /\ pc = "idle" /\ phone = <<>>
  BY DEF Init, Mapped
<1>2. Len(phone) = 0
  BY <1>1, EmptySeq
<1> QED
  BY <1>1, <1>2 DEF MapOK, Handling

LEMMA MapStep ==
    ASSUME NoBackfill, SentInv, MapOK, [Next]_vars
    PROVE  MapOK'
<1>1. pc' \notin {"fetch", "backfill", "bfsave"}
  BY NoBackfillStep DEF SentInv
<1>2. \A m \in Msgs : Mapped(messages', m) =>
        /\ m \in 1..Len(phone') /\ ~Issued(pending', TmpOf(m)')
        /\ pc' = "pend" => TmpOf(m)' # Len(sends')
  BY MappedStep
<1>3. \A m \in 1..Len(phone') : TmpOf(m)' \in 0..Len(sends')
  BY TmpStep
<1>4. pc' \in Handling => ~Mapped(messages', cur'.msg) /\ ~Issued(pending', TmpOf(cur.msg)')
  BY HandlingStep
<1>5. pc' = "save" => (cur.post \in Copies(cur.msg))'
  BY SaveStep
<1> QED
  BY <1>1, <1>2, <1>3, <1>4, <1>5 DEF MapOK

-----------------------------------------------------------------------------
(* What the posts and the mappings do together.                             *)

\* A post about a message is made only for the message the handler works on,
\* while that message is not mapped.
LEMMA OnlyNewIsPosted ==
    ASSUME FullInv, [Next]_vars
    PROVE  \/ NoPostAdded
           \/ \E q : PostAdded(q) /\ q.kind # "msg"
           \/ \E q : /\ PostAdded(q) /\ q.kind = "msg" /\ q.author = "bridge"
                     /\ q.about = cur.msg /\ cur.msg \in Msgs
                     /\ ~Mapped(messages, cur.msg)
<1>1. ASSUME NEW q, q.kind = "msg", Sound(q)
      PROVE  /\ q.author = "bridge" /\ q.about = cur.msg /\ cur.msg \in Msgs
             /\ ~Mapped(messages, cur.msg)
  <2>1. pc \in InThread /\ \E m : IsCopyOf(q, m)
    BY <1>1 DEF Sound
  <2>2. pc \in {"post", "save"} /\ cur.todo = {}
    BY <2>1 DEF InThread, FullInv, MapOK, SentInv, IInv, WorkOK
  <2>3. q.about = cur.msg /\ q.author = "bridge" /\ cur.msg \in 1..Len(phone)
    BY <2>1, <2>2 DEF IsCopyOf, BridgePost
  <2>4. cur.msg \in Msgs
    BY <2>3, LenProperties, BoundsAssumption DEF FullInv, SentInv, IInv, TypeOK, RefsOK, Msgs
  <2>5. ~Mapped(messages, cur.msg)
    BY <2>2 DEF FullInv, MapOK, Handling
  <2> QED
    BY <2>3, <2>4, <2>5
<1> QED
  BY <1>1, StepAddsPosts DEF FullInv, SentInv

LEMMA MappedKeepsCopies ==
    ASSUME FullInv, [Next]_vars, NEW m \in Msgs, Mapped(messages, m)
    PROVE  Copies(m)' = Copies(m)
BY OnlyNewIsPosted, CopiesStep DEF FullInv, SentInv

\* Everything known without backfill, as one invariant.
LEMMA FullInvariance == ASSUME NoBackfill PROVE Spec => []FullInv
<1>1. Init => QueueOK /\ SentAtMostOnce
  BY EmptySeq DEF Init, QueueOK, SentAtMostOnce
<1>2. Init => FullInv
  BY <1>1, InitInv, LinksInit, MapInit DEF FullInv, SentInv
<1>3. FullInv /\ [Next]_vars => FullInv'
  BY NextInv, SentStep, LinksStep, MapStep DEF FullInv, SentInv
<1> QED
  BY <1>2, <1>3, PTL DEF Spec

\* Without backfill a message that is mapped is never posted again: not when the
\* phone repeats or replays it, not after a crash, and not when a handler posts
\* between its look at the table and its write, because no other handler runs.
THEOREM MappedNotPosted == ASSUME NoBackfill PROVE Spec => NeverPostsMapped
<1>1. FullInv /\ [Next]_vars
        => [\A m \in Msgs : Mapped(messages, m) => Copies(m)' = Copies(m)]_vars
  BY MappedKeepsCopies
<1> QED
  BY <1>1, FullInvariance, PTL DEF Spec, NeverPostsMapped

-----------------------------------------------------------------------------
(* Without backfill, a message shows once and each further copy is paid for. *)

\* The echo of what was sent under t will be recognised.
Expected(t) ==
    \/ Issued(pending, t) /\ ~pending[t].aged
    \/ pc = "pend" /\ t = Len(sends)

\* The handler has a post for message m, still to be written to the table.
InHand(m) == pc \in {"echo", "save"} /\ cur.msg = m

\* What is behind a message besides mishaps: a mapping, written or to come.
Credited(m) == Mapped(messages, m) \/ InHand(m) \/ Expected(TmpOf(m))

\* The posts in which a message shows: those of the bridge, and the typed one.
Shown(m) == Cardinality(PostsAbout("msg", m)) + (IF TmpOf(m) = 0 THEN 0 ELSE 1)

PaidOK ==
    /\ \A m \in 1..Len(phone) : Shown(m) <= mishaps + (IF Credited(m) THEN 1 ELSE 0)
    /\ \A t \in 1..Len(sends) : mishaps = 0 =>
          Expected(t) \/ \E m \in 1..Len(phone) : TmpOf(m) = t
    /\ \A m, n \in 1..Len(phone) : TmpOf(m) = TmpOf(n) /\ TmpOf(m) # 0 => m = n

\* Only postMessage makes a copy, of the message its handler works on, of which
\* nothing is known yet.
LEMMA CopyAdded ==
    ASSUME FullInv, [Next]_vars, NEW q, PostAdded(q), q.kind = "msg"
    PROVE  /\ q.about = cur.msg /\ pc = "post" /\ (PostMessage \/ PostMessageFails)
           /\ ~Credited(cur.msg)
<1>0. Len(posts) \in Nat /\ q = posts'[Len(posts) + 1] /\ ~NoPostAdded
  BY Lengths DEF FullInv, PostAdded, NoPostAdded
<1>1. Sound(q)
  BY <1>0, StepAddsPosts DEF PostAdded, FullInv, SentInv
<1>2. pc \in {"post", "save"} /\ cur.todo = {}
  BY <1>1 DEF Sound, InThread, FullInv, MapOK, SentInv, IInv, WorkOK
<1>3. q.about = cur.msg
  BY <1>1, <1>2 DEF Sound, IsCopyOf, BridgePost
<1>4. posts' # posts
  BY <1>0, UnchangedPosts DEF FullInv, SentInv, IInv
<1>5. PostMessage \/ PostMessageFails
  <2>1. ~TakeGM /\ ~TakeMM /\ ~PrunePending /\ ~Restart /\ ~Crash /\ ~UNCHANGED vars
    BY <1>2, <1>4 DEF TakeGM, IncomingEcho, IncomingKnown, IncomingNew, IncomingIgnored,
       IncomingFails, TakeGMEvent, TakeMM, OutgoingIgnored, LookupFails, AttachmentsFail,
       SendPost, SendFails, TakeMMEvent, MMEvent, PrunePending, Restart, Crash, vars
  <2>2. ~Environment
    <3>1. ASSUME NEW chan \in Channels, NEW root \in 0..Len(posts), NEW body \in Bodies,
                 HumanPosts(chan, root, body)
          PROVE  FALSE
      BY <1>0, <3>1, TypedPost DEF PostAdded, FullInv, SentInv
    <3> QED
      BY <1>4, <3>1 DEF Environment, PhoneReceives, PhoneComposes, PhoneSends, Hold,
         PhonePushes, EchoIsLate
  <2>3. CASE HandlerStep
    BY <1>2, <1>4, <2>3 DEF HandlerStep, RecordEcho, SaveFails, EnsureKnown,
       OpenConversation, OpenFails, StoreConversation, FetchHistory, BackfillPost,
       BackfillSave, BackfillEnds, RecordMessage, RecordSend, RecordSendFails
  <2> QED
    BY <2>1, <2>2, <2>3 DEF Next, Process, Waiting
<1>6. pc = "post"
  BY <1>5 DEF PostMessage, PostMessageFails
<1>7. ~Credited(cur.msg)
  BY <1>6 DEF Credited, InHand, Expected, FullInv, MapOK, Handling
<1> QED
  BY <1>3, <1>5, <1>6, <1>7

LEMMA ExpectedStays ==
    ASSUME FullInv, [Next]_vars, NEW t \in 1..Len(sends), Expected(t)
    PROVE  \/ Expected(t)' \/ Mishap
           \/ IncomingEcho /\ t = TmpOf(Head(gmq).msg)
<1>1. CASE Issued(pending, t) /\ ~pending[t].aged
  <2>1. t \in Tmps /\ pending[t] # NoPending /\ pending \in [Tmps -> PendingRows(Nat \ {0})]
    BY <1>1 DEF Issued, FullInv, SentInv, IInv, TypeOK
  <2>2. CASE pending' = pending
    BY <1>1, <2>2 DEF Expected
  <2>3. CASE IncomingEcho
    BY <1>1, <2>1, <2>3 DEF IncomingEcho, TakePendingOutbound, Expected, Issued
  <2>4. CASE RecordSend
    <3>1. cur.post \in Nat \ {0}
      BY <2>4 DEF RecordSend, FullInv, SentInv, IInv, TypeOK, WorkOK, Locals
    <3>2. /\ pending' = [pending EXCEPT ![Len(sends)] = [post |-> cur.post, aged |-> FALSE]]
      BY <2>4 DEF RecordSend, AddPendingOutbound
    <3>3. DOMAIN pending' = Tmps /\ (pending'[t] = pending[t] \/ pending'[t] = [post |-> cur.post, aged |-> FALSE])
      BY <2>1, <3>2
    <3> QED
      BY <1>1, <2>1, <3>1, <3>3 DEF Expected, Issued, NoPending
  <2>5. CASE PrunePending
    BY <1>1, <2>1, <2>5 DEF PrunePending, PrunePendingOutbound, Expected, Issued
  <2>6. CASE \E u \in Tmps : EchoIsLate(u)
    BY <2>6 DEF EchoIsLate
  <2>7. CASE (TakeGM /\ ~IncomingEcho) \/ TakeMM \/ Crash \/ Restart \/ UNCHANGED vars
    BY <2>2, <2>7 DEF TakeGM, IncomingKnown, IncomingNew, IncomingIgnored, IncomingFails,
       TakeMM, OutgoingIgnored, LookupFails, AttachmentsFail, SendPost, SendFails, Crash,
       Restart, vars, dbVars
  <2>8. CASE HandlerStep /\ ~RecordSend
    BY <2>2, <2>8 DEF HandlerStep, RecordEcho, SaveFails, EnsureKnown, OpenConversation,
       OpenFails, StoreConversation, FetchHistory, BackfillPost, BackfillSave, BackfillEnds,
       PostMessage, PostMessageFails, RecordMessage, RecordSendFails, dbVars
  <2>9. CASE Environment
    BY <2>2, <2>6, <2>9 DEF Environment, PhoneReceives, PhoneComposes, PhoneSends, Hold,
       PhonePushes, HumanPosts, dbVars
  <2> QED
    BY <2>3, <2>4, <2>5, <2>7, <2>8, <2>9 DEF Next, Process, Waiting
<1>2. CASE pc = "pend" /\ t = Len(sends)
  <2>1. CASE UNCHANGED <<pc, sends>>
    BY <1>2, <2>1 DEF Expected
  <2>2. CASE RecordSend
    <3>1. cur.post \in Nat \ {0} /\ t \in Tmps /\ pending \in [Tmps -> PendingRows(Nat \ {0})]
      BY <1>2, <2>2, LenProperties DEF Tmps, FullInv, SentInv, IInv, TypeOK, WorkOK, Locals
    <3>2. t \in DOMAIN pending' /\ pending'[t] = [post |-> cur.post, aged |-> FALSE]
      BY <1>2, <2>2, <3>1 DEF RecordSend, AddPendingOutbound
    <3> QED
      BY <3>1, <3>2 DEF Expected, Issued, NoPending
  <2>3. CASE RecordSendFails \/ Crash
    BY <2>3 DEF RecordSendFails, Crash
  <2>4. ~TakeGM /\ ~TakeMM /\ ~PrunePending /\ ~Restart
    BY <1>2 DEF TakeGM, IncomingEcho, IncomingKnown, IncomingNew, IncomingIgnored,
       IncomingFails, TakeGMEvent, TakeMM, OutgoingIgnored, LookupFails, AttachmentsFail,
       SendPost, SendFails, TakeMMEvent, MMEvent, PrunePending, Restart
  <2>5. CASE HandlerStep
    BY <1>2, <2>2, <2>3, <2>5 DEF HandlerStep, RecordEcho, SaveFails, EnsureKnown,
       OpenConversation, OpenFails, StoreConversation, FetchHistory, BackfillPost,
       BackfillSave, BackfillEnds, PostMessage, PostMessageFails, RecordMessage
  <2>6. CASE Environment \/ UNCHANGED vars
    BY <2>1, <2>6 DEF Environment, PhoneReceives, PhoneComposes, PhoneSends, Hold,
       PhonePushes, HumanPosts, EchoIsLate, phoneVars, workVars, vars
  <2> QED
    BY <2>3, <2>4, <2>5, <2>6 DEF Next, Process, Waiting
<1> QED
  BY <1>1, <1>2 DEF Expected

\* What is in a handler's hand is written, unless something goes wrong.
LEMMA HandStays ==
    ASSUME FullInv, [Next]_vars, NEW m \in 1..Len(phone), InHand(m)
    PROVE  InHand(m)' \/ Mapped(messages', m) \/ Mishap
<1>1. CASE UNCHANGED <<pc, cur>>
  BY <1>1 DEF InHand
<1>2. CASE RecordEcho \/ RecordMessage
  <2>1. /\ \E status : messages' = SaveMessage(messages, m, cur.post, status)
        /\ m \in Msgs /\ cur.post # 0
    BY <1>2, LenProperties, BoundsAssumption DEF RecordEcho, RecordMessage, InHand, Msgs,
       FullInv, SentInv, IInv, TypeOK, RefsOK, WorkOK
  <2> QED
    BY <2>1 DEF SaveMessage, Mapped, NoRow, FullInv, SentInv, IInv, TypeOK
<1>3. CASE SaveFails \/ Crash
  BY <1>3 DEF SaveFails, Crash
<1>4. ~TakeGM /\ ~TakeMM /\ ~PrunePending /\ ~Restart
  BY DEF InHand, TakeGM, IncomingEcho, IncomingKnown, IncomingNew, IncomingIgnored,
     IncomingFails, TakeGMEvent, TakeMM, OutgoingIgnored, LookupFails, AttachmentsFail,
     SendPost, SendFails, TakeMMEvent, MMEvent, PrunePending, Restart
<1>5. CASE HandlerStep
  BY <1>2, <1>3, <1>5 DEF InHand, HandlerStep, EnsureKnown, OpenConversation, OpenFails,
     StoreConversation, FetchHistory, BackfillPost, BackfillSave, BackfillEnds, PostMessage,
     PostMessageFails, RecordSend, RecordSendFails
<1>6. CASE Environment \/ UNCHANGED vars
  BY <1>1, <1>6 DEF Environment, PhoneReceives, PhoneComposes, PhoneSends, Hold,
     PhonePushes, HumanPosts, EchoIsLate, workVars, vars
<1> QED
  BY <1>3, <1>4, <1>5, <1>6 DEF Next, Process, Waiting

\* A message keeps what is behind it, unless something goes wrong.
LEMMA CreditStays ==
    ASSUME FullInv, PaidOK, [Next]_vars, NEW m \in 1..Len(phone), Credited(m)
    PROVE  Credited(m)' \/ Mishap
<1>0. /\ m \in Msgs /\ TmpOf(m)' = TmpOf(m) /\ TmpOf(m) \in 0..Len(sends)
      /\ Len(sends) \in Nat
  BY PhoneKept, LenProperties, BoundsAssumption
     DEF TmpOf, Msgs, FullInv, SentInv, IInv, TypeOK, RefsOK, MapOK
<1>1. CASE Mapped(messages, m)
  BY <1>0, <1>1, MappedStays DEF Credited, FullInv, SentInv
<1>2. CASE InHand(m)
  BY <1>2, HandStays DEF Credited
<1>3. ASSUME NEW t, t = TmpOf(m), Expected(t) PROVE Credited(m)' \/ Mishap
  <2>1. t \in 1..Len(sends)
    <3>1. t # 0
      BY <1>3, <1>0 DEF Expected, Issued, Tmps, FullInv, LinksOK, SentInv, IInv, TypeOK
    <3> QED
      BY <1>0, <1>3, <3>1
  <2>2. CASE Expected(t)'
    <3>1. t = TmpOf(m)'
      BY <1>0, <1>3
    <3> QED
      BY <2>2, <3>1 DEF Credited, Expected
  <2>3. CASE IncomingEcho /\ t = TmpOf(Head(gmq).msg)
    <3>1. Head(gmq).msg \in 1..Len(phone) /\ pc' = "echo" /\ cur'.msg = Head(gmq).msg
      BY <2>3, EventTaken DEF IncomingEcho, Goto, NoWork, FullInv, SentInv
    <3>2. TmpOf(Head(gmq).msg) = TmpOf(m) /\ TmpOf(m) # 0
      BY <1>0, <1>3, <2>1, <2>3
    <3>3. Head(gmq).msg = m
      BY <3>1, <3>2 DEF PaidOK
    <3> QED
      BY <3>1, <3>3 DEF Credited, InHand
  <2> QED
    BY <1>3, <2>1, <2>2, <2>3, ExpectedStays
<1> QED
  BY <1>1, <1>2, <1>3 DEF Credited

LEMMA ShownStep ==
    ASSUME FullInv, PaidOK, [Next]_vars, NEW m \in 1..Len(phone)
    PROVE  Shown(m)' <= mishaps' + (IF Credited(m)' THEN 1 ELSE 0)
<1>0. Shown(m) \in Nat /\ Shown(m) <= mishaps + (IF Credited(m) THEN 1 ELSE 0)
  BY CountPosts DEF Shown, PaidOK, FullInv, SentInv
<1>1. /\ mishaps \in Nat /\ mishaps' \in Nat /\ mishaps <= mishaps'
      /\ Mishap => mishaps' = mishaps + 1
  BY MishapsGrow DEF FullInv, SentInv, Mishap
<1>2. TmpOf(m)' = TmpOf(m)
  BY PhoneKept DEF TmpOf, FullInv, SentInv
<1>3. CASE Shown(m)' = Shown(m)
  <2>1. CASE Credited(m)'
    BY <1>0, <1>1, <1>3, <2>1
  <2>2. CASE ~Credited(m)' /\ ~Credited(m)
    BY <1>0, <1>1, <1>3, <2>2
  <2>3. CASE ~Credited(m)' /\ Credited(m)
    <3>1. mishaps' = mishaps + 1
      BY <1>1, <2>3, CreditStays
    <3> QED
      BY <1>0, <1>1, <1>3, <2>3, <3>1
  <2> QED
    BY <2>1, <2>2, <2>3
<1>4. ASSUME Shown(m)' = Shown(m) + 1, NEW q, PostAdded(q), q.kind = "msg", q.about = m
      PROVE  Shown(m)' <= mishaps' + (IF Credited(m)' THEN 1 ELSE 0)
  <2>1. ~Credited(m) /\ cur.msg = m /\ (PostMessage \/ PostMessageFails)
    BY <1>4, CopyAdded
  <2>2. Shown(m) <= mishaps
    BY <1>0, <1>1, <2>1
  <2>3. CASE PostMessage
    <3>1. pc' = "save" /\ cur'.msg = cur.msg
      BY <2>3 DEF PostMessage, Goto, FullInv, SentInv, IInv, TypeOK, Locals
    <3>2. Credited(m)'
      BY <2>1, <3>1 DEF Credited, InHand
    <3> QED
      BY <1>0, <1>1, <1>4, <2>2, <3>2
  <2>4. CASE PostMessageFails
    <3>1. mishaps' = mishaps + 1
      BY <1>1, <2>4 DEF PostMessageFails, PublishFails
    <3>2. Shown(m)' <= mishaps'
      BY <1>0, <1>1, <1>4, <2>2, <3>1
    <3> QED
      BY <1>0, <1>1, <1>4, <3>2
  <2> QED
    BY <2>1, <2>3, <2>4
<1>5. \/ Shown(m)' = Shown(m)
      \/ Shown(m)' = Shown(m) + 1 /\ \E q : PostAdded(q) /\ q.kind = "msg" /\ q.about = m
  <2>1. NoPostAdded \/ \E q : PostAdded(q)
    BY StepAddsPosts DEF FullInv, SentInv
  <2>2. CASE NoPostAdded
    BY <1>2, <2>2, CountPosts DEF Shown, FullInv, SentInv
  <2>3. ASSUME NEW q, PostAdded(q)
        PROVE  \/ Shown(m)' = Shown(m)
               \/ Shown(m)' = Shown(m) + 1 /\ q.kind = "msg" /\ q.about = m
    <3>1. /\ Cardinality(PostsAbout("msg", m)) \in Nat
          /\ Cardinality(PostsAbout("msg", m)')
                = IF q.kind = "msg" /\ q.about = m
                  THEN Cardinality(PostsAbout("msg", m)) + 1
                  ELSE Cardinality(PostsAbout("msg", m))
      BY <2>3, CountPosts DEF FullInv, SentInv
    <3> QED
      BY <1>2, <3>1 DEF Shown
  <2> QED
    BY <2>1, <2>2, <2>3
<1> QED
  BY <1>3, <1>4, <1>5

\* A message the phone comes to hold has no copy yet; one it sent for the bridge
\* is still expected, unless something went wrong.
LEMMA NewShown ==
    ASSUME FullInv, PaidOK, [Next]_vars, NEW m \in 1..Len(phone'), m \notin 1..Len(phone)
    PROVE  Shown(m)' <= mishaps' + (IF Credited(m)' THEN 1 ELSE 0)
<1>0. /\ Len(phone) \in Nat /\ mishaps \in Nat
      /\ phone \in Seq([conv : Convs, tmp : Tmps \cup {0}, mine : BOOLEAN])
  BY LenProperties, BoundsAssumption DEF FullInv, SentInv, IInv, TypeOK
<1>1. phone' # phone
  OBVIOUS
<1>2. PICK conv, tmp, mine :
        /\ Hold(conv, tmp, mine)
        /\ tmp = 0 \/ (tmp \in 1..Len(sends) /\ PhoneSends(tmp))
  BY <1>1, PhoneChanges DEF PhoneSends
<1>3. TmpOf(m)' = tmp /\ UNCHANGED <<posts, pending, pc, sends, mishaps>>
  BY <1>0, <1>2 DEF Hold, TmpOf, dbVars, workVars
<1>4. Cardinality(PostsAbout("msg", m)') = 0
  <2>1. PostsAbout("msg", m)' = {}
    BY <1>3 DEF PostsAbout, FullInv, SentInv, IInv, RefsOK
  <2> QED
    BY <2>1, FS_EmptySet
<1>5. Shown(m)' = IF tmp = 0 THEN 0 ELSE 1
  BY <1>3, <1>4 DEF Shown
<1>6. CASE tmp = 0 \/ mishaps # 0
  BY <1>0, <1>3, <1>5, <1>6
<1>7. CASE tmp # 0 /\ mishaps = 0
  <2>1. Expected(tmp)
    BY <1>2, <1>7 DEF PhoneSends, PaidOK
  <2>2. Expected(tmp)'
    BY <1>3, <2>1 DEF Expected
  <2>3. Credited(m)'
    <3>1. tmp = TmpOf(m)'
      BY <1>3
    <3> QED
      BY <2>2, <3>1 DEF Credited, Expected
  <2> QED
    BY <1>0, <1>3, <1>5, <2>3
<1> QED
  BY <1>6, <1>7

\* What the phone took is expected back until the phone reports it, unless
\* something goes wrong.
LEMMA ExpectedStep ==
    ASSUME FullInv, PaidOK, [Next]_vars, NEW t \in 1..Len(sends'), mishaps' = 0
    PROVE  Expected(t)' \/ \E m \in 1..Len(phone') : TmpOf(m)' = t
<1>0. /\ Len(sends) \in Nat /\ Len(sends') \in Nat /\ mishaps \in Nat /\ mishaps = 0
      /\ ~Mishap
      /\ \A m \in 1..Len(phone) : m \in 1..Len(phone') /\ TmpOf(m)' = TmpOf(m)
  BY Lengths, MishapsGrow, PhoneKept DEF Mishap, TmpOf, FullInv, SentInv
<1>1. CASE t \in 1..Len(sends)
  <2>1. CASE Expected(t)
    <3>1. CASE IncomingEcho /\ t = TmpOf(Head(gmq).msg)
      <4>1. Head(gmq).msg \in 1..Len(phone)
        BY <3>1, EventTaken DEF IncomingEcho, FullInv, SentInv
      <4>2. PICK m \in 1..Len(phone) : TmpOf(m) = t
        BY <3>1, <4>1
      <4> QED
        BY <1>0, <4>2
    <3> QED
      BY <1>0, <1>1, <2>1, <3>1, ExpectedStays
  <2>2. CASE ~Expected(t)
    <3>1. PICK m \in 1..Len(phone) : TmpOf(m) = t
      BY <1>0, <1>1, <2>2 DEF PaidOK
    <3> QED
      BY <1>0, <3>1
  <2> QED
    BY <2>1, <2>2
<1>2. CASE t \notin 1..Len(sends)
  <2>1. SendPost \/ SendFails
    BY <1>2, SendersSend DEF FullInv, SentInv
  <2>2. ~SendFails
    BY <1>0 DEF SendFails, ReportSendFailure, Mishap
  <2>3. pc' = "pend" /\ \E c, r : Accepted(Head(mmq), c, r)
    BY <2>1, <2>2 DEF SendPost, Goto
  <2>4. Len(sends') = Len(sends) + 1
    BY <2>3 DEF Accepted, FullInv, SentInv, IInv, TypeOK
  <2>5. t = Len(sends')
    BY <1>0, <1>2, <2>4
  <2> QED
    BY <2>3, <2>5 DEF Expected
<1> QED
  BY <1>1, <1>2

LEMMA PaidStep == ASSUME FullInv, PaidOK, [Next]_vars PROVE PaidOK'
<1>0. /\ Len(phone) \in Nat /\ Len(phone') \in Nat
      /\ \A m \in 1..Len(phone) : m \in 1..Len(phone') /\ TmpOf(m)' = TmpOf(m)
  BY PhoneKept DEF TmpOf, FullInv, SentInv
<1>1. ASSUME NEW m \in 1..Len(phone')
      PROVE  Shown(m)' <= mishaps' + (IF Credited(m)' THEN 1 ELSE 0)
  BY ShownStep, NewShown
<1>2. ASSUME NEW t \in 1..Len(sends'), mishaps' = 0
      PROVE  Expected(t)' \/ \E m \in 1..Len(phone') : TmpOf(m)' = t
  BY <1>2, ExpectedStep
<1>3. ASSUME NEW m \in 1..Len(phone'), NEW n \in 1..Len(phone'),
             TmpOf(m)' = TmpOf(n)', TmpOf(m)' # 0
      PROVE  m = n
  <2>1. CASE UNCHANGED phone
    BY <1>3, <2>1 DEF PaidOK, TmpOf
  <2>2. ASSUME NEW conv, NEW tmp, NEW mine, Hold(conv, tmp, mine),
               tmp = 0 \/ PhoneSends(tmp)
        PROVE  m = n
    <3>1. /\ Len(phone') = Len(phone) + 1 /\ phone'[Len(phone) + 1].tmp = tmp
      BY <1>0, <2>2 DEF Hold, FullInv, SentInv, IInv, TypeOK
    <3>2. \A k \in 1..Len(phone') : k \in 1..Len(phone) \/ k = Len(phone) + 1
      BY <1>0, <3>1
    <3>3. \A k \in 1..Len(phone) : tmp # 0 => TmpOf(k) # tmp
      BY <2>2 DEF PhoneSends
    <3>4. CASE m \in 1..Len(phone) /\ n \in 1..Len(phone)
      BY <1>0, <1>3, <3>4 DEF PaidOK
    <3>5. CASE m \in 1..Len(phone) /\ n = Len(phone) + 1
      <4>1. TmpOf(n)' = tmp
        BY <3>1, <3>5 DEF TmpOf
      <4> QED
        BY <1>0, <1>3, <3>3, <3>5, <4>1
    <3>6. CASE n \in 1..Len(phone) /\ m = Len(phone) + 1
      <4>1. TmpOf(m)' = tmp
        BY <3>1, <3>6 DEF TmpOf
      <4> QED
        BY <1>0, <1>3, <3>3, <3>6, <4>1
    <3> QED
      BY <3>2, <3>4, <3>5, <3>6
  <2> QED
    BY <2>1, <2>2, PhoneChanges DEF PhoneSends
<1> QED
  BY <1>1, <1>2, <1>3 DEF PaidOK

LEMMA PaidInit == ASSUME Init PROVE PaidOK
<1>1. 1..Len(phone) = {} /\ 1..Len(sends) = {}
  BY EmptySeq DEF Init
<1> QED
  BY <1>1 DEF PaidOK

\* Without backfill, however often the phone repeats, replays or reports a message
\* and wherever a handler is cut short, the message shows in Mattermost at most
\* once more than things went wrong, the post somebody typed counted in: the
\* pending row written after a send makes the bridge know its own message again.
THEOREM CopiesPaidFor == ASSUME NoBackfill PROVE Spec => []CopiesArePaidFor
<1>1. FullInv /\ PaidOK /\ [Next]_vars => PaidOK'
  BY PaidStep
<1>2. FullInv /\ PaidOK => CopiesArePaidFor
  <2> SUFFICES ASSUME FullInv, PaidOK, NEW m \in 1..Len(phone) PROVE Shown(m) <= 1 + mishaps
    BY DEF CopiesArePaidFor, Shown, PostsAbout, Copies
  <2>1. mishaps \in Nat /\ Shown(m) \in Nat
    BY CountPosts, BoundsAssumption DEF Shown, FullInv, SentInv, IInv, TypeOK
  <2> QED
    BY <2>1 DEF PaidOK
<1> QED
  BY <1>1, <1>2, PaidInit, FullInvariance, PTL DEF Spec

-----------------------------------------------------------------------------
(* Reactions.                                                               *)

\* The reaction on the post of message m is that of its status; a post of the
\* bridge's own may still have none.
Shows(m) ==
    LET shown == posts[messages[m].post].emoji
        due   == StatusEmoji(messages[m].status)
    IN  shown = due \/ (shown = {} /\ TmpOf(m) = 0)

\* As long as nothing went wrong, reactions are on the posts of the messages the
\* database knows, and nowhere else.
ReactOK ==
    mishaps = 0 =>
      /\ pc # "down"
      /\ settings.deliveryStatus =>
            /\ \A p \in 1..Len(posts) : Unlinked(messages, p) => posts[p].emoji = {}
            /\ \A m \in Msgs : Mapped(messages, m) => Shows(m)

LEMMA ReactEmoji ==
    ASSUME TypeOK, NEW p \in 1..Len(posts), NEW gone, NEW new, React(p, gone, new)
    PROVE  /\ posts'[p].emoji = (posts[p].emoji \ gone) \cup new
           /\ \A o \in 1..Len(posts) : o # p => posts'[o] = posts[o]
<1>1. posts \in Seq(Posts) /\ posts[p] \in Posts
  BY ElementOfSeq DEF TypeOK
<1>2. posts[p].emoji \in SUBSET Emojis /\ posts[p] = [posts[p] EXCEPT !.emoji = posts[p].emoji]
  BY <1>1 DEF Posts
<1>3. posts' = [posts EXCEPT ![p].emoji = (posts[p].emoji \ gone) \cup new]
  BY DEF React
<1> QED
  BY <1>1, <1>3 DEF Posts

\* A change of state that meets no mishap replaces the reaction of the old state.
LEMMA StatusShown ==
    ASSUME TypeOK, NEW p \in 1..Len(posts), NEW new, NEW old,
           ApplyDeliveryStatus(p, new, old), ~Mishap, settings.deliveryStatus,
           posts[p].emoji \in {StatusEmoji(old), {}}
    PROVE  /\ posts'[p].emoji = StatusEmoji(new)
                 \/ (posts'[p].emoji = posts[p].emoji /\ StatusEmoji(new) = StatusEmoji(old))
           /\ \A o \in 1..Len(posts) : o # p => posts'[o] = posts[o]
<1> DEFINE drop == StatusEmoji(old)
           add  == StatusEmoji(new)
<1>1. \/ UNCHANGED posts /\ drop = add
      \/ React(p, drop, add)
  BY DEF ApplyDeliveryStatus
<1> HIDE DEF drop, add
<1>2. CASE UNCHANGED posts /\ drop = add
  BY <1>2 DEF drop, add
<1>3. CASE React(p, drop, add)
  <2>1. posts'[p].emoji = (posts[p].emoji \ drop) \cup add
        /\ \A o \in 1..Len(posts) : o # p => posts'[o] = posts[o]
    BY <1>3, ReactEmoji
  <2>2. posts[p].emoji \ drop = {}
    BY DEF drop
  <2> QED
    BY <2>1, <2>2 DEF add
<1> QED
  BY <1>1, <1>2, <1>3

\* Where nothing goes wrong, only a status changes the reactions there are.
LEMMA ReactionsKept ==
    ASSUME IInv, [Next]_vars, ~Mishap, mishaps' = mishaps, ~IncomingKnown, ~RecordEcho
    PROVE  \A p \in 1..Len(posts) : posts'[p] = posts[p]
<1>1. mishaps \in Nat /\ posts \in Seq(Posts)
  BY BoundsAssumption DEF IInv, TypeOK
<1>2. UNCHANGED posts \/ \E q : posts' = Append(posts, q)
  <2>1. CASE TakeGM
    BY <2>1 DEF TakeGM, IncomingEcho, IncomingNew, IncomingIgnored, IncomingFails
  <2>2. CASE TakeMM
    BY <1>1, <2>2 DEF TakeMM, OutgoingIgnored, LookupFails, AttachmentsFail, SendPost,
       SendFails, ReportSendFailure
  <2>3. CASE HandlerStep
    BY <2>3 DEF HandlerStep, SaveFails, EnsureKnown, OpenConversation, OpenFails,
       StoreConversation, FetchHistory, BackfillPost, BackfillSave, BackfillEnds,
       PostMessage, PostMessageFails, RecordMessage, RecordSend, RecordSendFails,
       Publish, PublishFails
  <2>4. CASE PrunePending \/ Crash \/ Restart \/ UNCHANGED vars
    BY <2>4 DEF PrunePending, Crash, Restart, vars
  <2>5. CASE Environment
    BY <2>5 DEF Environment, PhoneReceives, PhoneComposes, PhoneSends, Hold, PhonePushes,
       HumanPosts, EchoIsLate
  <2> QED
    BY <2>1, <2>2, <2>3, <2>4, <2>5 DEF Next, Process, Waiting
<1> QED
  BY <1>1, <1>2

\* The configuration and the process stay unless something went wrong before.
LEMMA ProcessStays ==
    ASSUME [Next]_vars, ~Mishap, pc # "down"
    PROVE  pc' # "down" /\ settings' = settings
<1>1. CASE TakeGM
  BY <1>1 DEF TakeGM, IncomingEcho, IncomingKnown, IncomingNew, IncomingIgnored,
     IncomingFails, TakeGMEvent, Goto, workVars
<1>2. CASE TakeMM
  BY <1>2 DEF TakeMM, OutgoingIgnored, LookupFails, AttachmentsFail, SendPost,
     SendFails, TakeMMEvent, MMEvent, Goto, workVars
<1>3. CASE HandlerStep
  BY <1>3 DEF HandlerStep, RecordEcho, SaveFails, EnsureKnown, OpenConversation, OpenFails,
     StoreConversation, FetchHistory, BackfillPost, BackfillSave, BackfillEnds,
     PostMessage, PostMessageFails, RecordMessage, RecordSend, RecordSendFails, Done, Goto
<1>4. CASE PrunePending \/ Crash \/ Restart \/ UNCHANGED vars
  BY <1>4 DEF PrunePending, Crash, Restart, vars, workVars
<1>5. CASE Environment
  BY <1>5 DEF Environment, PhoneReceives, PhoneComposes, PhoneSends, Hold, PhonePushes,
     HumanPosts, EchoIsLate, workVars
<1> QED
  BY <1>1, <1>2, <1>3, <1>4, <1>5 DEF Next, Process, Waiting

\* The reaction of a message is right as long as its row and its post are the same.
LEMMA ShowsStays ==
    ASSUME FullInv, [Next]_vars, NEW m \in Msgs, Mapped(messages, m), Shows(m),
           messages'[m] = messages[m],
           posts'[messages[m].post].emoji = posts[messages[m].post].emoji
    PROVE  Shows(m)'
<1>1. m \in 1..Len(phone)
  BY DEF FullInv, MapOK
<1>2. TmpOf(m)' = TmpOf(m)
  BY <1>1, PhoneKept DEF TmpOf, FullInv, SentInv
<1> QED
  BY <1>2 DEF Shows

LEMMA KnownReacts ==
    ASSUME FullInv, ReactOK, [Next]_vars, IncomingKnown, ~Mishap, mishaps = 0,
           settings.deliveryStatus
    PROVE  /\ \A p \in 1..Len(posts) :
                 Unlinked(messages', p) => posts'[p].emoji = {}
           /\ \A m \in Msgs : Mapped(messages', m) => Shows(m)'
<1> DEFINE e == Head(gmq)
<1>1. /\ e.msg \in Msgs /\ e.msg \in 1..Len(phone) /\ Mapped(messages, e.msg)
      /\ messages' = UpdateMessageStatus(messages, e.msg, e.status)
  BY EventTaken DEF IncomingKnown, FullInv, SentInv
<1>2. PICK k \in Msgs : k = e.msg
  BY <1>1
<1>3. PICK p \in 1..Len(posts) : p = messages[k].post
  BY <1>1, <1>2, MappedPost DEF FullInv, LinksOK, SentInv, IInv
<1>4. Shows(k) /\ \A m \in Msgs : Mapped(messages, m) => Shows(m)
  BY <1>1, <1>2 DEF ReactOK
<1>5. CASE ~StatusChanges(messages, k, e.status)
  <2>1. messages' = messages /\ posts' = posts
    BY <1>1, <1>2, <1>5 DEF IncomingKnown, UpdateMessageStatus
  <2> QED
    BY <1>4, <2>1, ShowsStays DEF ReactOK, Unlinked
<1>6. CASE StatusChanges(messages, k, e.status)
  <2>1. ApplyDeliveryStatus(p, e.status, messages[k].status)
    BY <1>2, <1>3, <1>6 DEF IncomingKnown
  <2>2. posts[p].emoji \in {StatusEmoji(messages[k].status), {}}
    BY <1>3, <1>4 DEF Shows
  <2>3. /\ posts'[p].emoji = StatusEmoji(e.status)
              \/ (posts'[p].emoji = posts[p].emoji
                    /\ StatusEmoji(e.status) = StatusEmoji(messages[k].status))
        /\ \A o \in 1..Len(posts) : o # p => posts'[o] = posts[o]
    BY <2>1, <2>2, StatusShown DEF FullInv, SentInv, IInv
  <2>4. /\ messages'[k] = [messages[k] EXCEPT !.status = e.status]
        /\ messages'[k].post = p /\ messages'[k].status = e.status
        /\ \A m \in Msgs : m # k => messages'[m] = messages[m]
    BY <1>1, <1>2, <1>3, <1>6 DEF UpdateMessageStatus, Mapped, MessageRows, NoRow, FullInv,
       SentInv, IInv, TypeOK
  <2>5. ASSUME NEW o \in 1..Len(posts), Unlinked(messages', o) PROVE posts'[o].emoji = {}
    <3>1. o # p
      BY <2>4, <2>5 DEF Unlinked
    <3>2. Unlinked(messages, o)
      BY <1>3, <2>4, <2>5, <3>1 DEF Unlinked
    <3> QED
      BY <2>3, <3>1, <3>2 DEF ReactOK
  <2>6. Shows(k)'
    <3>1. TmpOf(k)' = TmpOf(k)
      BY <1>1, <1>2, PhoneKept DEF TmpOf, FullInv, SentInv
    <3> QED
      BY <1>3, <1>4, <2>3, <2>4, <3>1 DEF Shows
  <2>7. ASSUME NEW m \in Msgs, m # k, Mapped(messages', m) PROVE Shows(m)'
    <3>1. Mapped(messages, m) /\ messages'[m] = messages[m]
      BY <2>4, <2>7 DEF Mapped
    <3>2. messages[m].post # p /\ messages[m].post \in 1..Len(posts)
      BY <1>1, <1>2, <1>3, <2>7, <3>1, MappedPost
         DEF FullInv, LinksOK, LinksAreInjective, SentInv, IInv
    <3> QED
      BY <1>4, <2>3, <3>1, <3>2, ShowsStays
  <2> QED
    BY <2>5, <2>6, <2>7
<1> QED
  BY <1>5, <1>6

\* The handler that writes a mapping: the echo shows its status at once, a post of
\* the bridge's own shows none, and is not of a message that was sent.
LEMMA SavedReacts ==
    ASSUME FullInv, PaidOK, ReactOK, [Next]_vars, RecordEcho \/ RecordMessage, ~Mishap,
           mishaps = 0, settings.deliveryStatus
    PROVE  /\ \A p \in 1..Len(posts) :
                 Unlinked(messages', p) => posts'[p].emoji = {}
           /\ \A m \in Msgs : Mapped(messages', m) => Shows(m)'
<1>1. /\ cur.msg \in Msgs /\ cur.post # 0
      /\ \A m \in Msgs : messages'[m] = IF m = cur.msg
                                        THEN [post |-> cur.post, status |-> cur.status]
                                        ELSE messages[m]
  <2>1. cur.msg \in Msgs /\ cur.post # 0
    BY DEF RecordEcho, RecordMessage, FullInv, SentInv, IInv, TypeOK, Locals, WorkOK, RefsOK,
       OnMessage, Msgs
  <2> QED
    BY <2>1 DEF RecordEcho, RecordMessage, SaveMessage, FullInv, SentInv, IInv, TypeOK
<1>2. PICK k \in Msgs : k = cur.msg
  BY <1>1
<1>3. k \in 1..Len(phone) /\ TmpOf(k)' = TmpOf(k)
  <2>1. k \in 1..Len(phone)
    BY <1>2 DEF RecordEcho, RecordMessage, OnMessage, FullInv, SentInv, IInv, WorkOK
  <2> QED
    BY <2>1, PhoneKept DEF TmpOf, FullInv, SentInv
<1>4. PICK p \in 1..Len(posts) : p = cur.post
  BY DEF RecordEcho, RecordMessage, FullInv, LinksOK, SentInv, QueueOK
<1>5. Unlinked(messages, p) /\ posts[p].emoji = {}
  BY <1>4 DEF RecordEcho, RecordMessage, Holding, FullInv, LinksOK, ReactOK
<1>6. /\ \A o \in 1..Len(posts) : o # p => posts'[o] = posts[o]
      /\ Shows(k)'
  <2>1. messages'[k].post = p /\ messages'[k].status = cur.status
    BY <1>1, <1>2, <1>4
  <2>2. CASE RecordEcho
    <3>1. ApplyDeliveryStatus(p, cur.status, "none") /\ StatusEmoji("none") = {}
      BY <1>4, <2>2 DEF RecordEcho, StatusEmoji, Outgoing, Statuses
    <3>2. /\ posts'[p].emoji = StatusEmoji(cur.status)
          /\ \A o \in 1..Len(posts) : o # p => posts'[o] = posts[o]
      BY <1>5, <3>1, StatusShown DEF FullInv, SentInv, IInv
    <3> QED
      BY <2>1, <3>2 DEF Shows
  <2>3. CASE RecordMessage
    <3>1. posts' = posts /\ p \in PostsAbout("msg", k)
      BY <1>2, <1>4, <2>3 DEF RecordMessage, FullInv, MapOK, Copies, PostsAbout
    <3>2. Cardinality(PostsAbout("msg", k)) \in Nat \ {0}
      <4>1. IsFiniteSet(PostsAbout("msg", k))
        <5>1. IsFiniteSet(1..Len(posts))
          BY Lengths, FS_Interval DEF FullInv
        <5> QED
          BY <5>1, FS_Subset DEF PostsAbout
      <4> QED
        BY <3>1, <4>1, FS_EmptySet, FS_CardinalityType
    <3>3. TmpOf(k) = 0
      BY <1>3, <3>2 DEF PaidOK, Shown
    <3> QED
      BY <1>3, <1>5, <2>1, <3>1, <3>3 DEF Shows
  <2> QED
    BY <2>2, <2>3
<1>7. ASSUME NEW o \in 1..Len(posts), Unlinked(messages', o) PROVE posts'[o].emoji = {}
  <2>1. o # p
    BY <1>1, <1>2, <1>4, <1>7 DEF Unlinked
  <2>2. ~Mapped(messages, k)
    BY <1>2 DEF RecordEcho, RecordMessage, Handling, FullInv, MapOK
  <2>3. messages[k].post # o
    BY <2>2 DEF Mapped, MessageRows, NoRow, FullInv, SentInv, IInv, TypeOK
  <2>4. Unlinked(messages, o)
    BY <1>1, <1>2, <1>7, <2>3 DEF Unlinked
  <2> QED
    BY <1>6, <2>1, <2>4 DEF ReactOK
<1>8. ASSUME NEW m \in Msgs, m # k, Mapped(messages', m) PROVE Shows(m)'
  <2>1. Mapped(messages, m) /\ messages'[m] = messages[m]
    BY <1>1, <1>2, <1>8 DEF Mapped
  <2>2. messages[m].post # p /\ messages[m].post \in 1..Len(posts)
    BY <1>5, <2>1, MappedPost DEF Unlinked, FullInv, LinksOK, SentInv, IInv
  <2>3. Shows(m)
    BY <2>1 DEF ReactOK
  <2> QED
    BY <1>6, <2>1, <2>2, <2>3, ShowsStays
<1> QED
  BY <1>6, <1>7, <1>8

LEMMA ReactStep == ASSUME FullInv, PaidOK, ReactOK, [Next]_vars PROVE ReactOK'
<1> SUFFICES ASSUME mishaps' = 0
             PROVE  /\ pc' # "down"
                    /\ settings'.deliveryStatus =>
                         /\ \A p \in 1..Len(posts') :
                               Unlinked(messages', p) => posts'[p].emoji = {}
                         /\ \A m \in Msgs : Mapped(messages', m) => Shows(m)'
  BY DEF ReactOK
<1>1. mishaps = 0 /\ ~Mishap
  BY MishapsGrow DEF Mishap, FullInv, SentInv
<1>2. pc # "down" /\ pc' # "down" /\ settings' = settings
  BY <1>1, ProcessStays DEF ReactOK
<1>3. \A p \in 1..Len(posts') : p \in 1..Len(posts) \/ posts'[p].emoji = {}
  BY StepAddsPosts, Lengths DEF NoPostAdded, PostAdded, Sound, FullInv, SentInv
<1>4. ASSUME settings.deliveryStatus
      PROVE  /\ \A p \in 1..Len(posts) :
                   Unlinked(messages', p) => posts'[p].emoji = {}
             /\ \A m \in Msgs : Mapped(messages', m) => Shows(m)'
  <2>1. CASE IncomingKnown
    BY <1>1, <1>4, <2>1, KnownReacts
  <2>2. CASE RecordEcho \/ RecordMessage
    BY <1>1, <1>4, <2>2, SavedReacts
  <2>3. CASE ~IncomingKnown /\ ~RecordEcho /\ ~RecordMessage
    <3>1. messages' = messages
      BY <2>3, MessagesChange DEF BackfillSave, FullInv, MapOK
    <3>2. \A p \in 1..Len(posts) : posts'[p] = posts[p]
      BY <1>1, <2>3, ReactionsKept DEF FullInv, SentInv
    <3>3. ASSUME NEW m \in Msgs, Mapped(messages', m) PROVE Shows(m)'
      <4>1. messages[m].post \in 1..Len(posts) /\ Mapped(messages, m) /\ Shows(m)
        BY <1>1, <1>4, <3>1, <3>3, MappedPost DEF ReactOK, FullInv, LinksOK, SentInv, IInv
      <4> QED
        BY <3>1, <3>2, <4>1, ShowsStays
    <3> QED
      BY <1>1, <1>4, <3>1, <3>2, <3>3 DEF ReactOK
  <2> QED
    BY <2>1, <2>2, <2>3
<1> QED
  BY <1>2, <1>3, <1>4

\* Without backfill, and as long as nothing went wrong, the reaction on a post is
\* that of the status last recorded for its message (applyDeliveryStatus): each
\* change of state removes the reaction the row's old status put there, and no
\* handler reacts to a post that another one is about to map.
THEOREM ReactionsAreTrue == ASSUME NoBackfill PROVE Spec => []ReactionShowsStatus
<1>1. Init => ReactOK
  <2>1. SUFFICES ASSUME Init PROVE ReactOK
    OBVIOUS
  <2>2. 1..Len(posts) = {} /\ \A m \in Msgs : ~Mapped(messages, m)
    BY <2>1, EmptySeq DEF Init, Mapped
  <2> QED
    BY <2>1, <2>2 DEF ReactOK, Init
<1>2. FullInv /\ PaidOK /\ ReactOK /\ [Next]_vars => PaidOK' /\ ReactOK'
  BY PaidStep, ReactStep
<1>3. ReactOK => ReactionShowsStatus
  BY DEF ReactOK, ReactionShowsStatus, Shows
<1> QED
  BY <1>1, <1>2, <1>3, PaidInit, FullInvariance, PTL DEF Spec

-----------------------------------------------------------------------------
(* Bridge implements Mirror.                                                *)

LEMMA HumansStep ==
    ASSUME IInv
    PROVE  /\ NoPostAdded => Humans' = Humans
           /\ \A q : PostAdded(q) =>
                /\ q.author = "human" => Humans' = Humans \cup {Len(posts) + 1}
                /\ q.author # "human" => Humans' = Humans
<1>1. Len(posts) \in Nat
  BY LenProperties DEF IInv, TypeOK
<1>2. ASSUME NoPostAdded PROVE Humans' = Humans
  BY <1>2 DEF NoPostAdded, PostsKept, Humans
<1>3. ASSUME NEW q, PostAdded(q)
      PROVE  Humans' = Humans \cup {p \in {Len(posts) + 1} : q.author = "human"}
  <2>1. \A p : p \in 1..Len(posts') <=> p \in 1..Len(posts) \/ p = Len(posts) + 1
    BY <1>1, <1>3 DEF PostAdded
  <2>2. \A p \in 1..Len(posts) : p \in Humans' <=> p \in Humans
    BY <1>3, <2>1 DEF PostAdded, PostsKept, Humans
  <2>3. Len(posts) + 1 \in Humans' <=> q.author = "human"
    BY <1>3, <2>1 DEF PostAdded, Humans
  <2>4. Humans' \subseteq 1..Len(posts') /\ Humans \subseteq 1..Len(posts)
    BY DEF Humans
  <2> QED
    BY <2>1, <2>2, <2>3, <2>4
<1> QED
  BY <1>2, <1>3

\* A handler that maps its message maps it to a copy of it or to a typed post.
LEMMA MapsGoodPost ==
    ASSUME FullInv, [Next]_vars, RecordEcho \/ RecordMessage
    PROVE  /\ cur.msg \in Msgs /\ messages[cur.msg].post = 0
           /\ cur.post \in Copies(cur.msg) \cup Humans
           /\ \A n \in Msgs : messages[n].post # cur.post
           /\ \A n \in Msgs : messages'[n].post =
                                IF n = cur.msg THEN cur.post ELSE messages[n].post
           /\ NoPostAdded
<1>1. cur.msg \in Msgs
  BY DEF RecordEcho, RecordMessage, FullInv, SentInv, IInv, TypeOK, Locals, WorkOK, RefsOK,
     OnMessage, Msgs
<1>2. pc \in {"echo", "save"} /\ ~Mapped(messages, cur.msg) /\ Unlinked(messages, cur.post)
  BY DEF RecordEcho, RecordMessage, FullInv, MapOK, LinksOK, Handling, Holding
<1>3. messages[cur.msg].post = 0
  BY <1>1, <1>2, MappedPost DEF FullInv, SentInv, IInv
<1>4. cur.post \in Copies(cur.msg) \cup Humans
  <2>1. CASE pc = "save"
    BY <2>1 DEF FullInv, MapOK
  <2>2. CASE pc = "echo"
    BY <2>2 DEF FullInv, LinksOK, SentInv, QueueOK, SentAtMostOnce, Humans
  <2> QED
    BY <1>2, <2>1, <2>2
<1>5. \A n \in Msgs : messages'[n].post = IF n = cur.msg THEN cur.post ELSE messages[n].post
  BY DEF RecordEcho, RecordMessage, SaveMessage, FullInv, SentInv, IInv, TypeOK
<1>6. NoPostAdded
  BY DeliveryStatusPosts, UnchangedPosts DEF RecordEcho, RecordMessage, FullInv, SentInv, IInv
<1> QED
  BY <1>1, <1>2, <1>3, <1>4, <1>5, <1>6 DEF Unlinked

LEMMA MirrorInit == Init => M!Init
<1> SUFFICES ASSUME Init PROVE M!Init
  OBVIOUS
<1>1. posts = <<>> /\ Len(<<>>) = 0 /\ \A m \in Msgs : messages[m] = NoRow
  BY EmptySeq DEF Init
<1>2. Humans = {} /\ \A m \in Msgs : Copies(m) = {} /\ messages[m].post = 0
  BY <1>1 DEF Humans, Copies, NoRow
<1> QED
  BY <1>2 DEF M!Init

\* Each step of the bridge shows a message, links one, adds what somebody
\* typed, or leaves all three as they are.
LEMMA MirrorStep ==
    ASSUME FullInv, [Next]_vars
    PROVE  [M!Next]_(M!vars)
<1> DEFINE copies == [m \in Msgs |-> Copies(m)]
           link   == [m \in Msgs |-> messages[m].post]
<1>0. IInv /\ Len(posts) \in Nat
  BY LenProperties DEF FullInv, SentInv, IInv, TypeOK
<1>1. CASE RecordEcho \/ RecordMessage
  <2>1. UNCHANGED Humans /\ UNCHANGED copies
    BY <1>0, <1>1, MapsGoodPost, HumansStep, CopiesStep
  <2>2. PICK m \in Msgs : m = cur.msg
    BY <1>1, MapsGoodPost
  <2>3. PICK p : p = cur.post
    OBVIOUS
  <2>4. /\ link[m] = 0 /\ p \in Copies(m) \cup Humans
        /\ \A n \in Msgs : link[n] # p
        /\ link' = [link EXCEPT ![m] = p]
    BY <1>1, <2>2, <2>3, MapsGoodPost
  <2>5. link'[m] = p
    BY <2>2, <2>4
  <2>6. M!Link(m)
    BY <2>1, <2>4, <2>5 DEF M!Link
  <2> QED
    BY <2>6 DEF M!Next
<1>2. CASE LinksSame
  <2>1. UNCHANGED link
    BY <1>2 DEF LinksSame
  <2>2. CASE NoPostAdded
    <3>1. UNCHANGED Humans /\ UNCHANGED copies
      BY <1>0, <2>2, HumansStep, CopiesStep
    <3> QED
      BY <2>1, <3>1 DEF M!vars
  <2>3. ASSUME NEW q, PostAdded(q), q.kind # "msg" PROVE [M!Next]_(M!vars)
    <3>1. UNCHANGED copies
      BY <1>0, <2>3, CopiesStep
    <3>2. CASE q.author = "human"
      <4>1. Humans' = Humans \cup {Len(posts) + 1}
        BY <1>0, <2>3, <3>2, HumansStep
      <4>2. Len(posts) + 1 \notin Humans /\ \A n \in Msgs : Len(posts) + 1 \notin Copies(n)
        BY <1>0 DEF Humans, Copies
      <4> QED
        BY <2>1, <3>1, <4>1, <4>2 DEF M!Next, M!Type
    <3>3. CASE q.author # "human"
      <4>1. UNCHANGED Humans
        BY <1>0, <2>3, <3>3, HumansStep
      <4> QED
        BY <2>1, <3>1, <4>1 DEF M!vars
    <3> QED
      BY <3>2, <3>3
  <2>4. ASSUME NEW q, PostAdded(q), q.kind = "msg", q.author = "bridge",
               NEW m \in Msgs, q.about = m, ~Mapped(messages, m)
        PROVE  [M!Next]_(M!vars)
    <3> DEFINE p == Len(posts) + 1
    <3>1. UNCHANGED Humans
      BY <1>0, <2>4, HumansStep
    <3>2. Copies(m)' = Copies(m) \cup {p} /\ \A n \in Msgs : n # m => Copies(n)' = Copies(n)
      BY <1>0, <2>4, CopiesStep
    <3>3. p \notin Humans /\ \A n \in Msgs : p \notin Copies(n)
      BY <1>0 DEF Humans, Copies
    <3>4. link[m] = 0
      BY <1>0, <2>4, MappedPost DEF IInv
    <3>5. copies' = [copies EXCEPT ![m] = @ \cup {p}] /\ p \in copies'[m]
      BY <3>2
    <3>6. p \notin Humans /\ \A n \in Msgs : p \notin copies[n]
      BY <3>3
    <3> HIDE DEF p
    <3>7. M!Show(m)
      BY <2>1, <3>1, <3>4, <3>5, <3>6 DEF M!Show
    <3> QED
      BY <3>7 DEF M!Next
  <2> QED
    BY <2>2, <2>3, <2>4, OnlyNewIsPosted
<1>3. ~BackfillSave
  BY DEF BackfillSave, FullInv, MapOK
<1> QED
  BY <1>0, <1>1, <1>2, <1>3, LinksChange

\* Without backfill the bridge keeps the promise of Mirror: a message is shown
\* until it is linked to a copy of itself or to the post somebody typed, then it
\* is never shown or linked again.
THEOREM BridgeImplementsMirror == ASSUME NoBackfill PROVE Spec => RefinesMirror
<1>1. FullInv /\ [Next]_vars => [M!Next]_(M!vars)
  BY MirrorStep
<1> QED
  BY <1>1, MirrorInit, FullInvariance, PTL DEF Spec, RefinesMirror, M!Spec

=============================================================================
