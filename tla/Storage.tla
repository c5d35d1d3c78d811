------------------------------- MODULE Storage -------------------------------
(***************************************************************************)
(* The three tables of internal/storage that a bridge reads and writes, for *)
(* one tenant: what each query returns and what each statement leaves in    *)
(* the table.  Every statement of the code is one SQL transaction, so an    *)
(* operator here is one atomic step of the module that uses it.             *)
(*                                                                         *)
(* A table is a total function from its key; a key that has no row is       *)
(* mapped to the table's empty row.  Post IDs and temporary IDs are         *)
(* positive numbers and 0 stands for the empty string the code uses for     *)
(* "no post", "no thread root".                                             *)
(***************************************************************************)
EXTENDS Naturals

CONSTANTS Convs,      \* conversation IDs on the messaging side
          Channels,   \* Mattermost channel IDs
          None        \* no channel, no conversation, no message

ASSUME NoneAssumption == None \notin Convs \cup Channels

-----------------------------------------------------------------------------
(* messages: message ID -> the Mattermost post it stands for, last status.  *)

NoRow == [post |-> 0, status |-> "none"]

MessageRows(P, S) == {NoRow} \cup [post : P, status : S]

\* GetMessage finds a row.
Mapped(messages, m) == messages[m] # NoRow

\* Mutant: the post ID is not written.
SaveStatusOnly(messages, m, post, status) ==
    [messages EXCEPT ![m] = [post |-> 0, status |-> status]]

SaveMessage(messages, m, post, status) ==
    [messages EXCEPT ![m] = [post |-> post, status |-> status]]

\* UpdateMessageStatus reports a change only for a row whose status differs.
StatusChanges(messages, m, status) ==
    Mapped(messages, m) /\ messages[m].status # status

UpdateMessageStatus(messages, m, status) ==
    IF StatusChanges(messages, m, status)
    THEN [messages EXCEPT ![m].status = status]
    ELSE messages

\* GetMessageByPost: every row the reverse lookup could return (LIMIT 1).
MessagesByPost(messages, post) ==
    {m \in DOMAIN messages : post # 0 /\ messages[m].post = post}

-----------------------------------------------------------------------------
(* outbound_pending: temporary ID -> the post sent under it.  `aged' says    *)
(* that created_at is at least pendingOutboundTTL old.                      *)

NoPending == [post |-> 0, aged |-> FALSE]

PendingRows(P) == {NoPending} \cup [post : P, aged : BOOLEAN]

\* Mutant: the row is never written.
AddNothing(pending, t, post) == pending

AddPendingOutbound(pending, t, post) ==
    [pending EXCEPT ![t] = [post |-> post, aged |-> FALSE]]

\* TakePendingOutbound finds a row for t; the empty temporary ID never does.
Issued(pending, t) == t \in DOMAIN pending /\ pending[t] # NoPending

TakePendingOutbound(pending, t) == [pending EXCEPT ![t] = NoPending]

\* Mutant: the comparison is the wrong way round.
PruneYoung(pending) ==
    [t \in DOMAIN pending |-> IF pending[t].aged THEN pending[t] ELSE NoPending]

PrunePendingOutbound(pending) ==
    [t \in DOMAIN pending |-> IF pending[t].aged THEN NoPending ELSE pending[t]]

-----------------------------------------------------------------------------
(* conversations: conversation ID -> channel and root post of its thread.   *)

NoConversation == [chan |-> None, root |-> 0]

ConversationRows(P) ==
    {NoConversation} \cup [chan : Channels, root : P \cup {0}]

\* GetConversation finds a row.
Stored(conversations, c) == conversations[c] # NoConversation

\* Mutant: the transaction is rolled back.
SaveNothing(conversations, c, chan, root) == conversations

SaveConversation(conversations, c, chan, root) ==
    [conversations EXCEPT ![c] = [chan |-> chan, root |-> root]]

\* The rows GetConversationByRootPost can return.
ByRootPost(conversations, root) ==
    {c \in Convs : root # 0 /\ conversations[c].root = root}

InChannel(conversations, chan) == {c \in Convs : conversations[c].chan = chan}

\* Mutant: any conversation of the channel will do.
AnyInChannel(conversations, chan) == InChannel(conversations, chan)

\* The row GetSoleConversationInChannel returns: none unless it is alone there.
SoleInChannel(conversations, chan) ==
    {c \in InChannel(conversations, chan) :
        InChannel(conversations, chan) = {c}}

=============================================================================
