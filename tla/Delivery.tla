------------------------------ MODULE Delivery -------------------------------
(***************************************************************************)
(* Delivery states of a message and the reaction that shows each of them    *)
(* on a Mattermost post (internal/bridge/delivery.go,                       *)
(* internal/gmessages/types.go).                                            *)
(*                                                                         *)
(* The protocol has some forty status codes.  The bridge only asks the five *)
(* predicates below of a code, so a status here is a class of codes.        *)
(***************************************************************************)

Statuses == {"sending", "sent", "delivered", "read", "failed", "incoming"}

Outgoing(s)  == s \in Statuses \ {"incoming"}
Failed(s)    == s = "failed"
Delivered(s) == s \in {"delivered", "read"}
Read(s)      == s = "read"
Pending(s)   == s = "sending"

Emojis == {"hourglass", "envelope", "check", "eyes", "warning"}

\* statusEmoji, as a set: empty for the status 0 and for incoming states. A
\* displayed message also counts as delivered, so the order of the tests matters.
StatusEmoji(s) ==
    IF ~Outgoing(s)      THEN {}
    ELSE IF Failed(s)    THEN {"warning"}
    ELSE IF Read(s)      THEN {"eyes"}
    ELSE IF Delivered(s) THEN {"check"}
    ELSE IF Pending(s)   THEN {"hourglass"}
    ELSE {"envelope"}

=============================================================================
