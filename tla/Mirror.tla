------------------------------- MODULE Mirror --------------------------------
(***************************************************************************)
(* What a bridge promises about messages and posts, whatever fails: the     *)
(* abstract specification Bridge implements.                                *)
(*                                                                         *)
(* A message may be shown in Mattermost any number of times until it is     *)
(* linked to one post; from then on it is never shown again and its link    *)
(* never changes.  A link is to a post of that message or to a post a       *)
(* person typed, and no post stands for two messages.                       *)
(***************************************************************************)
EXTENDS Naturals

CONSTANT Messages

VARIABLES copies,   \* copies[m]: the posts made for message m
          link,     \* link[m]: the post that stands for m, 0 when there is none
          typed     \* the posts people typed

vars == <<copies, link, typed>>

Init == /\ copies = [m \in Messages |-> {}]
        /\ link = [m \in Messages |-> 0]
        /\ typed = {}

Show(m) ==
    /\ link[m] = 0
    /\ \E p \in copies'[m] :
          /\ p \notin typed /\ \A n \in Messages : p \notin copies[n]
          /\ copies' = [copies EXCEPT ![m] = @ \cup {p}]
    /\ UNCHANGED <<link, typed>>

Link(m) ==
    /\ link[m] = 0
    /\ link'[m] \in copies[m] \cup typed
    /\ \A n \in Messages : link[n] # link'[m]
    /\ link' = [link EXCEPT ![m] = link'[m]]
    /\ UNCHANGED <<copies, typed>>

Type ==
    /\ \E p \in typed' :
          /\ p \notin typed /\ \A n \in Messages : p \notin copies[n]
          /\ typed' = typed \cup {p}
    /\ UNCHANGED <<copies, link>>

Next == Type \/ \E m \in Messages : Show(m) \/ Link(m)

Spec == Init /\ [][Next]_vars

=============================================================================
