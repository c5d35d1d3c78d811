------------------------------- MODULE Session -------------------------------
(***************************************************************************)
(* One user's Google Messages session and everybody who keeps a copy of it: *)
(* the bridge of the running generation (cmd/daemon.go, runUser), pairing   *)
(* attempts, local (cmd/pair.go) or through the daemon's listener           *)
(* (cmd/pairserver.go), and "msg-gw logout".  Each loads the stored session *)
(* or makes a new one, works on its own AuthData in memory, and saves it    *)
(* over whatever is stored (internal/gmessages/auth.go).                    *)
(*                                                                         *)
(* A session is the pairing it belongs to and the number of its auth token. *)
(***************************************************************************)
EXTENDS Naturals, FiniteSets

CONSTANTS Attempts,     \* pairing attempts, which name the pairings they make
          Remote,       \* those made with "pair --remote"
          First,        \* the pairing there was before
          None,
          MaxTokens,    \* bound: tokens issued to a pairing
          MaxStarts,    \* bound: generations
          MaxFailures,  \* bound: saves that fail
          MaxMishaps    \* bound: crashes, rebindings, waits under a wrong name

Pairings == Attempts \cup {First}

Sessions == [pairing : Pairings, token : 0..MaxTokens]

ASSUME SessionAssumption ==
    /\ Remote \subseteq Attempts /\ First \notin Attempts
    /\ None \notin Pairings \cup Sessions /\ "nothing" \notin Pairings \cup {None}
    /\ {MaxTokens, MaxStarts, MaxFailures, MaxMishaps} \subseteq Nat

VARIABLES store,     \* what the session's store holds
          honoured,  \* the pairings the phone has confirmed and not revoked
          issued,    \* issued[p]: the newest token of pairing p
          gen,       \* the generation's bridge of this user
          starts,
          att,       \* att[a]: the attempt's handler or process, and its client
          pending,   \* pairServer.pending: the remote attempts nobody waits for
          out,       \* "msg-gw logout"
          failures, mishaps,
          expected   \* what the operator was last told is stored (history)

phone  == <<honoured, issued>>
faults == <<failures, mishaps>>
vars   == <<store, phone, gen, starts, att, pending, out, faults, expected>>

Sess(p, t) == [pairing |-> p, token |-> t]
Idle == [step |-> "off", auth |-> None]

\* open: libgm's client is not closed; lost: no sweep will look at the attempt.
NoAttempt == [step |-> "idle", open |-> FALSE, token |-> 0, lost |-> FALSE]

\* told: a pairing, or None after a logout; "nothing" when neither holds.
NothingTold == [told |-> "nothing", clash |-> FALSE]

SessionInit ==
    /\ store \in {None, Sess(First, 0)}
    /\ honoured = {First} /\ issued = [p \in Pairings |-> 0]
    /\ gen = Idle /\ starts = 0
    /\ att = [a \in Attempts |-> NoAttempt] /\ pending = {}
    /\ out = Idle /\ failures = 0 /\ mishaps = 0
    /\ expected = NothingTold

Mishap == mishaps < MaxMishaps /\ mishaps' = mishaps + 1 /\ UNCHANGED failures

\* SessionStore.Save: over whatever is there, or not at all.
Save(s)   == store' = s /\ UNCHANGED faults
SaveFails == /\ failures < MaxFailures /\ failures' = failures + 1
             /\ UNCHANGED <<store, mishaps>>
SaveOrFail(s) == Save(s) \/ SaveFails

----------------------------------------------------------------------------
(* runUser: load, connect, run, disconnect and save. *)

GenKeeps == UNCHANGED <<honoured, att, pending, out>>

\* A bridge that writes its own session over what the operator was told of.
Clashes(g) == expected.told = None \/ (expected.told \in Pairings /\ g.auth.pairing # expected.told)
Noticed(g) == expected' = [expected EXCEPT !.clash = @ \/ Clashes(g)]

\* Mutant: nothing stored is taken for a session.
GenLoadsAnything ==
    /\ gen.step = "off" /\ starts < MaxStarts
    /\ starts' = starts + 1
    /\ gen' = [step |-> "loaded", auth |-> store]
    /\ GenKeeps /\ UNCHANGED <<store, issued, faults, expected>>

\* gmessages.New; with nothing stored the bridge is not started.
GenLoads ==
    /\ gen.step = "off" /\ starts < MaxStarts
    /\ starts' = starts + 1
    /\ gen' = IF store = None THEN Idle ELSE [step |-> "loaded", auth |-> store]
    /\ GenKeeps /\ UNCHANGED <<store, issued, faults, expected>>

GenConnects ==
    /\ gen.step = "loaded" /\ gen.auth.pairing \in honoured
    /\ gen' = [gen EXCEPT !.step = "up"]
    /\ Noticed(gen)
    /\ GenKeeps /\ UNCHANGED <<store, issued, starts, faults>>

\* Mutant: what was loaded is saved also when the connection failed.
ConnectFailsAndSaves ==
    /\ gen.step = "loaded"
    /\ gen' = Idle /\ Save(gen.auth)
    /\ GenKeeps /\ UNCHANGED <<issued, starts, expected>>

GenConnectFails ==
    /\ gen.step = "loaded"
    /\ gen' = Idle
    /\ GenKeeps /\ UNCHANGED <<store, issued, starts, faults, expected>>

\* libgm gets a token and changes AuthData in place.
NewToken(p) ==
    /\ p \in honoured /\ issued[p] < MaxTokens
    /\ issued' = [issued EXCEPT ![p] = @ + 1]

\* Mutant: the refreshed token is kept in memory until the bridge stops.
RefreshUnsaved ==
    /\ gen.step # "off" /\ NewToken(gen.auth.pairing)
    /\ gen' = [gen EXCEPT !.auth.token = issued'[gen.auth.pairing]]
    /\ GenKeeps /\ UNCHANGED <<store, starts, faults, expected>>

\* AuthTokenRefreshed, while connecting or later: the handler saves the session.
GenRefreshes ==
    /\ gen.step # "off" /\ NewToken(gen.auth.pairing)
    /\ gen' = [gen EXCEPT !.auth.token = issued'[gen.auth.pairing]]
    /\ SaveOrFail(gen'.auth)
    /\ Noticed(gen)
    /\ GenKeeps /\ UNCHANGED starts

\* A reload, a shutdown, or a stream that closed: the deferred Disconnect and
\* SaveSession.  That the phone revoked the session does not stop the bridge.
GenStops ==
    /\ gen.step = "up"
    /\ gen' = Idle
    /\ SaveOrFail(gen.auth)
    /\ GenKeeps /\ UNCHANGED <<issued, starts, expected>>

----------------------------------------------------------------------------
(* Pairing attempts. *)

AttKeeps == UNCHANGED <<gen, starts, out>>
To(a, s) == att' = [att EXCEPT ![a].step = s]
Over == [NoAttempt EXCEPT !.step = "over"]
CloseAll(as) == [a \in Attempts |-> IF a \in as THEN Over ELSE att[a]]

\* NewPairing and Start: the connection to Google is made.
Starts(a) ==
    /\ att[a].step = "idle"
    /\ att' = [att EXCEPT ![a].open = TRUE,
                          ![a].step = IF a \in Remote THEN "starting" ELSE "waiting"]
    /\ AttKeeps /\ UNCHANGED <<store, phone, pending, faults, expected>>

\* handleStart puts the attempt in its server's table, swept or not.
Parks(a) ==
    /\ att[a].step = "starting"
    /\ To(a, "parked")
    /\ pending' = IF att[a].lost THEN pending ELSE pending \cup {a}
    /\ AttKeeps /\ UNCHANGED <<store, phone, faults, expected>>

\* Mutant: the entry stays in the table while it is waited for.
LooksUp(a) == pending' = pending

\* handleWait takes the entry out of the table.
TakesOut(a) == pending' = pending \ {a}

WaitedFor(a) ==
    /\ att[a].step = "parked" /\ a \in pending
    /\ To(a, "waiting") /\ TakesOut(a)
    /\ AttKeeps /\ UNCHANGED <<store, phone, faults, expected>>

\* The entry of another user is taken out, and refused without being closed.
WaitedForByOther(a) ==
    /\ att[a].step = "parked" /\ a \in pending /\ Mishap
    /\ att' = [att EXCEPT ![a].lost = TRUE] /\ TakesOut(a)
    /\ AttKeeps /\ UNCHANGED <<store, phone, expected>>

\* The sweep finds an entry that has expired.
Sweeps(a) ==
    /\ a \in pending
    /\ att' = IF att[a].step = "parked" THEN CloseAll({a}) ELSE [att EXCEPT ![a].open = FALSE]
    /\ pending' = pending \ {a}
    /\ AttKeeps /\ UNCHANGED <<store, phone, faults, expected>>

\* FinishGaiaPairing: the user taps the emoji.
PhoneConfirms(a) ==
    /\ att[a].step = "waiting" /\ att[a].open
    /\ honoured' = honoured \cup {a}
    /\ To(a, "confirmed")
    /\ AttKeeps /\ UNCHANGED <<store, issued, pending, faults, expected>>

\* The end of Wait; when the session cannot be stored the attempt is over.
StoresSession(a) ==
    /\ att[a].step = "confirmed"
    /\ \/ Save(Sess(a, 0)) /\ To(a, "stored") /\ expected' = NothingTold
       \/ SaveFails /\ att' = CloseAll({a}) /\ UNCHANGED expected
    /\ AttKeeps /\ UNCHANGED <<phone, pending>>

\* Verify: the reconnection refreshes the token, and the handler saves it.
Reconnects(a) ==
    /\ att[a].step = "stored" /\ NewToken(a)
    /\ att' = [att EXCEPT ![a].step = "reconnected", ![a].token = issued'[a]]
    /\ SaveOrFail(Sess(a, issued'[a]))
    /\ expected' = NothingTold
    /\ AttKeeps /\ UNCHANGED <<honoured, pending>>

\* The conversations come: the session is saved and the operator told.
Verified(a) ==
    /\ att[a].step = "reconnected" /\ att' = CloseAll({a})
    /\ \/ /\ Save(Sess(a, att[a].token))
          /\ expected' = [told |-> a, clash |-> gen.step = "up" /\ gen.auth.pairing # a]
       \/ SaveFails /\ UNCHANGED expected
    /\ AttKeeps /\ UNCHANGED <<phone, pending>>

\* Mutant: an attempt that fails is left as it is.
Abandoned(a) == [att EXCEPT ![a].step = "over"]

\* What the deferred Close leaves.
Torn(a) == CloseAll({a})

\* Start, Wait or Verify fails, or the client goes away: Close all the same.
AttemptFails(a) ==
    /\ att[a].step \in {"starting", "waiting", "stored", "reconnected"}
    /\ att' = Torn(a)
    /\ AttKeeps /\ UNCHANGED <<store, phone, pending, faults, expected>>

\* The listener is replaced or shut down: its sweep closes what is pending and
\* ends, while handleStart may still be about to put its attempt in the table.
ListenerStops ==
    /\ Mishap
    /\ \E a \in Remote : a \in pending \/ att[a].step = "starting"
    /\ att' = [a \in Attempts |->
                 IF att[a].step = "starting" THEN [att[a] EXCEPT !.lost = TRUE]
                                             ELSE CloseAll(pending)[a]]
    /\ pending' = {}
    /\ AttKeeps /\ UNCHANGED <<store, phone, expected>>

----------------------------------------------------------------------------
(* "msg-gw logout", the phone, and a daemon that dies. *)

OutKeeps == UNCHANGED <<gen, starts, att, pending>>

LogoutLoads ==
    /\ out.step = "off" /\ store # None
    /\ out' = [step |-> "loaded", auth |-> store]
    /\ OutKeeps /\ UNCHANGED <<store, phone, faults, expected>>

\* Connect may refresh the token, which the handler saves over what is there.
LogoutConnects ==
    /\ out.step = "loaded" /\ NewToken(out.auth.pairing)
    /\ out' = [step |-> "live", auth |-> Sess(out.auth.pairing, issued'[out.auth.pairing])]
    /\ SaveOrFail(out'.auth)
    /\ Noticed(out)
    /\ OutKeeps /\ UNCHANGED honoured

\* Unpair revokes the pairing if it can, and clears the store whatever it holds;
\* with --local-only it only clears.
Unpairs ==
    /\ out.step \in {"loaded", "live"} /\ out' = [Idle EXCEPT !.step = "over"]
    /\ honoured' \in {honoured, honoured \ {out.auth.pairing}}
    /\ \/ Save(None) /\ expected' = [told |-> None, clash |-> gen.step = "up"]
       \/ SaveFails /\ UNCHANGED expected
    /\ OutKeeps /\ UNCHANGED issued

\* The user revokes a pairing on the phone.
Revokes(p) ==
    /\ p \in honoured /\ honoured' = honoured \ {p}
    /\ OutKeeps /\ UNCHANGED <<store, issued, out, faults, expected>>

\* The daemon is killed, with the attempts its handlers and its table hold.
Dies ==
    /\ gen.step # "off" /\ Mishap
    /\ gen' = Idle /\ pending' = {}
    /\ att' = CloseAll({a \in Remote : att[a].step # "idle"})
    /\ UNCHANGED <<store, phone, starts, out, expected>>

----------------------------------------------------------------------------

\* What a handler or the pair command does with nobody's help.
Handles(a) == Parks(a) \/ StoresSession(a) \/ Reconnects(a) \/ Verified(a) \/ AttemptFails(a)

Next == \/ GenLoads \/ GenConnects \/ GenConnectFails \/ GenRefreshes \/ GenStops
        \/ \E a \in Attempts : \/ Starts(a) \/ WaitedFor(a) \/ WaitedForByOther(a)
                               \/ Sweeps(a) \/ PhoneConfirms(a) \/ Handles(a)
        \/ ListenerStops \/ LogoutLoads \/ LogoutConnects \/ Unpairs \/ Dies
        \/ \E p \in Pairings : Revokes(p)

Spec == SessionInit /\ [][Next]_vars

\* A wait for the phone ends, by its request's context or libgm's time limit;
\* the sweep comes round after the time to live.
Fairness == \A a \in Attempts : WF_vars(Handles(a)) /\ WF_vars(Sweeps(a))

FairSpec == Spec /\ Fairness

----------------------------------------------------------------------------

\* A bridge or a logout under way has a session: nothing stored is refused.
SessionTypeOK ==
    /\ store \in Sessions \cup {None}
    /\ honoured \subseteq Pairings /\ issued \in [Pairings -> 0..MaxTokens]
    /\ gen = Idle \/ gen \in [step : {"loaded", "up"}, auth : Sessions]
    /\ \/ out.step \in {"off", "over"} /\ out.auth = None
       \/ out \in [step : {"loaded", "live"}, auth : Sessions]
    /\ pending \subseteq Remote
    /\ att \in [Attempts -> [step : {"idle", "starting", "parked", "waiting", "confirmed",
                                     "stored", "reconnected", "over"},
                             open : BOOLEAN, token : 0..MaxTokens, lost : BOOLEAN]]
    /\ starts \in 0..MaxStarts
    /\ failures \in 0..MaxFailures /\ mishaps \in 0..MaxMishaps
    /\ expected \in [told : Pairings \cup {None, "nothing"}, clash : BOOLEAN]

\* The client of an attempt has one owner: the table while nobody waits, then
\* the handler; the sweep never closes it under a handler (pairserver.go:172).
AttemptIsHeldOnce ==
    \A a \in Attempts :
        /\ a \in pending => att[a].step = "parked" /\ att[a].open
        /\ att[a].step \in {"waiting", "confirmed", "stored", "reconnected"} => att[a].open

\* "the server assumes the client crashed or gave up and tears the connection to
\* Google down rather than leaking it" (pairserver.go:28): every attempt's client
\* is closed in the end, except those no table holds any more.
AttemptEnds ==
    \A a \in Attempts : att[a].open ~> (~att[a].open \/ att[a].lost)

\* What the operator was last told, a verified pairing or a logout, is what the
\* store holds, unless a bridge or a logout that held another session wrote it
\* (daemon.go:388: a connection that fails saves nothing).
LastWordIsStored ==
    ~expected.clash =>
        /\ expected.told = None => store = None
        /\ expected.told \in Pairings => store # None /\ store.pairing = expected.told

\* However the bridge before ended, killed included, a generation starts with the
\* newest token of its pairing, unless a save failed or a logout has its own copy
\* (auth.go:38: "a daemon that never writes the new token back re-pairs on every
\* restart").  About the pairing no attempt works on.
RestartsWithNewestToken ==
    [][ (gen.step = "off" /\ gen'.step = "loaded" /\ gen'.auth.pairing = First
         /\ failures = 0 /\ out.step = "off")
          => gen'.auth.token = issued[First] ]_vars

\* "msg-gw pair NAME ... followed by msg-gw reload is how an operator brings this
\* user's bridge up" (daemon.go:366): the generation after a verified pairing
\* loads that pairing, when nobody ran "msg-gw logout".
PairedIsLoaded ==
    [][ (gen.step = "off" /\ gen'.step = "loaded" /\ expected.told \in Attempts /\ out.step = "off")
          => gen'.auth.pairing = expected.told ]_vars

=============================================================================
