---------------------------- MODULE SessionProofs ----------------------------
(***************************************************************************)
(* Session, proved for any pairing attempts, local and remote, and any      *)
(* number of tokens, generations and failures: an attempt's client has one  *)
(* owner, what the operator was last told is what is stored, and a          *)
(* generation restarts with the newest token of its pairing.                *)
(*                                                                         *)
(* The copies of a session are in the store, in the bridge and in a logout: *)
(* what the store may hold depends on what the others still hold and will   *)
(* save when they end (ToldOK, NewestOK).                                   *)
(***************************************************************************)
EXTENDS Session, TLAPS

-----------------------------------------------------------------------------
(* The inductive invariant.                                                 *)

\* An attempt that is not parked is with its handler, and its client open;
\* only remote ones start in a listener and wait in its table.
HeldOK ==
    /\ AttemptIsHeldOnce
    /\ \A a \in Attempts :
         /\ att[a].step = "starting" => att[a].open
         /\ att[a].step \in {"starting", "parked"} => a \in Remote

\* The bridge that runs will save its own session when it stops: unless the
\* operator's word has clashed with it already, it is the one he was told of.
ToldOK ==
    /\ LastWordIsStored
    /\ (gen.step = "up" /\ ~expected.clash) =>
         /\ expected.told # None
         /\ expected.told \in Pairings => gen.auth.pairing = expected.told

\* While no save failed and no logout holds a copy, the store and the bridge
\* have the newest token of the pairing no attempt works on.
NewestOK ==
    (failures = 0 /\ out.step = "off") =>
        /\ (store # None /\ store.pairing = First) => store.token = issued[First]
        /\ (gen.step # "off" /\ gen.auth.pairing = First) => gen.auth.token = issued[First]

SessionInv == SessionTypeOK /\ HeldOK /\ ToldOK /\ NewestOK

-----------------------------------------------------------------------------
(* Types.                                                                   *)

AttemptStates == [step : {"idle", "starting", "parked", "waiting", "confirmed",
                          "stored", "reconnected", "over"},
                  open : BOOLEAN, token : 0..MaxTokens, lost : BOOLEAN]

\* Each part of the type invariant, and what changes it.
CopiesTyped ==
    /\ store \in Sessions \cup {None}
    /\ gen = Idle \/ gen \in [step : {"loaded", "up"}, auth : Sessions]
    /\ \/ out.step \in {"off", "over"} /\ out.auth = None
       \/ out \in [step : {"loaded", "live"}, auth : Sessions]

PhoneTyped == honoured \subseteq Pairings /\ issued \in [Pairings -> 0..MaxTokens]

AttemptsTyped == pending \subseteq Remote /\ att \in [Attempts -> AttemptStates]

CountsTyped ==
    /\ starts \in 0..MaxStarts
    /\ failures \in 0..MaxFailures /\ mishaps \in 0..MaxMishaps
    /\ expected \in [told : Pairings \cup {None, "nothing"}, clash : BOOLEAN]

LEMMA TypesByParts ==
    SessionTypeOK <=> CopiesTyped /\ PhoneTyped /\ AttemptsTyped /\ CountsTyped
BY DEF SessionTypeOK, CopiesTyped, PhoneTyped, AttemptsTyped, CountsTyped, AttemptStates

LEMMA SessTyped ==
    /\ \A p \in Pairings, n \in 0..MaxTokens :
         Sess(p, n) \in Sessions /\ Sess(p, n).pairing = p /\ Sess(p, n).token = n
    /\ \A s \in Sessions : s.pairing \in Pairings /\ s.token \in 0..MaxTokens /\ s # None
    /\ Idle.step = "off" /\ Idle.auth = None
BY SessionAssumption DEF Sess, Sessions, Idle

\* A token more is still within the bound.
LEMMA NewTokenFacts ==
    ASSUME PhoneTyped, NEW p, NewToken(p)
    PROVE  /\ p \in Pairings /\ issued' \in [Pairings -> 0..MaxTokens]
           /\ issued'[p] = issued[p] + 1 /\ issued'[p] \in 0..MaxTokens
           /\ \A q \in Pairings : q # p => issued'[q] = issued[q]
BY SessionAssumption DEF NewToken, PhoneTyped

\* What the bridge's steps do with its copy.
LEMMA GenSteps ==
    ASSUME SessionTypeOK
    PROVE  /\ GenLoads => /\ gen.step = "off"
                          /\ store # None => gen' = [step |-> "loaded", auth |-> store]
                          /\ store = None => gen' = Idle
           /\ GenConnects => /\ gen \in [step : {"loaded", "up"}, auth : Sessions]
                             /\ gen' = [step |-> "up", auth |-> gen.auth]
           /\ GenRefreshes =>
                /\ gen \in [step : {"loaded", "up"}, auth : Sessions]
                /\ NewToken(gen.auth.pairing)
                /\ gen' = [step |-> gen.step,
                           auth |-> Sess(gen.auth.pairing, issued'[gen.auth.pairing])]
           /\ GenStops => gen \in [step : {"loaded", "up"}, auth : Sessions] /\ gen' = Idle
<1>1. gen.step # "off" => gen \in [step : {"loaded", "up"}, auth : Sessions]
  BY SessTyped DEF SessionTypeOK
<1>2. GenLoads => /\ gen.step = "off"
                  /\ store # None => gen' = [step |-> "loaded", auth |-> store]
                  /\ store = None => gen' = Idle
  BY DEF GenLoads
<1>3. GenConnects => /\ gen \in [step : {"loaded", "up"}, auth : Sessions]
                     /\ gen' = [step |-> "up", auth |-> gen.auth]
  BY <1>1 DEF GenConnects
<1>4. ASSUME GenRefreshes
      PROVE  /\ gen \in [step : {"loaded", "up"}, auth : Sessions]
             /\ NewToken(gen.auth.pairing)
             /\ gen' = [step |-> gen.step,
                        auth |-> Sess(gen.auth.pairing, issued'[gen.auth.pairing])]
  <2>1. gen \in [step : {"loaded", "up"}, auth : Sessions]
    BY <1>1, <1>4 DEF GenRefreshes
  <2>2. gen.auth \in Sessions /\ gen' = [gen EXCEPT !.auth.token = issued'[gen.auth.pairing]]
    BY <1>4, <2>1 DEF GenRefreshes
  <2>3. [gen.auth EXCEPT !.token = issued'[gen.auth.pairing]]
        = Sess(gen.auth.pairing, issued'[gen.auth.pairing])
    BY <2>2 DEF Sess, Sessions
  <2>4. gen' = [step |-> gen.step, auth |-> [gen.auth EXCEPT !.token = issued'[gen.auth.pairing]]]
    BY <2>1, <2>2
  <2> QED
    BY <1>4, <2>1, <2>3, <2>4 DEF GenRefreshes
<1>5. GenStops => gen \in [step : {"loaded", "up"}, auth : Sessions] /\ gen' = Idle
  BY <1>1 DEF GenStops
<1> QED
  BY <1>2, <1>3, <1>4, <1>5

LEMMA CopiesStep ==
    ASSUME SessionTypeOK, Next
    PROVE  CopiesTyped'
<1>0. CopiesTyped /\ PhoneTyped /\ AttemptsTyped
  BY TypesByParts
<1>1. CASE GenLoads
  BY <1>0, <1>1, GenSteps DEF GenLoads, GenKeeps, CopiesTyped
<1>2. CASE GenConnects
  BY <1>0, <1>2, GenSteps DEF GenConnects, GenKeeps, CopiesTyped
<1>3. CASE GenConnectFails
  BY <1>0, <1>3 DEF GenConnectFails, GenKeeps, CopiesTyped
<1>4. CASE GenRefreshes
  <2>1. gen'.auth = Sess(gen.auth.pairing, issued'[gen.auth.pairing]) /\ gen'.auth \in Sessions
        /\ gen' \in [step : {"loaded", "up"}, auth : Sessions]
    BY <1>0, <1>4, GenSteps, NewTokenFacts, SessTyped
  <2>2. store' = gen'.auth \/ store' = store
    BY <1>4 DEF GenRefreshes, SaveOrFail, Save, SaveFails
  <2> QED
    BY <1>0, <1>4, <2>1, <2>2 DEF GenRefreshes, GenKeeps, CopiesTyped
<1>5. CASE GenStops
  BY <1>0, <1>5, GenSteps DEF GenStops, GenKeeps, SaveOrFail, Save, SaveFails, CopiesTyped
<1>6. ASSUME NEW a \in Attempts, StoresSession(a) \/ Reconnects(a) \/ Verified(a)
      PROVE  CopiesTyped'
  <2>1. gen' = gen /\ out' = out
    BY <1>6 DEF StoresSession, Reconnects, Verified, AttKeeps
  <2>2. a \in Pairings /\ att[a].token \in 0..MaxTokens /\ 0 \in 0..MaxTokens
    BY <1>0, SessionAssumption DEF AttemptsTyped, AttemptStates, Pairings
  <2>3. Reconnects(a) => issued'[a] \in 0..MaxTokens
    BY <1>0, NewTokenFacts DEF Reconnects
  <2>4. store' \in Sessions \cup {store}
    BY <1>6, <2>2, <2>3, SessTyped
    DEF StoresSession, Reconnects, Verified, SaveOrFail, Save, SaveFails
  <2> QED
    BY <1>0, <2>1, <2>4 DEF CopiesTyped
<1>7. CASE LogoutLoads
  BY <1>0, <1>7 DEF LogoutLoads, OutKeeps, CopiesTyped
<1>8. CASE LogoutConnects
  <2>1. out.auth \in Sessions
    BY <1>0, <1>8 DEF LogoutConnects, CopiesTyped
  <2>2. out' \in [step : {"loaded", "live"}, auth : Sessions]
    BY <1>0, <1>8, <2>1, NewTokenFacts, SessTyped DEF LogoutConnects
  <2> QED
    BY <1>0, <1>8, <2>2
    DEF LogoutConnects, OutKeeps, SaveOrFail, Save, SaveFails, CopiesTyped
<1>9. CASE Unpairs
  BY <1>0, <1>9 DEF Unpairs, OutKeeps, Save, SaveFails, CopiesTyped, Idle
<1>10. CASE Dies
  BY <1>0, <1>10 DEF Dies, CopiesTyped
<1>11. CASE UNCHANGED <<store, gen, out>>
  BY <1>0, <1>11 DEF CopiesTyped
<1> QED
  BY <1>1, <1>2, <1>3, <1>4, <1>5, <1>6, <1>7, <1>8, <1>9, <1>10, <1>11
  DEF Next, Starts, WaitedFor, WaitedForByOther, Sweeps, PhoneConfirms, Handles, Parks,
      AttemptFails, ListenerStops, Revokes, AttKeeps, OutKeeps

LEMMA PhoneStep ==
    ASSUME SessionTypeOK, Next
    PROVE  PhoneTyped'
<1>0. PhoneTyped
  BY TypesByParts
<1>1. ASSUME NEW p, NewToken(p), honoured' = honoured
      PROVE  PhoneTyped'
  BY <1>0, <1>1, NewTokenFacts DEF PhoneTyped
<1>2. ASSUME honoured' \subseteq honoured \cup Attempts, issued' = issued
      PROVE  PhoneTyped'
  BY <1>0, <1>2 DEF PhoneTyped, Pairings
<1>3. CASE GenRefreshes
  BY <1>1, <1>3 DEF GenRefreshes, GenKeeps
<1>4. ASSUME NEW a \in Attempts, Reconnects(a)
      PROVE  PhoneTyped'
  BY <1>1, <1>4 DEF Reconnects
<1>5. CASE LogoutConnects
  BY <1>1, <1>5 DEF LogoutConnects
<1>6. ASSUME NEW a \in Attempts, PhoneConfirms(a)
      PROVE  PhoneTyped'
  BY <1>2, <1>6 DEF PhoneConfirms
<1>7. CASE Unpairs
  BY <1>2, <1>7 DEF Unpairs
<1>8. ASSUME NEW p, Revokes(p)
      PROVE  PhoneTyped'
  BY <1>2, <1>8 DEF Revokes
<1>9. CASE UNCHANGED phone
  BY <1>2, <1>9 DEF phone
<1> QED
  BY <1>3, <1>4, <1>5, <1>6, <1>7, <1>8, <1>9
  DEF Next, GenLoads, GenConnects, GenConnectFails, GenStops, GenKeeps, Starts, WaitedFor,
      WaitedForByOther, Sweeps, Handles, Parks, StoresSession, Verified, AttemptFails,
      ListenerStops, LogoutLoads, Dies, phone

\* What an attempt may become, in one step, by itself or by others.
LEMMA AttemptSteps ==
    ASSUME SessionTypeOK, NEW a \in Attempts
    PROVE  /\ att[a] \in AttemptStates /\ Over \in AttemptStates /\ NoAttempt \in AttemptStates
           /\ Over.step = "over" /\ ~Over.open
           /\ \A as : /\ CloseAll(as) \in [Attempts -> AttemptStates]
                      /\ \A b \in Attempts : CloseAll(as)[b] = IF b \in as THEN Over ELSE att[b]
           /\ \A r \in AttemptStates : [att EXCEPT ![a] = r] \in [Attempts -> AttemptStates]
<1>1. att \in [Attempts -> AttemptStates]
  BY TypesByParts DEF AttemptsTyped
<1>2. NoAttempt \in AttemptStates
  BY SessionAssumption DEF NoAttempt, AttemptStates
<1>3. Over \in AttemptStates /\ Over.step = "over" /\ ~Over.open
  <2>1. Over \in AttemptStates
    BY <1>2 DEF Over, AttemptStates
  <2>2. Over.step = "over" /\ Over.open = NoAttempt.open /\ ~NoAttempt.open
    BY <1>2 DEF Over, NoAttempt, AttemptStates
  <2> QED
    BY <2>1, <2>2
<1> QED
  BY <1>1, <1>2, <1>3 DEF CloseAll

\* A step of one attempt, by its handler or by whoever waits for it.
AttemptActs(a) ==
    \/ Starts(a) \/ WaitedFor(a) \/ WaitedForByOther(a) \/ Sweeps(a) \/ PhoneConfirms(a)
    \/ Handles(a)

\* It changes that attempt, and its entry in the table, and no other.
LEMMA ActsOnOne ==
    ASSUME SessionTypeOK, NEW a \in Attempts, AttemptActs(a)
    PROVE  /\ att' \in [Attempts -> AttemptStates]
           /\ \A b \in Attempts : b # a => att'[b] = att[b] /\ (b \in pending' <=> b \in pending)
           /\ pending' \subseteq pending \cup {a}
<1>0. att \in [Attempts -> AttemptStates] /\ PhoneTyped /\ att[a] \in AttemptStates
  BY TypesByParts, AttemptSteps DEF AttemptsTyped
<1>1. ASSUME NEW st \in {"waiting", "parked", "confirmed", "stored"}, To(a, st)
      PROVE  /\ att' \in [Attempts -> AttemptStates]
             /\ \A b \in Attempts : b # a => att'[b] = att[b]
  BY <1>0, <1>1 DEF To, AttemptStates
<1>2. ASSUME att' = CloseAll({a})
      PROVE  /\ att' \in [Attempts -> AttemptStates]
             /\ \A b \in Attempts : b # a => att'[b] = att[b]
  BY <1>2, AttemptSteps
<1>3. CASE Starts(a)
  BY <1>0, <1>3 DEF Starts, AttemptStates
<1>4. CASE WaitedFor(a)
  BY <1>1, <1>4 DEF WaitedFor, TakesOut
<1>5. CASE WaitedForByOther(a)
  BY <1>0, <1>5 DEF WaitedForByOther, TakesOut, AttemptStates
<1>6. CASE Sweeps(a)
  BY <1>0, <1>2, <1>6 DEF Sweeps, AttemptStates
<1>7. CASE PhoneConfirms(a)
  BY <1>1, <1>7 DEF PhoneConfirms
<1>8. CASE Parks(a)
  BY <1>1, <1>8 DEF Parks
<1>9. CASE StoresSession(a)
  BY <1>1, <1>2, <1>9 DEF StoresSession
<1>10. CASE Reconnects(a)
  <2>1. issued'[a] \in 0..MaxTokens
    BY <1>0, <1>10, NewTokenFacts DEF Reconnects
  <2>2. att' = [att EXCEPT ![a].step = "reconnected", ![a].token = issued'[a]]
        /\ pending' = pending
    BY <1>10 DEF Reconnects
  <2> QED
    BY <1>0, <2>1, <2>2 DEF AttemptStates
<1>11. CASE Verified(a)
  BY <1>2, <1>11 DEF Verified
<1>12. CASE AttemptFails(a)
  BY <1>2, <1>12 DEF AttemptFails, Torn
<1> QED
  BY <1>3, <1>4, <1>5, <1>6, <1>7, <1>8, <1>9, <1>10, <1>11, <1>12 DEF AttemptActs, Handles

LEMMA AttemptsStep ==
    ASSUME SessionTypeOK, HeldOK, Next
    PROVE  AttemptsTyped'
<1>0. AttemptsTyped
  BY TypesByParts
<1>1. ASSUME NEW a \in Attempts, AttemptActs(a)
      PROVE  AttemptsTyped'
  <2>1. pending' \subseteq pending \/ a \in Remote
    BY <1>1
    DEF AttemptActs, Handles, Starts, WaitedFor, WaitedForByOther, TakesOut, Sweeps,
        PhoneConfirms, Parks, StoresSession, Reconnects, Verified, AttemptFails, HeldOK
  <2> QED
    BY <1>0, <1>1, <2>1, ActsOnOne DEF AttemptsTyped
<1>2. CASE ListenerStops
  <2>1. \A a \in Attempts : [att[a] EXCEPT !.lost = TRUE] \in AttemptStates
    BY <1>0 DEF AttemptsTyped, AttemptStates
  <2>2. \A a \in Attempts : CloseAll(pending)[a] \in AttemptStates
    BY AttemptSteps
  <2>3. att' \in [Attempts -> AttemptStates]
    BY <1>2, <2>1, <2>2 DEF ListenerStops
  <2> QED
    BY <1>2, <2>3 DEF ListenerStops, AttemptsTyped
<1>3. CASE Dies
  <2>1. \A a \in Attempts : CloseAll({x \in Remote : att[x].step # "idle"})[a] \in AttemptStates
    BY AttemptSteps
  <2>2. att' \in [Attempts -> AttemptStates]
    BY <1>3, <2>1 DEF Dies, CloseAll
  <2> QED
    BY <1>3, <2>2 DEF Dies, AttemptsTyped
<1>4. CASE UNCHANGED <<att, pending>>
  BY <1>0, <1>4 DEF AttemptsTyped
<1> QED
  BY <1>1, <1>2, <1>3, <1>4
  DEF Next, AttemptActs, GenLoads, GenConnects, GenConnectFails, GenRefreshes, GenStops,
      GenKeeps, LogoutLoads, LogoutConnects, Unpairs, Revokes, OutKeeps

LEMMA CountsStep ==
    ASSUME SessionTypeOK, Next
    PROVE  CountsTyped'
<1>0. CountsTyped
  BY TypesByParts
<1>1. starts' \in 0..MaxStarts
  <2>1. starts' = starts \/ (starts < MaxStarts /\ starts' = starts + 1)
    BY DEF Next, GenLoads, GenConnects, GenConnectFails, GenRefreshes, GenStops, Starts,
           WaitedFor, WaitedForByOther, Sweeps, PhoneConfirms, Handles, Parks, StoresSession,
           Reconnects, Verified, AttemptFails, ListenerStops, LogoutLoads, LogoutConnects,
           Unpairs, Dies, Revokes, AttKeeps, OutKeeps
  <2> QED
    BY <1>0, <2>1, SessionAssumption DEF CountsTyped
<1>2. failures' \in 0..MaxFailures /\ mishaps' \in 0..MaxMishaps
  <2>1. /\ failures' = failures \/ (failures < MaxFailures /\ failures' = failures + 1)
        /\ mishaps' = mishaps \/ (mishaps < MaxMishaps /\ mishaps' = mishaps + 1)
    BY DEF Next, GenLoads, GenConnects, GenConnectFails, GenRefreshes, GenStops, Starts,
           WaitedFor, WaitedForByOther, Sweeps, PhoneConfirms, Handles, Parks, StoresSession,
           Reconnects, Verified, AttemptFails, ListenerStops, LogoutLoads, LogoutConnects,
           Unpairs, Dies, Revokes, Mishap, SaveOrFail, Save, SaveFails, faults
  <2> QED
    BY <1>0, <2>1, SessionAssumption DEF CountsTyped
<1>3. expected' \in [told : Pairings \cup {None, "nothing"}, clash : BOOLEAN]
  <2>0. expected \in [told : Pairings \cup {None, "nothing"}, clash : BOOLEAN]
    BY <1>0 DEF CountsTyped
  <2>1. ASSUME NEW g, Noticed(g)
        PROVE  expected' \in [told : Pairings \cup {None, "nothing"}, clash : BOOLEAN]
    <3>1. (expected.clash \/ Clashes(g)) \in BOOLEAN
      BY <2>0 DEF Clashes
    <3> QED
      BY <2>0, <2>1, <3>1 DEF Noticed
  <2>2. CASE expected' = expected \/ expected' = NothingTold
    <3>1. NothingTold \in [told : Pairings \cup {None, "nothing"}, clash : BOOLEAN]
      BY DEF NothingTold
    <3> QED
      BY <2>0, <2>2, <3>1
  <2>3. ASSUME NEW a \in Attempts, Verified(a)
        PROVE  expected' \in [told : Pairings \cup {None, "nothing"}, clash : BOOLEAN]
    <3>1. (gen.step = "up" /\ gen.auth.pairing # a) \in BOOLEAN /\ a \in Pairings
      BY DEF Pairings
    <3>2. [told |-> a, clash |-> gen.step = "up" /\ gen.auth.pairing # a]
          \in [told : Pairings \cup {None, "nothing"}, clash : BOOLEAN]
      BY <3>1
    <3> QED
      BY <2>0, <2>3, <3>2 DEF Verified
  <2>4. CASE Unpairs
    <3>1. (gen.step = "up") \in BOOLEAN
      OBVIOUS
    <3>2. [told |-> None, clash |-> gen.step = "up"]
          \in [told : Pairings \cup {None, "nothing"}, clash : BOOLEAN]
      BY <3>1
    <3> QED
      BY <2>0, <2>4, <3>2 DEF Unpairs
  <2> QED
    BY <2>1, <2>2, <2>3, <2>4
    DEF Next, GenLoads, GenConnects, GenConnectFails, GenRefreshes, GenStops, Starts,
        WaitedFor, WaitedForByOther, Sweeps, PhoneConfirms, Handles, Parks, StoresSession,
        Reconnects, AttemptFails, ListenerStops, LogoutLoads, LogoutConnects, Dies, Revokes
<1> QED
  BY <1>1, <1>2, <1>3 DEF CountsTyped

-----------------------------------------------------------------------------
(* Who holds an attempt's client.                                           *)

\* HeldOK, attempt by attempt.
Held(a) ==
    /\ a \in pending => att[a].step = "parked" /\ att[a].open
    /\ att[a].step \in {"waiting", "confirmed", "stored", "reconnected"} => att[a].open
    /\ att[a].step = "starting" => att[a].open
    /\ att[a].step \in {"starting", "parked"} => a \in Remote

LEMMA HeldByAttempt == HeldOK <=> \A a \in Attempts : Held(a)
BY DEF HeldOK, AttemptIsHeldOnce, Held

LEMMA HeldStep ==
    ASSUME SessionTypeOK, HeldOK, Next
    PROVE  HeldOK'
<1>0. (\A a \in Attempts : Held(a)) /\ att \in [Attempts -> AttemptStates]
  BY HeldByAttempt, TypesByParts DEF AttemptsTyped
<1>1. ASSUME NEW a \in Attempts, AttemptActs(a)
      PROVE  \A b \in Attempts : Held(b)'
  <2>1. \A b \in Attempts : b # a => Held(b)'
    BY <1>0, <1>1, ActsOnOne DEF Held
  <2>2. Held(a) /\ att[a] \in AttemptStates
    BY <1>0
  <2>3. ASSUME att' = CloseAll({a}), a \notin pending'
        PROVE  Held(a)'
    <3>1. att'[a] = Over
      BY <2>3, AttemptSteps
    <3> QED
      BY <2>3, <3>1, AttemptSteps DEF Held
  <2>4. Held(a)'
    <3>1. CASE Starts(a)
      BY <1>0, <2>2, <3>1 DEF Starts, Held, AttemptStates
    <3>2. CASE WaitedFor(a)
      BY <1>0, <2>2, <3>2 DEF WaitedFor, To, TakesOut, Held, AttemptStates
    <3>3. CASE WaitedForByOther(a)
      BY <1>0, <2>2, <3>3 DEF WaitedForByOther, TakesOut, Held, AttemptStates
    <3>4. CASE Sweeps(a)
      BY <2>2, <2>3, <3>4 DEF Sweeps, Held
    <3>5. CASE PhoneConfirms(a)
      BY <1>0, <2>2, <3>5 DEF PhoneConfirms, To, Held, AttemptStates
    <3>6. CASE Parks(a)
      BY <1>0, <2>2, <3>6 DEF Parks, To, Held, AttemptStates
    <3>7. CASE StoresSession(a)
      <4>1. a \notin pending'
        BY <2>2, <3>7 DEF StoresSession, Held
      <4>2. CASE To(a, "stored")
        BY <1>0, <2>2, <3>7, <4>1, <4>2 DEF StoresSession, To, Held, AttemptStates
      <4> QED
        BY <2>3, <3>7, <4>1, <4>2 DEF StoresSession
    <3>8. CASE Reconnects(a)
      BY <1>0, <2>2, <3>8 DEF Reconnects, Held, AttemptStates
    <3>9. CASE Verified(a)
      BY <2>2, <2>3, <3>9 DEF Verified, Held
    <3>10. CASE AttemptFails(a)
      BY <2>2, <2>3, <3>10 DEF AttemptFails, Torn, Held
    <3> QED
      BY <1>1, <3>1, <3>2, <3>3, <3>4, <3>5, <3>6, <3>7, <3>8, <3>9, <3>10
      DEF AttemptActs, Handles
  <2> QED
    BY <2>1, <2>4
<1>2. ASSUME ListenerStops, NEW b \in Attempts
      PROVE  Held(b)'
  <2>1. b \notin pending' /\ Held(b) /\ att[b] \in AttemptStates
    BY <1>0, <1>2 DEF ListenerStops
  <2>2. CASE att[b].step = "starting"
    <3>1. att'[b] = [att[b] EXCEPT !.lost = TRUE]
      BY <1>2, <2>2 DEF ListenerStops
    <3> QED
      BY <2>1, <3>1 DEF Held, AttemptStates
  <2>3. CASE att[b].step # "starting"
    <3>1. att'[b] = CloseAll(pending)[b]
      BY <1>2, <2>3 DEF ListenerStops
    <3>2. att'[b] = IF b \in pending THEN Over ELSE att[b]
      BY <3>1, AttemptSteps
    <3> QED
      BY <2>1, <3>2, AttemptSteps DEF Held
  <2> QED
    BY <2>2, <2>3
<1>3. ASSUME Dies, NEW b \in Attempts
      PROVE  Held(b)'
  <2>1. b \notin pending' /\ Held(b)
    BY <1>0, <1>3 DEF Dies
  <2>2. att'[b] = IF b \in {a \in Remote : att[a].step # "idle"} THEN Over ELSE att[b]
    BY <1>3 DEF Dies, CloseAll
  <2> QED
    BY <2>1, <2>2, AttemptSteps DEF Held
<1>4. ASSUME UNCHANGED <<att, pending>>, NEW b \in Attempts
      PROVE  Held(b)'
  BY <1>0, <1>4 DEF Held
<1>5. \A b \in Attempts : Held(b)'
  BY <1>1, <1>2, <1>3, <1>4
  DEF Next, AttemptActs, GenLoads, GenConnects, GenConnectFails, GenRefreshes, GenStops,
      GenKeeps, LogoutLoads, LogoutConnects, Unpairs, Revokes, OutKeeps
<1> QED
  BY <1>5 DEF HeldOK, AttemptIsHeldOnce, Held

-----------------------------------------------------------------------------
(* What the operator was told.                                              *)

\* What is stored, or will be when the bridge stops, is what a word allows.
Agrees(e, s) == ~e.clash => /\ e.told # None
                            /\ e.told \in Pairings => s.pairing = e.told

LEMMA ToldByAgreement ==
    ToldOK <=> /\ store = None => (~expected.clash => expected.told \notin Pairings)
               /\ store # None => Agrees(expected, store)
               /\ gen.step = "up" => Agrees(expected, gen.auth)
BY DEF ToldOK, LastWordIsStored, Agrees

\* A bridge or a logout that writes agrees with the word, or clashes with it.
LEMMA NoticedAgrees ==
    ASSUME SessionTypeOK, NEW g, Noticed(g), NEW s, s.pairing = g.auth.pairing
    PROVE  /\ Agrees(expected', s)
           /\ expected'.told = expected.told /\ (expected.clash => expected'.clash)
<1>1. expected \in [told : Pairings \cup {None, "nothing"}, clash : BOOLEAN]
  BY DEF SessionTypeOK
<1>2. expected'.told = expected.told /\ expected'.clash = (expected.clash \/ Clashes(g))
  BY <1>1 DEF Noticed
<1> QED
  BY <1>2 DEF Clashes, Agrees

\* A word that says nothing agrees with everything.
LEMMA NothingAgrees ==
    NothingTold.told \notin Pairings \cup {None} /\ \A s : Agrees(NothingTold, s)
BY SessionAssumption DEF NothingTold, Agrees

LEMMA ToldStep ==
    ASSUME SessionTypeOK, ToldOK, Next
    PROVE  ToldOK'
<1> DEFINE Kept == /\ store = None => (~expected.clash => expected.told \notin Pairings)
                   /\ store # None => Agrees(expected, store)
                   /\ gen.step = "up" => Agrees(expected, gen.auth)
<1>0. Kept /\ CopiesTyped /\ PhoneTyped /\ CountsTyped
  BY ToldByAgreement, TypesByParts
<1>s. Kept' => ToldOK'
  BY DEF ToldOK, LastWordIsStored, Agrees
<1>1. CASE GenLoads
  <2>1. gen'.step # "up" /\ store' = store /\ expected' = expected
    BY <1>1, GenSteps, SessTyped DEF GenLoads
  <2> QED
    BY <1>0, <1>s, <2>1
<1>2. CASE GenConnects
  <2>1. gen'.auth = gen.auth /\ store' = store /\ Noticed(gen)
    BY <1>2, GenSteps DEF GenConnects
  <2>2. Agrees(expected', gen'.auth)
    BY <2>1, NoticedAgrees
  <2>3. expected'.told = expected.told /\ (expected.clash => expected'.clash)
    BY <2>1, NoticedAgrees
  <2> QED
    BY <1>0, <1>s, <2>1, <2>2, <2>3 DEF Agrees
<1>3. CASE GenConnectFails
  BY <1>0, <1>s, <1>3, SessTyped DEF GenConnectFails
<1>4. CASE GenRefreshes
  <2>1. gen'.auth.pairing = gen.auth.pairing /\ gen'.auth \in Sessions /\ gen'.step = gen.step
    BY <1>0, <1>4, GenSteps, NewTokenFacts, SessTyped
  <2>2. (store' = gen'.auth \/ store' = store) /\ Noticed(gen)
    BY <1>4 DEF GenRefreshes, SaveOrFail, Save, SaveFails
  <2>3. /\ Agrees(expected', gen'.auth)
        /\ expected'.told = expected.told /\ (expected.clash => expected'.clash)
    BY <2>1, <2>2, NoticedAgrees
  <2>4. store' # None => Agrees(expected', store')
    BY <1>0, <2>2, <2>3 DEF Agrees
  <2>5. store' = None => store = None
    BY <2>1, <2>2, SessTyped
  <2> QED
    BY <1>0, <1>s, <2>3, <2>4, <2>5
<1>5. CASE GenStops
  <2>1. gen'.step # "up" /\ expected' = expected /\ Agrees(expected, gen.auth)
        /\ gen.auth \in Sessions
    BY <1>0, <1>5, GenSteps, SessTyped DEF GenStops
  <2>2. store' = gen.auth \/ store' = store
    BY <1>5 DEF GenStops, SaveOrFail, Save, SaveFails
  <2> QED
    BY <1>0, <1>s, <2>1, <2>2, SessTyped
<1>6. ASSUME NEW a \in Attempts, StoresSession(a) \/ Reconnects(a)
      PROVE  ToldOK'
  <2>1. gen' = gen /\ (expected' = NothingTold \/ (expected' = expected /\ store' = store))
    BY <1>6 DEF StoresSession, Reconnects, AttKeeps, SaveFails
  <2> QED
    BY <1>0, <1>s, <2>1, NothingAgrees
<1>7. ASSUME NEW a \in Attempts, Verified(a)
      PROVE  ToldOK'
  <2>1. gen' = gen
    BY <1>7 DEF Verified, AttKeeps
  <2>2. CASE SaveFails /\ UNCHANGED expected
    BY <1>0, <1>s, <2>1, <2>2 DEF SaveFails
  <2>3. CASE /\ Save(Sess(a, att[a].token))
             /\ expected' = [told |-> a, clash |-> gen.step = "up" /\ gen.auth.pairing # a]
    <3>1. store'.pairing = a /\ a # None
      BY <2>3, SessionAssumption DEF Save, Sess, Pairings
    <3>2. expected'.told = a /\ (gen.step = "up" /\ gen.auth.pairing # a => expected'.clash)
      BY <2>3
    <3>3. Agrees(expected', store') /\ (gen.step = "up" => Agrees(expected', gen.auth))
      BY <3>1, <3>2 DEF Agrees
    <3>4. Sess(a, att[a].token) # None
      BY <1>7, TypesByParts, SessTyped DEF AttemptsTyped, AttemptStates, Pairings
    <3> QED
      BY <1>s, <2>1, <2>3, <3>3, <3>4 DEF Save
  <2> QED
    BY <1>7, <2>2, <2>3 DEF Verified
<1>8. CASE LogoutConnects
  <2>1. gen' = gen /\ Noticed(out) /\ out.auth \in Sessions /\ NewToken(out.auth.pairing)
    BY <1>0, <1>8 DEF LogoutConnects, OutKeeps, CopiesTyped
  <2>2. out'.auth = Sess(out.auth.pairing, issued'[out.auth.pairing])
    BY <1>8 DEF LogoutConnects
  <2>3. out'.auth.pairing = out.auth.pairing /\ out'.auth \in Sessions
    BY <1>0, <2>1, <2>2, NewTokenFacts, SessTyped
  <2>4. store' = out'.auth \/ store' = store
    BY <1>8 DEF LogoutConnects, SaveOrFail, Save, SaveFails
  <2>5. /\ Agrees(expected', out'.auth)
        /\ expected'.told = expected.told /\ (expected.clash => expected'.clash)
    BY <2>1, <2>3, NoticedAgrees
  <2>6. store' # None => Agrees(expected', store')
    BY <1>0, <2>4, <2>5 DEF Agrees
  <2>7. store' = None => store = None
    BY <2>3, <2>4, SessTyped
  <2>8. gen'.step = "up" => Agrees(expected', gen'.auth)
    BY <1>0, <2>1, <2>5 DEF Agrees
  <2> QED
    BY <1>0, <1>s, <2>5, <2>6, <2>7, <2>8
<1>9. CASE Unpairs
  <2>1. gen' = gen
    BY <1>9 DEF Unpairs, OutKeeps
  <2>2. CASE SaveFails /\ UNCHANGED expected
    BY <1>0, <1>s, <2>1, <2>2 DEF SaveFails
  <2>3. CASE Save(None) /\ expected' = [told |-> None, clash |-> gen.step = "up"]
    <3>1. store' = None /\ expected'.told = None /\ (gen.step = "up" => expected'.clash)
      BY <2>3 DEF Save
    <3> QED
      BY <1>s, <2>1, <3>1, SessionAssumption DEF Agrees
  <2> QED
    BY <1>9, <2>2, <2>3 DEF Unpairs
<1>10. CASE Dies
  BY <1>0, <1>s, <1>10, SessTyped DEF Dies
<1>11. CASE UNCHANGED <<store, gen, expected>>
  BY <1>0, <1>s, <1>11
<1> QED
  BY <1>1, <1>2, <1>3, <1>4, <1>5, <1>6, <1>7, <1>8, <1>9, <1>10, <1>11
  DEF Next, Starts, WaitedFor, WaitedForByOther, Sweeps, PhoneConfirms, Handles, Parks,
      AttemptFails, ListenerStops, LogoutLoads, Revokes, AttKeeps, OutKeeps

-----------------------------------------------------------------------------
(* The newest token.                                                        *)

\* A session of First has the newest of its tokens.
Newest(s, tokens) == s.pairing = First => s.token = tokens[First]

LEMMA NewestStep ==
    ASSUME SessionTypeOK, NewestOK, Next
    PROVE  NewestOK'
<1> SUFFICES ASSUME failures' = 0, out'.step = "off"
             PROVE  /\ store' # None => Newest(store', issued')
                    /\ gen'.step # "off" => Newest(gen'.auth, issued')
  BY DEF NewestOK, Newest
<1>0. CopiesTyped /\ PhoneTyped /\ CountsTyped /\ First \in Pairings
  BY TypesByParts DEF Pairings
<1>1. failures = 0 /\ failures' = failures
  <2>1. failures' = failures \/ failures' = failures + 1
    BY DEF Next, GenLoads, GenConnects, GenConnectFails, GenRefreshes, GenStops, Starts,
           WaitedFor, WaitedForByOther, Sweeps, PhoneConfirms, Handles, Parks, StoresSession,
           Reconnects, Verified, AttemptFails, ListenerStops, LogoutLoads, LogoutConnects,
           Unpairs, Dies, Revokes, Mishap, SaveOrFail, Save, SaveFails, faults
  <2>2. failures \in Nat
    BY <1>0 DEF CountsTyped
  <2> QED
    BY <2>1, <2>2
<1>2. ~SaveFails
  BY <1>1 DEF SaveFails
<1>3. ~LogoutLoads /\ ~LogoutConnects /\ ~Unpairs
  BY DEF LogoutLoads, LogoutConnects, Unpairs, Idle
<1>4. out.step = "off"
  BY <1>3 DEF Next, GenLoads, GenConnects, GenConnectFails, GenRefreshes, GenStops, GenKeeps,
         Starts, WaitedFor, WaitedForByOther, Sweeps, PhoneConfirms, Handles, Parks,
         StoresSession, Reconnects, Verified, AttemptFails, ListenerStops, AttKeeps,
         Dies, Revokes, OutKeeps
<1>5. /\ store # None => Newest(store, issued)
      /\ gen.step # "off" => Newest(gen.auth, issued)
  BY <1>1, <1>4 DEF NewestOK, Newest
<1>6. CASE GenLoads
  BY <1>5, <1>6, GenSteps, SessTyped DEF GenLoads, Newest
<1>7. CASE GenConnects
  BY <1>5, <1>7, GenSteps, SessTyped DEF GenConnects, Newest
<1>8. CASE GenConnectFails
  BY <1>5, <1>8, SessTyped DEF GenConnectFails, Newest
<1>9. CASE GenRefreshes
  <2>1. /\ gen'.auth = Sess(gen.auth.pairing, issued'[gen.auth.pairing])
        /\ NewToken(gen.auth.pairing)
    BY <1>9, GenSteps
  <2>2. gen'.auth.pairing = gen.auth.pairing /\ gen'.auth.token = issued'[gen.auth.pairing]
    BY <1>0, <2>1, NewTokenFacts, SessTyped
  <2>3. store' = gen'.auth
    BY <1>2, <1>9 DEF GenRefreshes, SaveOrFail, Save
  <2> QED
    BY <2>2, <2>3 DEF Newest
<1>10. CASE GenStops
  <2>1. store' = gen.auth /\ gen' = Idle /\ issued' = issued /\ gen.step # "off"
    BY <1>2, <1>10, GenSteps DEF GenStops, SaveOrFail, Save
  <2> QED
    BY <1>5, <2>1, SessTyped DEF Newest
<1>11. ASSUME NEW a \in Attempts, StoresSession(a) \/ Reconnects(a) \/ Verified(a)
       PROVE  /\ store' # None => Newest(store', issued')
              /\ gen'.step # "off" => Newest(gen'.auth, issued')
  <2>1. a \in Pairings /\ a # First /\ gen' = gen
    BY <1>11, SessionAssumption DEF Pairings, StoresSession, Reconnects, Verified, AttKeeps
  <2>2. issued'[First] = issued[First]
    BY <1>0, <1>11, <2>1, NewTokenFacts DEF StoresSession, Reconnects, Verified, phone
  <2>3. store'.pairing = a
    BY <1>2, <1>11 DEF StoresSession, Reconnects, Verified, SaveOrFail, Save, Sess
  <2> QED
    BY <1>5, <2>1, <2>2, <2>3 DEF Newest
<1>12. CASE Dies
  BY <1>5, <1>12, SessTyped DEF Dies, Newest, phone
<1>13. CASE UNCHANGED <<store, gen, issued>>
  BY <1>5, <1>13 DEF Newest
<1> QED
  BY <1>3, <1>6, <1>7, <1>8, <1>9, <1>10, <1>11, <1>12, <1>13
  DEF Next, Starts, WaitedFor, WaitedForByOther, Sweeps, PhoneConfirms, Handles, Parks,
      AttemptFails, ListenerStops, Revokes, AttKeeps, OutKeeps, phone

-----------------------------------------------------------------------------
(* The theorems.                                                            *)

LEMMA InitSession ==
    ASSUME SessionInit
    PROVE  SessionInv
<1>1. CopiesTyped
  <2>1. First \in Pairings /\ 0 \in 0..MaxTokens
    BY SessionAssumption DEF Pairings
  <2> QED
    BY <2>1, SessTyped DEF SessionInit, CopiesTyped, Idle
<1>2. PhoneTyped
  BY SessionAssumption DEF SessionInit, PhoneTyped, Pairings
<1>3. NoAttempt \in AttemptStates /\ NoAttempt.step = "idle"
  BY SessionAssumption DEF NoAttempt, AttemptStates
<1>4. AttemptsTyped
  BY <1>3 DEF SessionInit, AttemptsTyped
<1>5. CountsTyped
  <2>1. NothingTold \in [told : Pairings \cup {None, "nothing"}, clash : BOOLEAN]
    BY DEF NothingTold
  <2> QED
    BY <2>1, SessionAssumption DEF SessionInit, CountsTyped
<1>6. HeldOK
  BY <1>3 DEF SessionInit, HeldOK, AttemptIsHeldOnce
<1>7. ToldOK
  BY NothingAgrees, ToldByAgreement, SessTyped DEF SessionInit
<1>8. NewestOK
  <2>1. store # None => store.token = 0
    BY DEF SessionInit, Sess
  <2> QED
    BY <2>1, SessTyped DEF SessionInit, NewestOK, Pairings
<1> QED
  BY <1>1, <1>2, <1>4, <1>5, <1>6, <1>7, <1>8, TypesByParts DEF SessionInv

LEMMA NextSession ==
    ASSUME SessionInv, [Next]_vars
    PROVE  SessionInv'
<1>1. CASE Next
  <2>1. SessionTypeOK /\ HeldOK /\ ToldOK /\ NewestOK
    BY DEF SessionInv
  <2>2. CopiesTyped' /\ PhoneTyped' /\ AttemptsTyped' /\ CountsTyped'
    BY <1>1, <2>1, CopiesStep, PhoneStep, AttemptsStep, CountsStep
  <2>3. SessionTypeOK'
    BY <2>2 DEF SessionTypeOK, CopiesTyped, PhoneTyped, AttemptsTyped, CountsTyped,
                AttemptStates
  <2> QED
    BY <1>1, <2>1, <2>3, HeldStep, ToldStep, NewestStep DEF SessionInv
<1>2. CASE UNCHANGED vars
  BY <1>2 DEF SessionInv, SessionTypeOK, HeldOK, AttemptIsHeldOnce, ToldOK, LastWordIsStored,
              NewestOK, vars, phone, faults
<1> QED
  BY <1>1, <1>2

\* However the bridge, the attempts, the listener, "msg-gw logout", the phone
\* and the crashes interleave: types, and who holds which copy of the session.
THEOREM SessionInvariance == Spec => []SessionInv
<1>1. SessionInit => SessionInv
  BY InitSession
<1>2. SessionInv /\ [Next]_vars => SessionInv'
  BY NextSession
<1> QED
  BY <1>1, <1>2, PTL DEF Spec

\* Type correctness: a bridge or a logout under way has a session, since
\* gmessages.New refuses a store that holds none.
THEOREM SessionTypeCorrect == Spec => []SessionTypeOK
<1>1. SessionInv => SessionTypeOK
  BY DEF SessionInv
<1> QED
  BY <1>1, SessionInvariance, PTL

\* pairserver.go: an attempt's client belongs to the table, or to one handler;
\* neither the sweep nor a second wait can close it under the handler.
THEOREM OneOwner == Spec => []AttemptIsHeldOnce
<1>1. SessionInv => AttemptIsHeldOnce
  BY DEF SessionInv, HeldOK
<1> QED
  BY <1>1, SessionInvariance, PTL

\* What "pair" or "logout" told the operator last is what the store holds, until
\* somebody who still had another session in memory saves it (auth.go, daemon.go).
THEOREM WordIsKept == Spec => []LastWordIsStored
<1>1. SessionInv => LastWordIsStored
  BY DEF SessionInv, ToldOK
<1> QED
  BY <1>1, SessionInvariance, PTL

\* A generation starts with the newest token, however the one before it ended,
\* because the handler of AuthTokenRefreshed saves before it goes on (auth.go).
THEOREM NewestTokenIsLoaded == Spec => RestartsWithNewestToken
<1> DEFINE A == (gen.step = "off" /\ gen'.step = "loaded" /\ gen'.auth.pairing = First
                   /\ failures = 0 /\ out.step = "off")
                => gen'.auth.token = issued[First]
<1>1. ASSUME SessionInv, [Next]_vars,
             gen.step = "off", gen'.step = "loaded", gen'.auth.pairing = First,
             failures = 0, out.step = "off"
      PROVE  gen'.auth.token = issued[First]
  <2>1. GenLoads
    BY <1>1 DEF Next, GenConnects, GenConnectFails, GenRefreshes, GenStops, Starts, WaitedFor,
           WaitedForByOther, Sweeps, PhoneConfirms, Handles, Parks, StoresSession, Reconnects,
           Verified, AttemptFails, ListenerStops, AttKeeps, LogoutLoads, LogoutConnects,
           Unpairs, Dies, Revokes, OutKeeps, vars
  <2>2. store # None /\ gen'.auth = store
    BY <1>1, <2>1, GenSteps, SessTyped DEF SessionInv
  <2> QED
    BY <1>1, <2>2 DEF SessionInv, NewestOK
<1>2. SessionInv /\ [Next]_vars => [A]_vars
  BY <1>1
<1>3. Spec => [][A]_vars
  BY <1>2, SessionInvariance, PTL DEF Spec
<1> QED
  BY <1>3 DEF RestartsWithNewestToken

=============================================================================
