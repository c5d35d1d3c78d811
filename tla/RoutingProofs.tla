---------------------------- MODULE RoutingProofs ----------------------------
(***************************************************************************)
(* Routing, proved for any tenants, conversations, rules and channels: a    *)
(* conversation is put where its tenant's rules mean, a cached answer can   *)
(* be used, and the bot enters no channel uninvited.                        *)
(*                                                                         *)
(* The routers are compared with what rules are documented to mean first,   *)
(* rule by rule and then list by list; that a list of rules has a first one *)
(* that matches is the least-number principle.  Then the client's cache:    *)
(* its key tells all destinations apart (CacheOK), and what a handler       *)
(* between two REST calls has found still holds when it goes on (AtOK).     *)
(***************************************************************************)
EXTENDS Routing, SequenceTheorems, WellFoundedInduction, TLAPS

-----------------------------------------------------------------------------
(* The inductive invariant.                                                 *)

Valid(t, cfg) == cfg \in RoutingConfigs(t) /\ ConfigIsValid(t, cfg)

\* The tenants' configurations validate, in the file and in the bridges.
ConfigsOK ==
    /\ DOMAIN file = Tenants /\ DOMAIN running = Tenants
    /\ \A t \in Tenants : Valid(t, file[t]) /\ Valid(t, running[t])

Places == {"idle", "cached", "look", "create", "member", "join", "keep", "store"}

\* Where the bridges are; one that works does so for a conversation.
WorkOK ==
    /\ at \in [Tenants -> Places]
    /\ DOMAIN conv = Tenants
    /\ \A t \in Tenants : at[t] # "idle" => conv[t] \in Convs[t]
    /\ stored = [t \in Tenants |-> [c \in Convs[t] |-> stored[t][c]]]

\* The cache holds each destination's own channel, in a state to be used.
CacheOK ==
    /\ \A k \in DOMAIN channels : channels[k] = ChannelOf(k)
    /\ CachedIsUsable

\* Nobody is a member of a channel that is not there; people's changes count.
ServerOK == member \subseteq exists /\ meddling \in Nat

\* What a bridge has found out by where it is.
FoundOut(t) ==
    /\ at[t] = "create" => MayCreate(t)
    /\ at[t] = "join" => Joins(t)
    /\ at[t] = "keep" => Chan(t) \in (exists \cap member) \cup meddled
    /\ at[t] = "store" => IsCached(t)

AtOK == \A t \in Tenants : FoundOut(t)

RoutingInv == ConfigsOK /\ WorkOK /\ CacheOK /\ ServerOK /\ AtOK

-----------------------------------------------------------------------------
(* The routers do what the rules mean.                                      *)

LEMMA LeastIndex ==
    ASSUME NEW S \in SUBSET Nat, S # {}
    PROVE  Min(S) \in S /\ \A i \in S : Min(S) <= i
<1>1. PICK m \in S : \A i \in S : ~(<<i, m>> \in OpToRel(<, Nat))
  BY NatLessThanWellFounded, WFMin
<1>2. \A i \in S : ~(i < m)
  BY <1>1 DEF OpToRel
<1>3. \A i \in S : m <= i
  BY <1>2
<1> QED
  BY <1>3 DEF Min

\* A user's rule that validates matches what it is meant for.
LEMMA RuleMatches ==
    ASSUME NEW r \in UserRules, RuleIsValid(r), NEW c \in Conversation
    PROVE  matches(r, c) <=> Applies(r, c)
<1>1. /\ Field(r, "ids") = r.ids /\ Field(r, "phones") = r.phones /\ Field(r, "titles") = r.titles
      /\ Field(r, "channels") = {} /\ Field(r, "guilds") = {}
  BY DEF Field, UserRules
<1>2. ShapeHolds(r, c) <=> ((r.groupsOnly => c.shape = "group") /\ (r.directsOnly => c.shape = "direct"))
  BY DEF ShapeHolds, IsGroup, Conversation
<1>3. SamePhone(r.phones, c) <=>
        \E q \in c.parties : ~q.me /\ q.phone.digits \in {p.digits : p \in r.phones}
  BY DEF SamePhone, OtherParticipants, NormalizePhone
<1>4. <<r.ids, r.phones, r.titles>> = <<{}, {}, {}>> <=>
        \A f \in {"ids", "channels", "guilds", "phones", "titles"} : Field(r, f) = {}
  BY <1>1
<1>5. <<r.ids, r.phones, r.titles>> = <<{}, {}, {}>> => HasShape(r)
  BY DEF RuleIsValid
<1>6. ~SamePhone({}, c)
  BY DEF SamePhone
<1> DEFINE nothing == <<r.ids, r.phones, r.titles>> = <<{}, {}, {}>>
<1>7. CASE nothing
  BY <1>2, <1>4, <1>5, <1>7 DEF matches, Applies
<1>8. CASE ~nothing
  BY <1>1, <1>2, <1>3, <1>4, <1>8 DEF matches, Applies
<1> QED
  BY <1>7, <1>8

\* ... and a Discord rule what it is meant for, under its generic names.
LEMMA DiscordRuleMatches ==
    ASSUME NEW r \in DiscordRules, DiscordRuleIsValid(r), NEW c \in Conversation
    PROVE  genericMatches(RulesFromDiscord(r), c) <=> Applies(r, c)
<1> SUFFICES ASSUME NEW g, g = RulesFromDiscord(r)
             PROVE  genericMatches(g, c) <=> Applies(r, c)
  OBVIOUS
<1>0. /\ g.ids = r.channels /\ g.secondaryIDs = r.guilds /\ g.phones = {} /\ g.titles = r.titles
      /\ g.groupsOnly = r.groupsOnly /\ g.directsOnly = r.directsOnly
  BY DEF RulesFromDiscord
<1>1. /\ Field(r, "ids") = {} /\ Field(r, "phones") = {} /\ Field(r, "titles") = r.titles
      /\ Field(r, "channels") = r.channels /\ Field(r, "guilds") = r.guilds
  BY DEF Field, DiscordRules
<1>2. ShapeHolds(g, c) <=> ((r.groupsOnly => c.shape = "group") /\ (r.directsOnly => c.shape = "direct"))
  BY <1>0 DEF ShapeHolds, IsGroup, Conversation
<1>3. ~SamePhone(g.phones, c)
  BY <1>0 DEF SamePhone
<1> DEFINE nothing == <<g.ids, g.secondaryIDs, g.phones, g.titles>> = <<{}, {}, {}, {}>>
<1>4. nothing <=> \A f \in {"ids", "channels", "guilds", "phones", "titles"} : Field(r, f) = {}
  BY <1>0, <1>1
<1>5. nothing => HasShape(g)
  BY <1>0 DEF DiscordRuleIsValid, HasShape
<1>6. CASE nothing
  BY <1>2, <1>4, <1>5, <1>6 DEF genericMatches, Applies
<1>7. CASE ~nothing
  BY <1>0, <1>1, <1>2, <1>3, <1>4, <1>7 DEF genericMatches, Applies
<1> QED
  BY <1>6, <1>7

\* A list of rules means its first rule that applies, or a default.
LEMMA FirstIsMeant ==
    ASSUME NEW cfg, Len(cfg.rules) \in Nat, NEW c,
           NEW hits, hits = {i \in 1..Len(cfg.rules) : Applies(cfg.rules[i], c)}
    PROVE  FirstOf(hits, cfg, c) = Meant(cfg, c)
<1> DEFINE first == {i \in 1..Len(cfg.rules) :
                       /\ Applies(cfg.rules[i], c)
                       /\ \A j \in 1..(i - 1) : ~Applies(cfg.rules[j], c)}
<1>1. CASE hits = {}
  <2>1. first = {}
    BY <1>1
  <2> QED
    BY <1>1, <2>1 DEF FirstOf, Meant
<1>2. CASE hits # {}
  <2>0. hits \in SUBSET Nat
    OBVIOUS
  <2>1. Min(hits) \in hits /\ \A i \in hits : Min(hits) <= i
    BY <1>2, <2>0, LeastIndex
  <2>2. \A i : i \in first <=> i = Min(hits)
    <3>1. ASSUME NEW i \in first
          PROVE  i = Min(hits)
      <4>1. i \in hits /\ i \in Nat /\ Min(hits) \in Nat /\ Min(hits) <= i
            /\ Min(hits) \in 1..Len(cfg.rules) /\ Applies(cfg.rules[Min(hits)], c)
        BY <2>0, <2>1, <3>1
      <4>2. \A j \in 1..(i - 1) : ~Applies(cfg.rules[j], c)
        BY <3>1
      <4>3. Min(hits) \notin 1..(i - 1)
        BY <4>1, <4>2
      <4> QED
        BY <4>1, <4>3
    <3>2. Min(hits) \in first
      <4>1. \A j \in 1..(Min(hits) - 1) : j \notin hits /\ j \in 1..Len(cfg.rules)
        BY <2>0, <2>1
      <4> QED
        BY <2>1, <4>1
    <3> QED
      BY <3>1, <3>2
  <2>3. first # {} /\ (CHOOSE i \in first : TRUE) = Min(hits)
    BY <2>2
  <2> QED
    BY <1>2, <2>3 DEF FirstOf, Meant
<1> QED
  BY <1>1, <1>2

\* Both routers route as the rules mean.
LEMMA RouteIsMeant ==
    ASSUME NEW t \in Tenants, NEW cfg, Valid(t, cfg), NEW c \in Conversation
    PROVE  (IF t = Discord THEN genericRoute(cfg, c) ELSE Route(cfg, c)) = Meant(cfg, c)
<1>1. cfg.rules \in Seq(RulesOf(t)) /\ Len(cfg.rules) \in Nat
      /\ \A i \in 1..Len(cfg.rules) : cfg.rules[i] \in RulesOf(t) /\ cfg.rules[i] \in ToSet(cfg.rules)
  BY DEF Valid, RoutingConfigs, ToSet
<1>2. CASE t = Discord
  <2>1. \A i \in 1..Len(cfg.rules) :
           genericMatches(RulesFromDiscord(cfg.rules[i]), c) <=> Applies(cfg.rules[i], c)
    BY <1>1, <1>2, DiscordRuleMatches DEF Valid, ConfigIsValid, RulesOf
  <2>2. {i \in 1..Len(cfg.rules) : genericMatches(RulesFromDiscord(cfg.rules[i]), c)}
        = {i \in 1..Len(cfg.rules) : Applies(cfg.rules[i], c)}
    BY <2>1
  <2> QED
    BY <1>1, <1>2, <2>2, FirstIsMeant DEF genericRoute
<1>3. CASE t # Discord
  <2>1. \A i \in 1..Len(cfg.rules) : matches(cfg.rules[i], c) <=> Applies(cfg.rules[i], c)
    BY <1>1, <1>3, RuleMatches DEF Valid, ConfigIsValid, RulesOf
  <2>2. {i \in 1..Len(cfg.rules) : matches(cfg.rules[i], c)}
        = {i \in 1..Len(cfg.rules) : Applies(cfg.rules[i], c)}
    BY <2>1
  <2> QED
    BY <1>1, <1>3, <2>2, FirstIsMeant DEF Route
<1> QED
  BY <1>2, <1>3

\* ... and so do the bridges, about the conversation they are at.
LEMMA DestIsMeant ==
    ASSUME RoutingInv, NEW t \in Tenants, at[t] # "idle"
    PROVE  Dest(t) = Meant(running[t], conv[t])
<1>1. Valid(t, running[t]) /\ conv[t] \in Conversation
  BY TenantAssumption DEF RoutingInv, ConfigsOK, WorkOK
<1> QED
  BY <1>1, RouteIsMeant DEF Dest

-----------------------------------------------------------------------------
(* The configurations.                                                      *)

\* What each kind of edit makes of the rules is a list of rules again.
LEMMA EditTypes ==
    ASSUME NEW t \in Tenants, NEW cfg \in RoutingConfigs(t)
    PROVE  /\ \A rules \in Seq(RulesOf(t)) : [cfg EXCEPT !.rules = rules] \in RoutingConfigs(t)
           /\ [cfg EXCEPT !.join = ~@] \in RoutingConfigs(t)
           /\ \A r \in RulesOf(t) : Append(cfg.rules, r) \in Seq(RulesOf(t))
           /\ \A i \in 1..Len(cfg.rules) : RemoveAt(cfg.rules, i) \in Seq(RulesOf(t))
<1>0. cfg.rules \in Seq(RulesOf(t))
  BY DEF RoutingConfigs
<1>1. \A rules \in Seq(RulesOf(t)) : [cfg EXCEPT !.rules = rules] \in RoutingConfigs(t)
  BY DEF RoutingConfigs
<1>2. [cfg EXCEPT !.join = ~@] \in RoutingConfigs(t)
  BY (~cfg.join) \in BOOLEAN DEF RoutingConfigs
<1>3. \A r \in RulesOf(t) : Append(cfg.rules, r) \in Seq(RulesOf(t))
  BY <1>0, AppendProperties
<1>4. ASSUME NEW i \in 1..Len(cfg.rules)
      PROVE  RemoveAt(cfg.rules, i) \in Seq(RulesOf(t))
  <2>1. /\ SubSeq(cfg.rules, 1, i - 1) \in Seq(RulesOf(t))
        /\ SubSeq(cfg.rules, i + 1, Len(cfg.rules)) \in Seq(RulesOf(t))
    BY <1>0, SubSeqProperties
  <2> QED
    BY <2>1, ConcatProperties DEF RemoveAt
<1> QED
  BY <1>1, <1>2, <1>3, <1>4

LEMMA ConfigsStep ==
    ASSUME RoutingInv, Next
    PROVE  ConfigsOK'
<1>0. ConfigsOK
  BY DEF RoutingInv
<1>1. ASSUME NEW t \in Tenants, NEW cfg \in RoutingConfigs(t), Edit(t, cfg)
      PROVE  ConfigsOK'
  <2>1. running' = running /\ file' = [file EXCEPT ![t] = cfg] /\ ConfigIsValid(t, cfg)
    BY <1>1 DEF Edit, genVars
  <2>2. DOMAIN file' = Tenants
    BY <1>0, <2>1 DEF ConfigsOK
  <2>3. \A x \in Tenants : file'[x] = IF x = t THEN cfg ELSE file[x]
    BY <1>0, <2>1 DEF ConfigsOK
  <2> QED
    BY <1>0, <1>1, <2>1, <2>2, <2>3 DEF ConfigsOK, Valid
<1>2. ASSUME NEW t \in Tenants
      PROVE  file[t] \in RoutingConfigs(t) /\ (t \in Users => RulesOf(t) = UserRules)
  BY <1>0, TenantAssumption DEF ConfigsOK, Valid, RulesOf
<1>3. ASSUME NEW t \in Tenants, Edits(t)
      PROVE  ConfigsOK'
  <2>1. ASSUME NEW r \in Rules, AddRule(t, r)
        PROVE  ConfigsOK'
    <3>1. Append(file[t].rules, r) \in Seq(RulesOf(t))
      BY <1>2, <2>1, EditTypes, ConfigsAssumption DEF AddRule
    <3>2. Edit(t, [file[t] EXCEPT !.rules = Append(file[t].rules, r)])
      BY <2>1 DEF AddRule
    <3> QED
      BY <1>1, <1>2, <3>1, <3>2, EditTypes
  <2>2. ASSUME NEW i, RemoveRule(t, i)
        PROVE  ConfigsOK'
    <3>1. RemoveAt(file[t].rules, i) \in Seq(RulesOf(t))
      BY <1>2, <2>2, EditTypes DEF RemoveRule
    <3>2. Edit(t, [file[t] EXCEPT !.rules = RemoveAt(file[t].rules, i)])
      BY <2>2 DEF RemoveRule
    <3> QED
      BY <1>1, <1>2, <3>1, <3>2, EditTypes
  <2>3. ASSUME NEW rules \in RuleLists[t], PushRules(t, rules)
        PROVE  ConfigsOK'
    <3>1. rules \in Seq(RulesOf(t))
      BY ConfigsAssumption
    <3> QED
      BY <1>1, <1>2, <2>3, <3>1, EditTypes DEF PushRules
  <2>4. CASE SwitchJoining(t)
    BY <1>1, <1>2, <2>4, EditTypes DEF SwitchJoining
  <2> QED
    BY <1>3, <2>1, <2>2, <2>3, <2>4 DEF Edits
<1>4. ASSUME NEW rules \in RuleLists[Discord], RewriteRules(rules)
      PROVE  ConfigsOK'
  <2>1. Discord \in Tenants /\ rules \in Seq(RulesOf(Discord))
    BY ConfigsAssumption DEF Tenants
  <2> QED
    BY <1>1, <1>2, <1>4, <2>1, EditTypes DEF RewriteRules
<1>5. CASE Reload
  BY <1>0, <1>5 DEF Reload, ConfigsOK, Valid, fileVars
<1>6. CASE UNCHANGED <<file, running>>
  BY <1>0, <1>6 DEF ConfigsOK, Valid
<1> QED
  BY <1>3, <1>4, <1>5, <1>6
  DEF Next, Resolves, Arrives, Step, Meddles, Hits, Misses, OpensDirect, Finds, FindsNothing,
      Creates, CreatesTooLate, FindsMembership, MustJoin, JoinsChannel, Keeps, Stores, Fails,
      fileVars, genVars

-----------------------------------------------------------------------------
(* The bridges at work.                                                     *)

\* A step of a bridge concerns its own place and conversation only.
LEMMA StepFacts ==
    ASSUME WorkOK, NEW t \in Tenants, NEW from, NEW to \in Places, Step(t, from, to)
    PROVE  /\ at[t] = from /\ at' \in [Tenants -> Places] /\ at'[t] = to
           /\ DOMAIN conv' = Tenants /\ (to # "idle" => conv'[t] = conv[t])
           /\ \A s \in Tenants : s # t => at'[s] = at[s] /\ conv'[s] = conv[s]
           /\ file' = file /\ running' = running
           /\ meddled' = meddled /\ meddling' = meddling
BY DEF Step, WorkOK, fileVars, genVars, peopleVars

\* Every step of a bridge that resolves leads from one place to another.
LEMMA ResolvesSteps ==
    ASSUME NEW t \in Tenants, Resolves(t)
    PROVE  \E from \in Places \ {"idle"}, to \in Places : Step(t, from, to)
BY DEF Resolves, Hits, Misses, OpensDirect, Finds, FindsNothing, Creates, CreatesTooLate,
       FindsMembership, MustJoin, JoinsChannel, Keeps, Stores, Fails, Places

\* Only Stores writes the mapping, and only for the conversation it is about.
LEMMA StoredStep ==
    ASSUME NEW t \in Tenants, Resolves(t)
    PROVE  \/ stored' = stored
           \/ /\ Stores(t)
              /\ stored' = [stored EXCEPT ![t][conv[t]] = channels[destinationKey(Dest(t))]]
BY DEF Resolves, Hits, Misses, OpensDirect, Finds, FindsNothing, Creates, CreatesTooLate,
       FindsMembership, MustJoin, JoinsChannel, Keeps, Stores, Fails, Quiet

LEMMA WorkStep ==
    ASSUME RoutingInv, Next
    PROVE  WorkOK'
<1>0. WorkOK
  BY DEF RoutingInv
<1>1. ASSUME NEW t \in Tenants, Resolves(t)
      PROVE  WorkOK'
  <2>1. PICK from \in Places \ {"idle"}, to \in Places : Step(t, from, to)
    BY <1>1, ResolvesSteps
  <2>2. /\ at[t] # "idle" /\ at' \in [Tenants -> Places] /\ DOMAIN conv' = Tenants
        /\ \A s \in Tenants : at'[s] # "idle" => at[s] # "idle" /\ conv'[s] = conv[s]
    BY <1>0, <2>1, StepFacts
  <2>3. \A s \in Tenants : at'[s] # "idle" => conv'[s] \in Convs[s]
    BY <1>0, <2>2 DEF WorkOK
  <2>4. stored' = [s \in Tenants |-> [c \in Convs[s] |-> stored'[s][c]]]
    <3>1. CASE stored' = stored
      BY <1>0, <3>1 DEF WorkOK
    <3>2. ASSUME NEW ch, stored' = [stored EXCEPT ![t][conv[t]] = ch]
          PROVE  stored' = [s \in Tenants |-> [c \in Convs[s] |-> stored'[s][c]]]
      <4>1. DOMAIN stored = Tenants /\ \A s \in Tenants : DOMAIN stored[s] = Convs[s]
        BY <1>0 DEF WorkOK
      <4>2. stored[t] = [c \in Convs[t] |-> stored[t][c]]
        BY <1>0 DEF WorkOK
      <4>3. stored' = [s \in Tenants |-> IF s = t THEN [stored[t] EXCEPT ![conv[t]] = ch]
                                         ELSE stored[s]]
        BY <1>0, <3>2 DEF WorkOK
      <4>4. \A s \in Tenants : stored'[s] = [c \in Convs[s] |-> stored'[s][c]]
        <5>1. ASSUME NEW s \in Tenants, s # t
              PROVE  stored'[s] = [c \in Convs[s] |-> stored'[s][c]]
          <6>1. stored'[s] = stored[s]
            BY <4>3, <5>1
          <6>2. stored[s] = [c \in Convs[s] |-> stored[s][c]]
            BY <1>0 DEF WorkOK
          <6> QED
            BY <6>1, <6>2
        <5>2. stored'[t] = [c \in Convs[t] |-> stored'[t][c]]
          <6>1. stored'[t] = [c \in Convs[t] |-> IF c = conv[t] THEN ch ELSE stored[t][c]]
            BY <4>2, <4>3
          <6> QED
            BY <6>1
        <5> QED
          BY <5>1, <5>2
      <4>5. stored' = [s \in Tenants |-> stored'[s]]
        BY <4>3
      <4> QED
        BY <4>4, <4>5
    <3> QED
      BY <1>1, <3>1, <3>2, StoredStep
  <2> QED
    BY <2>2, <2>3, <2>4 DEF WorkOK
<1>2. ASSUME NEW t \in Tenants, NEW c \in Convs[t], Arrives(t, c)
      PROVE  WorkOK'
  BY <1>0, <1>2 DEF Arrives, Quiet, WorkOK, Places
<1>3. CASE Reload
  BY <1>0, <1>3 DEF Reload, WorkOK, Places
<1>4. CASE UNCHANGED <<at, conv, stored>>
  BY <1>0, <1>4 DEF WorkOK
<1> QED
  BY <1>1, <1>2, <1>3, <1>4
  DEF Next, Edits, AddRule, RemoveRule, PushRules, SwitchJoining, RewriteRules, Edit, Meddles,
      workVars

\* Between two generations a channel that could be used can still be, unless
\* people changed it, and nothing leaves the cache.
LEMMA Grows ==
    ASSUME RoutingInv, Next, ~Reload
    PROVE  /\ (exists \cap member) \cup meddled \subseteq (exists' \cap member') \cup meddled'
           /\ DOMAIN channels \subseteq DOMAIN channels'
           /\ running' = running
<1>1. ASSUME NEW t \in Tenants, Resolves(t)
      PROVE  /\ exists \subseteq exists' /\ member \subseteq member'
             /\ DOMAIN channels \subseteq DOMAIN channels'
             /\ running' = running /\ meddled' = meddled
  BY <1>1
  DEF Resolves, Step, Quiet, Hits, Misses, OpensDirect, Finds, FindsNothing, Creates,
      CreatesTooLate, FindsMembership, MustJoin, JoinsChannel, Keeps, Stores, Fails,
      serverVars, genVars, peopleVars
<1>2. ASSUME NEW ch, NEW there, NEW in, Meddles(ch, there, in)
      PROVE  /\ (exists \cap member) \cup meddled \subseteq (exists' \cap member') \cup meddled'
             /\ channels' = channels /\ running' = running
  BY <1>2 DEF Meddles, genVars
<1>3. CASE UNCHANGED <<exists, member, meddled, channels, running>>
  BY <1>3
<1> QED
  BY <1>1, <1>2, <1>3
  DEF Next, Edits, AddRule, RemoveRule, PushRules, SwitchJoining, RewriteRules, Edit, Arrives,
      Quiet, serverVars, genVars, peopleVars

LEMMA CacheStep ==
    ASSUME RoutingInv, Next
    PROVE  CacheOK'
<1>0. CacheOK
  BY DEF RoutingInv
<1>1. CASE Reload
  <2>1. DOMAIN channels' = {}
    BY <1>1 DEF Reload
  <2> QED
    BY <2>1 DEF CacheOK, CachedIsUsable
<1>2. ASSUME NEW t \in Tenants, Keeps(t), ~Reload
      PROVE  CacheOK'
  <2>1. at[t] = "keep" /\ UNCHANGED <<exists, member, meddled>>
    BY <1>2 DEF Keeps, Step, serverVars, peopleVars
  <2>2. Chan(t) \in (exists \cap member) \cup meddled
    BY <2>1 DEF RoutingInv, AtOK, FoundOut
  <2>3. \A k \in DOMAIN channels' :
           channels'[k] = ChannelOf(k) /\ channels'[k] \in (exists \cap member) \cup meddled
    BY <1>0, <1>2, <2>2 DEF Keeps, CacheOK, CachedIsUsable, destinationKey, Chan
  <2> QED
    BY <2>1, <2>3 DEF CacheOK, CachedIsUsable
<1>3. CASE channels' = channels /\ ~Reload
  BY <1>0, <1>3, Grows DEF CacheOK, CachedIsUsable
<1> QED
  BY <1>1, <1>2, <1>3
  DEF Next, Edits, AddRule, RemoveRule, PushRules, SwitchJoining, RewriteRules, Edit, Arrives,
      Meddles, Resolves, Quiet, Hits, Misses, OpensDirect, Finds, FindsNothing, Creates,
      CreatesTooLate, FindsMembership, MustJoin, JoinsChannel, Stores, Fails

LEMMA ServerStep ==
    ASSUME RoutingInv, Next
    PROVE  ServerOK'
<1>0. ServerOK
  BY DEF RoutingInv
<1>1. ASSUME NEW t \in Tenants, Resolves(t)
      PROVE  ServerOK'
  BY <1>0, <1>1
  DEF ServerOK, Resolves, Step, Quiet, Hits, Misses, OpensDirect, Finds, FindsNothing,
      Creates, CreatesTooLate, FindsMembership, MustJoin, JoinsChannel, Keeps, Stores, Fails,
      serverVars, peopleVars
<1>2. ASSUME NEW ch, NEW there, NEW in, Meddles(ch, there, in)
      PROVE  ServerOK'
  BY <1>0, <1>2 DEF ServerOK, Meddles
<1>3. CASE UNCHANGED <<exists, member, meddling>>
  BY <1>0, <1>3 DEF ServerOK
<1> QED
  BY <1>1, <1>2, <1>3
  DEF Next, Edits, AddRule, RemoveRule, PushRules, SwitchJoining, RewriteRules, Edit, Arrives,
      Quiet, Reload, serverVars, peopleVars

\* What a bridge waits with stays as it is while others move.
LEMMA FoundOutFrame ==
    ASSUME RoutingInv, Next, ~Reload, NEW s \in Tenants,
           at'[s] = at[s], conv'[s] = conv[s]
    PROVE  FoundOut(s)'
<1>1. Dest(s)' = Dest(s) /\ Joins(s)' = Joins(s)
  BY Grows DEF Dest, Joins
<1>2. Chan(s)' = Chan(s) /\ (IsCached(s) => IsCached(s)') /\ (MayCreate(s) => MayCreate(s)')
  BY <1>1, Grows DEF Chan, IsCached, MayCreate, destinationKey
<1>3. FoundOut(s)
  BY DEF RoutingInv, AtOK
<1> QED
  BY <1>1, <1>2, <1>3, Grows DEF FoundOut

\* ... and what it finds out itself is so.
LEMMA FoundOutOwn ==
    ASSUME RoutingInv, Next, ~Reload, NEW t \in Tenants, Resolves(t)
    PROVE  FoundOut(t)'
<1>0. WorkOK /\ FoundOut(t) /\ member \subseteq exists
  BY DEF RoutingInv, AtOK, ServerOK
<1>1. PICK from \in Places \ {"idle"}, to \in Places : Step(t, from, to)
  BY ResolvesSteps
<1>2. at'[t] = to /\ at[t] = from /\ (to # "idle" => conv'[t] = conv[t])
  BY <1>0, <1>1, StepFacts
<1>3. CASE to = "idle"
  BY <1>2, <1>3 DEF FoundOut
<1>4. CASE to # "idle"
  <2>1. Dest(t)' = Dest(t) /\ Joins(t)' = Joins(t)
    BY <1>2, <1>4, Grows DEF Dest, Joins
  <2>2. Chan(t)' = Chan(t) /\ (MayCreate(t) => MayCreate(t)')
    BY <2>1 DEF Chan, MayCreate
  <2>3. at'[t] = "create" => MayCreate(t)'
    BY <1>0, <1>2, <1>4, <2>2
    DEF Resolves, Step, Hits, Misses, OpensDirect, Finds, FindsNothing, Creates,
        CreatesTooLate, FindsMembership, MustJoin, JoinsChannel, Keeps, Stores, Fails, WorkOK
  <2>4. at'[t] = "join" => Joins(t)'
    BY <1>0, <1>2, <1>4, <2>1
    DEF Resolves, Step, Hits, Misses, OpensDirect, Finds, FindsNothing, Creates,
        CreatesTooLate, FindsMembership, MustJoin, JoinsChannel, Keeps, Stores, Fails, WorkOK
  <2>5. at'[t] = "keep" => Chan(t)' \in (exists' \cap member') \cup meddled'
    <3>1. ASSUME at'[t] = "keep"
          PROVE  (FindsMembership(t) \/ JoinsChannel(t))
      BY <1>0, <1>2, <3>1
      DEF Resolves, Step, Hits, Misses, OpensDirect, Finds, FindsNothing, Creates,
          CreatesTooLate, MustJoin, Keeps, Stores, Fails, WorkOK
    <3>2. CASE FindsMembership(t)
      BY <1>0, <2>2, <3>2 DEF FindsMembership, IsMember, Quiet, serverVars
    <3>3. CASE JoinsChannel(t)
      BY <2>2, <3>3 DEF JoinsChannel
    <3> QED
      BY <3>1, <3>2, <3>3
  <2>6. at'[t] = "store" => IsCached(t)'
    <3>1. ASSUME at'[t] = "store"
          PROVE  Hits(t) \/ Keeps(t)
      BY <1>0, <1>2, <3>1
      DEF Resolves, Step, Misses, OpensDirect, Finds, FindsNothing, Creates,
          CreatesTooLate, FindsMembership, MustJoin, JoinsChannel, Stores, Fails, WorkOK
    <3>2. CASE Hits(t)
      BY <2>1, <3>2, Grows DEF Hits, IsCached, destinationKey
    <3>3. CASE Keeps(t)
      BY <2>1, <3>3 DEF Keeps, IsCached, destinationKey
    <3> QED
      BY <3>1, <3>2, <3>3
  <2> QED
    BY <2>3, <2>4, <2>5, <2>6 DEF FoundOut
<1> QED
  BY <1>3, <1>4

LEMMA AtStep ==
    ASSUME RoutingInv, Next
    PROVE  AtOK'
<1>0. WorkOK
  BY DEF RoutingInv
<1>1. CASE Reload
  BY <1>1 DEF Reload, AtOK, FoundOut
<1>2. ASSUME NEW t \in Tenants, Resolves(t), ~Reload
      PROVE  AtOK'
  <2>1. PICK from \in Places \ {"idle"}, to \in Places : Step(t, from, to)
    BY <1>2, ResolvesSteps
  <2>2. \A s \in Tenants : s # t => at'[s] = at[s] /\ conv'[s] = conv[s]
    BY <1>0, <2>1, StepFacts
  <2>3. \A s \in Tenants : s # t => FoundOut(s)'
    BY <1>2, <2>2, FoundOutFrame
  <2>4. FoundOut(t)'
    BY <1>2, FoundOutOwn
  <2> QED
    BY <2>3, <2>4 DEF AtOK
<1>3. ASSUME NEW t \in Tenants, NEW c \in Convs[t], Arrives(t, c), ~Reload
      PROVE  AtOK'
  <2>1. \A s \in Tenants : s # t => at'[s] = at[s] /\ conv'[s] = conv[s]
    BY <1>0, <1>3 DEF Arrives, WorkOK
  <2>2. \A s \in Tenants : s # t => FoundOut(s)'
    BY <1>3, <2>1, FoundOutFrame
  <2>3. at'[t] = "cached"
    BY <1>0, <1>3 DEF Arrives, WorkOK
  <2>4. FoundOut(t)'
    BY <2>3 DEF FoundOut
  <2> QED
    BY <2>2, <2>4 DEF AtOK
<1>4. CASE UNCHANGED <<at, conv>> /\ ~Reload
  BY <1>4, FoundOutFrame DEF AtOK
<1> QED
  BY <1>1, <1>2, <1>3, <1>4
  DEF Next, Edits, AddRule, RemoveRule, PushRules, SwitchJoining, RewriteRules, Edit, Meddles,
      workVars

-----------------------------------------------------------------------------
(* The theorems.                                                            *)

LEMMA InitRouting ==
    ASSUME Init
    PROVE  RoutingInv
<1>1. ConfigsOK
  BY ConfigsAssumption DEF Init, ConfigsOK, Valid
<1>2. WorkOK
  BY DEF Init, WorkOK, Places
<1>3. DOMAIN channels = {}
  BY DEF Init
<1>4. CacheOK
  BY <1>3 DEF CacheOK, CachedIsUsable
<1>5. ServerOK /\ AtOK
  BY DEF Init, ServerOK, AtOK, FoundOut
<1> QED
  BY <1>1, <1>2, <1>4, <1>5 DEF RoutingInv

LEMMA NextRouting ==
    ASSUME RoutingInv, [Next]_vars
    PROVE  RoutingInv'
<1>1. CASE Next
  BY <1>1, ConfigsStep, WorkStep, CacheStep, ServerStep, AtStep DEF RoutingInv
<1>2. CASE UNCHANGED vars
  <2>1. ConfigsOK' /\ WorkOK' /\ ServerOK'
    BY <1>2 DEF RoutingInv, ConfigsOK, Valid, WorkOK, ServerOK, vars, fileVars, genVars,
               serverVars, workVars, peopleVars
  <2>2. CacheOK'
    BY <1>2 DEF RoutingInv, CacheOK, CachedIsUsable, vars, serverVars, peopleVars
  <2>3. AtOK'
    BY <1>2 DEF RoutingInv, AtOK, FoundOut, MayCreate, Joins, IsCached, Chan, Dest, vars,
               genVars, serverVars, workVars, peopleVars
  <2> QED
    BY <2>1, <2>2, <2>3 DEF RoutingInv
<1> QED
  BY <1>1, <1>2

\* Whatever rules people write, and however bridges and people interleave: the
\* configurations validate, the shared cache (channels.go) tells destinations
\* apart, and what a handler found out before a REST call holds after it.
THEOREM RoutingInvariance == Spec => []RoutingInv
<1>1. Init => RoutingInv
  BY InitRouting
<1>2. RoutingInv /\ [Next]_vars => RoutingInv'
  BY NextRouting
<1> QED
  BY <1>1, <1>2, PTL DEF Spec

\* An answer in the client's cache can be used without asking the server: the
\* bot is in the channel, unless people changed it since (channels.go, 47-62).
THEOREM CachedAnswersAreUsable == Spec => []CachedIsUsable
<1>1. RoutingInv => CachedIsUsable
  BY DEF RoutingInv, CacheOK
<1> QED
  BY <1>1, RoutingInvariance, PTL

\* ensureConversation puts a conversation in the channel the first rule that
\* applies to it names, for users' phones and for Discord's guilds alike, and
\* whatever the other tenants' bridges have put into the shared cache.
THEOREM ConversationsGoWhereMeant == Spec => RoutedAsMeant
<1> DEFINE P == \A t \in Tenants : \A c \in Convs[t] :
                   stored'[t][c] # stored[t][c] =>
                      stored'[t][c] = ChannelOf(Meant(running[t], c))
<1>1. ASSUME RoutingInv, [Next]_vars
      PROVE  P
  <2>0. WorkOK /\ CacheOK /\ AtOK
    BY <1>1 DEF RoutingInv
  <2>1. ASSUME NEW x \in Tenants, Resolves(x)
        PROVE  P
    <3>1. CASE stored' = stored
      BY <3>1
    <3>2. CASE /\ Stores(x)
               /\ stored' = [stored EXCEPT ![x][conv[x]] = channels[destinationKey(Dest(x))]]
      <4>1. at[x] = "store"
        BY <3>2 DEF Stores, Step
      <4>2. conv[x] \in Convs[x] /\ IsCached(x)
        BY <2>0, <4>1 DEF WorkOK, AtOK, FoundOut
      <4>3. channels[destinationKey(Dest(x))] = ChannelOf(Dest(x))
        BY <2>0, <4>2 DEF CacheOK, IsCached, destinationKey
      <4>4. Dest(x) = Meant(running[x], conv[x])
        BY <1>1, <4>1, DestIsMeant
      <4>5. /\ DOMAIN stored = Tenants
            /\ \A s \in Tenants : DOMAIN stored[s] = Convs[s]
        BY <2>0 DEF WorkOK
      <4>6. ASSUME NEW t \in Tenants, NEW c \in Convs[t], stored'[t][c] # stored[t][c]
            PROVE  t = x /\ c = conv[x] /\ stored'[t][c] = channels[destinationKey(Dest(x))]
        BY <3>2, <4>2, <4>5, <4>6
      <4> QED
        BY <4>3, <4>4, <4>6
    <3> QED
      BY <2>1, <3>1, <3>2, StoredStep
  <2>2. CASE stored' = stored
    BY <2>2
  <2> QED
    BY <1>1, <2>1, <2>2
    DEF Next, Edits, AddRule, RemoveRule, PushRules, SwitchJoining, RewriteRules, Edit, Meddles,
        Reload, Arrives, Quiet, vars
<1>2. RoutingInv /\ [Next]_vars => [P]_vars
  BY <1>1
<1>3. Spec => [][P]_vars
  BY <1>2, RoutingInvariance, PTL DEF Spec
<1> QED
  BY <1>3 DEF RoutedAsMeant

\* The bot makes a channel, or enters one, only for a tenant who routes
\* something there and has join_channels on, however the tenants' handlers
\* share the client and the server (createChannel and ensureMember).
THEOREM BotEntersOnlyInvited == Spec => EntersOnlyInvited
<1> DEFINE Invited(ch) ==
             \/ meddling' # meddling
             \/ \E t \in Tenants :
                   LET meant == Meant(running[t], conv[t]) IN
                   /\ at'[t] # at[t] /\ ChannelOf(meant) = ch
                   /\ Joins(t) \/ meant.type = "direct"
           P == \A ch \in (exists' \ exists) \cup (member' \ member) : Invited(ch)
<1>1. ASSUME RoutingInv, [Next]_vars
      PROVE  P
  <2>0. WorkOK /\ AtOK /\ meddling \in Nat
    BY <1>1 DEF RoutingInv, ServerOK
  <2>1. ASSUME NEW t \in Tenants, at[t] # "idle", at'[t] # at[t],
               Joins(t) \/ Dest(t).type = "direct",
               exists' \ exists \subseteq {Chan(t)}, member' \ member \subseteq {Chan(t)}
        PROVE  P
    <3>1. Dest(t) = Meant(running[t], conv[t])
      BY <1>1, <2>1, DestIsMeant
    <3> QED
      BY <2>1, <3>1 DEF Chan
  <2>2. ASSUME NEW t \in Tenants, Resolves(t)
        PROVE  P
    <3>1. CASE OpensDirect(t)
      BY <2>0, <2>1, <3>1 DEF OpensDirect, Step, WorkOK
    <3>2. CASE Creates(t)
      <4>1. at[t] = "create" /\ at'[t] = "member"
        BY <2>0, <3>2 DEF Creates, Step, WorkOK
      <4>2. Joins(t)
        BY <2>0, <4>1 DEF AtOK, FoundOut, MayCreate
      <4> QED
        BY <2>1, <3>2, <4>1, <4>2 DEF Creates
    <3>3. CASE JoinsChannel(t)
      <4>1. at[t] = "join" /\ at'[t] = "keep"
        BY <2>0, <3>3 DEF JoinsChannel, Step, WorkOK
      <4>2. Joins(t)
        BY <2>0, <4>1 DEF AtOK, FoundOut
      <4> QED
        BY <2>1, <3>3, <4>1, <4>2 DEF JoinsChannel
    <3>4. CASE UNCHANGED serverVars
      BY <3>4 DEF serverVars
    <3> QED
      BY <2>2, <3>1, <3>2, <3>3, <3>4
      DEF Resolves, Quiet, Hits, Misses, Finds, FindsNothing, CreatesTooLate,
          FindsMembership, MustJoin, Keeps, Stores, Fails
  <2>3. ASSUME NEW ch, NEW there, NEW in, Meddles(ch, there, in)
        PROVE  P
    BY <2>0, <2>3 DEF Meddles
  <2>4. CASE UNCHANGED serverVars
    BY <2>4 DEF serverVars
  <2> QED
    BY <1>1, <2>2, <2>3, <2>4
    DEF Next, Edits, AddRule, RemoveRule, PushRules, SwitchJoining, RewriteRules, Edit,
        Reload, Arrives, Quiet, vars
<1>2. RoutingInv /\ [Next]_vars => [P]_vars
  BY <1>1
<1>3. Spec => [][P]_vars
  BY <1>2, RoutingInvariance, PTL DEF Spec
<1> QED
  BY <1>3 DEF EntersOnlyInvited

=============================================================================
