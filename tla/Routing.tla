------------------------------- MODULE Routing -------------------------------
(***************************************************************************)
(* From a tenant's routing rules to the channel a conversation is put in:   *)
(* the edits of the rules (cmd/rules.go, config.Mutate's validation), the   *)
(* router every bridge compiles when it starts (bridge/routing.go and       *)
(* corebridge/routing.go, which differ only in the names of the criteria),  *)
(* and the Mattermost client, shared by all tenants' bridges, that turns a  *)
(* destination into a channel (mattermost/channels.go).                     *)
(*                                                                         *)
(* The bridges of the tenants run at the same time; each handles one event  *)
(* at a time and is cut at the REST calls that ask or change the server.    *)
(* People change the server meanwhile.  What a bridge does with a channel   *)
(* once it has it is in Bridge and CoreBridge.                              *)
(***************************************************************************)
EXTENDS Naturals, Sequences, FiniteSets, SequencesExt

CONSTANTS Users,         \* tenants with a phone, each with a bridge.Router
          Discord,       \* the tenant that is the Discord bot (corebridge.Router)
          Convs,         \* Convs[t]: the conversations of tenant t
          Rules,         \* rules somebody may add for a user
          RuleLists,     \* RuleLists[t]: lists of rules somebody may write for t
          Configs,       \* Configs[t]: routing t may start with
          TeamChannels,  \* channels people may make, archive or open to the bot
          None,          \* no channel, no conversation
          MaxRules,      \* bound: rules a tenant may have
          MaxEdits,      \* bound: edits of the configuration
          MaxMeddling,   \* bound: changes people make to channels
          MaxMishaps     \* bound: REST calls that fail

Tenants == Users \cup {Discord}

\* A phone number as somebody wrote it: its digits (0: it has none), and the
\* punctuation around them.  Discord's participants have none.
Phone == [digits : Nat, style : {"plain", "punctuated"}]

Conversation == [id : STRING, guild : STRING, shape : {"direct", "group"},
                 title : STRING, parties : SUBSET [me : BOOLEAN, phone : Phone]]

ASSUME TenantAssumption ==
    Discord \notin Users /\ \A t \in Tenants : Convs[t] \subseteq Conversation
ASSUME BoundsAssumption == {MaxRules, MaxEdits, MaxMeddling, MaxMishaps} \subseteq Nat

VARIABLES
    file,       \* file[t]: the routing configuration of t in config.json
    running,    \* running[t]: the one its bridge was built from
    up,         \* the tenants whose bridge runs
    exists,     \* the channels there are in Mattermost
    member,     \* those the bot is a member of
    channels,   \* the client's cache: destination key -> channel
    stored,     \* stored[t][c]: the channel conversation c of t is kept in
    at,         \* at[t]: what t's bridge is doing ...
    conv,       \*   ... and for which conversation
    meddled,    \* channels people changed since the client was made
    edits, meddling, mishaps

fileVars == <<file, edits>>
genVars == <<running, up>>
serverVars == <<exists, member>>
workVars == <<at, conv>>
peopleVars == <<meddled, meddling>>
vars == <<fileVars, genVars, serverVars, channels, stored, workVars,
          peopleVars, mishaps>>

Mishap == mishaps < MaxMishaps /\ mishaps' = mishaps + 1

-----------------------------------------------------------------------------
(* Destinations and rules, and what the configuration refuses.              *)

Types == {"channel", "channel_id", "direct"}

\* Destination.Validate; for a channel_id, team and name stand for the ID.
DestinationIsValid(d) ==
    /\ d.type \in Types /\ d.name # ""
    /\ d.type = "channel" => d.team # ""

\* The channel a destination is: the one people would name by it.
ChannelOf(d) == IF d.type = "direct" THEN <<"@", d.name>> ELSE <<d.team, d.name>>

WellShaped(r) == ~(r.groupsOnly /\ r.directsOnly) /\ DestinationIsValid(r.to)

HasShape(r) == r.groupsOnly \/ r.directsOnly

\* Rule.Validate and DiscordRule.Validate.
RuleIsValid(r) ==
    (<<r.ids, r.phones, r.titles>> # <<{}, {}, {}>> \/ HasShape(r)) /\ WellShaped(r)

DiscordRuleIsValid(r) ==
    (r.guilds \cup r.channels \cup r.titles # {} \/ HasShape(r)) /\ WellShaped(r)

\* An absent default_group has the type "".
DefaultsAreValid(cfg) ==
    /\ DestinationIsValid(cfg.direct)
    /\ cfg.group.type # "" => DestinationIsValid(cfg.group)

\* Config.Validate, by validateRules and validateDiscordRules.
ConfigIsValid(t, cfg) ==
    /\ DefaultsAreValid(cfg)
    /\ \A r \in ToSet(cfg.rules) :
         IF t = Discord THEN DiscordRuleIsValid(r) ELSE RuleIsValid(r)

\* config.Destination, Rule, DiscordRule and RoutingConfig.
Destinations == [type : STRING, team : STRING, name : STRING]

UserRules == [ids : SUBSET STRING, phones : SUBSET Phone, titles : SUBSET STRING,
              groupsOnly : BOOLEAN, directsOnly : BOOLEAN, to : Destinations]

DiscordRules == [channels : SUBSET STRING, guilds : SUBSET STRING, titles : SUBSET STRING,
                 groupsOnly : BOOLEAN, directsOnly : BOOLEAN, to : Destinations]

RulesOf(t) == IF t = Discord THEN DiscordRules ELSE UserRules

RoutingConfigs(t) == [rules : Seq(RulesOf(t)), direct : Destinations,
                      group : Destinations, join : BOOLEAN]

ASSUME ConfigsAssumption ==
    /\ Rules \subseteq UserRules
    /\ \A t \in Tenants : /\ RuleLists[t] \subseteq Seq(RulesOf(t))
                          /\ \A cfg \in Configs[t] : /\ cfg \in RoutingConfigs(t)
                                                      /\ ConfigIsValid(t, cfg)

-----------------------------------------------------------------------------
(* The routers.                                                             *)

NormalizePhone(p) == p.digits

\* NewRouter refuses a phone number without digits, which Validate let pass.
HaveDigits(phones) == \A p \in phones : NormalizePhone(p) # 0

NewRouter(cfg) == \A r \in ToSet(cfg.rules) : HaveDigits(r.phones)

IsGroup(c) == c.shape = "group"

OtherParticipants(c) == {q \in c.parties : ~q.me}

\* Some other participant has one of the numbers, however it is written.
SamePhone(phones, c) ==
    \E p \in phones, q \in OtherParticipants(c) :
        NormalizePhone(p) = NormalizePhone(q.phone)

ShapeHolds(r, c) == (r.groupsOnly => IsGroup(c)) /\ (r.directsOnly => ~IsGroup(c))

\* bridge.compiledRule.matches.
matches(r, c) ==
    /\ ShapeHolds(r, c)
    /\ IF <<r.ids, r.phones, r.titles>> = <<{}, {}, {}>> THEN HasShape(r)
       ELSE c.id \in r.ids \/ SamePhone(r.phones, c) \/ c.title \in r.titles

\* The fields of a DiscordRule under their generic names.
RulesFromDiscord(r) ==
    [ids |-> r.channels, secondaryIDs |-> r.guilds, phones |-> {},
     titles |-> r.titles, groupsOnly |-> r.groupsOnly,
     directsOnly |-> r.directsOnly, to |-> r.to]

newGenericRouter(cfg) ==
    \A r \in ToSet(cfg.rules) : HaveDigits(RulesFromDiscord(r).phones)

\* A tenant's bridge starts when its rules compile.
Starts(t, cfg) == IF t = Discord THEN newGenericRouter(cfg) ELSE NewRouter(cfg)

\* corebridge.compiledRule.matches, on a generic rule.
genericMatches(r, c) ==
    /\ ShapeHolds(r, c)
    /\ IF <<r.ids, r.secondaryIDs, r.phones, r.titles>> = <<{}, {}, {}, {}>>
       THEN HasShape(r)
       ELSE \/ c.id \in r.ids \/ c.guild \in r.secondaryIDs
            \/ SamePhone(r.phones, c) \/ c.title \in r.titles

Default(cfg, c) ==
    IF IsGroup(c) /\ cfg.group.type # "" THEN cfg.group ELSE cfg.direct

\* The first rule that matches, of those at the indices hits, or a default.
FirstOf(hits, cfg, c) == IF hits = {} THEN Default(cfg, c) ELSE cfg.rules[Min(hits)].to

Route(cfg, c) == FirstOf({i \in 1..Len(cfg.rules) : matches(cfg.rules[i], c)}, cfg, c)

genericRoute(cfg, c) ==
    FirstOf({i \in 1..Len(cfg.rules) : genericMatches(RulesFromDiscord(cfg.rules[i]), c)},
            cfg, c)

-----------------------------------------------------------------------------
(* Edits of config.json, each one config.Mutate: a result that does not     *)
(* validate is not written.                                                 *)

Edit(t, cfg) ==
    /\ edits < MaxEdits /\ edits' = edits + 1
    /\ ConfigIsValid(t, cfg) /\ Len(cfg.rules) <= MaxRules
    /\ file' = [file EXCEPT ![t] = cfg]
    /\ UNCHANGED <<genVars, serverVars, channels, stored, workVars,
                   peopleVars, mishaps>>

\* rules add, rules remove and rules push: for users only.
AddRule(t, r) == t \in Users /\ Edit(t, [file[t] EXCEPT !.rules = Append(@, r)])

RemoveRule(t, i) ==
    /\ t \in Users /\ i \in 1..Len(file[t].rules)
    /\ Edit(t, [file[t] EXCEPT !.rules = RemoveAt(@, i)])

\* A push replaces the rules and nothing else.
PushRules(t, rules) == t \in Users /\ Edit(t, [file[t] EXCEPT !.rules = rules])

\* The operator's editor.
SwitchJoining(t) == Edit(t, [file[t] EXCEPT !.join = ~@])
RewriteRules(rules) == Edit(Discord, [file[Discord] EXCEPT !.rules = rules])

\* A reload (or restart): the handlers are cut off, and a new generation has a
\* new client and new routers; a tenant whose rules do not compile has none.
Reload ==
    /\ running' = file
    /\ up' = {t \in Tenants : Starts(t, file[t])}
    /\ channels' = <<>> /\ meddled' = {}
    /\ at' = [t \in Tenants |-> "idle"] /\ conv' = [t \in Tenants |-> None]
    /\ UNCHANGED <<fileVars, serverVars, stored, meddling, mishaps>>

-----------------------------------------------------------------------------
(* ResolveDestination, on behalf of one tenant.                             *)

\* Mutant: the team is not part of the key.
KeyWithoutTeam(d) == [type |-> d.type, name |-> d.name]

destinationKey(d) == d

Dest(t) == IF t = Discord THEN genericRoute(running[t], conv[t])
           ELSE Route(running[t], conv[t])
Chan(t) == ChannelOf(Dest(t))
Joins(t) == running[t].join

Step(t, from, to) ==
    /\ at[t] = from /\ at' = [at EXCEPT ![t] = to]
    /\ conv' = IF to = "idle" THEN [conv EXCEPT ![t] = None] ELSE conv
    /\ UNCHANGED <<fileVars, genVars, peopleVars>>

Quiet == UNCHANGED <<serverVars, channels, stored, mishaps>>

\* A message of a conversation without a channel comes in, and is routed.
Arrives(t, c) ==
    /\ t \in up /\ at[t] = "idle" /\ stored[t][c] = None
    /\ conv' = [conv EXCEPT ![t] = c]
    /\ at' = [at EXCEPT ![t] = "cached"]
    /\ UNCHANGED <<fileVars, genVars, peopleVars>> /\ Quiet

IsCached(t) == destinationKey(Dest(t)) \in DOMAIN channels

Hits(t) == Step(t, "cached", "store") /\ IsCached(t) /\ Quiet
Misses(t) == Step(t, "cached", "look") /\ ~IsCached(t) /\ Quiet

\* resolve: a direct channel is opened, whether it was there or not, with the
\* bot in it; any other is looked up.
OpensDirect(t) ==
    /\ Step(t, "look", "member") /\ Dest(t).type = "direct"
    /\ exists' = exists \cup {Chan(t)} /\ member' = member \cup {Chan(t)}
    /\ UNCHANGED <<channels, stored, mishaps>>

Finds(t) ==
    /\ Step(t, "look", "member") /\ Dest(t).type # "direct" /\ Chan(t) \in exists
    /\ Quiet

\* Mutant: a missing channel is created for anybody.
CreatesForAll(t) == Dest(t).type = "channel"

\* Only a named channel, and only where the tenant's setting allows it.
MayCreate(t) == Dest(t).type = "channel" /\ Joins(t)

FindsNothing(t) ==
    /\ at[t] = "look" /\ Dest(t).type # "direct" /\ Chan(t) \notin exists
    /\ Step(t, "look", IF MayCreate(t) THEN "create" ELSE "idle")
    /\ Quiet

\* createChannel; the name may have been taken since the lookup.
Creates(t) ==
    /\ Step(t, "create", "member") /\ Chan(t) \notin exists
    /\ exists' = exists \cup {Chan(t)} /\ member' = member \cup {Chan(t)}
    /\ UNCHANGED <<channels, stored, mishaps>>

CreatesTooLate(t) == Step(t, "create", "idle") /\ Chan(t) \in exists /\ Quiet

\* Mutant: a channel that was found is taken as it is.
IsMemberAlready(t) == TRUE

\* ensureMember.
IsMember(t) == Chan(t) \in member

FindsMembership(t) == Step(t, "member", "keep") /\ IsMember(t) /\ Quiet

MustJoin(t) ==
    /\ Step(t, "member", IF Joins(t) THEN "join" ELSE "idle")
    /\ ~IsMember(t) /\ Quiet

JoinsChannel(t) ==
    /\ Step(t, "join", "keep") /\ Chan(t) \in exists
    /\ member' = member \cup {Chan(t)}
    /\ UNCHANGED <<exists, channels, stored, mishaps>>

\* The answer goes into the cache.
Keeps(t) ==
    /\ Step(t, "keep", "store")
    /\ LET key == destinationKey(Dest(t)) IN
         channels' = [k \in DOMAIN channels \cup {key} |->
                        IF k = key THEN Chan(t) ELSE channels[k]]
    /\ UNCHANGED <<serverVars, stored, mishaps>>

\* The rest of ensureConversation, once the channel is known.
Stores(t) ==
    /\ Step(t, "store", "idle")
    /\ stored' = [stored EXCEPT ![t][conv[t]] = channels[destinationKey(Dest(t))]]
    /\ UNCHANGED <<serverVars, channels, mishaps>>

\* A REST call or the database fails, or the channel is gone: the handler
\* returns the error, and the next message of the conversation tries again.
Fails(t) ==
    /\ at[t] \in {"look", "create", "member", "join", "store"}
    /\ Step(t, at[t], "idle")
    /\ \/ Mishap
       \/ at[t] \in {"join", "store"} /\ Chan(t) \notin exists /\ UNCHANGED mishaps
    /\ UNCHANGED <<serverVars, channels, stored>>

Resolves(t) ==
    \/ Hits(t) \/ Misses(t) \/ OpensDirect(t) \/ Finds(t) \/ FindsNothing(t)
    \/ Creates(t) \/ CreatesTooLate(t) \/ FindsMembership(t) \/ MustJoin(t)
    \/ JoinsChannel(t) \/ Keeps(t) \/ Stores(t) \/ Fails(t)

-----------------------------------------------------------------------------
(* Mattermost's people: they make, archive and open channels to the bot.    *)

Meddles(ch, there, in) ==
    /\ meddling < MaxMeddling /\ meddling' = meddling + 1
    /\ in => there
    /\ exists' = IF there THEN exists \cup {ch} ELSE exists \ {ch}
    /\ member' = IF in THEN member \cup {ch} ELSE member \ {ch}
    /\ meddled' = meddled \cup {ch}
    /\ UNCHANGED <<fileVars, genVars, channels, stored, workVars, mishaps>>

-----------------------------------------------------------------------------
Init ==
    /\ file \in {f \in [Tenants -> UNION {Configs[t] : t \in Tenants}] :
                  \A t \in Tenants : f[t] \in Configs[t]}
    /\ running = file
    /\ up = {t \in Tenants : Starts(t, file[t])}
    /\ exists = {} /\ member = {}
    /\ channels = <<>>
    /\ stored = [t \in Tenants |-> [c \in Convs[t] |-> None]]
    /\ at = [t \in Tenants |-> "idle"]
    /\ conv = [t \in Tenants |-> None]
    /\ meddled = {} /\ edits = 0 /\ meddling = 0 /\ mishaps = 0

Edits(t) ==
    \/ \E r \in Rules : AddRule(t, r)
    \/ \E i \in 1..MaxRules : RemoveRule(t, i)
    \/ \E rules \in RuleLists[t] : PushRules(t, rules)
    \/ SwitchJoining(t)

Next ==
    \/ \E t \in Tenants : Edits(t) \/ Resolves(t) \/ \E c \in Convs[t] : Arrives(t, c)
    \/ \E rules \in RuleLists[Discord] : RewriteRules(rules)
    \/ Reload
    \/ \E ch \in TeamChannels, there, in \in BOOLEAN : Meddles(ch, there, in)

Spec == Init /\ [][Next]_vars

-----------------------------------------------------------------------------
(* Correctness.                                                             *)

\* What a rule is documented to mean (config/types.go:371 and 416): its shape
\* must hold, and of what it identifies a conversation by one thing is enough.
\* A field a kind of rule does not have identifies nothing.
Field(r, f) == IF f \in DOMAIN r THEN r[f] ELSE {}

Applies(r, c) ==
    /\ r.groupsOnly => c.shape = "group"
    /\ r.directsOnly => c.shape = "direct"
    /\ \/ \A f \in {"ids", "channels", "guilds", "phones", "titles"} : Field(r, f) = {}
       \/ c.id \in Field(r, "ids") \cup Field(r, "channels")
       \/ c.guild \in Field(r, "guilds") \/ c.title \in Field(r, "titles")
       \/ \E q \in c.parties : ~q.me /\ q.phone.digits \in
                                          {p.digits : p \in Field(r, "phones")}

\* ... and of a list of rules: the first that applies decides.
Meant(cfg, c) ==
    LET first == {i \in 1..Len(cfg.rules) :
                    /\ Applies(cfg.rules[i], c)
                    /\ \A j \in 1..(i - 1) : ~Applies(cfg.rules[j], c)}
    IN  IF first = {} THEN Default(cfg, c)
        ELSE cfg.rules[CHOOSE i \in first : TRUE].to

\* A conversation is put in the channel its tenant's rules mean, whatever the
\* other tenants have made the shared client resolve before (destinationKey's
\* comment, channels.go:239; rules.go: first match wins).
RoutedAsMeant ==
    [][\A t \in Tenants : \A c \in Convs[t] :
         stored'[t][c] # stored[t][c] =>
            stored'[t][c] = ChannelOf(Meant(running[t], c))]_vars

\* A cached answer may be used without a look at the server: the channel is
\* there and the bot is in it, unless people changed it since.
CachedIsUsable ==
    \A k \in DOMAIN channels : channels[k] \in (exists \cap member) \cup meddled

\* The bot makes or enters a channel only for a tenant who routes something
\* there and has join_channels on (channels.go:20: each tenant's own setting).
EntersOnlyInvited ==
    [][\A ch \in (exists' \ exists) \cup (member' \ member) :
         \/ meddling' # meddling
         \/ \E t \in Tenants :
               LET meant == Meant(running[t], conv[t]) IN
               /\ at'[t] # at[t] /\ ChannelOf(meant) = ch
               /\ Joins(t) \/ meant.type = "direct"]_vars

=============================================================================
