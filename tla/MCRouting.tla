------------------------------ MODULE MCRouting ------------------------------
(* An instance of Routing for TLC: a user with a person and a group to talk  *)
(* to, a Discord bot with a guild channel and a direct message, and one      *)
(* channel name in two teams.                                                *)
EXTENDS Routing

CONSTANTS u, d

OneUser == {u}

Num(n, s) == [digits |-> n, style |-> s]
Party(n) == [me |-> FALSE, phone |-> Num(n, "plain")]
Me == [me |-> TRUE, phone |-> Num(3, "plain")]

Talk(id, guild, shape, parties) ==
    [id |-> id, guild |-> guild, shape |-> shape, title |-> id, parties |-> parties]
Person == Talk("person", "", "direct", {Me, Party(1)})
Group  == Talk("group", "", "group", {Me, Party(1), Party(2)})
Guild  == Talk("general", "guild", "group", {})
DM     == Talk("dm", "", "direct", {})
TheirConvs == [t \in Tenants |-> IF t = d THEN {Guild, DM} ELSE {Person, Group}]

Named(team) == [type |-> "channel", team |-> team, name |-> "sms"]
ToUser == [type |-> "direct", team |-> "", name |-> "me"]
Absent == [type |-> "", team |-> "", name |-> ""]

SomeChannels == {<<"home", "sms">>, <<"work", "sms">>}

Rule(phones, groupsOnly, directsOnly, to) ==
    [ids |-> {}, phones |-> phones, titles |-> {},
     groupsOnly |-> groupsOnly, directsOnly |-> directsOnly, to |-> to]
Family    == Rule({Num(1, "punctuated")}, FALSE, FALSE, Named("home"))
Groups    == Rule({}, TRUE, FALSE, Named("work"))
Senseless == Rule({}, TRUE, TRUE, ToUser)
NoDigits  == Rule({Num(0, "punctuated")}, FALSE, TRUE, ToUser)

ThisGuild == [channels |-> {}, guilds |-> {"guild"}, titles |-> {},
              groupsOnly |-> TRUE, directsOnly |-> FALSE, to |-> Named("home")]
Mine == [channels |-> {"dm", "general"}, guilds |-> {}, titles |-> {},
         groupsOnly |-> FALSE, directsOnly |-> TRUE, to |-> Named("work")]

SomeRules == {Groups, Senseless}
TheirLists == [t \in Tenants |-> IF t = d THEN {<<Mine, ThisGuild>>}
                                 ELSE {<<Groups, Family>>, <<NoDigits>>}]

Config(rules, join, group) ==
    [rules |-> rules, direct |-> ToUser, group |-> group, join |-> join]
TheirConfigs ==
    [t \in Tenants |-> IF t = d THEN {Config(<<>>, join, Named("work")) : join \in BOOLEAN}
                       ELSE {Config(<<Family>>, TRUE, Absent)}]

=============================================================================
