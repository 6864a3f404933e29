----------------------------- MODULE MCAclAdmin -----------------------------
EXTENDS AclAdmin

MCLower == [l \in {"api", "API", "corp", "other", "prod-*", "prod-", "10.0.0", "4", "dev", "Dev", "ops"} |->
              CASE l = "API" -> "api" [] l = "Dev" -> "dev" [] OTHER -> l]
\* The regex of "prod-*" repeats its last character.
MCStarLabels == [l \in {"prod-*"} |-> {"prod", "prod-", "prod--"}]
MCInside == {<<"10/8", "10.0.0.4">>}

All == [kind |-> "all"]
Corp == [kind |-> "wildcard", labels |-> <<"*", "corp">>]
Net == [kind |-> "cidr", net |-> "10/8"]
Api == [kind |-> "domain", labels |-> <<"API", "corp">>]
\* A pattern for names that an ip sent as a name matches.
Dotted == [kind |-> "wildcard", labels |-> <<"*", "4">>]
AnyPort == [kind |-> "any"]
Web == [kind |-> "single", port |-> 1]
High == [kind |-> "range", start |-> 2, end |-> 3]
List == [kind |-> "multiple", ports |-> {1, 3}]
Bad == [kind |-> "bad"]

Rule(action, dests, ports, protocols, priority, description) ==
  [action |-> action, destinations |-> dests, ports |-> ports, protocols |-> protocols,
   priority |-> priority, description |-> description]

AllowAll == Rule("allow", <<All>>, <<AnyPort>>, <<"both">>, 2, "allow all")
BlockCorp == Rule("block", <<Corp, Net>>, <<Web, High>>, <<"tcp">>, 0, "block corp")
AllowApi == Rule("allow", <<Api, Dotted>>, <<List>>, <<"udp", "tcp">>, 2, "allow api")
Broken == Rule("block", <<All>>, <<Bad>>, <<"both">>, 0, "broken")

MCRules == {AllowAll, BlockCorp, AllowApi, Broken}
FewRules == {Broken}

Config(policy, users, groups) == [default_policy |-> policy, users |-> users, groups |-> groups]

MCInitial ==
  Config("block", <<[username |-> "ann", groups |-> <<"dev">>, rules |-> <<AllowApi>>]>>,
         <<[name |-> "dev", rules |-> <<BlockCorp, AllowAll>>]>>)
FewInitial ==
  Config("block", <<>>, <<[name |-> "dev", rules |-> <<AllowAll>>]>>)

MCFiles ==
  {Unreadable,
   Config("allow", <<[username |-> "ann", groups |-> <<"Dev", "dev">>, rules |-> <<BlockCorp>>]>>,
          <<[name |-> "dev", rules |-> <<AllowApi>>], [name |-> "Dev", rules |-> <<AllowAll>>]>>)}

MCQueries ==
  [addr : {DomainAddress(<<"api", "corp">>), LiteralAddress("10.0.0.4", <<"10.0.0", "4">>),
           IpAddress("ip", "10.0.0.4")},
   port : {1, 3}, protocol : {"tcp", "udp"}]
\* Requests are alike, and so are the watcher's tasks.
Symmetry == Permutations(Clients) \union Permutations(Watchers)

MCLdapGroups == {<<>>, <<"Dev">>, <<"dev", "ops">>}
=============================================================================
