----------------------------- MODULE AclEngine -----------------------------
(***************************************************************************)
(* The decision the ACL engine takes for one connection: acl/types.rs,     *)
(* acl/matcher.rs and acl/engine.rs.                                       *)
(*                                                                         *)
(* A configuration is what toml::from_str yields: the default policy, a    *)
(* sequence of users (username, groups, rules) and a sequence of groups    *)
(* (name, rules).  A destination or port pattern is represented by what    *)
(* its text parses to, a domain name by the sequence of its labels, and    *)
(* the letter case of a label or a name by the function Lower.             *)
(***************************************************************************)
EXTENDS Integers, Sequences, FiniteSets, SequencesExt

CONSTANTS
  Lower,       \* function: to_ascii_lowercase of a label or a group name
  StarLabels,  \* function: the labels the regex of a label with a '*' inside accepts
  Inside       \* the pairs <<network, ip>> with the ip inside the network

Actions == {"allow", "block"}
Protocols == {"tcp", "udp", "both"}

\* The ip of an address that is not one and does not parse as one.
NoIp == "no ip"

\* What a file that parses can hold.  A port text that is no port, range or list
\* is "bad"; a destination text always parses to something.
Destinations ==
  [kind : {"all"}] \union [kind : {"ip"}, ip : STRING] \union [kind : {"cidr"}, net : STRING]
    \union [kind : {"domain", "wildcard"}, labels : Seq(STRING)]
PortPatterns ==
  [kind : {"any", "bad"}] \union [kind : {"single"}, port : Nat]
    \union [kind : {"range"}, start : Nat, end : Nat]
    \union [kind : {"multiple"}, ports : SUBSET Nat]
AclRules == [action : Actions, destinations : Seq(Destinations), ports : Seq(PortPatterns),
             protocols : Seq(Protocols), priority : Nat, description : STRING]
UserEntries == [username : STRING, groups : Seq(STRING), rules : Seq(AclRules)]
GroupEntries == [name : STRING, rules : Seq(AclRules)]
AclConfigs == [default_policy : Actions, users : Seq(UserEntries), groups : Seq(GroupEntries)]

\* What a connection is asked about.
Addresses == [form : {"ip", "domain"}, ip : STRING, labels : Seq(STRING)]
AclQueries == [addr : Addresses, port : Nat, protocol : {"tcp", "udp"}]

\* Address.  A domain name that parses as an ip carries that ip.
IpAddress(form, ip) == [form |-> form, ip |-> ip, labels |-> <<>>]
DomainAddress(labels) == [form |-> "domain", ip |-> NoIp, labels |-> labels]
LiteralAddress(ip, labels) == [form |-> "domain", ip |-> ip, labels |-> labels]

LowerCase(labels) == [i \in DOMAIN labels |-> Lower[labels[i]]]

\* wildcard_to_regex: a "*" label stands for one label, a '*' inside a label is
\* left in the regex as it is, and the pattern keeps its letter case.
LabelMatches(part, label) ==
  \/ part = "*"
  \/ part = label
  \/ part \in DOMAIN StarLabels /\ label \in StarLabels[part]

WildcardMatches(pattern, labels) ==
  /\ Len(pattern) = Len(labels)
  /\ \A i \in DOMAIN pattern : LabelMatches(pattern[i], labels[i])

\* CompiledDestinationMatcher: compile decides the kind, matches the answer.
\* An ip names its family, so equal ips are of the same family.
DestinationMatches(d, addr) ==
  CASE d.kind = "all" -> TRUE
    [] d.kind = "ip" -> addr.ip = d.ip
    [] d.kind = "cidr" -> <<d.net, addr.ip>> \in Inside
    [] d.kind = "domain" -> addr.form = "domain" /\ LowerCase(d.labels) = LowerCase(addr.labels)
    [] d.kind = "wildcard" -> addr.form = "domain" /\ WildcardMatches(d.labels, LowerCase(addr.labels))

\* PortMatcher::from_str: the one conversion of a rule that can fail.
PortCompiles(p) == p.kind # "bad"

PortMatches(p, port) ==
  CASE p.kind = "any" -> TRUE
    [] p.kind = "single" -> port = p.port
    [] p.kind = "range" -> port >= p.start /\ port <= p.end
    [] p.kind = "multiple" -> port \in p.ports

ProtocolMatches(a, b) == a = "both" \/ b = "both" \/ a = b

\* CompiledAclRule::compile and ::matches.  A query is [addr, port, protocol].
RuleCompiles(rule) == \A i \in DOMAIN rule.ports : PortCompiles(rule.ports[i])

RuleMatches(rule, q) ==
  /\ \E i \in DOMAIN rule.protocols : ProtocolMatches(rule.protocols[i], q.protocol)
  /\ \E i \in DOMAIN rule.destinations : DestinationMatches(rule.destinations[i], q.addr)
  /\ \E i \in DOMAIN rule.ports : PortMatches(rule.ports[i], q.port)

-----------------------------------------------------------------------------
(* Configurations.                                                         *)

\* AclConfig::validate.
UniqueNames(s) == \A i, j \in DOMAIN s : s[i] = s[j] => i = j
UserNames(config) == [i \in DOMAIN config.users |-> config.users[i].username]
GroupNames(config) == [i \in DOMAIN config.groups |-> config.groups[i].name]

Validate(config) ==
  /\ UniqueNames(UserNames(config))
  /\ UniqueNames(GroupNames(config))
  /\ \A i \in DOMAIN config.users :
       \A j \in DOMAIN config.users[i].groups :
         \E k \in DOMAIN config.groups : config.groups[k].name = config.users[i].groups[j]

\* AclEngine::compile_config succeeds when every rule compiles.
Compiles(config) ==
  /\ \A i \in DOMAIN config.users :
       \A j \in DOMAIN config.users[i].rules : RuleCompiles(config.users[i].rules[j])
  /\ \A i \in DOMAIN config.groups :
       \A j \in DOMAIN config.groups[i].rules : RuleCompiles(config.groups[i].rules[j])

\* users.get, groups.get and groups_by_lowercase.get.  A later insert under the
\* same key replaces the earlier one, so the last group with the name is found.
UserAcl(config, user) ==
  {i \in DOMAIN config.users : config.users[i].username = user}

GroupRules(config, name) ==
  LET found == {i \in DOMAIN config.groups : config.groups[i].name = name}
  IN IF found = {} THEN <<>> ELSE config.groups[Max(found)].rules

GroupRulesByLowercase(config, name) ==
  LET found == {i \in DOMAIN config.groups : Lower[config.groups[i].name] = Lower[name]}
  IN IF found = {} THEN <<>> ELSE config.groups[Max(found)].rules

UserRules(config, user) ==
  LET found == UserAcl(config, user)
  IN IF found = {} THEN <<>> ELSE config.users[Max(found)].rules

StaticGroups(config, user) ==
  LET found == UserAcl(config, user)
  IN IF found = {} THEN <<>> ELSE config.users[Max(found)].groups

\* collect_rules and collect_rules_from_groups, before their sort.
collect_rules(config, user) ==
  LET gs == StaticGroups(config, user)
  IN UserRules(config, user) \o FlattenSeq([i \in DOMAIN gs |-> GroupRules(config, gs[i])])

collect_rules_from_groups(config, user, groups) ==
  UserRules(config, user)
    \o FlattenSeq([i \in DOMAIN groups |-> GroupRulesByLowercase(config, groups[i])])

-----------------------------------------------------------------------------
(* The order of evaluation.  sort_unstable_by leaves rules that compare    *)
(* equal in any order, so a list of rules has a set of sorted orders.      *)

\* Mutant of Before: the priority alone decides.
BeforeByPriority(a, b) == a.priority > b.priority

\* Rules that block come first, then the higher priority.
Before(a, b) ==
  \/ a.action = "block" /\ b.action = "allow"
  \/ a.action = b.action /\ a.priority > b.priority

InOrder(s) == \A i, j \in DOMAIN s : i < j => ~Before(s[j], s[i])

SortedOrders(s) ==
  {t \in {[k \in DOMAIN s |-> s[p[k]]] : p \in Bijection(DOMAIN s, DOMAIN s)} : InOrder(t)}

FirstMatch(s, q, i) ==
  /\ i \in DOMAIN s
  /\ RuleMatches(s[i], q)
  /\ \A j \in DOMAIN s : j < i => ~RuleMatches(s[j], q)

DefaultRule == "Default policy"

\* The results the loop over all_rules can return: the first rule that
\* matches, in one of the orders the sort may leave.
EvaluateRules(rules, policy, q) ==
  UNION {LET hits == {i \in DOMAIN t : FirstMatch(t, q, i)}
         IN IF hits = {} THEN {[decision |-> policy, rule |-> DefaultRule]}
            ELSE {[decision |-> t[i].action, rule |-> t[i].description] : i \in hits}
         : t \in SortedOrders(rules)}

evaluate(config, user, q) ==
  EvaluateRules(collect_rules(config, user), config.default_policy, q)

evaluate_with_groups(config, user, groups, q) ==
  EvaluateRules(collect_rules_from_groups(config, user, groups), config.default_policy, q)

\* What handle_client decides from the groups the system reported.
HandlerDecisions(config, user, groups, q) ==
  {r.decision : r \in evaluate_with_groups(config, user, groups, q)}

\* Mutant of StoredAddress: the text of an ip is taken for a name.
StoredAsName(addr) == DomainAddress(addr.labels)

\* enforce_acl re-evaluates a session from its stored destination text: a name
\* that parses as an ip has become that ip.
StoredAddress(addr) == IF addr.ip = NoIp THEN addr ELSE IpAddress("ip", addr.ip)

\* A UDP ASSOCIATE is stored without the destination it was asked about.
UdpAddress == IpAddress("ip", "0.0.0.0")
StoredQuery(q) ==
  IF q.protocol = "udp" THEN [addr |-> UdpAddress, port |-> 0, protocol |-> "udp"]
  ELSE [q EXCEPT !.addr = StoredAddress(q.addr)]

EnforcedDecisions(config, user, q) ==
  {r.decision : r \in evaluate(config, user, StoredQuery(q))}

-----------------------------------------------------------------------------
(* The reference: a matching BLOCK rule decides, then a matching ALLOW     *)
(* rule, then the default policy.                                          *)

Reference(rules, policy, q) ==
  LET hit(action) == \E i \in DOMAIN rules : rules[i].action = action /\ RuleMatches(rules[i], q)
  IN CASE hit("block") -> "block"
       [] ~hit("block") /\ hit("allow") -> "allow"
       [] OTHER -> policy

\* The rules the answer may name: the ones of the highest priority among the
\* rules that match and have the action decided on.
BestRules(rules, policy, q) ==
  LET action == Reference(rules, policy, q)
      hits == {i \in DOMAIN rules : rules[i].action = action /\ RuleMatches(rules[i], q)}
  IN IF hits = {} THEN {DefaultRule}
     ELSE {rules[i].description : i \in {i \in hits : \A j \in hits : rules[j].priority <= rules[i].priority}}

\* The order the guides describe: the highest priority among the rules that match
\* decides, and BLOCK comes before ALLOW at the same priority.
Documented(rules, policy, q) ==
  LET hits == {i \in DOMAIN rules : RuleMatches(rules[i], q)}
      top == {i \in hits : \A j \in hits : rules[j].priority <= rules[i].priority}
  IN CASE hits = {} -> policy
       [] \E i \in top : rules[i].action = "block" -> "block"
       [] OTHER -> "allow"
=============================================================================
