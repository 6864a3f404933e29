------------------------------ MODULE AclCrud ------------------------------
(***************************************************************************)
(* The edits of an ACL configuration: acl/crud.rs.  Each operator returns  *)
(* the edited configuration, or Failed where the function returns an Err.  *)
(***************************************************************************)
EXTENDS AclEngine

CONSTANTS
  Failed,    \* the answer of a function that returns an Err
  AnyPorts   \* ports = None in a RuleIdentifier

\* RuleIdentifier::matches.
IdentifierMatches(id, rule) ==
  /\ id.destinations = rule.destinations
  /\ id.ports = AnyPorts \/ id.ports = rule.ports

IdentifierOf(rule) == [destinations |-> rule.destinations, ports |-> rule.ports]

\* find: the first index, or 0.
FindGroup(config, group) == SelectInSeq(config.groups, LAMBDA g : g.name = group)
FindUser(config, user) == SelectInSeq(config.users, LAMBDA u : u.username = user)
FindRule(rules, id) == SelectInSeq(rules, LAMBDA r : IdentifierMatches(id, r))

add_group_rule(config, group, rule) ==
  LET g == FindGroup(config, group)
  IN IF g = 0 THEN [config EXCEPT !.groups = Append(@, [name |-> group, rules |-> <<rule>>])]
     ELSE IF FindRule(config.groups[g].rules, IdentifierOf(rule)) # 0 THEN Failed
     ELSE [config EXCEPT !.groups[g].rules = Append(@, rule)]

update_group_rule(config, group, id, rule) ==
  LET g == FindGroup(config, group)
      i == FindRule(config.groups[g].rules, id)
  IN IF g = 0 THEN Failed
     ELSE IF i = 0 THEN Failed
     ELSE [config EXCEPT !.groups[g].rules[i] = rule]

delete_group_rule(config, group, id) ==
  LET g == FindGroup(config, group)
      i == FindRule(config.groups[g].rules, id)
  IN IF g = 0 THEN Failed
     ELSE IF i = 0 THEN Failed
     ELSE [config EXCEPT !.groups[g].rules = RemoveAt(@, i)]

\* POST /api/acl/groups edits the configuration in its handler.
create_group(config, group) ==
  IF FindGroup(config, group) # 0 THEN Failed
  ELSE [config EXCEPT !.groups = Append(@, [name |-> group, rules |-> <<>>])]

\* The memberships of the group's users stay.
delete_group(config, group) ==
  LET g == FindGroup(config, group)
  IN IF g = 0 THEN Failed ELSE [config EXCEPT !.groups = RemoveAt(@, g)]

NewUser(user, rules) == [username |-> user, groups |-> <<>>, rules |-> rules]

add_user_rule(config, user, rule) ==
  LET u == FindUser(config, user)
  IN IF u = 0 THEN [config EXCEPT !.users = Append(@, NewUser(user, <<rule>>))]
     ELSE IF FindRule(config.users[u].rules, IdentifierOf(rule)) # 0 THEN Failed
     ELSE [config EXCEPT !.users[u].rules = Append(@, rule)]

update_user_rule(config, user, id, rule) ==
  LET u == FindUser(config, user)
      i == FindRule(config.users[u].rules, id)
  IN IF u = 0 THEN Failed
     ELSE IF i = 0 THEN Failed
     ELSE [config EXCEPT !.users[u].rules[i] = rule]

delete_user_rule(config, user, id) ==
  LET u == FindUser(config, user)
      i == FindRule(config.users[u].rules, id)
  IN IF u = 0 THEN Failed
     ELSE IF i = 0 THEN Failed
     ELSE [config EXCEPT !.users[u].rules = RemoveAt(@, i)]

create_user(config, user) ==
  IF FindUser(config, user) # 0 THEN Failed
  ELSE [config EXCEPT !.users = Append(@, NewUser(user, <<>>))]

delete_user(config, user) ==
  LET u == FindUser(config, user)
  IN IF u = 0 THEN Failed ELSE [config EXCEPT !.users = RemoveAt(@, u)]

\* A user that is missing is created; the push is lost with the error when the
\* user already is in the group, for the caller saves nothing then.
add_user_to_group(config, user, group) ==
  LET with == IF FindUser(config, user) # 0 THEN config
              ELSE [config EXCEPT !.users = Append(@, NewUser(user, <<>>))]
      u == FindUser(with, user)
  IN IF FindGroup(config, group) = 0 THEN Failed
     ELSE IF Contains(with.users[u].groups, group) THEN Failed
     ELSE [with EXCEPT !.users[u].groups = Append(@, group)]

remove_user_from_group(config, user, group) ==
  LET u == FindUser(config, user)
  IN IF u = 0 THEN Failed
     ELSE IF ~Contains(config.users[u].groups, group) THEN Failed
     ELSE [config EXCEPT !.users[u].groups = RemoveFirst(@, group)]

\* update_global_settings.
update_default_policy(config, policy) == [config EXCEPT !.default_policy = policy]
=============================================================================
