--------------------------------- MODULE Router ---------------------------------
(***************************************************************************)
(* The routing rules of the client (client/router.py): how a configuration *)
(* is loaded into rule groups, and how they decide on a host.              *)
(*                                                                         *)
(* A name or an address is the sequence of its labels, in lower case; a    *)
(* keyword, which may be any part of a name, is one of its labels; a       *)
(* network is the labels that its addresses begin with.  Names and numbers *)
(* are told apart by Octets.                                               *)
(***************************************************************************)
EXTENDS Integers, SequencesExt, FiniteSetsExt

CONSTANT Octets  \* the labels that are numbers

IsIp(host) == Range(host) \subseteq Octets
NameTypes == {"domain_suffix", "domain", "domain_keyword"}

\* Whether an entry of a rule matches.
Hits(type, value, host) ==
  CASE type = "domain"         -> host = value
    [] type = "domain_suffix"  -> IsSuffix(value, host)
    [] type = "domain_keyword" -> value[1] \in Range(host)
    [] type = "ip_cidr"        -> IsIp(host) /\ IsPrefix(value, host)

-----------------------------------------------------------------------------
\* _load_ruleset_file: the entries of a file as up to three groups.
RulesetGroups(entries, action) ==
  LET Group(type) == {e.value : e \in {x \in entries : x.type = type}}
      Rule(type) == IF Group(type) = {} THEN <<>>
                    ELSE <<[type |-> type, values |-> Group(type), action |-> action]>>
  IN Rule("domain_suffix") \o Rule("domain") \o Rule("domain_keyword")

\* Mutant of LoadRule: an invalid network drops the whole rule.
LoadRuleStrictly(rule) ==
  CASE rule.type \in NameTypes -> <<rule>>
    [] rule.type = "ip_cidr" ->
         IF \A v \in rule.values : IsIp(v) THEN <<rule>> ELSE <<>>
    [] rule.type = "ruleset" -> RulesetGroups(rule.values, rule.action)

\* One round of _load_rules: invalid networks are left out.
LoadRule(rule) ==
  CASE rule.type \in NameTypes -> <<rule>>
    [] rule.type = "ip_cidr" ->
         LET networks == {v \in rule.values : IsIp(v)}
         IN IF networks = {} THEN <<>> ELSE <<[rule EXCEPT !.values = networks]>>
    [] rule.type = "ruleset" -> RulesetGroups(rule.values, rule.action)

LoadRules(config) == FlattenSeq([i \in DOMAIN config |-> LoadRule(config[i])])

-----------------------------------------------------------------------------
Matching(rules, types, host) ==
  SelectSeq(rules, LAMBDA r : r.type \in types /\ \E v \in r.values : Hits(r.type, v, host))

\* Mutant of Decide: an address that is in no network is not looked up by name.
DecideAddressesOnly(rules, host, default) ==
  LET networks == Matching(rules, {"ip_cidr"}, host)
      names    == Matching(rules, NameTypes, host)
  IN CASE IsIp(host) -> IF networks # <<>> THEN Head(networks).action ELSE default
       [] names # <<>> -> Head(names).action
       [] OTHER -> default

\* decide(): networks first if the host is an address, then names for any host.
Decide(rules, host, default) ==
  LET networks == Matching(rules, {"ip_cidr"}, host)
      names    == Matching(rules, NameTypes, host)
  IN CASE networks # <<>> -> Head(networks).action
       [] names # <<>> -> Head(names).action
       [] OTHER -> default

-----------------------------------------------------------------------------
\* The promise of README.md, lines 363-364, on the rules as they are declared: the
\* first rule that has a matching entry decides, and for an address the rules on
\* networks come before the others.  (The docstring in router.py, line 46, has the
\* declared order only.)
RuleHits(rule, host) ==
  IF rule.type = "ruleset"
  THEN \E e \in rule.values : Hits(e.type, e.value, host)
  ELSE \E v \in rule.values : Hits(rule.type, v, host)

FirstMatch(config, host, default) ==
  LET hits == {i \in DOMAIN config : RuleHits(config[i], host)}
      networks == {i \in hits : config[i].type = "ip_cidr"}
  IN CASE networks # {} -> config[Min(networks)].action
       [] hits # {} /\ networks = {} -> config[Min(hits)].action
       [] OTHER -> default
===============================================================================
