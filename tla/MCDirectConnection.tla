--------------------------- MODULE MCDirectConnection ---------------------------
(***************************************************************************)
(* Rules and hosts for DirectConnection: every kind of rule, each with two *)
(* actions, so that every pair of rules in both orders decides differently *)
(* on some host.                                                           *)
(***************************************************************************)
EXTENDS DirectConnection

MCOctets == {"10", "1"}
MCHosts == {<<"a", "ex", "com">>, <<"ex", "com">>, <<"10", "1">>, <<"1", "1">>}

Entry(type, value) == [type |-> type, value |-> value]
Contents == {
  <<"domain_suffix",  {<<"ex", "com">>, <<"1">>}>>,
  <<"domain",         {<<"ex", "com">>}>>,
  <<"domain_keyword", {<<"a">>}>>,
  <<"domain_keyword", {<<"10">>}>>,
  <<"ip_cidr",        {<<"10">>, <<"ex">>}>>,
  <<"ip_cidr",        {<<"com">>}>>,
  <<"ruleset",        {Entry("domain", <<"ex", "com">>), Entry("domain_suffix", <<"1">>),
                       Entry("domain_keyword", <<"a">>)}>>,
  <<"ruleset",        {}>> }

MCRules == {[type |-> c[1], values |-> c[2], action |-> a] : c \in Contents, a \in {"direct", "block"}}
MCConfigs == {<<>>} \cup {<<r>> : r \in MCRules} \cup {<<r, s>> : r \in MCRules, s \in MCRules}
===============================================================================
