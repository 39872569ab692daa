----------------------------- MODULE Classifier -----------------------------
(***************************************************************************)
(* Destination host rules: the HostPattern and DestinationClassifier types *)
(* of crates/engine/src/proxy.rs.                                          *)
(*                                                                         *)
(* A host name is the sequence of its labels, so that a rule "*.b.c" is    *)
(* the suffix <<"b", "c">>.  Trimming, lower-casing and the length and     *)
(* character checks on one name are left out: a label is a member of a     *)
(* small set.                                                              *)
(***************************************************************************)
EXTENDS Policy, Naturals, Sequences

CONSTANTS
  Labels,        \* labels a host name is made of
  Hosts,         \* the host names requests ask for
  RuleLists,     \* the rule lists the user may enter for either class
  MaxRules,      \* the most rules a list may hold (128 in the code)
  Loopback       \* host names that are a loopback address or "localhost"

-----------------------------------------------------------------------------
(* HostPattern: an exact name or a "*." suffix.                            *)

Host    == Seq(Labels) \ {<<>>}
Pattern == [kind : {"exact", "suffix"}, name : Host]

ASSUME MaxRulesAssumption == MaxRules \in Nat
ASSUME HostsAssumption == Hosts \subseteq Host
ASSUME RuleListsAssumption == RuleLists \subseteq Seq(Pattern)

EndsWith(host, name) ==
  /\ Len(name) <= Len(host)
  /\ \A i \in 1..Len(name) : host[Len(host) - Len(name) + i] = name[i]

matches(pattern, host) ==
  \/ /\ pattern.kind = "exact"
     /\ host = pattern.name
  \/ /\ pattern.kind = "suffix"
     /\ Len(host) > Len(pattern.name)
     /\ EndsWith(host, pattern.name)

\* Slip: a Development suffix is not compared with a Production name.
OverlapsForward(left, right) ==
  \/ left.name = right.name
  \/ right.kind = "suffix" /\ EndsWith(left.name, right.name)

\* Slip: a suffix overlaps its own bare name.
OverlapsAnySuffix(left, right) ==
  \/ left.name = right.name
  \/ left.kind = "suffix" /\ EndsWith(right.name, left.name)
  \/ right.kind = "suffix" /\ EndsWith(left.name, right.name)

overlaps(left, right) ==
  \/ /\ left.kind = "exact"
     /\ right.kind = "exact"
     /\ left.name = right.name
  \/ /\ left.kind = "exact"
     /\ right.kind = "suffix"
     /\ matches(right, left.name)
  \/ /\ left.kind = "suffix"
     /\ right.kind = "exact"
     /\ matches(left, right.name)
  \/ /\ left.kind = "suffix"
     /\ right.kind = "suffix"
     /\ EndsWith(left.name, right.name) \/ EndsWith(right.name, left.name)

Accepted(development, production) ==
  /\ Len(development) <= MaxRules
  /\ Len(production) <= MaxRules
  /\ \A d \in 1..Len(development), p \in 1..Len(production) :
       ~overlaps(development[d], production[p])

MatchesAny(patterns, host) ==
  \E i \in 1..Len(patterns) : matches(patterns[i], host)

\* Slip: an unlisted host has no class.
ClassifyOrNone(development, production, host) ==
  IF MatchesAny(production, host) THEN Production
  ELSE IF MatchesAny(development, host) \/ host \in Loopback THEN Development
  ELSE "none"

\* Slip: loopback is Development before the Production rules are consulted.
ClassifyDevelopmentFirst(development, production, host) ==
  IF MatchesAny(development, host) \/ host \in Loopback THEN Development
  ELSE IF MatchesAny(production, host) THEN Production
  ELSE Unknown

classify(development, production, host) ==
  IF MatchesAny(production, host) THEN Production
  ELSE IF MatchesAny(development, host) \/ host \in Loopback THEN Development
  ELSE Unknown

-----------------------------------------------------------------------------
(* The classifier in use: compiled by every start, consulted per request.  *)

VARIABLES
  development,   \* the compiled Development rules
  production,    \* the compiled Production rules
  seen           \* the last request classified, or NotSeen

vars == <<development, production, seen>>

NotSeen == [host |-> <<>>, class |-> Unknown]

Init ==
  /\ development = <<>>
  /\ production = <<>>
  /\ seen = NotSeen

\* start compiles both lists first and keeps the previous ones when it refuses.
Compile ==
  \E dev \in RuleLists, prod \in RuleLists :
    /\ Accepted(dev, prod)
    /\ development' = dev
    /\ production' = prod
    /\ seen' = NotSeen

Classify ==
  \E host \in Hosts :
    /\ seen' = [host |-> host, class |-> classify(development, production, host)]
    /\ UNCHANGED <<development, production>>

Next == Compile \/ Classify

Spec == Init /\ [][Next]_vars

-----------------------------------------------------------------------------
(* DestinationClassifier::compile rejects overlapping lists so that the    *)
(* order in which classify consults them cannot matter: a host some        *)
(* Production rule names is never also named by a Development rule.        *)
Unambiguous ==
  \A host \in Hosts :
    ~(MatchesAny(development, host) /\ MatchesAny(production, host))

(* The overlap test means what it says: a Development rule overlaps a rule *)
(* the user might enter exactly when some host name matches both (one      *)
(* label longer than both names is enough).  compile therefore refuses no  *)
(* rule list that would have been harmless.                                *)
OverlapIsCommonHost ==
  \A d \in 1..Len(development), rules \in RuleLists :
    \A r \in 1..Len(rules) :
      overlaps(development[d], rules[r]) <=>
        \E host \in Hosts : matches(development[d], host) /\ matches(rules[r], host)

(* Every active operation is refused on a host that no Development rule    *)
(* and no loopback default names, and on every host a Production rule      *)
(* names, loopback included (authorize fails closed).                      *)
ActiveOnlyOnListed ==
  \A action \in Action \ {"observe"} :
    authorize(seen.class, action) =>
      /\ MatchesAny(development, seen.host) \/ seen.host \in Loopback
      /\ ~MatchesAny(production, seen.host)
=============================================================================
