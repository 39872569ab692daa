-------------------------- MODULE ClassifierProofs --------------------------
(* Theorems about the destination classifier, for every set of labels,     *)
(* hosts and rule lists.                                                   *)
EXTENDS Classifier, TLAPS

(* Two suffixes of one host name are suffixes of each other: the shorter   *)
(* one ends the longer one (the ends_with tests of HostPattern).           *)
LEMMA SuffixOfSuffix ==
  ASSUME NEW host \in Seq(Labels), NEW long \in Seq(Labels), NEW short \in Seq(Labels),
         EndsWith(host, long), EndsWith(host, short), Len(short) <= Len(long)
  PROVE  EndsWith(long, short)
<1> DEFINE h == Len(host)
           m == Len(long)
           n == Len(short)
<1>1. h \in Nat /\ m \in Nat /\ n \in Nat /\ n <= m
  OBVIOUS
<1> SUFFICES ASSUME NEW i \in 1..n PROVE long[m - n + i] = short[i]
  BY DEF EndsWith
<1>2. /\ m - n + i \in 1..m
      /\ h - m + (m - n + i) = h - n + i
  <2> HIDE DEF h, m, n
  <2> QED BY <1>1
<1>3. host[h - m + (m - n + i)] = long[m - n + i]
  BY <1>2 DEF EndsWith
<1>4. host[h - n + i] = short[i]
  BY DEF EndsWith
<1>5. QED
  BY <1>2, <1>3, <1>4

(* HostPattern::overlaps is complete: two rules that match a common host   *)
(* always overlap, whatever their kinds, so the check compile makes cannot *)
(* miss an ambiguous pair.                                                 *)
LEMMA CommonHostOverlaps ==
  ASSUME NEW left \in Pattern, NEW right \in Pattern, NEW host \in Host,
         matches(left, host), matches(right, host)
  PROVE  overlaps(left, right)
<1>1. /\ left.kind \in {"exact", "suffix"} /\ right.kind \in {"exact", "suffix"}
      /\ left.name \in Seq(Labels) /\ right.name \in Seq(Labels) /\ host \in Seq(Labels)
  BY DEF Pattern, Host
<1>2. CASE left.kind = "exact" \/ right.kind = "exact"
  BY <1>1, <1>2 DEF matches, overlaps
<1>3. CASE left.kind = "suffix" /\ right.kind = "suffix"
  <2>1. EndsWith(host, left.name) /\ EndsWith(host, right.name)
    BY <1>3 DEF matches
  <2>2. CASE Len(right.name) <= Len(left.name)
    BY <1>1, <1>3, <2>1, <2>2, SuffixOfSuffix DEF overlaps
  <2>3. CASE Len(left.name) <= Len(right.name)
    BY <1>1, <1>3, <2>1, <2>3, SuffixOfSuffix DEF overlaps
  <2>4. QED
    BY <1>1, <2>2, <2>3
<1>4. QED
  BY <1>1, <1>2, <1>3

\* What every compiled classifier satisfies.
Compiled ==
  /\ development \in RuleLists \cup {<<>>}
  /\ production \in RuleLists \cup {<<>>}
  /\ Accepted(development, production)

LEMMA CompiledPatterns == Compiled => development \in Seq(Pattern) /\ production \in Seq(Pattern)
<1>1. <<>> \in Seq(Pattern)
  OBVIOUS
<1>2. QED
  BY <1>1, RuleListsAssumption DEF Compiled

LEMMA CompiledInvariant == Spec => []Compiled
<1>1. Init => Compiled
  BY MaxRulesAssumption DEF Init, Compiled, Accepted
<1>2. Compiled /\ [Next]_vars => Compiled'
  <2> SUFFICES ASSUME Compiled, [Next]_vars PROVE Compiled'
    OBVIOUS
  <2>1. CASE Compile
    BY <2>1 DEF Compile, Compiled, Accepted
  <2>2. CASE Classify
    BY <2>2 DEF Classify, Compiled, Accepted
  <2>3. CASE UNCHANGED vars
    BY <2>3 DEF vars, Compiled, Accepted
  <2>4. QED
    BY <2>1, <2>2, <2>3 DEF Next
<1>3. QED
  BY <1>1, <1>2, PTL DEF Spec

(* No host is ever named by both lists of a running proxy, so Production   *)
(* protection cannot be lost to a Development rule, nor the reverse, for   *)
(* any rules and any hosts (compile and classify of proxy.rs).             *)
THEOREM UnambiguousAlways == Spec => []Unambiguous
<1>1. Compiled => Unambiguous
  <2> SUFFICES ASSUME Compiled, NEW host \in Hosts,
                      MatchesAny(development, host), MatchesAny(production, host)
               PROVE  FALSE
    BY DEF Unambiguous
  <2>1. PICK d \in 1..Len(development) : matches(development[d], host)
    BY DEF MatchesAny
  <2>2. PICK p \in 1..Len(production) : matches(production[p], host)
    BY DEF MatchesAny
  <2>3. development[d] \in Pattern /\ production[p] \in Pattern
    BY CompiledPatterns
  <2>4. overlaps(development[d], production[p])
    BY <2>1, <2>2, <2>3, HostsAssumption, CommonHostOverlaps
  <2>5. QED
    BY <2>4 DEF Compiled, Accepted
<1>2. QED
  BY <1>1, CompiledInvariant, PTL

-----------------------------------------------------------------------------
(* The overlap test refuses nothing that is harmless.                      *)

(* A host may be asked for that has a rule's name, or one label more.      *)
RulesReached ==
  \A rules \in RuleLists : \A i \in 1..Len(rules) :
    /\ rules[i].name \in Hosts
    /\ \E label \in Labels : <<label>> \o rules[i].name \in Hosts

(* One label in front of a name makes a host that the suffix rules of the  *)
(* name, and of every name it ends with, match.                            *)
LEMMA LongerMatches ==
  ASSUME NEW label \in Labels, NEW long \in Seq(Labels), NEW short \in Seq(Labels),
         EndsWith(long, short)
  PROVE  /\ Len(<<label>> \o long) > Len(short)
         /\ EndsWith(<<label>> \o long, short)
<1> DEFINE host == <<label>> \o long
           m == Len(long)
           n == Len(short)
<1>1. /\ host \in Seq(Labels) /\ Len(host) = m + 1
      /\ m \in Nat /\ n \in Nat /\ n <= m
      /\ \A j \in 1..m : host[j + 1] = long[j]
  BY DEF EndsWith
<1>2. ASSUME NEW i \in 1..n PROVE host[Len(host) - n + i] = short[i]
  <2>1. long[m - n + i] = short[i]
    BY DEF EndsWith
  <2>2. m - n + i \in 1..m /\ Len(host) - n + i = (m - n + i) + 1
    <3> HIDE DEF host, m, n
    <3> QED BY <1>1
  <2> HIDE DEF host
  <2>3. QED
    BY <1>1, <2>1, <2>2
<1>3. QED
  BY <1>1, <1>2 DEF EndsWith

LEMMA EndsWithItself == \A name \in Seq(Labels) : EndsWith(name, name)
  BY DEF EndsWith

(* Two overlapping rules match a common host, if such hosts are asked for. *)
LEMMA OverlapHasHost ==
  ASSUME NEW left \in Pattern, NEW right \in Pattern, overlaps(left, right),
         left.name \in Hosts, NEW a \in Labels, <<a>> \o left.name \in Hosts,
         right.name \in Hosts, NEW b \in Labels, <<b>> \o right.name \in Hosts
  PROVE  \E host \in Hosts : matches(left, host) /\ matches(right, host)
<1>1. left.name \in Seq(Labels) /\ right.name \in Seq(Labels)
  BY DEF Pattern, Host
<1>2. CASE left.kind = "exact"
  BY <1>2 DEF overlaps, matches
<1>3. CASE right.kind = "exact"
  BY <1>3 DEF overlaps, matches
<1>4. CASE left.kind = "suffix" /\ right.kind = "suffix" /\ EndsWith(left.name, right.name)
  BY <1>1, <1>4, LongerMatches, EndsWithItself DEF matches
<1>5. CASE left.kind = "suffix" /\ right.kind = "suffix" /\ EndsWith(right.name, left.name)
  BY <1>1, <1>5, LongerMatches, EndsWithItself DEF matches
<1>6. QED
  BY <1>2, <1>3, <1>4, <1>5 DEF overlaps

(* A Development rule overlaps a rule the user might enter exactly when    *)
(* some host that can be asked for matches both, so compile refuses no     *)
(* list that would have been harmless (HostPattern::overlaps).             *)
THEOREM OverlapIsCommonHostAlways ==
  ASSUME RulesReached
  PROVE  Spec => []OverlapIsCommonHost
<1>1. Compiled => OverlapIsCommonHost
  <2> SUFFICES ASSUME Compiled, NEW d \in 1..Len(development),
                      NEW rules \in RuleLists, NEW r \in 1..Len(rules)
               PROVE  overlaps(development[d], rules[r]) <=>
                        \E host \in Hosts : matches(development[d], host) /\ matches(rules[r], host)
    BY DEF OverlapIsCommonHost
  <2>1. development \in RuleLists
    BY DEF Compiled
  <2>2. development[d] \in Pattern /\ rules[r] \in Pattern
    BY <2>1, RuleListsAssumption
  <2>3. /\ development[d].name \in Hosts
        /\ \E label \in Labels : <<label>> \o development[d].name \in Hosts
        /\ rules[r].name \in Hosts
        /\ \E label \in Labels : <<label>> \o rules[r].name \in Hosts
    BY <2>1 DEF RulesReached
  <2>4. QED
    BY <2>2, <2>3, OverlapHasHost, CommonHostOverlaps, HostsAssumption
<1>2. QED
  BY <1>1, CompiledInvariant, PTL

-----------------------------------------------------------------------------
(* What was classified last was classified by the lists in use: starting   *)
(* the proxy forgets the answers of the lists before.                      *)
Current == seen = NotSeen \/ seen.class = classify(development, production, seen.host)

(* Every operation beyond observing is refused on a host that no           *)
(* Development rule and no loopback default names, and on every host a     *)
(* Production rule names (classify, and authorize of lib.rs).              *)
THEOREM ActiveOnlyOnListedAlways == Spec => []ActiveOnlyOnListed
<1>1. Init => Current
  BY DEF Init, Current
<1>2. Current /\ [Next]_vars => Current'
  <2> SUFFICES ASSUME Current, [Next]_vars PROVE Current'
    OBVIOUS
  <2>1. CASE Compile
    BY <2>1 DEF Compile, Current
  <2>2. CASE Classify
    BY <2>2 DEF Classify, Current, classify, MatchesAny
  <2>3. CASE UNCHANGED vars
    BY <2>3 DEF vars, Current, classify, MatchesAny
  <2>4. QED
    BY <2>1, <2>2, <2>3 DEF Next
<1>3. Current => ActiveOnlyOnListed
  BY DEF Current, NotSeen, ActiveOnlyOnListed, authorize, classify, Development, Production, Unknown
<1>4. QED
  BY <1>1, <1>2, <1>3, PTL DEF Spec
=============================================================================
