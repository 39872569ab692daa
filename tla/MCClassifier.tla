---------------------------- MODULE MCClassifier ----------------------------
(* Two labels, rules of at most two labels, hosts of at most three: a host *)
(* one label longer than every rule, which is where two suffix rules meet. *)
EXTENDS Classifier, SequencesExt

MCHosts == BoundedSeq(Labels, 3) \ {<<>>}

RuleNames == BoundedSeq(Labels, 2) \ {<<>>}

Exact(name)  == [kind |-> "exact", name |-> name]
Suffix(name) == [kind |-> "suffix", name |-> name]

Singles == { <<Exact(n)>> : n \in RuleNames } \cup { <<Suffix(n)>> : n \in RuleNames }
Pairs   == { <<Exact(<<"a">>), Suffix(<<"b">>)>>,
             <<Suffix(<<"a", "b">>), Exact(<<"b">>)>>,
             <<Suffix(<<"b", "a">>), Suffix(<<"a", "b">>)>>,
             <<Exact(<<"a", "b">>), Exact(<<"b", "b">>)>> }
TooLong == { <<Exact(<<"a">>), Exact(<<"b">>), Exact(<<"a", "a">>)>> }

MCRuleLists == {<<>>} \cup Singles \cup Pairs \cup TooLong

MCLoopback == {<<"b">>}
=============================================================================
