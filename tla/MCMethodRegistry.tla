-------------------------- MODULE MCMethodRegistry --------------------------
(* Names for TLC: packages p and pp, methods m and mm of interface i, and  *)
(* versions of single-digit components.                                    *)
EXTENDS MethodRegistry

P == <<13>>
PP == <<13, 13>>
I == <<14>>
M == <<15>>
MM == <<15, 15>>
SingleDigit == {<<1, 0, 0>>, <<1, 2, 0>>, <<2, 0, 1>>}

TwoPackages == {P, PP}
OneInterface == {I}
TwoMethods == {M, MM}
Requests == {<<>>, <<15, 1>>}

Name(p, v, i, m) == to_canonical([package |-> p, version |-> v, interface |-> i, method |-> m])

(* Three versions of p/i/m, a longer method and a longer package; names    *)
(* that may not be registered: without a version, with an empty one, with  *)
(* an empty package and with an empty interface.                           *)
Some == {Name(P, VersionText(v), I, M) : v \in SingleDigit}
          \cup {Name(P, VersionText(<<1, 0, 0>>), I, MM),
                Name(PP, VersionText(<<2, 0, 1>>), I, M)}
          \cup {Name(P, <<>>, I, M), Name(P \o <<At>>, <<>>, I, M),
                Name(<<>>, VersionText(<<1, 0, 0>>), I, M),
                Name(P, VersionText(<<1, 0, 0>>), <<>>, M)}

(* What the proofs about the registry take for granted of its names.       *)
ASSUME NamesAssumption == NamesOnly /\ SingleDigits
=============================================================================
