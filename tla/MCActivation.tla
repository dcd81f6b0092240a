---------------------------- MODULE MCActivation ----------------------------
(* Local builds of three mods (one mod in two builds, one with the settings *)
(* key of a registry mod) and releases of three registry mods, one of them  *)
(* content that is not activated.  The cases: every graph of rules between  *)
(* three local mods, every interval over the labels of a prerelease chain,  *)
(* and mixed selections with faults.                                        *)
EXTENDS Activation

CONSTANTS a1, a2, b1, c1, r, s, t, clash

MCReleases == {r, s, t}
MCLocals == {a1, a2, b1, c1, clash}
MCModOf == [x \in MCReleases \cup MCLocals |->
  CASE x \in {a1, a2} -> "a" [] x = b1 -> "b" [] x = c1 -> "c"
    [] x \in {r, clash} -> "registry.1" [] x = s -> "registry.2" [] x = t -> "registry.3"]

Number(n) == [number |-> TRUE, rank |-> n]
Word(n) == [number |-> FALSE, rank |-> n]
Label(core, pre) == [core |-> core, pre |-> pre]
\* 1.0.0-2, 1.0.0-11, 1.0.0-alpha, 1.0.0-alpha.1, 1.0.0-alpha.beta, 1.0.0, 1.2.0, 2.0.0-alpha
MCPrecedence ==
  <<Label(<<1, 0, 0>>, <<Number(2)>>), Label(<<1, 0, 0>>, <<Number(11)>>),
    Label(<<1, 0, 0>>, <<Word(1)>>), Label(<<1, 0, 0>>, <<Word(1), Number(1)>>),
    Label(<<1, 0, 0>>, <<Word(1), Word(2)>>), Label(<<1, 0, 0>>, << >>),
    Label(<<1, 2, 0>>, << >>), Label(<<2, 0, 0>>, <<Word(1)>>)>>
Labels == Elements(MCPrecedence)
One == MCPrecedence[6]

Rule(kind, x, y) == [kind |-> kind, of |-> x, target |-> y]
Need(x, m, e, low, high, pre) ==
  [of |-> x, mod |-> m, release |-> e, minimum |-> low, before |-> high, prerelease |-> pre]
Case(installed, label, needs, rules, requested) ==
  [installed |-> installed, label |-> [x \in MCReleases |-> IF x = r THEN label ELSE One],
   needs |-> needs, rules |-> rules, requested |-> requested]
Sequences(S) == {q \in [1..Cardinality(S) -> S] : Elements(q) = S}

\* One way to say each edge between a1, b1 and c1, and wishes that may go against them.
EdgeRules ==
  {Rule("requires", b1, a1), Rule("before", a1, "c"), Rule("before", b1, "a"),
   Rule("requires", c1, b1), Rule("after", a1, "c"), Rule("after", b1, "c"),
   Rule("requires", c1, a1)}
Wishes == {{}, {Rule("prefer_before", c1, "a"), Rule("prefer_after", a1, "b")}}
LocalCases ==
  {Case({a1, b1, c1, t}, One, {}, rules \cup wish, q) :
     rules \in SUBSET EdgeRules, wish \in Wishes, q \in Sequences({a1, b1, c1})}

VersionCases ==
  {Case({r, s}, label, {Need(s, "registry.1", None, low, high, pre)}, {}, <<s, r>>) :
     label \in Labels \cup {NotAVersion}, low \in Labels \cup {None}, high \in Labels \cup {None},
     pre \in BOOLEAN}

ReleaseNeeds ==
  {Need(s, "registry.1", r, None, None, FALSE), Need(s, "registry.3", None, One, None, FALSE),
   Need(t, "registry.1", None, One, None, TRUE), Need(r, "registry.2", None, None, One, TRUE)}
MixedCases ==
  {Case({a1, b1, r, s, t}, MCPrecedence[7], needs, rules, q) :
     needs \in SUBSET ReleaseNeeds, rules \in SUBSET {Rule("requires", b1, a1), Rule("after", a1, "b")},
     q \in {<<s, b1, r, a1, t>>, <<s, b1, r, a1>>, <<b1, s, t, r>>, <<t, s, r>>}}

OtherCases ==
  {Case({a1, a2, b1, r, clash}, One, {}, {Rule("requires", b1, a1)}, q) :
     q \in {<<a1, a2>>, <<b1>>, <<b1, a2>>, <<b1, a1>>, <<clash, r>>, <<r, a1>>, <<s>>, <<a1, b1, c1, r, s, t>>}}

MCCases == LocalCases \cup VersionCases \cup MixedCases \cup OtherCases
=============================================================================
