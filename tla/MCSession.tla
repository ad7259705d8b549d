------------------------------- MODULE MCSession -------------------------------
(* Every policy of three ways that keeps its newest line on a second hit, those *)
(* of two ways, and what the late experiments tell apart.                       *)
EXTENDS Session

Usual == Lru(2)
On(policy) == [policy |-> policy, sets |-> 1, reach |-> 8, known |-> TRUE]
Machine == [lower |-> On(Usual), upper |-> On(Usual), hugeEntries |-> 2,
            nested |-> FALSE, unified |-> FALSE, pcids |-> 2, respects |-> TRUE]

Orders(ways) == {o \in [0 .. ways - 1 -> 0 .. ways - 1] : \A v, w \in DOMAIN o : v # w => o[v] # o[w]}
Identity(ways) == [w \in 0 .. ways - 1 |-> w]
Policies ==
  {Permutation(v) : v \in {f \in [0 .. 2 -> Orders(3)] : f[0] = Identity(3)}}
    \cup {Permutation(v) : v \in [0 .. 1 -> Orders(2)]} \cup {Huplru, Lru(1)}

Sets == [policy : {Lru(1), Lru(2)}, sets : {1, 2}, reach : {8}, known : {TRUE}]

AllHosts ==
  {[Machine EXCEPT !.lower = On(p)] : p \in Policies}
  \cup {[Machine EXCEPT !.lower.reach = r] : r \in 1 .. 7}
  \cup {[Machine EXCEPT !.lower.known = FALSE], [Machine EXCEPT !.upper.known = FALSE]}
  \cup {[Machine EXCEPT !.lower = l, !.upper = u, !.nested = n, !.unified = s, !.hugeEntries = h] :
          l, u \in Sets, n, s \in BOOLEAN, h \in 1 .. 3}
  \cup {[Machine EXCEPT !.lower.sets = s, !.pcids = q, !.respects = r] :
          s \in {1, 2}, q \in 1 .. 5, r \in BOOLEAN}

\* Even, partly mapped, covered and empty levels.
Sizes(two, three, four) ==
  [level \in 2 .. 4 |-> CASE level = 2 -> two [] level = 3 -> three [] OTHER -> four]
UsualLayout == Sizes(7, 5, 2)
SmallLayouts ==
  {Sizes(e[1], e[2], e[3]) : e \in {0, 1, 4, 7, 10, 27} \X {0, 1, 2, 5, 6} \X {0, 1, 2, 3}}
AllSessions == ({UsualLayout} \X AllHosts) \cup (SmallLayouts \X {Machine})

Spelled == {line.query : line \in MrhScript \cup HuplruScript}
Short == {<<1>>, <<1,2>>, <<1,2,1>>, <<1,2,3>>, <<1,2,1,3>>, <<1,1,1,2>>, <<1,2,3,2>>, <<1,2,3,1,4>>,
          <<1,2,3,2,4>>, <<1,2,3,3,2,4>>, <<1,2,3,1,2,1,4>>, <<1,2,1,1,1,1,1,1,1,1>>}
AllTexts == Spelled \cup Short

FewTargets == {0, 1, 5}
OneStart == {0}

\* A trigger on the cache of evaluate_mrh.py that is given two queries.
TwoStarts == {0, 1}
MrhSessions == {<<UsualLayout, [Machine EXCEPT !.lower = On(Mrh)]>>}
MrhHosts == {session[2] : session \in MrhSessions}
MrhTexts == {line.query : line \in MrhScript}

\* Huge TLBs of up to as many entries as there are huge pages.
HugeSessions == {UsualLayout} \X {[Machine EXCEPT !.hugeEntries = h] : h \in 1 .. 4}
HugeHosts == {session[2] : session \in HugeSessions}
================================================================================
