---------------------------- MODULE MCTelemetryRT ----------------------------
EXTENDS TelemetryRT, TLC

CONSTANTS a, b, s1, s2, s3, s4, i1, i2

Topics12 == <<1, 2>>

Topical == {i \in Items : item[i].topics # <<>>}

\* Bound: what has strayed as nothing is claimed after is not followed further, nor
\* an app that has given up its topics; and of these there is one at a time: an item
\* with a topic, a connection that is forgotten, a send beside a disconnect.
Tidy ==
  /\ Apart
  /\ \A k \in Apps : quit[k] = NotQuit
  /\ Cardinality(Topical) + Cardinality(strayed) + (IF leaked = {} THEN 0 ELSE 1) <= 1

Symmetry == Permutations({a, b}) \union Permutations({s1, s2, s3, s4}) \union Permutations({i1, i2})
=============================================================================
