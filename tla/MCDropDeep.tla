------------------------------ MODULE MCDropDeep ------------------------------
(***************************************************************************)
(* Graphs of payloads for DropDeep: every graph of few payloads, and some  *)
(* that go deep.                                                           *)
(***************************************************************************)
EXTENDS DropDeep

MCNodes == 1..9
LeafNode    == 9

\* A graph: `below` lists the items of the payloads that have any, of which those
\* in `lazy` are wrappers.  A wrapper below a wrapper is one further down.
Above(below, lazy) ==
  LET A[n \in MCNodes] ==
        LET up == {m \in lazy : n \in lazy /\ Contains(below[m], n)}
        IN IF up = {} THEN 0 ELSE 1 + A[CHOOSE m \in up : \A k \in up : k <= m]
  IN A

Graph(below, lazy, roots) ==
  [items |-> below, lazy |-> lazy, above |-> Above(below, lazy), held |-> roots,
   scalars |-> [n \in MCNodes |-> IF n = LeafNode THEN 1 ELSE 0]]

ItemsOf(f) == [n \in MCNodes |-> IF n \in DOMAIN f THEN f[n] ELSE <<>>]

\* At most two different payloads among those after n.
Pairs(S) == {<<>>} \cup {<<m>> : m \in S} \cup {s \in S \X S : s[1] # s[2]}
SmallGraphs ==
  {Graph(ItemsOf(1 :> a @@ 2 :> b @@ 3 :> c), lazy, roots) :
     a \in Pairs({2, 3, 9}), b \in Pairs({3, 9}), c \in Pairs({9}),
     lazy \in {{}, {2}, {1, 2}, {2, 3}}, roots \in {<<1>>, <<1, 2>>, <<3, 1>>}}

\* Chains, and chains whose every payload holds one more on the side.
ChainOf(lazy)  == Graph(ItemsOf([n \in 1..8 |-> <<n + 1>>]), lazy, <<1>>)
LadderOf(lazy) == Graph(ItemsOf([n \in 1..7 |-> <<n + 2, n + 1>>] @@ 8 :> <<9>>), lazy, <<1>>)
DeepGraphs == {ChainOf(lazy) : lazy \in {{}, 1..8, {2, 3, 4, 6, 7}}}
        \cup {LadderOf(lazy) : lazy \in {{}, {1, 3, 5}}}

MCHeaps == SmallGraphs \cup DeepGraphs

\* The same payload twice in each: an object made of one value under two names.
Doubled == {Graph(ItemsOf([n \in 1..8 |-> <<n + 1, n + 1>>]), {}, <<1>>)}
=============================================================================
