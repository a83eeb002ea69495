----------------------------- MODULE LinkGraph -----------------------------
(***************************************************************************)
(* Link analysis of the dashboard: the rows of ip_edges become a weighted  *)
(* directed graph (linkanalysis/graph.py), which is pruned to its heaviest *)
(* nodes and ranked by power iteration (pagerank.py; with alpha 1 the same *)
(* iteration is stationary_distribution of markov.py).  Ranks are exact:   *)
(* ranks[v] / unit is the rank of v.                                       *)
(***************************************************************************)
EXTENDS Integers, FiniteSetsExt, Functions

CONSTANTS Nodes,      \* addresses
          Weights,    \* packets of one row
          MaxEdges,   \* bound on the rows
          TopNs,      \* values of n of prune_graph_top_n
          Alphas,     \* damping factors, as pairs of numerator and denominator
          Tol,        \* convergence tolerance, as such a pair
          MaxIter     \* max_iter

ASSUME LinkAssumption ==
  /\ Weights \subseteq Nat \ {0} /\ MaxEdges \in Nat /\ TopNs \subseteq Nat \ {0}
  /\ MaxIter \in Nat
  /\ \A a \in Alphas : a[1] \in Nat /\ a[2] \in Nat \ {0} /\ a[1] <= a[2]

VARIABLES step,      \* "build", "iterate", "done"
          rows,      \* rows read so far
          weight,    \* weight[<<u, v>>], 0 for no edge
          members,   \* the nodes of the graph
          alpha, personal,
          ranks, unit, iterations,
          change     \* the L1 distance of the last iteration, in units

linkVars == <<step, rows, weight, members, alpha, personal, ranks, unit, iterations, change>>

LinkInit ==
  /\ step = "build" /\ rows = 0 /\ members = {}
  /\ weight = [e \in Nodes \X Nodes |-> 0]
  /\ alpha = <<0, 1>> /\ personal = <<>>
  /\ ranks = <<>> /\ unit = 1 /\ iterations = 0 /\ change = 0

-----------------------------------------------------------------------------
\* build_graph_from_edges: rows of one pair add up; a row without an end is skipped,
\* which leaves the graph as it is.
AddRow(u, v, packets) ==
  /\ step = "build" /\ rows < MaxEdges
  /\ rows' = rows + 1
  /\ weight' = [weight EXCEPT ![<<u, v>>] = @ + packets]
  /\ members' = members \union {u, v}
  /\ UNCHANGED <<step, alpha, personal, ranks, unit, iterations, change>>

OutWeight(u) == SumFunction([v \in members |-> weight[<<u, v>>]])

Degree(u) == OutWeight(u) + SumFunction([v \in members |-> weight[<<v, u>>]])

\* prune_graph_top_n: the heaviest nodes, ties in any order.
TopNodes(n) ==
  IF Cardinality(members) <= n THEN {members}
  ELSE {S \in kSubset(n, members) :
          \A u \in S, v \in members \ S : Degree(u) >= Degree(v)}

\* The start of the power iteration on the pruned graph, whose edges go with its nodes.
StartRanking(top, a, p) ==
  /\ step = "build" /\ members # {}
  /\ step' = "iterate" /\ members' = top
  /\ alpha' = a /\ personal' = p
  /\ ranks' = [v \in top |-> 1] /\ unit' = Cardinality(top)
  /\ iterations' = 0 /\ change' = 2 * Cardinality(top)
  /\ UNCHANGED <<rows, weight>>

\* Numbers between 0 and 1 are pairs of numerator and denominator.
EdgeShare(u, v) == <<weight[<<u, v>>], OutWeight(u)>>

Dangling(u) == OutWeight(u) = 0

\* Variant: the row of a dangling node stays zero.
TransitionUnfilled(u, v) == IF Dangling(u) THEN <<0, 1>> ELSE EdgeShare(u, v)

\* Row u of the transition matrix; a dangling node goes everywhere.
Transition(u, v) == IF Dangling(u) THEN <<1, Cardinality(members)>> ELSE EdgeShare(u, v)

\* The personalisation vector; one that gives nothing to any node is replaced.
Teleport(v) ==
  LET total == SumFunction(personal)
  IN IF total > 0 THEN <<personal[v], total>> ELSE <<1, Cardinality(members)>>

\* A common multiple of the denominators.
Scale ==
  LET denominators == {Transition(u, v)[2] : u, v \in members} \union {Teleport(v)[2] : v \in members}
  IN Min({m \in 1..ProductSet(denominators) : \A d \in denominators : m % d = 0})

Scaled(pair, m) == pair[1] * (m \div pair[2])

\* One multiplication: the new rank of v over the unit of NewUnit(m).
NewRank(v, m) ==
  alpha[1] * SumFunction([u \in members |-> ranks[u] * Scaled(Transition(u, v), m)])
    + (alpha[2] - alpha[1]) * unit * Scaled(Teleport(v), m)

NewUnit(m) == unit * alpha[2] * m

Distance1(a, b) == IF a < b THEN b - a ELSE a - b

\* The end of the loop: a change below the tolerance, or max_iter; the ranks are
\* returned either way, the stationary distribution only when it converged.
Stationary == alpha[1] = alpha[2]

Converged == change * Tol[2] < Tol[1] * unit

Iterate ==
  /\ step = "iterate" /\ iterations < MaxIter
  /\ iterations = 0 \/ ~Converged
  /\ LET m == Scale
         new == [v \in members |-> NewRank(v, m)]
     IN /\ ranks' = new /\ unit' = NewUnit(m)
        /\ change' = SumFunction([v \in members |-> Distance1(new[v], ranks[v] * alpha[2] * m)])
  /\ iterations' = iterations + 1
  /\ UNCHANGED <<step, rows, weight, members, alpha, personal>>

Return ==
  /\ step = "iterate"
  /\ iterations = MaxIter \/ (iterations > 0 /\ Converged)
  /\ step' = "done"
  /\ ranks' = IF Stationary /\ (iterations = 0 \/ ~Converged) THEN <<>> ELSE ranks
  /\ UNCHANGED <<rows, weight, members, alpha, personal, unit, iterations, change>>

LinkNext ==
  \/ \E u, v \in Nodes, packets \in Weights : AddRow(u, v, packets)
  \/ \E n \in TopNs, a \in Alphas : \E top \in TopNodes(n) :
       \E p \in [top -> {0, 1}] : StartRanking(top, a, p)
  \/ Iterate \/ Return

LinkSpec == LinkInit /\ [][LinkNext]_linkVars

-----------------------------------------------------------------------------
Power(b, n) ==
  LET power[i \in 0..n] == IF i = 0 THEN 1 ELSE b * power[i - 1]
  IN power[n]

\* In every iteration the ranks are a distribution, with dangling nodes, pruned
\* neighbours and any personalisation, and from the second on their change shrinks at
\* least by alpha: the loop ends by its tolerance after a number of iterations that
\* does not depend on the graph (pagerank.py 65-102, markov.py 165-189).
RanksConverge ==
  ranks # <<>> =>
    /\ SumFunction(ranks) = unit
    /\ iterations > 0 =>
         change * Power(alpha[2], iterations - 1) <= 2 * unit * Power(alpha[1], iterations - 1)
=============================================================================
