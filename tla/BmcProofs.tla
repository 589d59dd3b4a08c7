----------------------------- MODULE BmcProofs -----------------------------
(***************************************************************************)
(* The clauses of the BMC oracle, for every automaton, trail, set of loops *)
(* and bound.  The product of the trail and the automaton is compared with *)
(* the runs of the automaton on a lasso in both directions: a run that is  *)
(* accepted is a path of the product through an accepting SCC              *)
(* (ConstraintsNecessary), and when the trail leaves one word only, such a *)
(* path is an accepted run (NonEmptyAccepts).  BmcInv relates the          *)
(* constraints of the loops, their combination and the clauses.            *)
(***************************************************************************)
EXTENDS BmcClauses, FiniteSetTheorems, NaturalsInduction, WellFoundedInduction, TLAPS

\* The states of the product, and those that can be reached from s.
Node == Steps \X Q
Reach(l, s) == ReachableFrom(Closed(Product(l)), s)

\* What the automaton and the trail are.
Inputs ==
    /\ ltl_aut \subseteq Edge
    /\ conditions \in [Steps -> SUBSET Valuation]
    /\ loops \subseteq Steps

\* The step of position n of a word, K being step l again.
At(n, l) == IF n = K THEN l ELSE n

(* The edges of the product.                                               *)
LEMMA ProductEdges ==
  ASSUME Inputs, NEW l \in Steps
  PROVE  /\ \A s \in Steps, a \in ltl_aut : conditions[s] \cap a.cond # {} =>
              \E e \in Product(l) : /\ e.src = <<s, a.src>>
                                    /\ e.dst = <<Follow(s, l), a.dst>>
                                    /\ e.cond = conditions[s] \cap a.cond
                                    /\ e.acc = a.acc
         /\ \A e \in Product(l) : \E s \in Steps, a \in ltl_aut :
              /\ e.src = <<s, a.src>> /\ e.dst = <<Follow(s, l), a.dst>>
              /\ e.cond = conditions[s] \cap a.cond /\ e.cond # {}
              /\ e.acc = a.acc
<1>1. ASSUME NEW s \in Steps, NEW a \in ltl_aut, conditions[s] \cap a.cond # {}
      PROVE  \E e \in Product(l) : /\ e.src = <<s, a.src>>
                                   /\ e.dst = <<Follow(s, l), a.dst>>
                                   /\ e.cond = conditions[s] \cap a.cond
                                   /\ e.acc = a.acc
  <2>1. <<s, a>> \in Steps \X ltl_aut  OBVIOUS
  <2>2. Joint(s, a, l) \in {Joint(p[1], p[2], l) : p \in Steps \X ltl_aut}
    BY <2>1
  <2>3. Joint(s, a, l) \in Product(l)
    BY <1>1, <2>2 DEF Joint, Product, False
  <2> QED  BY <2>3 DEF Joint
<1>2. ASSUME NEW e \in Product(l)
      PROVE  \E s \in Steps, a \in ltl_aut :
               /\ e.src = <<s, a.src>> /\ e.dst = <<Follow(s, l), a.dst>>
               /\ e.cond = conditions[s] \cap a.cond /\ e.cond # {}
               /\ e.acc = a.acc
  BY DEF Product, Joint, False
<1> QED  BY <1>1, <1>2

(* The edges connect nodes.                                                *)
LEMMA ProductNodes ==
  ASSUME Inputs, NEW l \in Steps, NEW e \in Product(l)
  PROVE  e.src \in Node /\ e.dst \in Node
<1>1. PICK s \in Steps, a \in ltl_aut :
         e.src = <<s, a.src>> /\ e.dst = <<Follow(s, l), a.dst>>
  BY ProductEdges
<1>2. a.src \in Q /\ a.dst \in Q  BY DEF Inputs, Edge
<1>3. Follow(s, l) \in Steps  BY BoundAssumption DEF Follow, Steps
<1> QED  BY <1>1, <1>2, <1>3 DEF Node

(* Reachability: reflexive, closed under edges, transitive, and contained  *)
(* in every closed set.                                                    *)
LEMMA ReachFacts ==
  ASSUME Inputs, NEW l \in Steps
  PROVE  /\ \A s \in Node : s \in Reach(l, s) /\ Reach(l, s) \subseteq Node
         /\ \A s \in Node, e \in Product(l) : e.src \in Reach(l, s) => e.dst \in Reach(l, s)
         /\ \A s \in Node, R \in SUBSET Node :
              s \in R /\ (\A e \in Product(l) : e.src \in R => e.dst \in R)
              => Reach(l, s) \subseteq R
         /\ \A s, r, t \in Node : r \in Reach(l, s) /\ t \in Reach(l, r) => t \in Reach(l, s)
<1>1. \A s \in Node : s \in Reach(l, s) /\ Reach(l, s) \subseteq Node
  BY DEF Reach, ReachableFrom, Node
<1>2. \A s \in Node, e \in Product(l) : e.src \in Reach(l, s) => e.dst \in Reach(l, s)
  BY ProductNodes DEF Reach, ReachableFrom, Closed, Node
<1>3. \A s \in Node, R \in SUBSET Node :
         s \in R /\ (\A e \in Product(l) : e.src \in R => e.dst \in R)
         => Reach(l, s) \subseteq R
  BY DEF Reach, ReachableFrom, Closed, Node
<1>4. \A s, r, t \in Node : r \in Reach(l, s) /\ t \in Reach(l, r) => t \in Reach(l, s)
  BY <1>1, <1>2, <1>3
<1> QED  BY <1>1, <1>2, <1>3, <1>4

(* A set that contains a, and with every number below b its successor,     *)
(* contains everything from a to b.                                        *)
LEMMA Interval ==
  ASSUME NEW a \in Nat, NEW b \in Nat, NEW T, a \in T,
         \A n \in a .. b - 1 : n \in T => n + 1 \in T
  PROVE  a .. b \subseteq T
<1> SUFFICES ASSUME ~ (a .. b \subseteq T) PROVE FALSE
  OBVIOUS
<1> DEFINE M == {n \in a .. b : n \notin T}
           R == OpToRel(<, Nat)
<1>1. M \in SUBSET Nat /\ M # {}
  OBVIOUS
<1>2. \A x, y \in Nat : y < x => <<y, x>> \in R
  BY DEF OpToRel
<1>3. IsWellFoundedOn(R, Nat)
  BY NatLessThanWellFounded
<1> HIDE DEF R, M
<1>4. PICK x \in M : \A y \in M : ~ (<<y, x>> \in R)
  BY <1>1, <1>3, WFMin
<1>5. \A y \in M : ~ (y < x)
  BY <1>1, <1>2, <1>4
<1>6. x \in a .. b /\ x \notin T /\ x # a
  BY DEF M
<1>7. x - 1 \in a .. b - 1
  BY <1>6
<1>8. x - 1 \notin M
  BY <1>5, <1>7, <1>6
<1>9. x - 1 \in T
  BY <1>8, <1>7 DEF M
<1> QED BY <1>9, <1>7, <1>6

\* Step n of a run reads edges of the automaton that are in the product.
StepInProduct(w, run, n, l) ==
    /\ Reading(w[n], run[n], run[n + 1]) # {}
    /\ \A a \in Reading(w[n], run[n], run[n + 1]) :
          \E e \in Product(l) :
             /\ e.src = <<At(n, l), run[n]>> /\ e.dst = <<At(n + 1, l), run[n + 1]>>
             /\ w[n] \in e.cond /\ e.acc = a.acc

(* A step of a run that reads a word allowed by the trail is an edge of    *)
(* the product.                                                            *)
LEMMA RunStep ==
  ASSUME Inputs, NEW l \in Steps, NEW w \in [Steps -> Valuation], Extends(w),
         NEW from \in 0 .. K, NEW to \in 0 .. K, NEW run \in Runs(w, from, to)
  PROVE  \A n \in from .. to - 1 : StepInProduct(w, run, n, l)
<1> TAKE n \in from .. to - 1
<1>1. Reading(w[n], run[n], run[n + 1]) # {}
  BY DEF Runs
<1>2. n \in Steps /\ At(n, l) = n /\ Follow(n, l) = At(n + 1, l)
  BY BoundAssumption DEF Follow, At, Steps
<1>3. ASSUME NEW a \in Reading(w[n], run[n], run[n + 1])
      PROVE  \E e \in Product(l) :
                /\ e.src = <<At(n, l), run[n]>> /\ e.dst = <<At(n + 1, l), run[n + 1]>>
                /\ w[n] \in e.cond /\ e.acc = a.acc
  <2>1. a \in ltl_aut /\ a.src = run[n] /\ a.dst = run[n + 1] /\ w[n] \in a.cond
    BY DEF Reading
  <2>2. w[n] \in conditions[n] \cap a.cond
    BY <1>2, <2>1 DEF Extends
  <2>3. \A s \in Steps, b \in ltl_aut : conditions[s] \cap b.cond # {} =>
          \E e \in Product(l) : /\ e.src = <<s, b.src>> /\ e.dst = <<Follow(s, l), b.dst>>
                                /\ e.cond = conditions[s] \cap b.cond /\ e.acc = b.acc
    BY ProductEdges
  <2>4. PICK e \in Product(l) : /\ e.src = <<n, a.src>> /\ e.dst = <<Follow(n, l), a.dst>>
                                /\ e.cond = conditions[n] \cap a.cond /\ e.acc = a.acc
    BY <1>2, <2>1, <2>2, <2>3
  <2> QED BY <1>2, <2>1, <2>2, <2>4
<1> QED BY <1>1, <1>3 DEF StepInProduct

(* Positions of a run reach the later ones.                                *)
LEMMA RunReaches ==
  ASSUME Inputs, NEW l \in Steps, NEW w \in [Steps -> Valuation], Extends(w),
         NEW from \in 0 .. K, NEW to \in 0 .. K, NEW run \in Runs(w, from, to),
         NEW m \in from .. to, NEW n \in m .. to
  PROVE  /\ <<At(m, l), run[m]>> \in Node /\ <<At(n, l), run[n]>> \in Node
         /\ <<At(n, l), run[n]>> \in Reach(l, <<At(m, l), run[m]>>)
<1>1. run \in [from .. to -> Q]
      /\ \A k \in from .. to - 1 : Reading(w[k], run[k], run[k + 1]) # {}
  BY DEF Runs
<1>2. \A k \in from .. to : At(k, l) \in Steps /\ <<At(k, l), run[k]>> \in Node
  BY <1>1, BoundAssumption DEF At, Steps, Node
<1>3. m \in Nat /\ n \in Nat /\ n \in from .. to
  BY BoundAssumption
<1> DEFINE s == <<At(m, l), run[m]>>
           T == {k \in m .. n : <<At(k, l), run[k]>> \in Reach(l, s)}
<1>4. m \in T
  BY <1>2, <1>3, ReachFacts
<1>5. ASSUME NEW k \in m .. n - 1, k \in T
      PROVE  k + 1 \in T
  <2>1. k \in from .. to - 1 /\ k + 1 \in from .. to /\ k \in Steps /\ At(k, l) = k
    BY <1>3, BoundAssumption DEF Steps, At
  <2>2. PICK e \in Product(l) : /\ e.src = <<At(k, l), run[k]>>
                                /\ e.dst = <<At(k + 1, l), run[k + 1]>>
    <3>1. StepInProduct(w, run, k, l)
      BY <2>1, RunStep
    <3> QED BY <3>1 DEF StepInProduct
  <2>3. s \in Node /\ e.src \in Reach(l, s)
    BY <1>2, <1>5, <2>1, <2>2
  <2> QED BY <2>2, <2>3, <1>3, ReachFacts
<1> HIDE DEF T
<1>6. m .. n \subseteq T
  BY <1>3, <1>4, <1>5, Interval
<1> QED BY <1>2, <1>3, <1>6 DEF T

\* The SCC analysis of the product, in terms of Reach.
AcceptingNodes(l) ==
    {s \in Node : \E e \in Product(l) : e.acc /\ e.src \in Reach(l, s) /\ s \in Reach(l, e.dst)}
UsefulNodes(l) == {s \in Reach(l, <<0, q0>>) : Reach(l, s) \cap AcceptingNodes(l) # {}}
TargetNodes(l, j) ==
    IF j = K - 1 THEN {s \in AcceptingNodes(l) : s[1] = l} ELSE UsefulNodes(l)

(* The constraints of a loop, valuation by valuation.                      *)
LEMMA ConstraintsForm ==
  ASSUME Inputs, NEW l \in Steps
  PROVE  /\ get_edges_constraints_of_loop(l) \in [Steps -> SUBSET Valuation]
         /\ \A j \in Steps : \A v : v \in get_edges_constraints_of_loop(l)[j] <=>
              /\ <<0, q0>> \in UsefulNodes(l)
              /\ \E e \in Product(l) : /\ v \in e.cond /\ e.src \in UsefulNodes(l)
                                       /\ e.src[1] = j /\ e.dst \in TargetNodes(l, j)
<1> DEFINE E == Product(l)
           closed == Closed(E)
           reach == [s \in Steps \X Q |-> ReachableFrom(closed, s)]
           accepting == Accepting(E, reach)
           useful == {s \in reach[<<0, q0>>] : reach[s] \cap accepting # {}}
           target(j) == IF j = K - 1 THEN {s \in accepting : s[1] = l} ELSE useful
           g == IF <<0, q0>> \notin useful THEN [j \in Steps |-> False]
                ELSE [j \in Steps |-> EdgesFrom(E, j, useful, target(j))]
<1>1. get_edges_constraints_of_loop(l) = g
  BY DEF get_edges_constraints_of_loop
<1>2. \A s \in Node : reach[s] = Reach(l, s)
  BY DEF Reach, Node
<1>3. <<0, q0>> \in Node
  BY AutomataAssumption, BoundAssumption DEF Node, Steps
<1>4. \A e \in E : e.dst \in Node /\ e.cond \subseteq Valuation
  <2> TAKE e \in E
  <2>1. PICK s \in Steps, a \in ltl_aut : e.cond = conditions[s] \cap a.cond
    BY ProductEdges
  <2>2. conditions[s] \subseteq Valuation
    BY DEF Inputs
  <2> QED BY <2>1, <2>2, ProductNodes
<1> HIDE DEF E, reach
<1>5. accepting = AcceptingNodes(l)
  BY <1>2, <1>4 DEF Accepting, AcceptingNodes, Node, E
<1> HIDE DEF accepting
<1>6. useful = UsefulNodes(l)
  BY <1>2, <1>3, <1>5, ReachFacts DEF UsefulNodes
<1>7. \A j : target(j) = TargetNodes(l, j)
  BY <1>5, <1>6 DEF TargetNodes
<1> HIDE DEF useful, target
<1>8. ASSUME NEW j \in Steps, NEW v
      PROVE  v \in EdgesFrom(E, j, useful, target(j)) <=>
               \E e \in E : /\ v \in e.cond /\ e.src \in useful
                            /\ e.src[1] = j /\ e.dst \in target(j)
  BY DEF EdgesFrom
<1>9. \A j \in Steps : EdgesFrom(E, j, useful, target(j)) \in SUBSET Valuation
  BY <1>4, <1>8
<1>10. g \in [Steps -> SUBSET Valuation]
  BY <1>9 DEF False
<1>11. \A j \in Steps : \A v : v \in g[j] <=>
         <<0, q0>> \in useful /\ v \in EdgesFrom(E, j, useful, target(j))
  BY DEF False
<1> QED BY <1>1, <1>6, <1>7, <1>8, <1>10, <1>11 DEF E

\* The first and the last state of the runs over the loop.
Ends(w, l) == {<<run[l], run[K]>> : run \in Runs(w, l, K)}

(* What After promises: q itself, closed under rounds, nothing else.       *)
LEMMA AfterFacts ==
  ASSUME NEW rounds, NEW q \in Q, rounds \subseteq Q \X Q
  PROVE  /\ q \in After(rounds, q) /\ After(rounds, q) \subseteq Q
         /\ \A run \in rounds : run[1] \in After(rounds, q) => run[2] \in After(rounds, q)
         /\ \A R \in SUBSET Q :
              q \in R /\ (\A run \in rounds : run[1] \in R => run[2] \in R)
              => After(rounds, q) \subseteq R
  BY DEF After

(* Rounds go from states to states.                                        *)
LEMMA EndsTyped ==
  ASSUME NEW w, NEW l \in Steps
  PROVE  Ends(w, l) \subseteq Q \X Q
<1>1. l \in l .. K /\ K \in l .. K
  BY BoundAssumption DEF Steps
<1> QED BY <1>1 DEF Ends, Runs

(* Rounds of the loop are paths of the product.                            *)
LEMMA AfterReaches ==
  ASSUME Inputs, NEW l \in Steps, NEW w \in [Steps -> Valuation], Extends(w),
         NEW q \in Q, NEW r \in After(Ends(w, l), q)
  PROVE  r \in Q /\ <<l, r>> \in Reach(l, <<l, q>>)
<1> DEFINE R == {p \in Q : <<l, p>> \in Reach(l, <<l, q>>)}
<1>1. \A p \in Q : <<l, p>> \in Node
  BY DEF Node
<1>2. q \in R
  BY <1>1, ReachFacts
<1>3. ASSUME NEW run \in Ends(w, l), run[1] \in R
      PROVE  run[2] \in R
  <2>1. PICK round \in Runs(w, l, K) : run = <<round[l], round[K]>>
    BY DEF Ends
  <2>2. /\ l \in 0 .. K /\ K \in 0 .. K /\ l \in l .. K /\ K \in l .. K
        /\ At(l, l) = l /\ At(K, l) = l
    BY BoundAssumption DEF Steps, At
  <2>3. <<l, round[K]>> \in Reach(l, <<l, round[l]>>)
    BY <2>2, RunReaches
  <2>4. run[2] \in Q
    BY EndsTyped
  <2> QED BY <1>1, <1>3, <2>1, <2>3, <2>4, ReachFacts
<1>4. After(Ends(w, l), q) \subseteq R
  <2> HIDE DEF R
  <2>1. R \subseteq Q BY DEF R
  <2> QED BY <1>2, <1>3, <2>1, AfterFacts, EndsTyped
<1> QED BY <1>4

(* The nodes along the loop of an accepting run are in an accepting SCC,   *)
(* and everything on the run is useful.                                    *)
LEMMA RunUseful ==
  ASSUME Inputs, NEW l \in Steps, NEW w \in [Steps -> Valuation], Extends(w),
         NEW prefix \in Runs(w, 0, l), prefix[0] = q0, NEW round \in Runs(w, l, K),
         \E n \in l .. K - 1 : \E e \in Reading(w[n], round[n], round[n + 1]) : e.acc,
         round[l] \in After(Ends(w, l), round[K]),
         round[l] \in After(Ends(w, l), prefix[l])
  PROVE  /\ \A n \in 0 .. l : <<n, prefix[n]>> \in UsefulNodes(l)
         /\ \A n \in l .. K : /\ <<At(n, l), round[n]>> \in AcceptingNodes(l)
                              /\ <<At(n, l), round[n]>> \in UsefulNodes(l)
<1>1. /\ l \in Nat /\ K \in Nat /\ l < K /\ K - 1 \in Nat
      /\ 0 \in 0 .. K /\ l \in 0 .. K /\ K \in 0 .. K /\ l \in 0 .. l /\ 0 \in 0 .. l
      /\ l \in l .. K /\ K \in l .. K /\ At(l, l) = l /\ At(K, l) = l /\ At(0, l) = 0
  BY BoundAssumption DEF Steps, At
<1>2. prefix \in [0 .. l -> Q] /\ round \in [l .. K -> Q]
  BY DEF Runs
<1> DEFINE first == <<0, q0>>
           enter == <<l, prefix[l]>>
           again == <<l, round[l]>>
           back == <<l, round[K]>>
           node(n) == <<At(n, l), round[n]>>
<1>3. first \in Node /\ enter \in Node /\ again \in Node /\ back \in Node
      /\ \A n \in l .. K : node(n) \in Node
  BY <1>1, <1>2, AutomataAssumption, BoundAssumption DEF Node, Steps, At
<1>4. \A n \in 0 .. l : /\ <<n, prefix[n]>> \in Node
                        /\ <<n, prefix[n]>> \in Reach(l, first)
                        /\ enter \in Reach(l, <<n, prefix[n]>>)
  <2> TAKE n \in 0 .. l
  <2>1. n \in 0 .. l /\ l \in n .. l /\ n \in 0 .. K /\ At(n, l) = n
    BY <1>1 DEF At
  <2>2. /\ <<At(n, l), prefix[n]>> \in Reach(l, <<At(0, l), prefix[0]>>)
        /\ <<At(n, l), prefix[n]>> \in Node
    BY <1>1, <2>1, RunReaches
  <2>3. <<At(l, l), prefix[l]>> \in Reach(l, <<At(n, l), prefix[n]>>)
    BY <1>1, <2>1, RunReaches
  <2> QED BY <1>1, <2>1, <2>2, <2>3
<1>5. enter \in Reach(l, first)
  BY <1>1, <1>4
<1>6. \A n \in l .. K : node(n) \in Reach(l, again) /\ back \in Reach(l, node(n))
  <2> TAKE n \in l .. K
  <2>1. K \in n .. K
    BY <1>1
  <2>2. <<At(n, l), round[n]>> \in Reach(l, <<At(l, l), round[l]>>)
    BY <1>1, <2>1, RunReaches
  <2>3. <<At(K, l), round[K]>> \in Reach(l, <<At(n, l), round[n]>>)
    BY <1>1, <2>1, RunReaches
  <2> QED BY <1>1, <2>2, <2>3
<1>7. again \in Reach(l, back) /\ again \in Reach(l, enter)
  BY <1>1, <1>2, AfterReaches
<1>8. PICK m \in l .. K - 1 : \E a \in Reading(w[m], round[m], round[m + 1]) : a.acc
  OBVIOUS
<1>9. m \in l .. K /\ m + 1 \in l .. K
  BY <1>1
<1>10. PICK e \in Product(l) : e.src = node(m) /\ e.dst = node(m + 1) /\ e.acc
  <2>1. StepInProduct(w, round, m, l)
    BY <1>1, RunStep
  <2> QED BY <1>8, <2>1 DEF StepInProduct
<1>11. node(m) \in Reach(l, again) /\ back \in Reach(l, node(m + 1))
       /\ node(m) \in Node /\ node(m + 1) \in Node
  BY <1>3, <1>6, <1>9
<1> HIDE DEF first, enter, again, back, node
<1>12. ASSUME NEW n \in l .. K
       PROVE  node(n) \in AcceptingNodes(l) /\ node(n) \in UsefulNodes(l)
  <2>1. node(n) \in Node /\ node(n) \in Reach(l, again) /\ back \in Reach(l, node(n))
    BY <1>3, <1>6
  <2>2. again \in Reach(l, node(n))
    BY <1>3, <1>7, <2>1, ReachFacts
  <2>3. node(m) \in Reach(l, node(n))
    BY <1>3, <1>11, <2>1, <2>2, ReachFacts
  <2>4. again \in Reach(l, node(m + 1))
    BY <1>3, <1>7, <1>11, ReachFacts
  <2>5. node(n) \in Reach(l, node(m + 1))
    BY <1>3, <1>11, <2>1, <2>4, ReachFacts
  <2>6. node(n) \in AcceptingNodes(l)
    BY <1>10, <2>1, <2>3, <2>5 DEF AcceptingNodes
  <2>7. again \in Reach(l, first)
    BY <1>3, <1>5, <1>7, ReachFacts
  <2>8. node(n) \in Reach(l, first)
    BY <1>3, <2>1, <2>7, ReachFacts
  <2>9. node(n) \in Reach(l, node(n))
    BY <2>1, ReachFacts
  <2> QED BY <2>6, <2>8, <2>9 DEF UsefulNodes, first
<1>13. \A n \in 0 .. l : <<n, prefix[n]>> \in UsefulNodes(l)
  <2> TAKE n \in 0 .. l
  <2> DEFINE p == <<n, prefix[n]>>
  <2>1. p \in Node /\ p \in Reach(l, first) /\ enter \in Reach(l, p)
    BY <1>4
  <2> HIDE DEF p
  <2>2. again \in Reach(l, p)
    BY <1>3, <1>7, <2>1, ReachFacts
  <2>3. again \in AcceptingNodes(l)
    BY <1>1, <1>12 DEF again, node
  <2> QED BY <2>1, <2>2, <2>3 DEF UsefulNodes, first, p
<1> QED BY <1>12, <1>13 DEF node

(* An accepted lasso meets the constraints of its loop.                    *)
LEMMA ConstraintsNecessary ==
  ASSUME Inputs, NEW l \in Steps, NEW w \in [Steps -> Valuation], Extends(w), Accepts(w, l)
  PROVE  /\ <<0, q0>> \in UsefulNodes(l)
         /\ \A j \in Steps : w[j] \in get_edges_constraints_of_loop(l)[j]
<1>1. PICK round \in Runs(w, l, K) :
         /\ \E n \in l .. K - 1 : \E e \in Reading(w[n], round[n], round[n + 1]) : e.acc
         /\ round[l] \in After(Ends(w, l), round[K])
         /\ \E prefix \in Runs(w, 0, l) :
               prefix[0] = q0 /\ round[l] \in After(Ends(w, l), prefix[l])
  BY DEF Accepts, Ends
<1>2. PICK prefix \in Runs(w, 0, l) :
         prefix[0] = q0 /\ round[l] \in After(Ends(w, l), prefix[l])
  BY <1>1
<1>3. /\ \A n \in 0 .. l : <<n, prefix[n]>> \in UsefulNodes(l)
      /\ \A n \in l .. K : /\ <<At(n, l), round[n]>> \in AcceptingNodes(l)
                           /\ <<At(n, l), round[n]>> \in UsefulNodes(l)
  BY <1>1, <1>2, RunUseful
<1>4. l \in Nat /\ K \in Nat /\ l < K /\ l \in 0 .. K /\ K \in 0 .. K /\ 0 \in 0 .. K
  BY BoundAssumption DEF Steps
<1>5. <<0, q0>> \in UsefulNodes(l)
  BY <1>2, <1>3, <1>4
<1>6. ASSUME NEW j \in Steps
      PROVE  \E e \in Product(l) : /\ w[j] \in e.cond /\ e.src \in UsefulNodes(l)
                                   /\ e.src[1] = j /\ e.dst \in TargetNodes(l, j)
  <2>1. j \in Nat /\ j < K
    BY <1>4 DEF Steps
  <2>2. CASE j < l
    <3>1. /\ j \in 0 .. l - 1 /\ j \in 0 .. l /\ j + 1 \in 0 .. l /\ j # K - 1
          /\ At(j, l) = j /\ At(j + 1, l) = j + 1
      BY <1>4, <2>1, <2>2 DEF At
    <3>2. StepInProduct(w, prefix, j, l)
      BY <1>4, <3>1, RunStep
    <3>3. PICK e \in Product(l) :
             /\ e.src = <<At(j, l), prefix[j]>> /\ e.dst = <<At(j + 1, l), prefix[j + 1]>>
             /\ w[j] \in e.cond
      BY <3>2 DEF StepInProduct
    <3>4. e.src \in UsefulNodes(l) /\ e.dst \in UsefulNodes(l) /\ e.src[1] = j
      BY <1>3, <3>1, <3>3
    <3> QED BY <3>1, <3>3, <3>4 DEF TargetNodes
  <2>3. CASE ~ (j < l)
    <3>1. j \in l .. K - 1 /\ j \in l .. K /\ j + 1 \in l .. K /\ At(j, l) = j
      BY <1>4, <2>1, <2>3 DEF At
    <3>2. StepInProduct(w, round, j, l)
      BY <1>4, <3>1, RunStep
    <3>3. PICK e \in Product(l) :
             /\ e.src = <<At(j, l), round[j]>> /\ e.dst = <<At(j + 1, l), round[j + 1]>>
             /\ w[j] \in e.cond
      BY <3>2 DEF StepInProduct
    <3>4. /\ e.src \in UsefulNodes(l) /\ e.src[1] = j
          /\ e.dst \in UsefulNodes(l) /\ e.dst \in AcceptingNodes(l)
      BY <1>3, <3>1, <3>3
    <3>5. j = K - 1 => e.dst[1] = l
      BY <1>4, <3>1, <3>3 DEF At
    <3> QED BY <3>3, <3>4, <3>5 DEF TargetNodes
  <2> QED BY <2>2, <2>3
<1> QED BY <1>5, <1>6, ConstraintsForm

\* A run from q at position 'from' to r at position 'to'.
Leads(w, from, q, to, r) == \E run \in Runs(w, from, to) : run[from] = q /\ run[to] = r

\* Two runs with a step in between.
Joined(run1, m, run2, from, to) == [k \in from .. to |-> IF k <= m THEN run1[k] ELSE run2[k]]

(* Runs are joined by an edge.                                             *)
LEMMA RunJoin ==
  ASSUME NEW w, NEW from \in Nat, NEW m \in Nat, NEW to \in Nat, from <= m, m < to,
         NEW run1 \in Runs(w, from, m), NEW run2 \in Runs(w, m + 1, to),
         Reading(w[m], run1[m], run2[m + 1]) # {}
  PROVE  /\ Joined(run1, m, run2, from, to) \in Runs(w, from, to)
         /\ Joined(run1, m, run2, from, to)[from] = run1[from]
         /\ Joined(run1, m, run2, from, to)[m] = run1[m]
         /\ Joined(run1, m, run2, from, to)[m + 1] = run2[m + 1]
         /\ Joined(run1, m, run2, from, to)[to] = run2[to]
<1> DEFINE run == Joined(run1, m, run2, from, to)
<1>1. /\ run1 \in [from .. m -> Q] /\ run2 \in [m + 1 .. to -> Q]
      /\ \A n \in from .. m - 1 : Reading(w[n], run1[n], run1[n + 1]) # {}
      /\ \A n \in m + 1 .. to - 1 : Reading(w[n], run2[n], run2[n + 1]) # {}
  BY DEF Runs
<1>2. /\ \A k \in from .. to : run[k] = IF k <= m THEN run1[k] ELSE run2[k]
      /\ run = [k \in from .. to |-> run[k]]
  BY DEF Joined
<1> HIDE DEF run
<1>3. run \in [from .. to -> Q]
  BY <1>1, <1>2
<1>4. ASSUME NEW n \in from .. to - 1
      PROVE  Reading(w[n], run[n], run[n + 1]) # {}
  <2>1. n \in from .. to /\ n + 1 \in from .. to
    OBVIOUS
  <2>2. CASE n < m
    <3>1. n \in from .. m - 1 /\ run[n] = run1[n] /\ run[n + 1] = run1[n + 1]
      BY <1>2, <2>1, <2>2
    <3> QED BY <1>1, <3>1
  <2>3. CASE n = m
    <3>1. run[n] = run1[m] /\ run[n + 1] = run2[m + 1]
      BY <1>2, <2>1, <2>3
    <3> QED BY <2>3, <3>1
  <2>4. CASE n > m
    <3>1. n \in m + 1 .. to - 1 /\ run[n] = run2[n] /\ run[n + 1] = run2[n + 1]
      BY <1>2, <2>1, <2>4
    <3> QED BY <1>1, <3>1
  <2> QED BY <2>2, <2>3, <2>4
<1>5. run \in Runs(w, from, to)
  BY <1>3, <1>4 DEF Runs
<1>6. run[from] = run1[from] /\ run[m] = run1[m] /\ run[m + 1] = run2[m + 1] /\ run[to] = run2[to]
  BY <1>2
<1> QED BY <1>5, <1>6 DEF run

(* The empty run.                                                          *)
LEMMA LeadsRefl ==
  ASSUME NEW w, NEW n \in Nat, NEW q \in Q
  PROVE  Leads(w, n, q, n, q)
<1> DEFINE run == [k \in n .. n |-> q]
<1>1. run \in Runs(w, n, n) /\ run[n] = q
  BY DEF Runs
<1> QED BY <1>1 DEF Leads

(* A run can be continued by an edge.                                      *)
LEMMA LeadsStep ==
  ASSUME NEW w, NEW from \in Nat, NEW n \in Nat, from <= n, NEW q, NEW r, NEW t \in Q,
         Leads(w, from, q, n, r), Reading(w[n], r, t) # {}
  PROVE  Leads(w, from, q, n + 1, t)
<1>1. PICK run1 \in Runs(w, from, n) : run1[from] = q /\ run1[n] = r
  BY DEF Leads
<1> DEFINE run2 == [k \in n + 1 .. n + 1 |-> t]
<1>2. run2 \in Runs(w, n + 1, n + 1) /\ run2[n + 1] = t
  BY DEF Runs
<1> HIDE DEF run2
<1>3. n + 1 \in Nat /\ n < n + 1
  OBVIOUS
<1> DEFINE run == Joined(run1, n, run2, from, n + 1)
<1>4. run \in Runs(w, from, n + 1) /\ run[from] = q /\ run[n + 1] = t
  BY <1>1, <1>2, <1>3, RunJoin
<1> QED BY <1>4 DEF Leads

\* A run from q to r that takes the step from p at position m to p1.
LeadsThrough(w, from, q, m, p, p1, to, r) ==
    \E run \in Runs(w, from, to) :
       run[from] = q /\ run[m] = p /\ run[m + 1] = p1 /\ run[to] = r

(* Two runs and an edge between them make a run through that edge.         *)
LEMMA LeadsJoin ==
  ASSUME NEW w, NEW from \in Nat, NEW m \in Nat, NEW to \in Nat, from <= m, m < to,
         NEW q, NEW p, NEW p1, NEW r,
         Leads(w, from, q, m, p), Leads(w, m + 1, p1, to, r), Reading(w[m], p, p1) # {}
  PROVE  LeadsThrough(w, from, q, m, p, p1, to, r)
<1>1. PICK run1 \in Runs(w, from, m) : run1[from] = q /\ run1[m] = p
  BY DEF Leads
<1>2. PICK run2 \in Runs(w, m + 1, to) : run2[m + 1] = p1 /\ run2[to] = r
  BY DEF Leads
<1> DEFINE run == Joined(run1, m, run2, from, to)
<1>3. Reading(w[m], run1[m], run2[m + 1]) # {}
  BY <1>1, <1>2
<1>4. /\ run \in Runs(w, from, to) /\ run[from] = run1[from] /\ run[m] = run1[m]
      /\ run[m + 1] = run2[m + 1] /\ run[to] = run2[to]
  BY <1>3, RunJoin
<1> QED BY <1>1, <1>2, <1>4 DEF LeadsThrough

\* From q at the start of the loop, after some rounds, to r at position n.
InLoop(w, l, q, n, r) == \E x \in After(Ends(w, l), q) : Leads(w, l, x, n, r)

(* No round at all, and no step of the loop.                               *)
LEMMA InLoopStart ==
  ASSUME NEW w, NEW l \in Steps, NEW q \in Q
  PROVE  InLoop(w, l, q, l, q)
<1>1. q \in After(Ends(w, l), q)
  BY AfterFacts, EndsTyped
<1>2. l \in Nat
  BY BoundAssumption DEF Steps
<1>3. Leads(w, l, q, l, q)
  BY <1>2, LeadsRefl
<1> QED BY <1>1, <1>3 DEF InLoop

(* A further step of the loop, the last one starting a new round.          *)
LEMMA InLoopStep ==
  ASSUME NEW w, NEW l \in Steps, NEW q \in Q, NEW n \in l .. K - 1, NEW r, NEW t \in Q,
         InLoop(w, l, q, n, r), Reading(w[n], r, t) # {}
  PROVE  InLoop(w, l, q, Follow(n, l), t)
<1>1. PICK x \in After(Ends(w, l), q) : Leads(w, l, x, n, r)
  BY DEF InLoop
<1>2. l \in Nat /\ n \in Nat /\ l <= n /\ n < K /\ K \in Nat
  BY BoundAssumption DEF Steps
<1>3. Leads(w, l, x, n + 1, t)
  BY <1>1, <1>2, LeadsStep
<1>4. CASE n # K - 1
  BY <1>1, <1>3, <1>4 DEF InLoop, Follow
<1>5. CASE n = K - 1
  <2>1. Leads(w, l, x, K, t) /\ Follow(n, l) = l
    BY <1>2, <1>3, <1>5 DEF Follow
  <2>2. PICK run \in Runs(w, l, K) : run[l] = x /\ run[K] = t
    BY <2>1 DEF Leads
  <2>3. <<x, t>> \in Ends(w, l)
    BY <2>2 DEF Ends
  <2>4. t \in After(Ends(w, l), q)
    <3>1. \A round \in Ends(w, l) :
             round[1] \in After(Ends(w, l), q) => round[2] \in After(Ends(w, l), q)
      BY AfterFacts, EndsTyped
    <3> QED BY <3>1, <2>3
  <2>5. Leads(w, l, t, l, t)
    BY <1>2, LeadsRefl
  <2> QED BY <2>1, <2>4, <2>5 DEF InLoop
<1> QED BY <1>4, <1>5

\* The trail assigns every proposition at every step as w does.
Total(w) == \A s \in Steps : conditions[s] = {w[s]}

\* Edge e of the product goes from q at step n to r and reads w there.
Reads(w, e, l, n, q, r) ==
    /\ e.src = <<n, q>> /\ e.dst = <<Follow(n, l), r>>
    /\ Reading(w[n], q, r) # {}
    /\ e.acc => \E a \in Reading(w[n], q, r) : a.acc

(* When the trail leaves the word w only, the edges of the product read w. *)
LEMMA EdgeReads ==
  ASSUME Inputs, NEW l \in Steps, NEW w, Total(w), NEW e \in Product(l)
  PROVE  \E n \in Steps, q, r \in Q : Reads(w, e, l, n, q, r)
<1>1. PICK n \in Steps, a \in ltl_aut :
         /\ e.src = <<n, a.src>> /\ e.dst = <<Follow(n, l), a.dst>>
         /\ e.cond = conditions[n] \cap a.cond /\ e.cond # {}
         /\ e.acc = a.acc
  BY ProductEdges
<1>2. w[n] \in a.cond
  BY <1>1 DEF Total
<1>3. a.src \in Q /\ a.dst \in Q
  BY DEF Inputs, Edge
<1>4. a \in Reading(w[n], a.src, a.dst)
  BY <1>2 DEF Reading
<1>5. Reads(w, e, l, n, a.src, a.dst)
  BY <1>1, <1>4 DEF Reads
<1> QED BY <1>3, <1>5

(* Where the product can be after reading w from the initial state.        *)
LEMMA ReachedByRuns ==
  ASSUME Inputs, NEW l \in Steps, NEW w, Total(w), NEW m \in Steps, NEW p \in Q,
         <<m, p>> \in Reach(l, <<0, q0>>), l <= m
  PROVE  \E q \in Q : Leads(w, 0, q0, l, q) /\ InLoop(w, l, q, m, p)
<1> DEFINE Before(n, r) == n <= l /\ Leads(w, 0, q0, n, r)
           Within(n, r) == n >= l /\ \E q \in Q : Leads(w, 0, q0, l, q) /\ InLoop(w, l, q, n, r)
           R == {s \in Node : Before(s[1], s[2]) \/ Within(s[1], s[2])}
<1>1. l \in Nat /\ K \in Nat /\ l < K /\ 0 \in Nat /\ 0 \in Steps /\ q0 \in Q /\ 0 <= l
  BY BoundAssumption, AutomataAssumption DEF Steps
<1>2. <<0, q0>> \in R
  <2>1. Leads(w, 0, q0, 0, q0)
    BY <1>1, LeadsRefl
  <2> QED BY <1>1, <2>1 DEF Node
<1>3. ASSUME NEW r \in Q, Before(l, r)
      PROVE  Within(l, r)
  BY <1>1, <1>3, InLoopStart
<1>4. ASSUME NEW e \in Product(l), e.src \in R
      PROVE  e.dst \in R
  <2>1. PICK n \in Steps, q \in Q, r \in Q : Reads(w, e, l, n, q, r)
    BY EdgeReads
  <2>2. /\ e.src = <<n, q>> /\ e.dst = <<Follow(n, l), r>> /\ Reading(w[n], q, r) # {}
        /\ Follow(n, l) \in Steps /\ n \in Nat /\ n < K
    BY <2>1, <1>1 DEF Reads, Follow, Steps
  <2>3. <<Follow(n, l), r>> \in Node
    BY <2>2 DEF Node
  <2>4. Before(n, q) \/ Within(n, q)
    BY <1>4, <2>2
  <2>5. CASE n < l
    <3>1. Leads(w, 0, q0, n, q) /\ Follow(n, l) = n + 1 /\ n + 1 <= l
      BY <2>2, <2>4, <2>5, <1>1 DEF Follow
    <3>2. Leads(w, 0, q0, n + 1, r)
      <4>1. 0 \in Nat /\ 0 <= n /\ n \in Nat
        BY <2>2
      <4> QED BY ONLY <2>2, <3>1, <4>1, LeadsStep, r \in Q
    <3> QED BY <2>2, <2>3, <3>1, <3>2
  <2>6. CASE n >= l
    <3>1. Within(n, q)
      <4>1. Before(n, q) => n = l
        BY <1>1, <2>2, <2>6
      <4> QED BY <1>3, <2>4, <4>1
    <3>2. PICK q1 \in Q : Leads(w, 0, q0, l, q1) /\ InLoop(w, l, q1, n, q)
      BY <3>1
    <3>3. n \in l .. K - 1
      BY <1>1, <2>2, <2>6
    <3>4. InLoop(w, l, q1, Follow(n, l), r)
      BY <2>2, <3>2, <3>3, InLoopStep
    <3>5. Follow(n, l) >= l
      BY <1>1, <2>2, <2>6 DEF Follow
    <3> QED BY <2>2, <2>3, <3>2, <3>4, <3>5
  <2> QED BY <1>1, <2>2, <2>5, <2>6
<1>5. <<m, p>> \in R
  <2> HIDE DEF R
  <2>1. R \subseteq Node /\ <<0, q0>> \in Node
    BY <1>1 DEF R, Node
  <2> QED BY <1>2, <1>4, <2>1, ReachFacts
<1>6. Before(m, p) \/ Within(m, p)
  BY <1>5
<1>7. Before(m, p) => m = l
  BY <1>1 DEF Steps
<1> QED BY <1>3, <1>6, <1>7

(* A path of the product from an edge back to its source reads the rest of *)
(* the loop, some rounds, and the loop up to that edge.                    *)
LEMMA BackByRuns ==
  ASSUME Inputs, NEW l \in Steps, NEW w, Total(w), NEW e0 \in Product(l),
         NEW m \in Steps, NEW p \in Q, NEW p1 \in Q, Reads(w, e0, l, m, p, p1),
         e0.src \in Reach(l, e0.dst)
  PROVE  /\ l <= m
         /\ \E y \in Q : Leads(w, m + 1, p1, K, y) /\ InLoop(w, l, y, m, p)
<1>1. /\ l \in Nat /\ K \in Nat /\ l < K /\ m \in Nat /\ m < K /\ m + 1 \in Nat /\ m + 1 <= K
      /\ e0.src = <<m, p>> /\ e0.dst = <<Follow(m, l), p1>> /\ e0.dst \in Node
  BY BoundAssumption, ProductNodes DEF Steps, Reads
<1>2. l <= m
  <2> SUFFICES ASSUME m < l PROVE FALSE
    BY <1>1
  <2> DEFINE R == {s \in Node : s[1] > m}
  <2>1. e0.dst \in R
    BY <1>1 DEF Follow
  <2>2. ASSUME NEW e \in Product(l), e.src \in R
        PROVE  e.dst \in R
    <3>1. PICK n \in Steps, q \in Q, r \in Q : Reads(w, e, l, n, q, r)
      BY EdgeReads
    <3>2. e.src = <<n, q>> /\ e.dst = <<Follow(n, l), r>> /\ n \in Nat
      BY <3>1, <1>1 DEF Reads, Steps
    <3>3. n > m
      BY <2>2, <3>2
    <3>4. Follow(n, l) > m
      BY <1>1, <3>2, <3>3 DEF Follow
    <3> QED BY <3>2, <3>4, ProductNodes
  <2>3. e0.src \in R
    <3> HIDE DEF R
    <3>1. R \subseteq Node
      BY DEF R
    <3> QED BY <1>1, <2>1, <2>2, <3>1, ReachFacts
  <2> QED BY <1>1, <2>3
<1> DEFINE Rest(n, r) == n > m /\ Leads(w, m + 1, p1, n, r)
           Within(n, r) == n >= l /\ \E y \in Q : Leads(w, m + 1, p1, K, y) /\ InLoop(w, l, y, n, r)
           R == {s \in Node : Rest(s[1], s[2]) \/ Within(s[1], s[2])}
<1>3. ASSUME NEW r \in Q, Leads(w, m + 1, p1, K, r)
      PROVE  Within(l, r)
  BY <1>1, <1>3, InLoopStart
<1>4. e0.dst \in R
  <2>1. Leads(w, m + 1, p1, m + 1, p1)
    BY <1>1, LeadsRefl
  <2>2. CASE m # K - 1
    BY <1>1, <2>1, <2>2 DEF Follow
  <2>3. CASE m = K - 1
    <3>1. Leads(w, m + 1, p1, K, p1) /\ Follow(m, l) = l
      BY <1>1, <2>1, <2>3 DEF Follow
    <3>2. Within(l, p1)
      BY <1>3, <3>1
    <3> QED BY <1>1, <3>1, <3>2
  <2> QED BY <2>2, <2>3
<1>5. ASSUME NEW e \in Product(l), e.src \in R
      PROVE  e.dst \in R
  <2>1. PICK n \in Steps, q \in Q, r \in Q : Reads(w, e, l, n, q, r)
    BY EdgeReads
  <2>2. /\ e.src = <<n, q>> /\ e.dst = <<Follow(n, l), r>> /\ Reading(w[n], q, r) # {}
        /\ n \in Nat /\ n < K /\ e.dst \in Node
    BY <2>1, <1>1, ProductNodes DEF Reads, Steps
  <2>3. Rest(n, q) \/ Within(n, q)
    BY SMTT(30), <1>5, <2>2
  <2>4. CASE Rest(n, q)
    <3>1. m + 1 <= n
      BY SMTT(30), <1>1, <2>2, <2>4
    <3>2. Leads(w, m + 1, p1, n + 1, r)
      BY ONLY <1>1, <2>2, <2>4, <3>1, LeadsStep, r \in Q
    <3>3. CASE n # K - 1
      <4>1. Follow(n, l) = n + 1 /\ n + 1 > m
        BY <1>1, <2>2, <3>1, <3>3 DEF Follow
      <4> QED BY <2>2, <3>2, <4>1
    <3>4. CASE n = K - 1
      <4>1. Follow(n, l) = l /\ n + 1 = K
        BY <1>1, <3>4 DEF Follow
      <4>2. Within(l, r)
        BY <1>3, <3>2, <4>1
      <4> QED BY <2>2, <4>1, <4>2
    <3> QED BY <3>3, <3>4
  <2>5. CASE Within(n, q)
    <3>1. PICK y \in Q : Leads(w, m + 1, p1, K, y) /\ InLoop(w, l, y, n, q)
      BY <2>5
    <3>2. n \in l .. K - 1
      BY <1>1, <2>2, <2>5
    <3>3. InLoop(w, l, y, Follow(n, l), r)
      BY <2>2, <3>1, <3>2, InLoopStep
    <3>4. Follow(n, l) >= l
      BY <1>1, <2>2, <2>5 DEF Follow
    <3> QED BY <2>2, <3>1, <3>3, <3>4
  <2> QED BY <2>3, <2>4, <2>5
<1>6. e0.src \in R
  <2> HIDE DEF R
  <2>1. R \subseteq Node
    BY DEF R
  <2> QED BY <1>1, <1>4, <1>5, <2>1, ReachFacts
<1>7. Rest(m, p) \/ Within(m, p)
  BY <1>1, <1>6
<1> QED BY <1>1, <1>2, <1>7

(* If the trail leaves one word and its product with the automaton is not  *)
(* empty, the automaton accepts the lasso.                                 *)
LEMMA NonEmptyAccepts ==
  ASSUME Inputs, NEW l \in Steps, NEW w, Total(w), <<0, q0>> \in UsefulNodes(l)
  PROVE  Accepts(w, l)
<1>1. PICK s \in Node, e \in Product(l) :
         /\ s \in Reach(l, <<0, q0>>) /\ e.acc /\ e.src \in Reach(l, s) /\ s \in Reach(l, e.dst)
  BY DEF UsefulNodes, AcceptingNodes
<1>2. <<0, q0>> \in Node /\ e.src \in Node /\ e.dst \in Node
  BY BoundAssumption, AutomataAssumption, ProductNodes DEF Node, Steps
<1>3. e.src \in Reach(l, <<0, q0>>) /\ e.src \in Reach(l, e.dst)
  BY <1>1, <1>2, ReachFacts
<1>4. PICK m \in Steps, p \in Q, p1 \in Q : Reads(w, e, l, m, p, p1)
  BY EdgeReads
<1>5. l <= m /\ \E y \in Q : Leads(w, m + 1, p1, K, y) /\ InLoop(w, l, y, m, p)
  BY <1>3, <1>4, BackByRuns
<1>6. PICK y \in Q : Leads(w, m + 1, p1, K, y) /\ InLoop(w, l, y, m, p)
  BY <1>5
<1>7. <<m, p>> \in Reach(l, <<0, q0>>)
  BY <1>3, <1>4 DEF Reads
<1>8. PICK q \in Q : Leads(w, 0, q0, l, q) /\ InLoop(w, l, q, m, p)
  BY <1>5, <1>7, ReachedByRuns
<1>9. PICK z \in After(Ends(w, l), y) : Leads(w, l, z, m, p)
  BY <1>6 DEF InLoop
<1>10. PICK x \in After(Ends(w, l), q) : Leads(w, l, x, m, p)
  BY <1>8 DEF InLoop
<1>11. /\ l \in Nat /\ m \in Nat /\ K \in Nat /\ m < K /\ m \in l .. K - 1
       /\ Reading(w[m], p, p1) # {} /\ \E a \in Reading(w[m], p, p1) : a.acc
  BY <1>1, <1>4, <1>5, BoundAssumption DEF Steps, Reads
<1>12. LeadsThrough(w, l, z, m, p, p1, K, y) /\ LeadsThrough(w, l, x, m, p, p1, K, y)
  BY ONLY <1>5, <1>6, <1>9, <1>10, <1>11, LeadsJoin
<1>13. PICK round \in Runs(w, l, K) :
          round[l] = z /\ round[m] = p /\ round[m + 1] = p1 /\ round[K] = y
  BY <1>12 DEF LeadsThrough
<1>14. PICK other \in Runs(w, l, K) : other[l] = x /\ other[K] = y
  BY <1>12 DEF LeadsThrough
<1>17. <<x, y>> \in Ends(w, l)
  BY <1>14 DEF Ends
<1>18. y \in After(Ends(w, l), q)
  <2>1. \A run \in Ends(w, l) :
           run[1] \in After(Ends(w, l), q) => run[2] \in After(Ends(w, l), q)
    BY AfterFacts, EndsTyped
  <2> QED BY <1>10, <1>17, <2>1
<1>19. z \in After(Ends(w, l), q)
  <2>1. After(Ends(w, l), y) \subseteq After(Ends(w, l), q)
    BY <1>18, AfterFacts, EndsTyped
  <2> QED BY <1>9, <2>1
<1>20. PICK prefix \in Runs(w, 0, l) : prefix[0] = q0 /\ prefix[l] = q
  BY <1>8 DEF Leads
<1>21. /\ \E n \in l .. K - 1 : \E a \in Reading(w[n], round[n], round[n + 1]) : a.acc
       /\ round[l] \in After(Ends(w, l), round[K])
       /\ \E pre \in Runs(w, 0, l) : pre[0] = q0 /\ round[l] \in After(Ends(w, l), pre[l])
  BY <1>9, <1>11, <1>13, <1>19, <1>20
<1> QED BY <1>13, <1>21 DEF Accepts, Ends

-----------------------------------------------------------------------------
\* The clauses for all loops, those of loop l, and those of the loops below n.
CommonClauses ==
    UNION {add_edge_loop_clauses(formula[j], j, -1) : j \in {k \in Steps : formula[k] # False}}
ClausesOf(l) ==
    UNION {add_edge_loop_clauses(edges[l][j], j, l) : j \in {k \in Steps : formula[k] = False}}
ClausesBelow(n) == UNION {ClausesOf(l) : l \in {m \in loops : m < n}}

\* How the constraints found so far and their combination are related.
BmcInv ==
    /\ Inputs
    /\ i \in 0 .. K
    /\ pc \in {"constraints", "retry"}
    /\ DOMAIN edges = IF pc = "constraints" THEN {l \in loops : l < i} ELSE loops
    /\ \A l \in DOMAIN edges : edges[l] = get_edges_constraints_of_loop(l)
    /\ formula \in [Steps -> SUBSET Valuation]
    /\ \A j \in Steps, l \in DOMAIN edges : edges[l][j] = False => formula[j] = False
    /\ \A j \in Steps, l \in DOMAIN edges : formula[j] # False => edges[l][j] \in {formula[j], True}
    /\ \A j \in Steps : formula[j] \in {True, False} \/ \E l \in DOMAIN edges : edges[l][j] = formula[j]
    /\ clauses = IF pc = "constraints" THEN {} ELSE CommonClauses \cup ClausesBelow(i)

(* True and false are told apart, with no propositions too.                *)
LEMMA TrueNotFalse == True # False
  BY DEF True, False, Valuation

(* 'evaluate_assignment' starts with nothing found.                        *)
LEMMA InitBmc == Init => BmcInv
<1> SUFFICES ASSUME Init PROVE BmcInv
  OBVIOUS
<1>1. conditions \in [Steps -> SUBSET Valuation]
  <2>1. Cubes \subseteq SUBSET Valuation
    BY DEF Cubes
  <2> QED BY <2>1 DEF Init
<1>2. Inputs
  BY <1>1, AutomataAssumption DEF Init, Inputs
<1>3. DOMAIN edges = {} /\ \A l \in loops : ~(l < i)
  BY BoundAssumption DEF Init, Steps
<1>4. i \in 0 .. K
  BY BoundAssumption DEF Init
<1> QED BY <1>2, <1>3, <1>4 DEF Init, BmcInv, True

(* The constraints of a loop depend on the automaton and the trail alone.  *)
LEMMA ConstraintsFrame ==
  ASSUME UNCHANGED <<ltl_aut, conditions>>, NEW l
  PROVE  get_edges_constraints_of_loop(l)' = get_edges_constraints_of_loop(l)
<1>1. \A s, a : Joint(s, a, l)' = Joint(s, a, l)
  BY DEF Joint
<1>2. Product(l)' = Product(l)
  <2>1. {Joint(p[1], p[2], l) : p \in Steps \X ltl_aut}' =
           {Joint(p[1], p[2], l) : p \in Steps \X ltl_aut}
    BY <1>1
  <2> QED BY <2>1 DEF Product
<1>3. Closed(Product(l))' = Closed(Product(l))
  BY <1>2 DEF Closed
<1> DEFINE reach == [s \in Steps \X Q |-> ReachableFrom(Closed(Product(l)), s)]
<1>4. reach' = reach
  BY <1>3 DEF ReachableFrom
<1>5. Accepting(Product(l), reach)' = Accepting(Product(l), reach)
  BY <1>2, <1>4 DEF Accepting
<1> DEFINE E == Product(l)
           accepting == Accepting(E, reach)
           useful == {s \in reach[<<0, q0>>] : reach[s] \cap accepting # {}}
           constraint ==
             IF <<0, q0>> \notin useful THEN [j \in Steps |-> False]
             ELSE [j \in Steps |-> EdgesFrom(E, j, useful,
                      IF j = K - 1 THEN {s \in accepting : s[1] = l} ELSE useful)]
<1>6. get_edges_constraints_of_loop(l) = constraint
  BY DEF get_edges_constraints_of_loop
<1>7. E' = E /\ accepting' = accepting
  BY <1>2, <1>5
<1> HIDE DEF E, accepting, reach
<1>8. useful' = useful
  BY <1>4, <1>7
<1> HIDE DEF useful
<1>9. constraint' = constraint
  BY <1>7, <1>8 DEF EdgesFrom
<1>10. get_edges_constraints_of_loop(l)' = constraint'
  BY DEF get_edges_constraints_of_loop, E, accepting, useful, reach
<1> QED BY <1>6, <1>9, <1>10

(* The clauses depend on the constraints and their combination alone.      *)
LEMMA ClausesFrame ==
  ASSUME UNCHANGED <<loops, edges, formula>>
  PROVE  /\ CommonClauses' = CommonClauses
         /\ ClausesBelow(i)' = ClausesBelow(i')
<1>1. {k \in Steps : formula[k] # False}' = {k \in Steps : formula[k] # False}
      /\ {k \in Steps : formula[k] = False}' = {k \in Steps : formula[k] = False}
  OBVIOUS
<1>2. CommonClauses' = CommonClauses
  BY <1>1 DEF CommonClauses
<1>3. \A l : ClausesOf(l)' = ClausesOf(l)
  BY <1>1 DEF ClausesOf
<1>4. ClausesBelow(i)' = ClausesBelow(i')
  BY <1>3 DEF ClausesBelow
<1> QED BY <1>2, <1>4

(* Every step of 'evaluate_assignment' keeps the relation.                 *)
LEMMA StepBmc == BmcInv /\ [Next]_vars => BmcInv'
<1> SUFFICES ASSUME BmcInv, [Next]_vars PROVE BmcInv'
  OBVIOUS
<1> USE DEF BmcInv
<1>1. CASE ConstrainLoop
  <2> USE <1>1 DEF ConstrainLoop
  <2>1. /\ Inputs' /\ i' = i + 1 /\ i' \in 0 .. K /\ i \in Steps /\ pc = "constraints" /\ pc' = pc
        /\ i < K /\ clauses' = {} /\ loops' = loops
    BY BoundAssumption DEF Inputs, Steps
  <2>2. \A l : get_edges_constraints_of_loop(l)' = get_edges_constraints_of_loop(l)
    BY ConstraintsFrame
  <2>3. CASE i \notin loops
    <3>1. {l \in loops : l < i'} = {l \in loops : l < i}
      BY <2>1, <2>3 DEF Inputs, Steps
    <3>2. edges' = edges /\ formula' = formula
      BY <2>3
    <3>3. DOMAIN edges' = {l \in loops' : l < i'}
      BY <2>1, <3>1, <3>2
    <3> QED BY <2>1, <2>2, <3>2, <3>3
  <2>4. CASE i \in loops
    <3> DEFINE c == get_edges_constraints_of_loop(i)
    <3>1. /\ edges' = [l \in DOMAIN edges \cup {i} |-> IF l = i THEN c ELSE edges[l]]
          /\ formula' = [j \in Steps |-> Combine(formula[j], c[j])]
      BY <2>4
    <3>2. c \in [Steps -> SUBSET Valuation]
      BY <2>1, ConstraintsForm
    <3> HIDE DEF c
    <3>3. DOMAIN edges' = {l \in loops' : l < i'}
      <4>1. DOMAIN edges \cup {i} = {l \in loops : l < i'}
        BY <2>1, <2>4 DEF Inputs, Steps
      <4> QED BY <2>1, <3>1, <4>1
    <3>4. \A l \in DOMAIN edges' : edges'[l] = get_edges_constraints_of_loop(l)'
      BY <2>2, <3>1 DEF c
    <3>5. formula' \in [Steps -> SUBSET Valuation]
      BY <3>1, <3>2 DEF Combine, False
    <3>6. ASSUME NEW j \in Steps, NEW l \in DOMAIN edges'
          PROVE  /\ edges'[l][j] = False => formula'[j] = False
                 /\ formula'[j] # False => edges'[l][j] \in {formula'[j], True}
      <4>1. formula'[j] = Combine(formula[j], c[j])
        BY <3>1
      <4>2. CASE l = i
        <5>1. edges'[l] = c
          BY <3>1, <4>2
        <5> QED BY <4>1, <5>1 DEF Combine
      <4>3. CASE l # i
        <5>1. edges'[l] = edges[l] /\ l \in DOMAIN edges
          BY <3>1, <4>3
        <5> QED BY <4>1, <5>1, TrueNotFalse DEF Combine
      <4> QED BY <4>2, <4>3
    <3>7. ASSUME NEW j \in Steps
          PROVE  \/ formula'[j] \in {True, False}
                 \/ \E l \in DOMAIN edges' : edges'[l][j] = formula'[j]
      <4>1. formula'[j] = Combine(formula[j], c[j])
        BY <3>1
      <4>2. i \in DOMAIN edges' /\ edges'[i][j] = c[j]
        BY <3>1
      <4>3. i \notin DOMAIN edges
        BY <2>1 DEF Inputs, Steps
      <4>4. \A l \in DOMAIN edges : l \in DOMAIN edges' /\ edges'[l][j] = edges[l][j]
        BY <3>1, <4>3
      <4> QED BY <4>1, <4>2, <4>4 DEF Combine
    <3> QED BY <2>1, <3>3, <3>4, <3>5, <3>6, <3>7
  <2> QED BY <2>3, <2>4
<1>2. CASE AddCommon
  <2> USE <1>2 DEF AddCommon
  <2>1. UNCHANGED <<ltl_aut, conditions, loops, edges, formula>> /\ pc = "constraints"
        /\ pc' = "retry" /\ i = K /\ i' = 0
    OBVIOUS
  <2>2. Inputs' /\ i' \in 0 .. K
    BY SMTT(30), <2>1, BoundAssumption DEF Inputs
  <2>3. DOMAIN edges' = loops'
    <3>1. \A l \in loops : l < i
      BY <2>1, BoundAssumption DEF Inputs, Steps
    <3> QED BY <2>1, <3>1
  <2>4. \A l : get_edges_constraints_of_loop(l)' = get_edges_constraints_of_loop(l)
    BY <2>1, ConstraintsFrame
  <2>5. clauses' = CommonClauses' \cup ClausesBelow(i)'
    <3>1. \A m \in loops : ~(m < 0)
      BY SMTT(30), BoundAssumption DEF Inputs, Steps
    <3>2. ClausesBelow(0) = {}
      BY <3>1 DEF ClausesBelow
    <3>3. CommonClauses' = CommonClauses /\ ClausesBelow(i)' = ClausesBelow(0)
      BY <2>1, ClausesFrame
    <3>4. clauses' = CommonClauses
      BY DEF CommonClauses
    <3> QED BY <3>2, <3>3, <3>4
  <2> QED BY <2>1, <2>2, <2>3, <2>4, <2>5
<1>3. CASE AddOfLoop
  <2> USE <1>3 DEF AddOfLoop
  <2>1. UNCHANGED <<ltl_aut, conditions, loops, edges, formula, pc>> /\ pc = "retry"
        /\ i' = i + 1 /\ i \in Steps
    BY SMTT(30), BoundAssumption DEF Steps
  <2>2. Inputs' /\ i' \in 0 .. K
    BY SMTT(30), <2>1, BoundAssumption DEF Inputs, Steps
  <2>3. \A l : get_edges_constraints_of_loop(l)' = get_edges_constraints_of_loop(l)
    BY <2>1, ConstraintsFrame
  <2>4. clauses' = CommonClauses' \cup ClausesBelow(i)'
    <3>1. CommonClauses' = CommonClauses /\ ClausesBelow(i)' = ClausesBelow(i + 1)
      BY <2>1, ClausesFrame
    <3>2. ClausesBelow(i + 1) =
             ClausesBelow(i) \cup (IF i \in loops THEN ClausesOf(i) ELSE {})
      <4>1. \A m \in loops : m < i + 1 <=> m < i \/ m = i
        BY <2>1 DEF Inputs, Steps
      <4> QED BY <4>1 DEF ClausesBelow
    <3>3. clauses' = clauses \cup (IF i \in loops THEN ClausesOf(i) ELSE {})
      BY DEF ClausesOf
    <3>4. clauses = CommonClauses \cup ClausesBelow(i)
      BY <2>1
    <3> QED BY ONLY <3>1, <3>2, <3>3, <3>4
  <2> QED BY <2>1, <2>2, <2>3, <2>4
<1>4. CASE UNCHANGED vars
  <2>1. \A l : get_edges_constraints_of_loop(l)' = get_edges_constraints_of_loop(l)
    BY <1>4, ConstraintsFrame DEF vars
  <2>2. CommonClauses' = CommonClauses /\ ClausesBelow(i)' = ClausesBelow(i)
    BY <1>4, ClausesFrame DEF vars
  <2> QED BY <1>4, <2>1, <2>2 DEF vars, Inputs
<1> QED BY <1>1, <1>2, <1>3, <1>4 DEF Next, Done

(* The inductive invariant holds throughout 'evaluate_assignment'.         *)
THEOREM Invariance == Spec => []BmcInv
  BY InitBmc, StepBmc, PTL DEF Spec

(* Once all clauses are added, a lasso is excluded by the combined         *)
(* constraint of a step at which it is not false, or by the constraint of  *)
(* its own loop.                                                           *)
LEMMA ExcludedForm ==
  ASSUME BmcInv, Evaluated, NEW w \in [Steps -> Valuation], NEW l \in loops
  PROVE  Excluded(w, l) <=>
           \E j \in Steps : w[j] \notin IF formula[j] # False THEN formula[j] ELSE edges[l][j]
<1>1. clauses = CommonClauses \cup ClausesBelow(K)
  BY DEF BmcInv, Evaluated
<1>2. l \in Steps /\ \A m \in loops : m < K /\ m # -1
  BY BoundAssumption DEF BmcInv, Inputs, Steps
<1>3. \A f, j, m, c : c \in add_edge_loop_clauses(f, j, m) <=>
         \E v \in Valuation \ f : c = [step |-> j, cube |-> {v}, loop |-> m]
  BY DEF add_edge_loop_clauses, minato_isop, True
<1>4. ASSUME Excluded(w, l)
      PROVE  \E j \in Steps : w[j] \notin IF formula[j] # False THEN formula[j] ELSE edges[l][j]
  <2>1. PICK c \in clauses : w[c.step] \in c.cube /\ c.loop \in {-1, l}
    BY <1>4 DEF Excluded
  <2>2. CASE c \in CommonClauses
    <3>1. PICK j \in Steps : formula[j] # False /\ c \in add_edge_loop_clauses(formula[j], j, -1)
      BY <2>2 DEF CommonClauses
    <3>2. PICK v \in Valuation \ formula[j] : c = [step |-> j, cube |-> {v}, loop |-> -1]
      BY <1>3, <3>1
    <3> QED BY <2>1, <3>1, <3>2
  <2>3. CASE c \in ClausesBelow(K)
    <3>1. PICK m \in loops : c \in ClausesOf(m)
      BY <2>3 DEF ClausesBelow
    <3>2. PICK j \in Steps : formula[j] = False /\ c \in add_edge_loop_clauses(edges[m][j], j, m)
      BY <3>1 DEF ClausesOf
    <3>3. PICK v \in Valuation \ edges[m][j] : c = [step |-> j, cube |-> {v}, loop |-> m]
      BY <1>3, <3>2
    <3>4. m = l
      BY <1>2, <2>1, <3>3
    <3> QED BY <2>1, <3>2, <3>3, <3>4
  <2> QED BY <1>1, <2>2, <2>3
<1>5. ASSUME NEW j \in Steps,
             w[j] \notin IF formula[j] # False THEN formula[j] ELSE edges[l][j]
      PROVE  Excluded(w, l)
  <2>1. CASE formula[j] # False
    <3> DEFINE c == [step |-> j, cube |-> {w[j]}, loop |-> -1]
    <3>1. c \in add_edge_loop_clauses(formula[j], j, -1)
      BY <1>3, <1>5, <2>1
    <3>2. c \in clauses
      BY <1>1, <2>1, <3>1 DEF CommonClauses
    <3> QED BY <3>2 DEF Excluded
  <2>2. CASE formula[j] = False
    <3> DEFINE c == [step |-> j, cube |-> {w[j]}, loop |-> l]
    <3>1. c \in add_edge_loop_clauses(edges[l][j], j, l)
      BY <1>3, <1>5, <2>2
    <3>2. c \in ClausesOf(l)
      BY <2>2, <3>1 DEF ClausesOf
    <3>3. c \in clauses
      BY <1>1, <1>2, <3>2 DEF ClausesBelow
    <3> QED BY <3>3 DEF Excluded
  <2> QED BY <2>1, <2>2
<1> QED BY <1>4, <1>5

(* The constraints 'get_edges_constraints_of_loop' returns are necessary,  *)
(* for every automaton, trail and bound.                                   *)
THEOREM ConstraintsSound == Spec => []LoopConstraintsSound
<1>1. BmcInv => LoopConstraintsSound
  <2> SUFFICES ASSUME BmcInv, NEW l \in DOMAIN edges, NEW w \in [Steps -> Valuation],
                      Extends(w), Accepts(w, l)
               PROVE  \A j \in Steps : w[j] \in edges[l][j]
    BY DEF LoopConstraintsSound
  <2>1. Inputs /\ l \in Steps /\ edges[l] = get_edges_constraints_of_loop(l)
    BY DEF BmcInv, Inputs
  <2> QED BY <2>1, ConstraintsNecessary
<1> QED BY <1>1, Invariance, PTL

(* A loop with an empty product is excluded by the clauses added for it.   *)
THEOREM EmptyLoop == Spec => []EmptyLoopExcluded
<1>1. BmcInv => EmptyLoopExcluded
  <2> SUFFICES ASSUME BmcInv, Evaluated, NEW l \in loops, NEW j \in Steps, edges[l][j] = False,
                      NEW w \in [Steps -> Valuation], Extends(w)
               PROVE  Excluded(w, l)
    BY DEF EmptyLoopExcluded
  <2>1. formula[j] = False
    BY DEF BmcInv, Evaluated
  <2> QED BY <2>1, ExcludedForm DEF False
<1> QED BY <1>1, Invariance, PTL

(* At a step, every loop's constraint is true or none is.                  *)
TrueAtAllOrNone ==
    \A j \in Steps : \A l, m \in DOMAIN edges : edges[l][j] = True => edges[m][j] = True

(* The clauses exclude no accepted lasso, unless at some step the          *)
(* constraint of one loop is true and that of another is not: the only way *)
(* in which combining them in 'evaluate_assignment' goes wrong.            *)
THEOREM SoundUnlessTrue == Spec => [](TrueAtAllOrNone => ClausesSound)
<1>1. BmcInv => (TrueAtAllOrNone => ClausesSound)
  <2> SUFFICES ASSUME BmcInv, TrueAtAllOrNone, Evaluated, NEW p \in Lassos,
                      Extends(p[1]), Accepts(p[1], p[2])
               PROVE  ~Excluded(p[1], p[2])
    BY DEF ClausesSound
  <2>1. PICK w \in [Steps -> Valuation], l \in loops : w = p[1] /\ l = p[2]
    BY DEF Lassos
  <2>2. Inputs /\ l \in Steps /\ edges[l] = get_edges_constraints_of_loop(l) /\ DOMAIN edges = loops
    BY DEF BmcInv, Inputs, Evaluated
  <2>3. \A j \in Steps : w[j] \in edges[l][j]
    BY <2>1, <2>2, ConstraintsNecessary
  <2>4. ASSUME NEW j \in Steps, formula[j] # False
        PROVE  edges[l][j] = formula[j]
    <3>1. edges[l][j] \in {formula[j], True}
      BY <2>2, <2>4 DEF BmcInv
    <3>2. CASE edges[l][j] = True /\ formula[j] # True
      <4>1. PICK m \in loops : edges[m][j] = formula[j]
        BY <2>2, <2>4, <3>2 DEF BmcInv
      <4> QED BY <2>2, <3>2, <4>1 DEF TrueAtAllOrNone
    <3> QED BY <3>1, <3>2
  <2> QED BY <2>1, <2>3, <2>4, ExcludedForm
<1> QED BY <1>1, Invariance, PTL

(* When the trail assigns every proposition, the clauses exclude exactly   *)
(* the loops with which the automaton rejects it.                          *)
THEOREM TotalTrail == Spec => []TotalTrailExact
<1>1. BmcInv => TotalTrailExact
  <2> SUFFICES ASSUME BmcInv, Evaluated, \A s \in Steps : Cardinality(conditions[s]) = 1,
                      NEW p \in Lassos, Extends(p[1])
               PROVE  Excluded(p[1], p[2]) <=> ~Accepts(p[1], p[2])
    BY DEF TotalTrailExact
  <2>1. PICK w \in [Steps -> Valuation], l \in loops : w = p[1] /\ l = p[2]
    BY DEF Lassos
  <2>2. /\ Inputs /\ DOMAIN edges = loops
        /\ \A m \in loops : m \in Steps /\ edges[m] = get_edges_constraints_of_loop(m)
    BY DEF BmcInv, Inputs, Evaluated
  <2>3. Extends(w)
    BY <2>1
  <2>4. Total(w)
    <3> SUFFICES ASSUME NEW s \in Steps PROVE conditions[s] = {w[s]}
      BY DEF Total
    <3>1. conditions[s] \subseteq SUBSET AP
      BY <2>2 DEF Inputs, Valuation
    <3>2. IsFiniteSet(conditions[s])
      BY <3>1, PropositionsAssumption, FS_SUBSET, FS_Subset
    <3>3. PICK v : conditions[s] = {v}
      BY <3>2, FS_Singleton
    <3> QED BY <2>3, <3>3 DEF Extends
  <2>5. ASSUME NEW m \in loops, Accepts(w, m), NEW j \in Steps
        PROVE  edges[m][j] = {w[j]}
    <3>1. w[j] \in edges[m][j]
      BY <2>2, <2>3, <2>5, ConstraintsNecessary
    <3>2. ASSUME NEW v \in edges[m][j] PROVE v = w[j]
      <4>1. PICK e \in Product(m) : v \in e.cond /\ e.src[1] = j
        BY <2>2, <3>2, ConstraintsForm
      <4>2. PICK s \in Steps, a \in ltl_aut : e.src = <<s, a.src>> /\ e.cond = conditions[s] \cap a.cond
        BY SMTT(30), <2>2, ProductEdges
      <4> QED BY <2>4, <4>1, <4>2 DEF Total
    <3> QED BY <3>1, <3>2
  <2>6. ASSUME NEW m \in loops, ~Accepts(w, m), NEW j \in Steps
        PROVE  edges[m][j] = False
    <3>1. <<0, q0>> \notin UsefulNodes(m)
      BY <2>2, <2>4, <2>6, NonEmptyAccepts
    <3> QED BY <2>2, <3>1, ConstraintsForm DEF False
  <2>7. ASSUME Accepts(w, l), NEW j \in Steps
        PROVE  w[j] \in IF formula[j] # False THEN formula[j] ELSE edges[l][j]
    <3>1. CASE formula[j] # False
      <4>1. edges[l][j] = {w[j]} /\ edges[l][j] \in {formula[j], True}
        BY <2>2, <2>5, <2>7, <3>1 DEF BmcInv
      <4>2. formula[j] \subseteq Valuation
        BY DEF BmcInv
      <4> QED BY <3>1, <4>1, <4>2 DEF True, False
    <3> QED BY <2>5, <2>7, <3>1
  <2>8. ASSUME ~Accepts(w, l)
        PROVE  \E j \in Steps : w[j] \notin IF formula[j] # False THEN formula[j] ELSE edges[l][j]
    <3>1. 0 \in Steps
      BY BoundAssumption DEF Steps
    <3>2. edges[l][0] = False /\ formula[0] = False
      BY <2>2, <2>6, <2>8, <3>1 DEF BmcInv
    <3> QED BY <3>1, <3>2 DEF False
  <2> QED BY <2>1, <2>7, <2>8, ExcludedForm
<1> QED BY <1>1, Invariance, PTL
=============================================================================
