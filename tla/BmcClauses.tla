----------------------------- MODULE BmcClauses -----------------------------
(***************************************************************************)
(* The clauses the BMC oracle derives from the property part of the trail: *)
(* 'evaluate_assignment' with 'create_alpha_language_automaton',           *)
(* 'get_edges_constraints_of_loop' and 'add_edge_loop_clauses'.            *)
(*                                                                         *)
(* The solver looks for a lasso of K steps, 0 .. K-1, whose last step goes *)
(* back to step l when the loop variable L_l is true, and which the Buchi  *)
(* automaton of the LTL formula accepts.  A BDD over the atomic            *)
(* propositions is the set of valuations it is true in.  The trail ("alpha"*)
(* in the code) is, per step, the set of valuations it still allows; loop  *)
(* literals on the trail only make the clauses weaker and are left out.    *)
(***************************************************************************)
EXTENDS Integers, FiniteSets

CONSTANTS K,         \* the bound
          AP,        \* the atomic propositions
          Q, q0,     \* states and initial state of the automata
          Automata   \* the automata considered: sets of edges

ASSUME BoundAssumption == K \in Nat \ {0}
ASSUME PropositionsAssumption == IsFiniteSet(AP)

Steps == 0 .. K - 1
Valuation == SUBSET AP
True == Valuation
False == {}
Edge == [src : Q, dst : Q, cond : SUBSET Valuation, acc : BOOLEAN]

ASSUME AutomataAssumption == q0 \in Q /\ \A A \in Automata : A \subseteq Edge

VARIABLES ltl_aut,      \* the automaton of the LTL formula
          conditions,   \* what the trail allows at each step
          loops,        \* the loops that have a variable (rename_lit_loop)
          i,            \* the loop the current 'for' is at
          pc,
          edges,        \* edges_constraints_aut: per loop and step
          formula,      \* edges_formula_all_aut: per step
          clauses       \* new_clauses

vars == <<ltl_aut, conditions, loops, i, pc, edges, formula, clauses>>

\* The conditions a set of literals leaves: each proposition of a step is
\* true, false or unassigned.
Cubes == {{v \in Valuation : p[1] \subseteq v /\ v \cap p[2] = {}} :
             p \in {r \in (SUBSET AP) \X (SUBSET AP) : r[1] \cap r[2] = {}}}

(***************************************************************************)
(* The product of the word automaton of the trail, looping back to l, with *)
(* ltl_aut, and what Spot's SCC analysis says of it.                       *)
(***************************************************************************)
Follow(s, l) == IF s = K - 1 THEN l ELSE s + 1

Joint(s, a, l) ==
    [src |-> <<s, a.src>>, dst |-> <<Follow(s, l), a.dst>>,
     cond |-> conditions[s] \cap a.cond, acc |-> a.acc]

Product(l) ==
    {e \in {Joint(p[1], p[2], l) : p \in Steps \X ltl_aut} : e.cond # False}

\* The states reachable from s: those in every closed set of states with s.
Closed(E) ==
    {R \in SUBSET (Steps \X Q) : \A e \in E : e.src \in R => e.dst \in R}

ReachableFrom(closed, s) == {r \in Steps \X Q : \A R \in closed : s \in R => r \in R}

\* The states of accepting SCCs.
Accepting(E, reach) ==
    {s \in Steps \X Q : \E e \in E : e.acc /\ e.src \in reach[s] /\ s \in reach[e.dst]}

EdgesFrom(E, step, useful, target) ==
    UNION {e.cond : e \in {d \in E : d.src \in useful /\ d.src[1] = step /\ d.dst \in target}}

\* Mutant: the last step asks for an accepting source, not destination.
FromAccepting(l) ==
    LET E == Product(l)
        closed == Closed(E)
        reach == [s \in Steps \X Q |-> ReachableFrom(closed, s)]
        accepting == Accepting(E, reach)
        useful == {s \in reach[<<0, q0>>] : reach[s] \cap accepting # {}}
    IN  IF <<0, q0>> \notin useful THEN [j \in Steps |-> False]
        ELSE [j \in Steps |-> EdgesFrom(E, j, IF j = K - 1 THEN useful \cap accepting
                                              ELSE useful, accepting)]

get_edges_constraints_of_loop(l) ==
    LET E == Product(l)
        closed == Closed(E)
        reach == [s \in Steps \X Q |-> ReachableFrom(closed, s)]
        accepting == Accepting(E, reach)
        useful == {s \in reach[<<0, q0>>] : reach[s] \cap accepting # {}}
    IN  IF <<0, q0>> \notin useful THEN [j \in Steps |-> False]
        ELSE [j \in Steps |-> EdgesFrom(E, j, useful,
                                 IF j = K - 1 THEN {s \in accepting : s[1] = l} ELSE useful)]

(***************************************************************************)
(* A clause excludes the lassos that agree with the trail, have their      *)
(* valuation of 'step' in 'cube', and loop back to 'loop' (any for -1).    *)
(***************************************************************************)
minato_isop(f) == {{v} : v \in f}

add_edge_loop_clauses(f, step, loop) ==
    {[step |-> step, cube |-> c, loop |-> loop] : c \in minato_isop(True \ f)}

(***************************************************************************)
(* 'evaluate_assignment'.                                                  *)
(***************************************************************************)
Init ==
    /\ ltl_aut \in Automata
    /\ conditions \in [Steps -> Cubes]
    /\ loops \in SUBSET Steps
    /\ i = 0
    /\ pc = "constraints"
    /\ edges = [l \in {} |-> <<>>]
    /\ formula = [j \in Steps |-> True]
    /\ clauses = {}

\* Mutant: a step where the loops differ takes the last constraint.
CombineLast(f, c) == c

\* One step of a loop's constraints joins what the earlier loops had.
Combine(f, c) == IF f = True THEN c ELSE IF f # c THEN False ELSE f

ConstrainLoop ==
    /\ pc = "constraints" /\ i < K
    /\ IF i \in loops
       THEN LET c == get_edges_constraints_of_loop(i)
            IN  /\ edges' = [l \in DOMAIN edges \cup {i} |-> IF l = i THEN c ELSE edges[l]]
                /\ formula' = [j \in Steps |-> Combine(formula[j], c[j])]
       ELSE UNCHANGED <<edges, formula>>
    /\ i' = i + 1
    /\ UNCHANGED <<ltl_aut, conditions, loops, pc, clauses>>

\* Mutant: the steps at which the loops differ are not left out.
AddCommonAlways ==
    /\ pc = "constraints" /\ i = K
    /\ clauses' = UNION {add_edge_loop_clauses(formula[j], j, -1) : j \in Steps}
    /\ i' = 0
    /\ pc' = "retry"
    /\ UNCHANGED <<ltl_aut, conditions, loops, edges, formula>>

\* Clauses for the steps at which all loops have the same constraint.
AddCommon ==
    /\ pc = "constraints" /\ i = K
    /\ clauses' = UNION {add_edge_loop_clauses(formula[j], j, -1) :
                            j \in {k \in Steps : formula[k] # False}}
    /\ i' = 0
    /\ pc' = "retry"
    /\ UNCHANGED <<ltl_aut, conditions, loops, edges, formula>>

\* Clauses of one loop for the other steps.
AddOfLoop ==
    /\ pc = "retry" /\ i < K
    /\ clauses' = clauses \cup
          IF i \in loops
          THEN UNION {add_edge_loop_clauses(edges[i][j], j, i) :
                         j \in {k \in Steps : formula[k] = False}}
          ELSE {}
    /\ i' = i + 1
    /\ UNCHANGED <<ltl_aut, conditions, loops, pc, edges, formula>>

Done == pc = "retry" /\ i = K /\ UNCHANGED vars

Next == ConstrainLoop \/ AddCommon \/ AddOfLoop \/ Done

Spec == Init /\ [][Next]_vars

-----------------------------------------------------------------------------
(***************************************************************************)
(* The reference: which lassos the automaton accepts.  A run reads w[from],*)
(* ..., w[to - 1]; a round reads the loop once.                            *)
(***************************************************************************)
Lassos == [Steps -> Valuation] \X loops

Reading(v, q, r) == {e \in ltl_aut : e.src = q /\ e.dst = r /\ v \in e.cond}

Runs(w, from, to) ==
    {run \in [from .. to -> Q] :
        \A n \in from .. to - 1 : Reading(w[n], run[n], run[n + 1]) # {}}

\* The states at the end of any number of rounds from q.
After(ends, q) ==
    {r \in Q : \A R \in SUBSET Q :
        q \in R /\ (\A p \in ends : p[1] \in R => p[2] \in R) => r \in R}

\* A run enters the loop, comes after some rounds to a state from which a
\* round goes through an accepting edge, and can repeat that for ever.
Accepts(w, l) ==
    LET rounds == Runs(w, l, K)
        ends == {<<run[l], run[K]>> : run \in rounds}
    IN  \E round \in rounds :
           /\ \E n \in l .. K - 1 : \E e \in Reading(w[n], round[n], round[n + 1]) : e.acc
           /\ round[l] \in After(ends, round[K])
           /\ \E prefix \in Runs(w, 0, l) : prefix[0] = q0 /\ round[l] \in After(ends, prefix[l])

Extends(w) == \A s \in Steps : w[s] \in conditions[s]

Excluded(w, l) ==
    \E c \in clauses : w[c.step] \in c.cube /\ c.loop \in {-1, l}

Evaluated == pc = "retry" /\ i = K

(***************************************************************************)
(* The constraints of a loop are necessary: a lasso with that loop which   *)
(* extends the trail and is accepted meets them at every step, also when   *)
(* its run enters the accepting SCC only after several rounds.             *)
(***************************************************************************)
LoopConstraintsSound ==
    \A l \in DOMAIN edges : \A w \in [Steps -> Valuation] :
        Extends(w) /\ Accepts(w, l) => \A j \in Steps : w[j] \in edges[l][j]

(***************************************************************************)
(* A loop whose product with the automaton is empty is excluded outright   *)
(* ("Li -> -alpha"), whatever the constraints of the other loops are.      *)
(***************************************************************************)
EmptyLoopExcluded ==
    Evaluated =>
        \A l \in loops : (\E j \in Steps : edges[l][j] = False) =>
            \A w \in [Steps -> Valuation] : Extends(w) => Excluded(w, l)

(***************************************************************************)
(* When the trail assigns every proposition at every step, the clauses     *)
(* exclude exactly the loops whose lasso is rejected.                      *)
(***************************************************************************)
TotalTrailExact ==
    Evaluated /\ (\A s \in Steps : Cardinality(conditions[s]) = 1) =>
        \A p \in Lassos : Extends(p[1]) => (Excluded(p[1], p[2]) <=> ~Accepts(p[1], p[2]))

(***************************************************************************)
(* The clauses are what their comments say, (alpha ^ Li -> constraints[i]):*)
(* no accepted lasso that extends the trail is excluded.                   *)
(***************************************************************************)
ClausesSound ==
    Evaluated => \A p \in Lassos : Extends(p[1]) /\ Accepts(p[1], p[2]) => ~Excluded(p[1], p[2])
=============================================================================
