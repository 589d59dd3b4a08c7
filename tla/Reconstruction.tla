--------------------------- MODULE Reconstruction ---------------------------
(***************************************************************************)
(* Inprocessing and model reconstruction.  The solver removes clauses and  *)
(* variables while it searches (bounded variable elimination with gates,   *)
(* backward subsumption, blocked and covered clause elimination,           *)
(* equivalent literal substitution).  What it removes goes, with a witness *)
(* literal, on the extension stack; External::extend walks the stack back- *)
(* wards to turn a model of what is left into a model of what was added,   *)
(* and External::restore_clauses takes clauses off it again when a later   *)
(* clause or assumption mentions the negation of a witness.                *)
(*                                                                         *)
(* A literal is a non-zero integer, a clause a set of literals.  The       *)
(* irredundant clauses are a sequence because the order of the vector      *)
(* 'clauses' is the order in which they are resolved and subsumed.         *)
(***************************************************************************)
EXTENDS Integers, FiniteSets, Sequences, SequencesExt

CONSTANTS
  NumVar,        \* variables 1 .. NumVar
  Uses,          \* the uses considered: batches of clauses, and options
  Assumable,     \* literals the user may assume
  Observable,    \* variables an external propagator may observe
  Learnable,     \* clauses conflict analysis may learn (when implied)
  TheoryClauses, \* clauses the propagator may add while solving
  MaxStack,      \* bound on the entries of the extension stack
  MaxSolves,     \* bound on the calls of 'solve'
  ElimBound      \* lim.elimbound

Var == 1 .. NumVar
Lit == Var \cup {-v : v \in Var}
Neg(S) == {-l : l \in S}
VarsOf(c) == {IF l < 0 THEN -l ELSE l : l \in c}

Added == UNION {Range(b) : b \in UNION {Range(u.batches) : u \in Uses}}

(* The options restoreflush, restoreall and elimsubst. *)
ASSUME UsesAssumption ==
  /\ NumVar \in Nat \ {0}
  /\ \A c \in Added \cup Learnable \cup TheoryClauses :
       c \subseteq Lit /\ c \cap Neg(c) = {}
  /\ \A u \in Uses : u.opts \in [flush : BOOLEAN, all : 0 .. 2, subst : BOOLEAN]

VARIABLES
  original,     \* every clause added (External::original)
  todo,         \* the batches the user has still to add
  solves,       \* calls of 'solve' so far
  opts,         \* the options in force
  f,            \* Internal: irredundant and redundant clauses, units, unsat
  x,            \* External: extension stack, witness and tainted bits, and
                \* the unused, eliminated, pure or substituted variables
  assumptions,
  observed,
  phase         \* outside 'solve', in it, or inside a round of elimination

vars == <<original, todo, solves, opts, f, x, assumptions, observed, phase>>

-----------------------------------------------------------------------------
(* Clauses under the root-level assignment U.                              *)

Sat(c, U) == c \cap U # {}
Open(c, U) == {l \in c : -l \notin U}
Irr == Range(f.irr)
Without(s, c) == SelectSeq(s, LAMBDA d : d # c)
With(s, c) == IF c \in Range(s) THEN s ELSE Append(s, c)
Replaced(s, c, d) ==
  IF d \in Range(s) THEN Without(s, c)
  ELSE [i \in DOMAIN s |-> IF s[i] = c THEN d ELSE s[i]]
\* Mutant: observed variables are not frozen.
FrozenAssumed == VarsOf(assumptions)
Frozen == observed \cup VarsOf(assumptions)
Fixed == VarsOf(f.units)
Active == Var \ (Fixed \cup x.inactive)
Assigned(g, l) == l \in g.units \/ -l \in g.units

(* Internal::propagate at the root level, over all clauses. *)
RECURSIVE Closure(_, _)
Closure(F, U) ==
  LET N == UNION {IF Sat(c, U) \/ Cardinality(Open(c, U)) # 1
                  THEN {} ELSE Open(c, U) : c \in F}
  IN  IF N \subseteq U THEN U ELSE Closure(F, U \cup N)

Propagate(g) ==
  LET F == Range(g.irr) \cup g.red
      U == Closure(F, g.units)
  IN  IF U \cap Neg(U) # {} \/ \E c \in F : Open(c, U) = {}
      THEN [g EXCEPT !.unsat = TRUE]
      ELSE [g EXCEPT !.units = U]

(* Internal::add_new_original_clause, for a clause of the user, of the     *)
(* propagator or of the extension stack.                                   *)
AddOriginal(g, c) ==
  LET d == Open(c, g.units)
  IN  IF g.unsat \/ Sat(c, g.units) THEN g
      ELSE IF d = {} THEN [g EXCEPT !.unsat = TRUE]
      ELSE IF Cardinality(d) = 1
           THEN Propagate([g EXCEPT !.units = @ \cup d])
      ELSE [g EXCEPT !.irr = With(@, d)]

(* Internal::mark_satisfied_clauses_as_garbage. *)
Collected(g) ==
  LET keep(s) == SelectSeq(s, LAMBDA c : ~ Sat(c, g.units))
  IN  [g EXCEPT
        !.irr = FoldLeft(LAMBDA s, c : With(s, Open(c, g.units)), <<>>, keep(@)),
        !.red = {Open(c, g.units) : c \in {d \in @ : ~ Sat(d, g.units)}}]

\* Mutant: literals are not tainted.
InternalizeUntainted(y, c) == [y EXCEPT !.inactive = @ \ VarsOf(c)]

(* External::internalize for every literal of c: a literal whose negation  *)
(* is a witness becomes tainted, an inactive variable is reactivated.      *)
Internalize(y, c) ==
  [y EXCEPT !.tainted = @ \cup {l \in c : -l \in y.witness},
            !.inactive = @ \ VarsOf(c)]

Push(y, w, c) == [y EXCEPT !.stack = Append(@, [wit |-> w, cls |-> c]),
                           !.witness = @ \cup {w}]
PushAll(y, w, s) == FoldLeft(LAMBDA z, c : Push(z, w, c), y, s)

-----------------------------------------------------------------------------
(* The user: add, assume, observe, solve.                                  *)

(* Between calls of 'solve'; nothing follows the last one. *)
Outside == phase = "unknown" /\ solves < MaxSolves

Init ==
  /\ \E u \in Uses : todo = u.batches /\ opts = u.opts
  /\ original = {} /\ solves = 0
  /\ f = [irr |-> <<>>, red |-> {}, units |-> {}, unsat |-> FALSE]
  /\ x = [stack |-> <<>>, witness |-> {}, tainted |-> {}, inactive |-> Var]
  /\ assumptions = {} /\ observed = {}
  /\ phase = "unknown"

Add ==
  /\ Outside /\ todo # <<>>
  /\ todo' = Tail(todo)
  /\ original' = original \cup Range(Head(todo))
  /\ x' = FoldLeft(Internalize, x, Head(todo))
  /\ f' = FoldLeft(AddOriginal, f, Head(todo))
  /\ UNCHANGED <<solves, opts, assumptions, observed, phase>>

Assume(l) ==
  /\ Outside /\ l \notin assumptions
  /\ assumptions' = assumptions \cup {l}
  /\ x' = Internalize(x, {l})
  /\ UNCHANGED <<original, todo, solves, opts, f, observed, phase>>

(* The code asserts that an observed variable is no witness. *)
AddObservedVar(v) ==
  /\ Outside /\ v \notin observed
  /\ {v, -v} \cap x.witness = {}
  /\ observed' = observed \cup {v}
  /\ x' = Internalize(x, {v})
  /\ UNCHANGED <<original, todo, solves, opts, f, assumptions, phase>>

(* One entry of External::restore_clauses: flushed when satisfied, restored *)
(* when its witness is negatively tainted, kept otherwise.  Restoring may   *)
(* taint more literals, for the entries that follow.                        *)
RestoreEntry(r, e) ==
  IF opts.flush /\ Sat(e.cls, r.f.units) THEN r
  ELSE IF -e.wit \in r.x.tainted \/ opts.all > 0
       THEN [r EXCEPT !.x = Internalize(@, e.cls), !.f = AddOriginal(@, e.cls)]
       ELSE [r EXCEPT !.kept = Append(@, e)]

RestoreClauses(g, y) ==
  IF opts.all <= 1 /\ y.tainted = {} THEN [f |-> g, x |-> y]
  ELSE LET r == FoldLeft(RestoreEntry, [f |-> g, x |-> y, kept |-> <<>>], y.stack)
       IN  [f |-> IF r.f.unsat THEN r.f ELSE Propagate(r.f),
            x |-> [r.x EXCEPT !.stack = r.kept, !.tainted = {},
                              !.witness = {e.wit : e \in Range(r.kept)}]]

Solve ==
  /\ Outside /\ ~ f.unsat
  /\ LET g == Propagate(f)
         r == IF g.unsat THEN [f |-> g, x |-> x] ELSE RestoreClauses(g, x)
     IN  f' = r.f /\ x' = r.x
  /\ phase' = "solving"
  /\ solves' = solves + 1
  /\ UNCHANGED <<original, todo, opts, assumptions, observed>>

(* 'solve' returns and the next call of the user drops the assumptions. *)
Answer ==
  /\ phase = "solving"
  /\ phase' = "unknown"
  /\ assumptions' = {}
  /\ UNCHANGED <<original, todo, solves, opts, f, x, observed>>

-----------------------------------------------------------------------------
(* Bounded variable elimination, on the irredundant clauses of g.          *)

Drop(g, c) == [g EXCEPT !.irr = Without(@, c)]
Assign(g, l) == [g EXCEPT !.units = @ \cup {l}]
Empty(g) == [g EXCEPT !.unsat = TRUE]
Occs(g, l) == SelectSeq(g.irr, LAMBDA c : l \in c)

(* 'elim_propagate': units found are propagated over the occurrence lists, *)
(* and what they satisfy is removed.                                       *)
RECURSIVE ElimPropagate(_, _)
ElimPropagate(g, work) ==
  IF work = <<>> \/ g.unsat THEN g ELSE
  LET lit == Head(work)
      Visit(s, c) ==
        LET o == Open(c, s.g.units)
        IN  IF s.g.unsat \/ c \notin Range(s.g.irr) THEN s
            ELSE IF Sat(c, s.g.units) THEN [s EXCEPT !.g = Drop(@, c)]
            ELSE IF o = {} THEN [s EXCEPT !.g = Empty(@)]
            ELSE IF Cardinality(o) > 1 THEN s
            ELSE LET u == CHOOSE l \in o : TRUE
                 IN  [g |-> Assign(s.g, u), work |-> Append(s.work, u)]
      r == FoldLeft(Visit, [g |-> g, work |-> Tail(work)], Occs(g, -lit))
  IN  IF r.g.unsat THEN r.g
      ELSE ElimPropagate([r.g EXCEPT !.irr = SelectSeq(@, LAMBDA c : lit \notin c)],
                         r.work)

(* 'resolve_clauses': the resolvent, or {} when it is not needed because an *)
(* antecedent is gone or satisfied, it is a tautology, or it was used: as   *)
(* the empty clause, as a unit, or to strengthen an antecedent it subsumes. *)
Resolve(g, c, pivot, d, eager) ==
  LET U == g.units
      a == IF Cardinality(c) > Cardinality(d) THEN d ELSE c
      b == IF a = c THEN d ELSE c
      oa == Open(a, U)
      ob == Open(b, U)
      r == (oa \cup ob) \ {pivot, -pivot}
      Used(h) == [g |-> h, res |-> {}]
  IN  CASE {c, d} \cap Range(g.irr) # {c, d} -> Used(g)
        [] Sat(a, U) -> Used(Drop(g, a))
        [] Sat(b, U) -> Used(Drop(g, b))
        [] r \cap Neg(r) # {} -> Used(g)
        [] r = {} -> Used(Empty(g))
        [] Cardinality(r) = 1 ->
             LET u == CHOOSE l \in r : TRUE
             IN  Used(IF eager THEN ElimPropagate(Assign(g, u), <<u>>)
                      ELSE Assign(g, u))
        [] r \subseteq oa \/ r \subseteq ob ->
             LET gone == {e \in {a, b} : r \subseteq e}
             IN  Used([g EXCEPT !.irr =
                         With(SelectSeq(@, LAMBDA e : e \notin gone), r)])
        [] OTHER -> [g |-> g, res |-> r]

BySize(s) ==
  FoldLeft(LAMBDA t, n : t \o SelectSeq(s, LAMBDA c : Cardinality(c) = n),
           <<>>, [n \in Var |-> n])

Pairs(s, t) ==
  [k \in 1 .. Len(s) * Len(t) |->
     <<s[((k - 1) \div Len(t)) + 1], t[((k - 1) % Len(t)) + 1]>>]

(* The pairs 'elim_resolvents_are_bounded' and 'elim_add_resolvents' try:   *)
(* with gate clauses only a gate clause against another clause.             *)
Candidates(g, p, gates) ==
  SelectSeq(Pairs(BySize(Occs(g, p)), BySize(Occs(g, -p))),
            LAMBDA q : gates = {} \/ (q[1] \in gates) # (q[2] \in gates))

Bounded(g, p, gates) ==
  LET bound == Len(Occs(g, p)) + Len(Occs(g, -p)) + ElimBound
      Try(e, q) ==
        IF e.stop THEN e ELSE
        LET r == Resolve(e.g, q[1], p, q[2], TRUE)
            n == e.n + (IF r.res = {} THEN 0 ELSE 1)
        IN  [g |-> r.g, n |-> n,
             stop |-> n > bound \/ r.g.unsat \/ Assigned(r.g, p)]
      nothing == Occs(g, p) = <<>> \/ Occs(g, -p) = <<>>
      r == FoldLeft(Try, [g |-> g, n |-> 0, stop |-> FALSE], Candidates(g, p, gates))
  IN  [g |-> r.g, ok |-> IF nothing THEN ElimBound >= 0 ELSE ~ r.stop]

AddResolvents(g, p, gates) ==
  LET Try(e, q) ==
        IF e.g.unsat THEN e ELSE
        LET r == Resolve(e.g, q[1], p, q[2], FALSE)
        IN  IF r.res = {} THEN [e EXCEPT !.g = r.g]
            ELSE [g |-> [r.g EXCEPT !.irr = With(@, r.res)],
                  queue |-> Append(e.queue, r.res)]
  IN  FoldLeft(Try, [g |-> g, queue |-> <<>>], Candidates(g, p, gates))

(* 'elim_backward_clause': c removes clauses it subsumes and strengthens    *)
(* clauses it subsumes up to one negated literal.  The flag 'satisfied' is  *)
(* not reset between two clauses d, and once two literals of d are negated  *)
(* 'size' becomes UINT_MAX, which skips the clauses that follow.  The       *)
(* literal 'best' whose clauses are visited has the shortest occurrence     *)
(* list, garbage clauses included, so it may be any literal of c.           *)
BackwardClause(e, c, best) ==
  LET g == e.g
      live == Open(c, g.units)
      Visit(s, d) ==
        LET h == s.g
            negated == {l \in d : -l \in live /\ ~ Assigned(h, l)}
            found == negated \cup {l \in d \cap live : ~ Assigned(h, l)}
            rest == Open(d, h.units) \ negated
            less == d \ negated
        IN  CASE s.stop \/ d \notin Range(h.irr) \/ Cardinality(d) < Cardinality(live)
                   -> s
              [] s.satisfied \/ Sat(d, h.units)
                   -> [s EXCEPT !.satisfied = TRUE, !.g = Drop(h, d)]
              [] Cardinality(negated) > 1 -> [s EXCEPT !.stop = TRUE]
              [] Cardinality(found) # Cardinality(live) -> s
              [] negated = {} -> [s EXCEPT !.g = Drop(h, d)]
              [] Cardinality(rest) = 1 ->
                   LET u == CHOOSE l \in rest : TRUE
                   IN  [s EXCEPT !.stop = TRUE,
                                 !.g = ElimPropagate(Assign(h, u), <<u>>)]
              [] OTHER -> [s EXCEPT !.g = [h EXCEPT !.irr = Replaced(@, d, less)],
                                    !.queue = Append(@, less)]
  IN  IF c \notin Range(g.irr) \/ live = {} THEN e
      ELSE IF Sat(c, g.units) THEN [e EXCEPT !.g = Drop(@, c)]
      ELSE LET r == FoldLeft(Visit, [g |-> g, queue |-> e.queue,
                                     satisfied |-> FALSE, stop |-> FALSE],
                             Without(Occs(g, best), c))
           IN  [g |-> r.g, queue |-> r.queue]

RECURSIVE Backward(_)
Backward(e) ==
  IF e.queue = <<>> \/ e.g.unsat THEN {e.g}
  ELSE LET c == Head(e.queue)
           open == Open(c, e.g.units)
       IN  UNION {Backward(BackwardClause([e EXCEPT !.queue = Tail(@)], c, l)) :
                    l \in IF open = {} THEN c ELSE open}

(* Gates: sets of clauses that define the pivot.  Equivalences and AND      *)
(* gates look at clauses without their falsified literals, if-then-else and *)
(* XOR gates at clauses without their assigned literals, true ones too.     *)
Bare(c, U) == {l \in c : l \notin U /\ -l \notin U}
Lookup(g, o) == SelectSeq(g.irr, LAMBDA c : Bare(c, g.units) = o)
Unsatisfied(g, o) == SelectSeq(Lookup(g, o), LAMBDA c : ~ Sat(c, g.units))
Bin(g, l) == {k \in Lit \ {l, -l} : Unsatisfied(g, {l, k}) # <<>>}

GateUnits(g, p) ==
  {q \in {p, -p} : Bin(g, q) \cap Neg(Bin(g, q)) # {}} \cup (Bin(g, p) \cap Bin(g, -p))

Equivalences(g, p) ==
  {{Unsatisfied(g, {-p, s})[1], Unsatisfied(g, {p, -s})[1]} :
     s \in Bin(g, -p) \cap Neg(Bin(g, p))}

AndGates(g, q) ==
  LET inputs(c) == Open(c, g.units) \ {-q}
      bases == {c \in Range(Occs(g, -q)) :
                  /\ Cardinality(c) >= 3 /\ ~ Sat(c, g.units)
                  /\ inputs(c) \subseteq Neg(Bin(g, q))}
  IN  {{c} \cup {Unsatisfied(g, {q, -l})[1] : l \in inputs(c)} : c \in bases}

Found(g, shapes) ==
  IF \A o \in shapes : Lookup(g, o) # <<>>
  THEN {{Lookup(g, o)[1] : o \in shapes}} ELSE {}

IfThenElses(g, p) ==
  UNION {Found(g, {{p, b, c}, {p, -b, d}, {-p, b, -c}, {-p, -b, -d}}) :
           <<b, c, d>> \in {t \in Lit \X Lit \X Lit :
                               Cardinality(VarsOf({p, t[1], t[2], t[3]})) = 4}}

XorGates(g, p) ==
  LET flips(o) == {(o \ s) \cup Neg(s) :
                      s \in {t \in SUBSET o : Cardinality(t) % 2 = 0}}
  IN  UNION {Found(g, flips(Bare(c, g.units))) :
               c \in {d \in Range(Occs(g, p)) : Cardinality(Bare(d, g.units)) >= 3}}

(* 'find_gate_clauses': the first kind of gate that is found is taken.  The *)
(* search may first come across units (hyper unary resolution), propagates  *)
(* them and goes on.  Without option elimsubst nothing is searched.         *)
RECURSIVE GateSearch(_, _)
GateSearch(g, p) ==
  LET kinds == SelectSeq(<<Equivalences(g, p), AndGates(g, p), AndGates(g, -p),
                           IfThenElses(g, p), XorGates(g, p)>>,
                         LAMBDA k : k # {})
      units == GateUnits(g, p)
      gates == IF kinds # <<>> THEN kinds[1] ELSE IF units = {} THEN {{}} ELSE {}
  IN  IF g.unsat \/ Assigned(g, p) \/ Occs(g, p) = <<>> \/ ~ opts.subst
      THEN {[g |-> g, gates |-> {}]}
      ELSE {[g |-> g, gates |-> G] : G \in gates}
           \cup UNION {GateSearch(ElimPropagate(Assign(g, u), <<u>>), p) : u \in units}

(* 'mark_eliminated_clauses_as_garbage': the clauses with the pivot go, and *)
(* they, or only the gate clauses, are pushed on the extension stack.       *)
MarkEliminated(g, y, p, gates) ==
  LET pushed(l) == SelectSeq(BySize(Occs(g, l)),
                             LAMBDA c : gates = {} \/ c \in gates)
  IN  [g |-> [g EXCEPT !.irr = SelectSeq(@, LAMBDA c : {p, -p} \cap c = {})],
       x |-> PushAll(PushAll(y, p, pushed(p)), -p, pushed(-p))]

Eliminate(g, y, p, gates) ==
  LET b == Bounded(g, p, gates)
      a == AddResolvents(b.g, p, gates)
      m == IF a.g.unsat THEN [g |-> a.g, x |-> y]
           ELSE MarkEliminated(a.g, y, p, gates)
  IN  IF g.unsat \/ Assigned(g, p) THEN {[g |-> g, x |-> y]}
      ELSE IF ~ b.ok THEN {[g |-> b.g, x |-> y]}
      ELSE {[g |-> h, x |-> [m.x EXCEPT !.inactive = @ \cup VarsOf({p})]] :
              h \in Backward([g |-> m.g, queue |-> a.queue])}

Unsatisfieds(g) == [g EXCEPT !.irr = SelectSeq(@, LAMBDA c : ~ Sat(c, g.units))]

ElimRound ==
  /\ phase \in {"solving", "between"} /\ ~ f.unsat
  /\ LET g == IF phase = "solving" THEN Propagate(f) ELSE f
     IN  f' = IF g.unsat THEN g ELSE Unsatisfieds(g)
  /\ phase' = "elim"
  /\ UNCHANGED <<original, todo, solves, opts, x, assumptions, observed>>

TryToEliminateVariable(v) ==
  /\ phase = "elim" /\ ~ f.unsat
  /\ v \in Active \ Frozen
  /\ LET p == IF Len(Occs(f, v)) > Len(Occs(f, -v)) THEN -v ELSE v
     IN  \E s \in GateSearch(f, p) : \E r \in Eliminate(s.g, x, p, s.gates) :
           f' = r.g /\ x' = r.x
  /\ Len(x'.stack) <= MaxStack
  /\ UNCHANGED <<original, todo, solves, opts, assumptions, observed, phase>>

\* Mutant: redundant clauses with eliminated variables stay.
RoundDoneKeepsRedundant ==
  /\ phase = "elim"
  /\ phase' = "between"
  /\ UNCHANGED <<original, todo, solves, opts, f, x, assumptions, observed>>

(* Redundant clauses with an eliminated variable go at the end of a round. *)
ElimRoundDone ==
  /\ phase = "elim"
  /\ f' = IF f.unsat THEN f
          ELSE [f EXCEPT !.red = {c \in @ : VarsOf(c) \cap x.inactive = {}}]
  /\ phase' = "between"
  /\ UNCHANGED <<original, todo, solves, opts, x, assumptions, observed>>

ElimDone ==
  /\ phase = "between"
  /\ f' = IF f.unsat THEN f ELSE Propagate(f)
  /\ phase' = "solving"
  /\ UNCHANGED <<original, todo, solves, opts, x, assumptions, observed>>

-----------------------------------------------------------------------------
(* Blocked and covered clauses, tried between the rounds of elimination.   *)

BlockedOn(c, l, g) ==
  \A d \in Range(Occs(g, -l)) : (c \ {l}) \cap Neg(d) # {}

(* 'block_literal': without negative occurrence l is pure and its variable  *)
(* becomes inactive; otherwise the clauses blocked on l go.                 *)
Blocked(g, y, l) ==
  LET pure == Occs(g, -l) = <<>>
      gone == SelectSeq(Occs(g, l), LAMBDA c : pure \/ BlockedOn(c, l, g))
      h == [g EXCEPT !.irr = SelectSeq(@, LAMBDA c : c \notin Range(gone))]
      z == PushAll(y, l, gone)
  IN  IF pure THEN [g |-> [h EXCEPT !.red = {c \in @ : {l, -l} \cap c = {}}],
                    x |-> [z EXCEPT !.inactive = @ \cup VarsOf({l})]]
      ELSE [g |-> h, x |-> z]

Block(l) ==
  /\ phase = "between" /\ ~ f.unsat /\ f.irr # <<>>
  /\ LET g == Propagate(f)
         r == Blocked(Collected(g), x, l)
     IN  IF g.unsat THEN f' = g /\ x' = x
         ELSE /\ VarsOf({l}) \cap (VarsOf(g.units) \cup x.inactive \cup Frozen) = {}
              /\ f' = r.g /\ x' = r.x
  /\ Len(x'.stack) <= MaxStack
  /\ UNCHANGED <<original, todo, solves, opts, assumptions, observed, phase>>

(* 'cover_clause': literals are added to c as long as another clause        *)
(* implies them (asymmetric) or all resolution partners on a literal of the *)
(* covered part share them (covered).  The result is a set of outcomes:     *)
(* the entries for the extension stack, when a tautology is reached.        *)
RECURSIVE Asymmetric(_, _)
Asymmetric(F, A) ==
  LET N == UNION {IF d \cap Neg(A) # {} \/ Cardinality(d \ A) # 1 THEN {}
                  ELSE Neg(d \ A) : d \in F}
  IN  IF N \subseteq A \/ A \cap Neg(A) # {} THEN A ELSE Asymmetric(F, A \cup N)

RECURSIVE Coverings(_, _, _, _)
Coverings(F, covered, added, entries) ==
  LET A == Asymmetric(F, added)
      partners(l) == {d \in F : -l \in d /\ (d \ {-l}) \cap Neg(A) = {}}
      shared(l) == {k \in Lit \ A : \A d \in partners(l) : k \in d \ {-l}}
      entry(l) == Append(entries, [wit |-> l, cls |-> covered])
      free == {l \in covered : VarsOf({l}) \cap Frozen = {}}
  IN  IF A \cap Neg(A) # {} \/ \E d \in F : d \subseteq A THEN {entries}
      ELSE {entry(l) : l \in {k \in free : partners(k) = {}}}
           \cup UNION {Coverings(F, covered \cup shared(l), A \cup shared(l), entry(l)) :
                         l \in {k \in free : partners(k) # {} /\ shared(k) # {}}}

Cover(c) ==
  /\ phase = "between" /\ ~ f.unsat /\ ~ opts.flush
  /\ LET g == Propagate(f)
         h == Unsatisfieds(g)
         o == Open(c, g.units)
         F == {Open(d, g.units) : d \in Range(Without(h.irr, c))}
     IN  IF g.unsat THEN f' = g /\ x' = x
         ELSE /\ c \in Range(h.irr) /\ ~ (VarsOf(c) \subseteq Frozen)
              /\ f' = Drop(h, c)
              /\ \E s \in Coverings(F, o, o, <<>>) :
                   x' = FoldLeft(LAMBDA y, e : Push(y, e.wit, e.cls), x, s)
  /\ Len(x'.stack) <= MaxStack
  /\ UNCHANGED <<original, todo, solves, opts, assumptions, observed, phase>>

-----------------------------------------------------------------------------
(* Equivalent literal substitution ('decompose_round').                    *)

RECURSIVE Reach(_, _)
Reach(R, S) ==
  LET T == S \cup {e[2] : e \in {r \in R : r[1] \in S}}
  IN  IF T = S THEN S ELSE Reach(R, T)

(* The strongly connected components of the binary implication graph on the *)
(* active literals, and the representative of each literal.                 *)
Scc(g, act) ==
  LET lits == act \cup Neg(act)
      R == {<<-l, k>> : <<l, k>> \in
              {t \in lits \X lits : t[1] # t[2] /\ {t[1], t[2]} \in Range(g.irr) \cup g.red}}
      reach == [l \in lits |-> Reach(R, {l})]
  IN  [l \in lits |-> {k \in reach[l] : l \in reach[k]}]

Reprs(scc) ==
  [l \in DOMAIN scc |->
     IF VarsOf({l}) \subseteq Frozen THEN l
     ELSE CHOOSE k \in scc[l] :
            \A j \in scc[l] : \A m, n \in Var : k \in {m, -m} /\ j \in {n, -n} => m <= n]

(* A clause with substituted literals: a satisfied one goes, a unit is      *)
(* assigned, any other is replaced.  Units found are propagated at the end. *)
SubstituteClause(g, c, redundant, reprs) ==
  LET open == Open({reprs[l] : l \in {k \in c : ~ Assigned(g, k)}}, g.units)
      rest == IF redundant THEN [g EXCEPT !.red = @ \ {c}] ELSE Drop(g, c)
  IN  CASE g.unsat \/ open = c -> g
        [] Sat(c, g.units) \/ open \cap (g.units \cup Neg(open)) # {} -> rest
        [] open = {} -> Empty(g)
        [] Cardinality(open) = 1 -> [rest EXCEPT !.units = @ \cup open]
        [] redundant -> [rest EXCEPT !.red = @ \cup {open}]
        [] OTHER -> [g EXCEPT !.irr = Replaced(@, c, open)]

Substituted(g, reprs) ==
  LET i == FoldLeft(LAMBDA e, c : SubstituteClause(e, c, FALSE, reprs), g, g.irr)
      h == FoldLeft(LAMBDA e, c : SubstituteClause(e, c, TRUE, reprs), i, SetToSeq(g.red))
  IN  IF h.unsat THEN h ELSE Propagate(h)

(* The two implications between a variable and its representative go on the *)
(* stack; the variable becomes inactive unless the representative is fixed. *)
MarkSubstituted(g, y, reprs) ==
  FoldLeft(LAMBDA z, v :
             IF v \notin DOMAIN reprs \/ Assigned(g, v) \/ reprs[v] = v THEN z
             ELSE LET r == reprs[v]
                      p == Push(Push(z, -v, {-v, r}), v, {v, -r})
                  IN  IF Assigned(g, r) THEN p
                      ELSE [p EXCEPT !.inactive = @ \cup {v}],
           y, [v \in Var |-> v])

Decompose ==
  /\ phase = "solving" /\ ~ f.unsat
  /\ LET g == Propagate(f)
         scc == Scc(g, Var \ (x.inactive \cup VarsOf(g.units)))
         reprs == Reprs(scc)
         h == Substituted(g, reprs)
     IN  CASE g.unsat -> f' = g /\ x' = x
           [] \E l \in DOMAIN scc : -l \in scc[l] -> f' = Empty(g) /\ x' = x
           [] OTHER -> /\ \E l \in DOMAIN reprs : reprs[l] # l
                       /\ f' = h
                       /\ x' = IF h.unsat THEN x ELSE MarkSubstituted(h, x, reprs)
  /\ Len(x'.stack) <= MaxStack
  /\ UNCHANGED <<original, todo, solves, opts, assumptions, observed, phase>>

-----------------------------------------------------------------------------
(* Search and the other clause-level steps.                                *)

Total == {{IF t[v] THEN v ELSE -v : v \in Var} : t \in [Var -> BOOLEAN]}
ModelsOf(F) == {m \in Total : \A c \in F : Sat(c, m)}
Formula == Irr \cup f.red \cup {{l} : l \in f.units}

(* Conflict analysis derives an implied clause over active variables. *)
Learn(c) ==
  /\ phase = "solving" /\ ~ f.unsat
  /\ VarsOf(c) \subseteq Active /\ c \notin Irr \cup f.red
  /\ \A m \in ModelsOf(Formula) : Sat(c, m)
  /\ f' = IF c = {} THEN Empty(f)
          ELSE IF Cardinality(c) = 1 THEN Propagate([f EXCEPT !.units = @ \cup c])
          ELSE [f EXCEPT !.red = @ \cup {c}]
  /\ UNCHANGED <<original, todo, solves, opts, x, assumptions, observed, phase>>

(* A redundant clause may be dropped at any time ('reduce'). *)
Reduce(c) ==
  /\ phase = "solving" /\ c \in f.red
  /\ f' = [f EXCEPT !.red = @ \ {c}]
  /\ UNCHANGED <<original, todo, solves, opts, x, assumptions, observed, phase>>

(* 'try_to_subsume_clause': c, without fixed literals, is subsumed by d, or *)
(* loses a literal.  A redundant clause that subsumes an irredundant one    *)
(* becomes irredundant.                                                     *)
Subsumable(c) == VarsOf(c) \cap Fixed = {}

Subsume(c, d) ==
  /\ phase \in {"solving", "between"} /\ ~ f.unsat
  /\ c # d /\ d \subseteq c /\ Subsumable(c)
  /\ f' = [f EXCEPT
             !.irr = IF c \in Irr THEN With(Without(@, c), d) ELSE @,
             !.red = IF c \in Irr THEN @ \ {d} ELSE @ \ {c}]
  /\ UNCHANGED <<original, todo, solves, opts, x, assumptions, observed, phase>>

\* Mutant: the other literals of the clause are not compared.
StrengthenBySize(c, d) ==
  /\ phase \in {"solving", "between"} /\ ~ f.unsat
  /\ Subsumable(c) /\ Cardinality(c) > 2
  /\ \E l \in c :
       /\ -l \in d /\ Cardinality(d) <= Cardinality(c)
       /\ f' = IF c \in Irr THEN [f EXCEPT !.irr = Replaced(@, c, c \ {l})]
               ELSE [f EXCEPT !.red = (@ \ {c}) \cup {c \ {l}}]
  /\ UNCHANGED <<original, todo, solves, opts, x, assumptions, observed, phase>>

Strengthen(c, d) ==
  /\ phase \in {"solving", "between"} /\ ~ f.unsat
  /\ Subsumable(c) /\ Cardinality(c) > 2
  /\ \E l \in c :
       /\ -l \in d /\ d \ {-l} \subseteq c \ {l}
       /\ f' = IF c \in Irr THEN [f EXCEPT !.irr = Replaced(@, c, c \ {l})]
               ELSE [f EXCEPT !.red = (@ \ {c}) \cup {c \ {l}}]
  /\ UNCHANGED <<original, todo, solves, opts, x, assumptions, observed, phase>>

(* A clause of the propagator over observed variables, while solving: it is *)
(* added like an original clause, but nothing is restored.                  *)
AddExternalClause(c) ==
  /\ phase = "solving" /\ ~ f.unsat
  /\ VarsOf(c) \subseteq observed /\ c \notin original
  /\ original' = original \cup {c}
  /\ x' = Internalize(x, c)
  /\ f' = AddOriginal(f, c)
  /\ UNCHANGED <<todo, solves, opts, assumptions, observed, phase>>

-----------------------------------------------------------------------------
Next ==
  \/ Add
  \/ \E l \in Assumable : Assume(l)
  \/ \E v \in Observable : AddObservedVar(v)
  \/ Solve \/ Answer
  \/ ElimRound \/ ElimRoundDone \/ ElimDone
  \/ \E v \in Var : TryToEliminateVariable(v)
  \/ \E l \in Lit : Block(l)
  \/ \E c \in Irr : Cover(c)
  \/ Decompose
  \/ \E c \in Learnable : Learn(c)
  \/ \E c \in f.red : Reduce(c)
  \/ \E c, d \in Irr \cup f.red : Subsume(c, d) \/ Strengthen(c, d)
  \/ \E c \in TheoryClauses : AddExternalClause(c)

Spec == Init /\ [][Next]_vars

-----------------------------------------------------------------------------
(* External::extend: backwards over the stack, flipping the witness of a    *)
(* clause that is not satisfied.                                            *)
Extend(m) ==
  FoldRight(LAMBDA e, n : IF Sat(e.cls, n) THEN n ELSE (n \ {-e.wit}) \cup {e.wit},
            x.stack, m)

Inside == phase # "unknown" /\ ~ f.unsat
Assumed == {{l} : l \in assumptions}

(* Whenever a search inside 'solve' could stop with a model of the clauses  *)
(* that are left, External::extend turns it into a model of everything the  *)
(* user and the propagator added and of the assumptions: check_assignment   *)
(* finds no unsatisfied clause.                                             *)
ModelExtends ==
  Inside => \A m \in ModelsOf(Formula \cup Assumed) :
              \A c \in original \cup Assumed : Sat(c, Extend(m))

(* No step makes a satisfiable problem unsatisfiable: as long as the added  *)
(* clauses have a model under the assumptions, so have the clauses left     *)
(* after elimination, blocking, covering, substitution and restoring.       *)
NothingLost ==
  phase # "unknown" /\ ModelsOf(original \cup Assumed) # {} =>
    ~ f.unsat /\ ModelsOf(Formula \cup Assumed) # {}

(* Outside a round of elim_round no clause, redundant ones included, holds  *)
(* an eliminated, pure or substituted variable, which search never assigns  *)
(* consistently with the extension stack.                                   *)
InactiveUnused ==
  phase \in {"solving", "between"} =>
    \A c \in Irr \cup f.red : VarsOf(c) \cap x.inactive = {}

(* While 'solve' runs no literal is tainted and no observed variable is a   *)
(* witness, so that a clause of the propagator, which comes without a       *)
(* restore_clauses, never needs one.                                        *)
ObservedClean ==
  Inside => x.tainted = {} /\ VarsOf(x.witness) \cap observed = {}
=============================================================================
