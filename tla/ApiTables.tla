----------------------------- MODULE ApiTables -----------------------------
(***************************************************************************)
(* The tables that the calls of the solver's interface change, as far as   *)
(* their life time goes: External (external.cpp) has its own variables,    *)
(* freeze counts, assumptions and constraint, Internal (assume.cpp,        *)
(* constrain.cpp, compact.cpp, internal.hpp) has a second copy of each,    *)
(* over internal literals.  Map "e2i" connects the two and compacting      *)
(* changes it while the copies are in use.                                 *)
(*                                                                         *)
(* The operators are functions from tables to tables, so that a call which *)
(* makes several of the changes is their composition.  Clauses and values  *)
(* above the root level are abstracted: of the trail we keep its decision  *)
(* level and what it is still good for.                                    *)
(***************************************************************************)
EXTENDS Integers, FiniteSets, FiniteSetsExt

CONSTANTS
  MaxVar,        \* external variables are 1 .. MaxVar
  UINT_MAX       \* largest value of a reference count

TableConstants == MaxVar \in Nat \ {0} /\ UINT_MAX \in Nat \ {0}

Var == 1 .. MaxVar
Lit == (-MaxVar .. MaxVar) \ {0}

Abs(lit) == IF lit < 0 THEN -lit ELSE lit

(***************************************************************************)
(* Fields of a table "t":                                                  *)
(*   max, e2i              External::max_var and e2i; 0 is "not mapped"    *)
(*   frozentab             External::frozentab                             *)
(*   is_observed           External::is_observed                           *)
(*   propagator            an ExternalPropagator is connected              *)
(*   eassumptions          External::assumptions                           *)
(*   econstraint, eclosed  External::constraint, and whether it ends in 0  *)
(*   imax, status, val     Internal::max_var, Flags::status, root values   *)
(*   ifrozen, relevanttab  Internal::frozentab and relevanttab             *)
(*   assumptions           Internal::assumptions (and flags 'assumed')     *)
(*   constraint            Internal::constraint                            *)
(*   unsat_constraint, marked_failed, unsat    as in Internal              *)
(*   original              Internal::original, the clause being added      *)
(*   level                 decision level                                  *)
(*   trail                 what the decisions still hold: the model of the *)
(*                         last answer, its failed assumptions, or nothing *)
(***************************************************************************)
Tables ==
  [max : 0 .. MaxVar, e2i : [Var -> -MaxVar .. MaxVar],
   frozentab : [Var -> 0 .. UINT_MAX], is_observed : [Var -> BOOLEAN],
   propagator : BOOLEAN, eassumptions : SUBSET Lit,
   econstraint : SUBSET Lit, eclosed : BOOLEAN,
   imax : 0 .. MaxVar, status : [Var -> {"unused", "active", "fixed", "eliminated"}],
   val : [Var -> -1 .. 1], ifrozen : [Var -> 0 .. UINT_MAX],
   relevanttab : [Var -> 0 .. UINT_MAX], assumptions : SUBSET Lit,
   constraint : SUBSET Lit, unsat_constraint : BOOLEAN,
   marked_failed : BOOLEAN, unsat : BOOLEAN, original : SUBSET Lit,
   level : Nat, trail : {"none", "model", "failed"}]

\* A new solver: no variable, nothing frozen, assumed or constrained.
EmptyTables ==
  [max |-> 0, e2i |-> [v \in Var |-> 0],
   frozentab |-> [v \in Var |-> 0], is_observed |-> [v \in Var |-> FALSE],
   propagator |-> FALSE, eassumptions |-> {},
   econstraint |-> {}, eclosed |-> FALSE,
   imax |-> 0, status |-> [v \in Var |-> "unused"],
   val |-> [v \in Var |-> 0], ifrozen |-> [v \in Var |-> 0],
   relevanttab |-> [v \in Var |-> 0], assumptions |-> {},
   constraint |-> {}, unsat_constraint |-> FALSE,
   marked_failed |-> TRUE, unsat |-> FALSE, original |-> {},
   level |-> 0, trail |-> "none"]

----------------------------------------------------------------------------
(* Variables and literals                                                  *)

\* Internal::fixed of an internal literal: its value on the root level.
RootVal(t, ilit) == IF ilit < 0 THEN -t.val[-ilit] ELSE t.val[ilit]

\* The internal literal of an external one.
Ilit(t, elit) == IF elit < 0 THEN -t.e2i[-elit] ELSE t.e2i[elit]

\* 'if (level) backtrack ()': what the decisions held is gone.
backtrack(t) ==
  IF t.level = 0 THEN t ELSE [t EXCEPT !.level = 0, !.trail = "none"]

\* Internal::init_vars: new internal variables come with a backtrack, unless
\* a propagator is connected, which may ask for them in a callback.
init_vars(t, new_max_var) ==
  IF new_max_var <= t.imax THEN t
  ELSE [(IF t.propagator THEN t ELSE backtrack(t)) EXCEPT !.imax = new_max_var]

\* External::init: all the external variables up to "eidx" get an internal one.
init(t, eidx) ==
  IF eidx <= t.max THEN t
  ELSE [init_vars(t, t.imax + eidx - t.max) EXCEPT
          !.e2i = [v \in Var |-> IF v \in t.max + 1 .. eidx
                                 THEN t.imax + v - t.max ELSE t.e2i[v]],
          !.max = eidx]

\* A variable that compacting had dropped gets a new internal index.
remap(t, eidx) ==
  IF t.e2i[eidx] # 0 THEN t
  ELSE [init_vars(t, t.imax + 1) EXCEPT !.e2i[eidx] = t.imax + 1]

\* External::internalize: map the variable and activate it.
internalize(t, elit) ==
  LET u == remap(init(t, Abs(elit)), Abs(elit))
  IN  [u EXCEPT !.status[Abs(u.e2i[Abs(elit)])] =
                   IF @ = "fixed" THEN @ ELSE "active"]

----------------------------------------------------------------------------
(* Freezing and melting                                                    *)

\* Reference counts saturate at the top, and wrap below zero.
Incremented(ref) == IF ref < UINT_MAX THEN ref + 1 ELSE ref
Decremented(ref) == IF ref = UINT_MAX THEN ref
                    ELSE IF ref = 0 THEN UINT_MAX ELSE ref - 1

\* Internal::freeze and Internal::melt.
ifreeze(t, ilit) == [t EXCEPT !.ifrozen[Abs(ilit)] = Incremented(@)]
imelt(t, ilit) == [t EXCEPT !.ifrozen[Abs(ilit)] = Decremented(@)]

ifreezeAll(t, ilits) == FoldSet(LAMBDA l, u : ifreeze(u, l), t, ilits)
imeltAll(t, ilits) == FoldSet(LAMBDA l, u : imelt(u, l), t, ilits)

\* External::freeze and External::melt count, and pass the call on.
freeze(t, elit) ==
  LET u == internalize(t, elit)
  IN  ifreeze([u EXCEPT !.frozentab[Abs(elit)] = Incremented(@)], Ilit(u, elit))

melt(t, elit) ==
  LET u == internalize(t, elit)
  IN  imelt([u EXCEPT !.frozentab[Abs(elit)] = Decremented(@)], Ilit(u, elit))

----------------------------------------------------------------------------
(* Assumptions                                                             *)

\* Mutant: an assumed literal is frozen again.
iassumeTwice(t, ilit) ==
  ifreeze([t EXCEPT !.assumptions = @ \cup {ilit}], ilit)

\* Mutant: assumptions are not frozen.
iassumeMolten(t, ilit) == [t EXCEPT !.assumptions = @ \cup {ilit}]

\* Internal::assume: a literal is assumed, and frozen, once.
iassume(t, ilit) ==
  IF ilit \in t.assumptions THEN t
  ELSE ifreeze([t EXCEPT !.assumptions = @ \cup {ilit}], ilit)

\* External::assume.
assume(t, elit) ==
  LET u == internalize([t EXCEPT !.eassumptions = @ \cup {elit}], elit)
  IN  iassume(u, Ilit(u, elit))

\* Internal::reset_assumptions.
ireset_assumptions(t) ==
  [imeltAll(t, t.assumptions) EXCEPT !.assumptions = {}, !.marked_failed = TRUE]

\* Mutant: the external copy is kept.
reset_assumptionsInside(t) == ireset_assumptions(t)

\* External::reset_assumptions.
reset_assumptions(t) == ireset_assumptions([t EXCEPT !.eassumptions = {}])

----------------------------------------------------------------------------
(* The constraint                                                          *)

\* Internal::reset_constraint.
ireset_constraint(t) ==
  [imeltAll(t, t.constraint) EXCEPT !.constraint = {}, !.unsat_constraint = FALSE]

\* External::reset_constraint.
reset_constraint(t) ==
  ireset_constraint([t EXCEPT !.econstraint = {}, !.eclosed = FALSE])

\* Internal::constrain (0): drop the constraint if the root level satisfies
\* it, drop its false literals, and freeze what is left.
iclose_constraint(t) ==
  LET u    == backtrack(t)
      rest == {l \in u.constraint : RootVal(u, l) = 0}
      satisfied == \/ \E l \in u.constraint : RootVal(u, l) = 1
                   \/ \E l \in rest : -l \in rest
  IN  IF satisfied THEN [u EXCEPT !.constraint = {}]
      ELSE IF rest = {} THEN [u EXCEPT !.constraint = {}, !.unsat_constraint = TRUE]
      ELSE ifreezeAll([u EXCEPT !.constraint = rest], rest)

\* A complete constraint is replaced by the next one.
ReplaceConstraint(t) == IF t.eclosed THEN reset_constraint(t) ELSE t

\* External::constrain with a literal, and with 0.
constrain(t, elit) ==
  LET u == internalize([ReplaceConstraint(t) EXCEPT !.econstraint = @ \cup {elit}],
                       elit)
  IN  [u EXCEPT !.constraint = @ \cup {Ilit(u, elit)}]

close_constraint(t) ==
  iclose_constraint([ReplaceConstraint(t) EXCEPT !.eclosed = TRUE])

----------------------------------------------------------------------------
(* Observed variables                                                      *)

\* External::add_observed_var and Internal::add_observed_var.
add_observed_var(t, elit) ==
  IF ~t.propagator \/ t.is_observed[Abs(elit)] THEN t
  ELSE LET u == [freeze(t, elit) EXCEPT !.is_observed[Abs(elit)] = TRUE]
       IN  [u EXCEPT !.relevanttab[Abs(Ilit(u, elit))] = Incremented(@)]

\* Internal::remove_observed_var: the count of a fixed variable is dropped.
iremove_observed_var(t, ilit) ==
  LET fixed == RootVal(t, ilit) # 0
  IN  [(IF fixed THEN t ELSE backtrack(t)) EXCEPT
         !.relevanttab[Abs(ilit)] = IF fixed THEN 0 ELSE Decremented(@)]

\* External::remove_observed_var of an observed variable.
unobserve(t, elit) ==
  [melt(iremove_observed_var(t, Ilit(t, elit)), elit) EXCEPT
     !.is_observed[Abs(elit)] = FALSE]

remove_observed_var(t, elit) ==
  IF t.propagator /\ Abs(elit) <= t.max /\ t.is_observed[Abs(elit)]
  THEN unobserve(t, elit) ELSE t

\* External::reset_observed_vars.
reset_observed_vars(t) ==
  FoldSet(LAMBDA v, u : unobserve(u, v), t, {v \in 1 .. t.max : t.is_observed[v]})

----------------------------------------------------------------------------
(* Compacting                                                              *)

FirstFixed(t) ==
  LET fixed == {v \in 1 .. t.imax : t.status[v] = "fixed"}
  IN  IF fixed = {} THEN 0 ELSE Min(fixed)

Kept(t, src) == t.status[src] = "active" \/ src = FirstFixed(t)

\* Mapper::map_idx: active variables and the first fixed one move down.
map_idx(t, src) ==
  IF Kept(t, src) THEN Cardinality({v \in 1 .. src : Kept(t, v)}) ELSE 0

\* Mapper::map_lit: the other fixed literals become the first fixed variable.
map_lit(t, src) ==
  LET dst == IF src = 0 THEN 0 ELSE map_idx(t, Abs(src))
      fix == FirstFixed(t)
  IN  IF src = 0 THEN 0
      ELSE IF dst # 0 THEN (IF src < 0 THEN -dst ELSE dst)
      ELSE IF RootVal(t, src) = 0 THEN 0
      ELSE IF RootVal(t, src) = t.val[fix] THEN map_idx(t, fix) ELSE -map_idx(t, fix)

NewMaxVar(t) == Cardinality({v \in 1 .. t.imax : Kept(t, v)})

\* Mapper::map_vector.
map_vector(t, vector, default) ==
  [dst \in Var |->
     IF dst <= NewMaxVar(t)
     THEN vector[CHOOSE src \in 1 .. t.imax : map_idx(t, src) = dst] ELSE default]

\* The special code for 'frozentab' and 'relevanttab' adds up the counts, in
\* the order of the old indices.
AddUp(t, count) ==
  LET moved[src \in 0 .. t.imax] ==
        IF src = 0 THEN count
        ELSE LET c == moved[src - 1]
                 dst == Abs(map_lit(t, src))
             IN  IF dst \in {0, src} THEN c
                 ELSE [c EXCEPT ![dst] = (c[dst] + c[src]) % (UINT_MAX + 1),
                                ![src] = 0]
  IN  [v \in Var |-> IF v <= NewMaxVar(t) THEN moved[t.imax][v] ELSE 0]

\* Internal::compact: the internal assumptions and the constraint are taken
\* back, the variables renumbered, and both entered again from the external
\* copies.
compact(t) ==
  LET a == IF t.assumptions # {} THEN ireset_assumptions(t) ELSE t
      b == IF a.constraint # {} THEN ireset_constraint(a) ELSE a
      c == [b EXCEPT !.e2i = [v \in Var |-> map_lit(b, b.e2i[v])],
                     !.ifrozen = AddUp(b, b.ifrozen),
                     !.relevanttab = AddUp(b, b.relevanttab),
                     !.status = map_vector(b, b.status, "unused"),
                     !.val = map_vector(b, b.val, 0),
                     !.imax = NewMaxVar(b)]
      d == FoldSet(LAMBDA elit, u : iassume(u, Ilit(u, elit)), c, c.eassumptions)
  IN  IF a.constraint = {} THEN d
      ELSE iclose_constraint([d EXCEPT !.constraint =
                                {Ilit(d, elit) : elit \in d.econstraint}])
=============================================================================
