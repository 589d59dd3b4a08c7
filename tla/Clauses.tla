------------------------------- MODULE Clauses -------------------------------
(***************************************************************************)
(* The clause data base of the search and the two watches of each clause,  *)
(* as operations on a search state s that has, beyond the fields of Trail, *)
(*   db          the clauses in the order in which they were added;        *)
(*   ws          the watch list of each literal;                           *)
(*   reason      the clause that implied a variable, 0 if none;            *)
(*   propagated  how much of the trail 'propagate' has gone through;       *)
(*   visit       the next position in the watch list it goes through;      *)
(*   conflict    the falsified clause, 0 if none;                          *)
(*   chrono      option 'chrono' (FALSE: 0, TRUE: its default, 1);         *)
(*   why         for a variable that the propagator implied, the clause it *)
(*               will answer when it is asked for the reason.              *)
(* The two watched literals of a clause are the first two; 'pos' is where  *)
(* the last replacement was found, counted from 0 as in the code.          *)
(***************************************************************************)
EXTENDS Trail, SequencesExt

\* Op at the value of e, and folds that evaluate each intermediate value once.
With(e, Op(_)) == CHOOSE r \in {Op(v) : v \in {e}} : TRUE

Forward(Op(_, _), base, seq) ==
    FoldLeft(LAMBDA a, x : With(a, LAMBDA b : Op(b, x)), base, seq)
Backward(Op(_, _), base, seq) ==
    FoldRight(LAMBDA x, a : With(a, LAMBDA b : Op(b, x)), seq, base)

EmptySearch(chrono) ==
    [trail |-> <<>>, control |-> <<>>, lev |-> [v \in Var |-> 0], ext |-> {},
     fixed |-> {}, obs |-> {}, notified |-> 0, view |-> <<{}>>, chrono |-> chrono,
     db |-> <<>>, ws |-> [x \in Lit |-> <<>>], reason |-> [v \in Var |-> 0],
     propagated |-> 0, visit |-> 1, conflict |-> 0, why |-> [v \in Var |-> <<>>]]

lev(s, x) == s.lev[vidx(x)]
val(s, x) == IF x \in OnTrail(s) THEN 1 ELSE IF -x \in OnTrail(s) THEN -1 ELSE 0

\* The value of a literal on the root level.
fixed(s, x) == IF x \in s.fixed THEN 1 ELSE IF -x \in s.fixed THEN -1 ELSE 0

literals(s, c) == s.db[c].lits

(***************************************************************************)
(* 'search_assign' of a literal implied by clause c (0: a unit clause) on  *)
(* its assignment level.                                                   *)
(***************************************************************************)
\* Mutant: only the other watched literal is looked at.
assignment_levelWatch(s, x, c) ==
    MaxLevel(s, {literals(s, c)[1], literals(s, c)[2]} \ {x})

assignment_level(s, x, c) == MaxLevel(s, ToSet(literals(s, c)) \ {x})

search_assign(s, x, c) ==
    LET l == IF c = 0 THEN 0 ELSE IF s.chrono THEN assignment_level(s, x, c) ELSE Level(s)
    IN  [SearchAssign(s, x, l) EXCEPT !.reason[vidx(x)] = IF l = 0 THEN 0 ELSE c]

search_assign_driving(s, x, c) == NotifyAssignments(search_assign(s, x, c))

\* Mutant: the literals that stay out of order are not propagated again.
backtrackOnce(s, n) ==
    IF n = Level(s) THEN s
    ELSE LET t == Backtrack(s, n)
             assignedVars == {vidx(x) : x \in OnTrail(t)}
         IN  [t EXCEPT !.propagated = IF @ > Len(t.trail) THEN Len(t.trail) ELSE @,
                       !.visit = 1,
                       !.reason = [v \in Var |-> IF v \in assignedVars THEN @[v] ELSE 0],
                       !.why = [v \in Var |-> IF v \in assignedVars THEN @[v] ELSE <<>>]]

backtrack(s, n) ==
    IF n = Level(s) THEN s
    ELSE LET t == Backtrack(s, n)
             assigned == s.control[n + 1].trail
             assignedVars == {vidx(x) : x \in OnTrail(t)}
         IN  [t EXCEPT !.propagated = IF @ > assigned THEN assigned ELSE @,
                       !.visit = 1,
                       !.reason = [v \in Var |-> IF v \in assignedVars THEN @[v] ELSE 0],
                       !.why = [v \in Var |-> IF v \in assignedVars THEN @[v] ELSE <<>>]]

(***************************************************************************)
(* A new clause and its two watches.                                       *)
(***************************************************************************)
watch_literal(s, x, blit, c) ==
    [s EXCEPT !.ws[x] = Append(@, [clause |-> c, blit |-> blit])]

watch_clause(s, c) ==
    LET l == literals(s, c)
    IN  watch_literal(watch_literal(s, l[1], l[2], c), l[2], l[1], c)

new_clause(s, lits, red) ==
    [s EXCEPT !.db = Append(@, [lits |-> lits, pos |-> 2, redundant |-> red, garbage |-> FALSE])]

AddWatched(s, lits, red) ==
    LET t == new_clause(s, lits, red) IN watch_clause(t, Len(t.db))

(***************************************************************************)
(* 'propagate' on the next watch of the literal that is propagated: the    *)
(* watch stays in its list, or moves to that of another literal.           *)
(***************************************************************************)
Propagating(s) == -s.trail[s.propagated + 1]

Keep(s) == [s EXCEPT !.visit = @ + 1]
KeepWithBlit(s, r) == Keep([s EXCEPT !.ws[Propagating(s)][s.visit].blit = r])

\* Mutant: the watch after a dropped one is skipped.
DropSkipping(s) == [s EXCEPT !.ws[Propagating(s)] = RemoveAt(@, s.visit), !.visit = @ + 1]

Drop(s) == [s EXCEPT !.ws[Propagating(s)] = RemoveAt(@, s.visit)]

\* The positions where a replacement is searched: from 'pos' on, then the others.
SearchOrder(c) ==
    [i \in 1 .. Len(c.lits) - 2 |->
        IF c.pos + i - 1 < Len(c.lits) THEN c.pos + i - 1 ELSE c.pos + i + 1 - Len(c.lits)]

VisitBinary(s, w) ==
    IF val(s, w.blit) < 0 THEN Keep([s EXCEPT !.conflict = w.clause])
    ELSE Keep(search_assign(s, w.blit, w.clause))

VisitLong(s, w) ==
    LET lit == Propagating(s)
        c == s.db[w.clause]
        other == IF c.lits[1] = lit THEN c.lits[2] ELSE c.lits[1]
        order == SearchOrder(c)
        found == SelectInSeq(order, LAMBDA k : val(s, c.lits[k + 1]) >= 0)
        k == order[found]
        r == c.lits[k + 1]
        t == IF found = 0 THEN s ELSE [s EXCEPT !.db[w.clause].pos = k]
        Replaced == [t EXCEPT !.db[w.clause].lits = [@ EXCEPT ![1] = other, ![2] = r, ![k + 1] = lit]]
    IN  CASE c.garbage -> Drop(s)
          [] ~c.garbage /\ val(s, other) > 0 -> KeepWithBlit(s, other)
          [] ~c.garbage /\ val(s, other) <= 0 /\ found # 0 ->
                IF val(s, r) > 0 THEN KeepWithBlit(t, r)
                ELSE Drop(watch_literal(Replaced, r, lit, w.clause))
          [] ~c.garbage /\ val(s, other) = 0 /\ found = 0 -> Keep(search_assign(s, other, w.clause))
          [] ~c.garbage /\ val(s, other) < 0 /\ found = 0 -> [s EXCEPT !.conflict = w.clause]

Binary(s, w) == Len(literals(s, w.clause)) = 2

Visit(s) ==
    LET w == s.ws[Propagating(s)][s.visit]
    IN  IF val(s, w.blit) > 0 THEN Keep(s)
        ELSE IF Binary(s, w) THEN VisitBinary(s, w) ELSE VisitLong(s, w)

\* A binary conflict stops at the next long clause that it does not skip.
MoreWatches(s) ==
    LET ws == s.ws[Propagating(s)]
    IN  /\ s.visit <= Len(ws)
        /\ s.conflict # 0 =>
              /\ Binary(s, [clause |-> s.conflict, blit |-> 0])
              /\ val(s, ws[s.visit].blit) > 0 \/ Binary(s, ws[s.visit])

NextLiteral(s) == [s EXCEPT !.propagated = @ + 1, !.visit = 1]

Propagated(s) == s.propagated = Len(s.trail) /\ s.conflict = 0

(***************************************************************************)
(* A clause through the API: duplicates and literals that are false are    *)
(* dropped; a tautology, or a clause with a true literal, is skipped.      *)
(***************************************************************************)
Tautology(lits) == \E x \in ToSet(lits) : -x \in ToSet(lits)

\* The first occurrences of the literals.
Distinct(lits) ==
    Forward(LAMBDA c, x : IF x \in ToSet(c) THEN c ELSE Append(c, x), <<>>, lits)

(***************************************************************************)
(* A clause of the propagator: only the root level counts.  The scan of    *)
(* 'move_literal_to_watch' over the positions after i keeps the best one   *)
(* and swaps it to i.                                                      *)
(***************************************************************************)
Simplified(s, lits) == Distinct(SelectSeq(lits, LAMBDA x : fixed(s, x) = 0))
Skipped(s, lits) == Tautology(SelectSeq(lits, LAMBDA x : fixed(s, x) = 0))
                    \/ \E x \in ToSet(lits) : fixed(s, x) > 0

Better(s, other, best) ==
    CASE val(s, other) < 0 -> val(s, best) < 0 /\ lev(s, other) > lev(s, best)
      [] val(s, other) > 0 -> val(s, best) <= 0 \/ lev(s, other) < lev(s, best)
      [] OTHER -> val(s, best) < 0

move_literal_to_watch(s, c, i) ==
    LET Scan(best, j) == IF j > i /\ Better(s, c[j], c[best]) THEN j ELSE best
    IN  With(Forward(Scan, i, [j \in DOMAIN c |-> j]), LAMBDA h : [c EXCEPT ![i] = c[h], ![h] = c[i]])

\* Mutant: only one literal is moved.
OrderedFirst(s, c) == move_literal_to_watch(s, c, 1)

Ordered(s, c) == With(move_literal_to_watch(s, c, 1), LAMBDA d : move_literal_to_watch(s, d, 2))

\* 'add_external_clause', if two or more literals remain.
add_external_clause(s, lits) == AddWatched(s, Ordered(s, Simplified(s, lits)), FALSE)
=============================================================================
