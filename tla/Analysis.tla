------------------------------ MODULE Analysis ------------------------------
(***************************************************************************)
(* Conflict analysis as operations on a search state: the explanation of   *)
(* external propagations, the actual conflict level, the first unique      *)
(* implication point, minimization, the driving clause and the level to    *)
(* backtrack to; and the analysis of failed assumptions.                   *)
(***************************************************************************)
EXTENDS Clauses

Others(s, c, x) == SelectSeq(literals(s, c), LAMBDA y : y # x)

MarkRoot(s, x) == [MarkFixed(s, x) EXCEPT !.lev[vidx(x)] = 0]

(***************************************************************************)
(* 'learn_external_reason_clause' for the true literal x: a clause, or the *)
(* unit x on the root level.                                               *)
(***************************************************************************)
learn_external_reason_clause(s, x) ==
    LET v == vidx(x)
        t == [s EXCEPT !.ext = @ \ {v}]
    IN  IF Len(Simplified(s, s.why[v])) > 1
        THEN [add_external_clause(t, s.why[v]) EXCEPT !.reason[v] = Len(s.db) + 1]
        ELSE MarkRoot(t, x)

(***************************************************************************)
(* 'explain_external_propagations': backward along the trail every         *)
(* external reason that the conflict depends on is asked for; then forward *)
(* the levels of the literals seen are computed from their reasons.        *)
(***************************************************************************)
explain_reason(a, x, c) ==
    LET Look(b, other) ==
            LET v == vidx(other)
                Seen(t) == [s |-> t,
                            seen |-> IF t.lev[v] > 0 /\ t.reason[v] # 0
                                     THEN b.seen \cup {v} ELSE b.seen]
            IN  IF v \in b.seen \/ b.s.lev[v] = 0 THEN b
                ELSE With(IF v \in b.s.ext THEN learn_external_reason_clause(b.s, -other)
                          ELSE b.s, Seen)
    IN  Forward(Look, a, Others(a.s, c, x))

RealLevel(s, x) ==
    LET l == assignment_level(s, x, s.reason[vidx(x)])
    IN  IF s.reason[vidx(x)] = 0 THEN s
        ELSE IF l = 0 /\ lev(s, x) > 0 THEN MarkRoot(s, x)
        ELSE [s EXCEPT !.lev[vidx(x)] = l]

explain_external_propagations(s) ==
    LET Explain1(a, x) == IF vidx(x) \in a.seen /\ lev(a.s, x) > 0
                          THEN explain_reason(a, x, a.s.reason[vidx(x)]) ELSE a
        Levels(a) == Forward(LAMBDA t, x : IF vidx(x) \in a.seen THEN RealLevel(t, x) ELSE t,
                             a.s, s.trail)
    IN  With(Backward(Explain1, explain_reason([s |-> s, seen |-> {}], 0, s.conflict), s.trail),
             Levels)

(***************************************************************************)
(* 'find_conflict_level' moves two literals of highest level to the front  *)
(* of the conflict, watches included.                                      *)
(***************************************************************************)
ConflictLevel(s) == MaxLevel(s, ToSet(literals(s, s.conflict)))

OnConflictLevel(s) ==
    {x \in ToSet(literals(s, s.conflict)) : lev(s, x) = ConflictLevel(s)}

\* The first literal from position i on with the highest level among them.
Highest(s, lits, i) ==
    Forward(LAMBDA h, j : IF j > i /\ lev(s, lits[j]) > lev(s, lits[h]) THEN j ELSE h,
            i, [j \in DOMAIN lits |-> j])

MoveHighest(s, i) ==
    LET c == s.conflict
        lits == literals(s, c)
        Unwatched(t) == [t EXCEPT !.ws[lits[i]] = SelectSeq(@, LAMBDA w : w.clause # c)]
        Moved(h) ==
            LET t == [s EXCEPT !.db[c].lits = [@ EXCEPT ![i] = lits[h], ![h] = lits[i]]]
            IN  IF h > 2 THEN watch_literal(Unwatched(t), lits[h], t.db[c].lits[3 - i], c) ELSE t
    IN  With(Highest(s, lits, i), Moved)

WithHighestFirst(s) == With(MoveHighest(s, 1), LAMBDA t : MoveHighest(t, 2))

(***************************************************************************)
(* The first UIP: backward along the trail, literals of the current level  *)
(* are resolved with their reasons until a single one is open.             *)
(***************************************************************************)
analyze_reason(a, s, x, c) ==
    Forward(LAMBDA b, other :
                IF vidx(other) \in b.seen \/ lev(s, other) = 0 THEN b
                ELSE [b EXCEPT !.seen = @ \cup {vidx(other)},
                               !.open = IF lev(s, other) = Level(s) THEN @ + 1 ELSE @,
                               !.clause = IF lev(s, other) < Level(s) THEN Append(@, other) ELSE @],
             a, Others(s, c, x))

FirstUIP(s) ==
    LET start == analyze_reason([seen |-> {}, open |-> 0, clause |-> <<>>, uip |-> 0],
                                s, 0, s.conflict)
        Step(a, x) ==
            IF a.uip # 0 \/ vidx(x) \notin a.seen \/ lev(s, x) # Level(s) THEN a
            ELSE IF a.open = 1 THEN [a EXCEPT !.uip = x, !.clause = Append(@, -x)]
            ELSE analyze_reason([a EXCEPT !.open = @ - 1], s, x, s.reason[vidx(x)])
    IN  Backward(Step, start, s.trail)

(***************************************************************************)
(* 'shrink_and_minimize_clause' goes through the levels of the clause, the *)
(* lowest first, with the literals kept and those known to be implied by   *)
(* them (as sets of variables).  early[l] is the trail position before     *)
(* which no literal of level l can be removed.                             *)
(***************************************************************************)
place(s, v) == CHOOSE i \in DOMAIN s.trail : vidx(s.trail[i]) = v

\* 'minimize_literal' for the false literal x: the literals kept imply -x.
\* At depth 0 the only literal seen on a level is not tried.
minimize_literal(s, m, x, depth) ==
    LET implied[i \in 1 .. Len(s.trail)] ==
            LET v == vidx(s.trail[i])
            IN  \/ s.lev[v] = 0 \/ v \in m.keep \cup m.removable
                \/ /\ s.reason[v] # 0 /\ s.lev[v] # Level(s) /\ i > m.early[s.lev[v]]
                   /\ \A y \in ToSet(Others(s, s.reason[v], s.trail[i])) :
                         implied[place(s, vidx(y))]
    IN  /\ depth = 0 => m.count[lev(s, x)] > 1
        /\ implied[place(s, vidx(x))]

(***************************************************************************)
(* 'shrink_block': backward along the trail the literals of the block are  *)
(* resolved with their reasons until one is left, which then replaces the  *)
(* block; it fails at a literal of a lower level that cannot be removed.   *)
(***************************************************************************)
\* Mutant: literals of lower levels are taken to be removable.
shrink_along_reasonBlind(s, m, a, x) ==
    LET new == {vidx(y) : y \in {z \in ToSet(Others(s, s.reason[vidx(x)], x)) : lev(s, z) = lev(s, x)}}
               \ a.shrinkable
    IN  [a EXCEPT !.open = (@ \ {vidx(x)}) \cup new, !.shrinkable = @ \cup new]

shrink_along_reason(s, m, a, x) ==
    LET l == lev(s, x)
        others == {y \in ToSet(Others(s, s.reason[vidx(x)], x)) : lev(s, y) > 0}
        new == {vidx(y) : y \in {z \in others : lev(s, z) = l}} \ a.shrinkable
    IN  [a EXCEPT !.failed = \E y \in others : lev(s, y) < l /\ ~minimize_literal(s, m, y, 1),
                  !.open = (@ \ {vidx(x)}) \cup new,
                  !.shrinkable = @ \cup new]

shrink_block(s, m, block) ==
    LET vs == {vidx(x) : x \in block}
        Step(a, x) ==
            IF a.failed \/ a.uip # 0 \/ vidx(x) \notin a.open THEN a
            ELSE IF a.open = {vidx(x)} THEN [a EXCEPT !.uip = x]
            ELSE shrink_along_reason(s, m, a, x)
    IN  Backward(Step, [open |-> vs, shrinkable |-> vs, failed |-> FALSE, uip |-> 0], s.trail)

shrunken_block_uip(s, m, l, a) ==
    [m EXCEPT !.clause = @ \cup {-a.uip},
              !.keep = @ \cup {vidx(a.uip)},
              !.removable = @ \cup a.shrinkable,
              !.early[l] = place(s, vidx(a.uip)), !.count[l] = 1]

\* The literals of the block one by one in trail order.
shrunken_block_no_uip(s, m, block) ==
    Forward(LAMBDA n, y :
                IF -y \notin block THEN n
                ELSE IF minimize_literal(s, n, -y, 0)
                THEN [n EXCEPT !.removable = @ \cup {vidx(y)}]
                ELSE [n EXCEPT !.keep = @ \cup {vidx(y)}, !.clause = @ \cup {-y}],
            m, s.trail)

minimize_and_shrink_block(s, m, l, block) ==
    IF block = {} THEN m
    ELSE IF Cardinality(block) = 1
    THEN [m EXCEPT !.keep = @ \cup {vidx(x) : x \in block}, !.clause = @ \cup block]
    ELSE With(shrink_block(s, m, block), LAMBDA a :
                IF a.failed THEN shrunken_block_no_uip(s, m, block)
                ELSE shrunken_block_uip(s, m, l, a))

\* a is the result of FirstUIP.
shrink_and_minimize_clause(s, a) ==
    LET seenOn(l) == {v \in a.seen : s.lev[v] = l}
        start == [clause |-> {-a.uip}, keep |-> {}, removable |-> {},
                  early |-> [l \in 1 .. Level(s) |->
                                IF seenOn(l) = {} THEN Len(s.trail) + 1
                                ELSE Min({place(s, v) : v \in seenOn(l)})],
                  count |-> [l \in 1 .. Level(s) |-> Cardinality(seenOn(l))]]
        Block(l) == {x \in ToSet(a.clause) : lev(s, x) = l}
    IN  Forward(LAMBDA m, l : minimize_and_shrink_block(s, m, l, Block(l)),
                start, [l \in 1 .. Level(s) - 1 |-> l]).clause

\* By level and trail position, the highest first.
Later(s, x, y) ==
    \/ lev(s, x) > lev(s, y)
    \/ lev(s, x) = lev(s, y) /\ place(s, vidx(x)) > place(s, vidx(y))

DrivingClause(s) ==
    With(FirstUIP(s), LAMBDA a :
        SetToSortSeq(shrink_and_minimize_clause(s, a), LAMBDA x, y : Later(s, x, y)))

eagerly_subsume_recently_learned_clauses(s, c) ==
    [s EXCEPT !.db = [d \in DOMAIN @ |->
        IF d # c /\ @[d].redundant /\ ToSet(@[c].lits) \subseteq ToSet(@[d].lits)
        THEN [@[d] EXCEPT !.garbage = TRUE] ELSE @[d]]]

(***************************************************************************)
(* 'failing': the failed assumptions, found backward from an assumption    *)
(* that is false, or from all literals of the constraint.                  *)
(***************************************************************************)
\* Mutant: only the reasons of the literals themselves are looked at.
DecisionsBehindShallow(s, from) ==
    LET others == UNION {ToSet(literals(s, s.reason[vidx(x)])) :
                            x \in {y \in from : s.reason[vidx(y)] # 0}}
    IN  {-y : y \in {z \in others : lev(s, z) > 0 /\ s.reason[vidx(z)] = 0}}

\* The decisions that the literals in 'from', all true, depend on.
DecisionsBehind(s, from) ==
    LET Step(a, x) ==
            IF x \notin a.todo \/ lev(s, x) = 0 THEN a
            ELSE IF s.reason[vidx(x)] = 0 THEN [a EXCEPT !.found = @ \cup {x}]
            ELSE [a EXCEPT !.todo = @ \cup {-y : y \in ToSet(Others(s, s.reason[vidx(x)], x))}]
    IN  Backward(Step, [todo |-> from, found |-> {}], s.trail).found

\* Falsified on the root level, or clashing with another assumption, or
\* implied to be false on the lowest level.
failing(s, assumptions, constraint, unsat_constraint) ==
    LET falsified == SelectSeq(assumptions, LAMBDA x : val(s, x) < 0)
        units == SelectSeq(falsified, LAMBDA x : lev(s, x) = 0)
        clashing == SelectSeq(falsified, LAMBDA x : s.reason[vidx(x)] = 0)
        first == Forward(LAMBDA f, x : IF lev(s, x) < lev(s, f) THEN x ELSE f,
                         falsified[1], falsified)
    IN  IF unsat_constraint THEN DecisionsBehind(s, {-x : x \in ToSet(constraint)})
        ELSE IF units # <<>> THEN {units[1]}
        ELSE IF clashing # <<>> THEN {clashing[1], -clashing[1]}
        ELSE {first} \cup DecisionsBehind(s, {-first})
=============================================================================
