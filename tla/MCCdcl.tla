------------------------------- MODULE MCCdcl -------------------------------
(***************************************************************************)
(* Problems for Cdcl over five variables, each with 'chrono' on and off.   *)
(***************************************************************************)
EXTENDS Cdcl

Each(formula, theory, assumptions, constraint) ==
    {[formula |-> formula, theory |-> theory, assumptions |-> assumptions,
      constraint |-> constraint, chrono |-> b] : b \in BOOLEAN}

\* Two searches with propagator: propagations explained later, rejected
\* models, falsified, propagating and satisfied clauses, restarts.
Searches ==
    Each(<<<<5>>, <<1, 2>>, <<-1, 3>>, <<-2, -3, 4>>, <<1, -4>>>>,
         {<<-1, -2, -3>>, <<2, 4, -5, 2>>}, <<>>, <<>>)
    \cup
    Each(<<<<5>>, <<1, 2, 3>>, <<-1, -2, -3>>, <<-1, 4>>, <<3, -4>>>>,
         {<<-1, -2, -3>>}, <<>>, <<>>)

\* Units of the propagator, explained to be on the root level.
Units ==
    Each(<<<<5>>, <<-1, 2>>, <<-1, -2>>, <<4, -4>>, <<3, 5>>, <<3, 4>>>>, {<<1>>, <<2>>}, <<>>, <<>>)
    \cup Each(<<<<5>>, <<-5>>>>, {}, <<>>, <<>>)

\* Assumptions implied to be false, one of them through the propagator.
ImpliedFalse ==
    UNION {Each(<<<<5>>, <<-1, -2, 3>>, <<-3, 4, -5>>>>, {<<-4, -2, -3>>}, a, <<>>) :
              a \in {<<1, 2>>, <<3, 2>>}}

\* A constraint that fails, or holds, with and without assumptions.
Constrained ==
    UNION {Each(<<<<5>>, <<1, -3>>, <<2, -3>>, <<3, 4>>>>, {<<-4, 1>>, <<-4, 2, -3>>},
                a, <<-1, -2>>) : a \in {<<>>, <<4>>, <<-4>>}}

\* An unsatisfiable propagator; clashing and root-level falsified assumptions.
Contradictory ==
    UNION {Each(<<<<5>>, <<1, 2, 4>>, <<1, -2>>, <<-1, 3, 2>>, <<-1, -3>>, <<4, -5>>>>,
                {<<1, -1, 2>>, <<3>>, <<-5>>, <<>>}, a, <<>>) :
              a \in {<<>>, <<3, -3>>, <<-1>>, <<-4>>}}

\* Learned clauses with a block of literals that shrinks, and two that do not.
Shrinking ==
    Each(<<<<-1, 2>>, <<-1, -2, -3, 4>>, <<-1, -2, -3, -4>>, <<3, 4>>, <<5, -4>>>>,
         {}, <<1>>, <<>>)
    \cup
    Each(<<<<-1, -2, 3>>, <<-2, -3, -4, 5>>, <<-2, -3, -4, -5>>>>, {}, <<1, 2>>, <<>>)
    \cup
    Each(<<<<-1, -2, 3>>, <<-2, -3, -4, 5>>>>, {<<-2, -3, -4, -5>>, <<4, 5, -2>>},
         <<1, 2>>, <<>>)

\* Literals of a clause falsified out of order: the highest one is not watched.
OutOfOrderWatches ==
    Each(<<<<1, -3, -4, 5>>, <<-1, 5>>, <<2, -5, 1>>, <<-1, 2, 4>>, <<2, 4, 5>>>>,
         {<<2, -5, -3>>}, <<-2, 3>>, <<>>)
    \cup
    Each(<<<<2, 5>>, <<1, -2>>, <<-4, 3, -5, 2>>>>, {<<-2, -1>>}, <<-3>>, <<>>)

\* The search for a replacement wraps around in a clause of four literals.
Wrapping ==
    Each(<<<<-5, 3, -1>>, <<-5, -2, -4>>, <<-5, 2, 4>>, <<4, 2, -1>>, <<-2, -1, -5, 4>>>>,
         {}, <<3>>, <<>>)

MCProblems == UNION {Searches, Units, ImpliedFalse, Constrained, Contradictory, Shrinking,
                     OutOfOrderWatches, Wrapping}
=============================================================================
