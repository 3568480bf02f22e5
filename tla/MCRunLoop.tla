----------------------------- MODULE MCRunLoop -----------------------------
(***************************************************************************)
(* Plan sets for TLC.  Numbers are what the planner wrote before Plan      *)
(* renumbers; InOrder ones are already 1..n.                               *)
(***************************************************************************)
EXTENDS RunOnStream, FiniteSetsExt, Functions

InOrder(n, deps(_)) ==
    {[i \in 1 .. n |-> [given |-> i, kind |-> k[i], depends_on |-> d[i]]] :
        k \in [1 .. n -> Kinds],
        d \in {f \in [1 .. n -> SUBSET (1 .. n)] : \A i \in 1 .. n : f[i] \subseteq deps(i)}}

\* Three steps of any kind, needing any earlier ones.
BackwardPlans == InOrder(3, LAMBDA i : 1 .. i - 1)

\* Two steps of any kind that need any steps, themselves and each other too.
TwoStepPlans == InOrder(2, LAMBDA i : 1 .. 2)

\* Four steps without dependencies: builds between contents and summaries.
LongPlans == InOrder(4, LAMBDA i : {})

\* Three content steps with different numbers, each needing at most one number
\* that is not its own.
NumberedPlans ==
    {[i \in 1 .. 3 |-> [given |-> g[i], kind |-> "content", depends_on |-> d[i]]] :
        <<g, d>> \in {<<h, e>> \in Injection(1 .. 3, 0 .. 3) \X
                                 [1 .. 3 -> {{}} \cup kSubset(1, 0 .. 3)] :
                        \A i \in 1 .. 3 : h[i] \notin e[i]}}

\* Three content steps, each needing at most one number, which may be its own,
\* a later step's, or no step's.
LoosePlans ==
    {[i \in 1 .. 3 |-> [given |-> i, kind |-> "content", depends_on |-> d[i]]] :
        d \in [1 .. 3 -> {{}} \cup kSubset(1, 0 .. 3)]}

\* Without NumberedPlans: only NamedDependenciesDone looks at given numbers.
AllPlans == BackwardPlans \cup TwoStepPlans \cup LongPlans \cup LoosePlans
=============================================================================
