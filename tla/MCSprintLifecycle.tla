-------------------------- MODULE MCSprintLifecycle --------------------------
(***************************************************************************)
(* Small instances of SprintLifecycle: one shared sprint and one or two    *)
(* later ones, two projects, an issue of each.                             *)
(***************************************************************************)
EXTENDS SprintLifecycle, TLC

CONSTANTS p, q, i, k

OfBoth == (i :> p) @@ (k :> q)
OfOne == (i :> p) @@ (k :> p)
HandlerSymmetry == Permutations(Admins) \cup Permutations(Movers)
\* Two issues of one project are alike.
FullSymmetry == HandlerSymmetry \cup Permutations({i, k})
=============================================================================
