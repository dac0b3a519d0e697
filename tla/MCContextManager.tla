-------------------------- MODULE MCContextManager --------------------------
(***************************************************************************)
(* Instances of ContextManager for TLC.                                    *)
(***************************************************************************)
EXTENDS ContextManagerProps, TLC

CONSTANTS r1, r2, r3, s1, s2

\* r1 and r2 share a context manager, r3 comes through another one.
MCServerOf == (r1 :> s1) @@ (r2 :> s1) @@ (r3 :> s2)
MCServerOf2 == (r1 :> s1) @@ (r2 :> s2)

\* The requests of one context manager are interchangeable.
Symmetry == Permutations({r1, r2})
=============================================================================
