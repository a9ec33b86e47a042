------------------------- MODULE MCApplicationEngine -------------------------
EXTENDS ApplicationEngine, TLC

CONSTANTS c1, c2, r1, r2, r3, p, q, f1, f2, k1, k2, k3

OnePosting   == [r \in {r1} |-> p]
WithLegacy   == (r1 :> p @@ r2 :> p @@ r3 :> q)
OnePermit    == k1 :> [run |-> r1, review |-> f1]
PermitEach   == (k1 :> [run |-> r1, review |-> f1] @@
                 k2 :> [run |-> r2, review |-> f1] @@
                 k3 :> [run |-> r3, review |-> f1])
Symmetry     == Permutations(Call)

\* r1 and r2 differ in nothing but their names: c1 need not ask for both.
TwoRunsInit  == Init /\ req[c1].run # r2
TwoRunsSpec  == TwoRunsInit /\ [][Next]_vars /\ Fairness
=============================================================================
