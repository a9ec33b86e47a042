------------------------ MODULE MCApplicationExecution ------------------------
EXTENDS ApplicationExecution, TLC

Symm == Permutations(Call) \cup Permutations(Review)
=============================================================================
