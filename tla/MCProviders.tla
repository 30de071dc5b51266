----------------------------- MODULE MCProviders -----------------------------
EXTENDS Providers, TLC

CONSTANTS n1, n2

\* The built-in provider has one of the names, so that a row of the user can be in its way.
MCBuiltinName == [b \in Builtins |-> n1]

Symmetry == Permutations(Servers) \union Permutations(Customs)
=============================================================================
