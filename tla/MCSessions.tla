----------------------------- MODULE MCSessions -----------------------------
EXTENDS Sessions, TLC

\* Neither ids nor names are compared with anything but one another.
MCSymmetry == Permutations(Ids) \union Permutations(Usernames)
=============================================================================
