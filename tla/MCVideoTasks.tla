---- MODULE MCVideoTasks ----
EXTENDS VideoTasks, TLC

\* Task ids are interchangeable, and so are servers.
Symmetry == Permutations(Tasks) \union Permutations(Servers)
====
