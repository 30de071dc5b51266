---- MODULE MCPlanning ----
EXTENDS Planning
====
