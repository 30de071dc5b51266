---- MODULE MCApiLogging ----
EXTENDS ApiLogging
====
