---------------------------- MODULE ProviderTable ----------------------------
(***************************************************************************)
(* What the providers of a user promise: a table on which every operation  *)
(* takes effect at one moment, as if there were one session at a time.  It *)
(* is implemented by Providers, where an operation is several statements   *)
(* of one session among those of others.                                   *)
(***************************************************************************)

CONSTANTS Ids, Builtins, BuiltinName, Names, UserConfigs, EnvConfigs

VARIABLES
  table,   \* the providers that are there, by id
  known    \* the ids that have been in the table

vars == <<table, known>>

-----------------------------------------------------------------------------

Row == [name : Names, config : UserConfigs \union EnvConfigs, builtin : BOOLEAN]

UniqueNames(t) == \A p, q \in DOMAIN t : t[p].name = t[q].name => p = q

\* A table of an earlier release: nothing in it is flagged as built-in yet.
Init ==
  /\ DOMAIN table \subseteq Ids
  /\ \A p \in DOMAIN table : table[p] \in Row /\ ~table[p].builtin
  /\ UniqueNames(table)
  /\ known = DOMAIN table

\* The built-in providers are all there afterwards, and flagged; what is made of the ones
\* that were there already is kept.
Ensure ==
  /\ \E config \in EnvConfigs :
       table' = [p \in DOMAIN table \union Builtins |->
                   IF p \notin DOMAIN table
                   THEN [name |-> BuiltinName[p], config |-> config, builtin |-> TRUE]
                   ELSE IF p \in Builtins THEN [table[p] EXCEPT !.builtin = TRUE] ELSE table[p]]
  /\ UniqueNames(table')
  /\ known' = known \union Builtins

\* A row of the user gets an id that was never in the table.
Create ==
  \E p \in Ids \ (known \union Builtins), name \in Names, config \in UserConfigs :
    /\ table' = [q \in DOMAIN table \union {p} |->
                   IF q = p THEN [name |-> name, config |-> config, builtin |-> FALSE] ELSE table[q]]
    /\ UniqueNames(table')
    /\ known' = known \union {p}

\* A row that is there keeps its flag, and what it is not given anew.
Update ==
  \E p \in DOMAIN table :
    /\ \E name \in Names \union {table[p].name}, config \in UserConfigs \union {table[p].config} :
         table' = [table EXCEPT ![p].name = name, ![p].config = config]
    /\ UniqueNames(table')
    /\ UNCHANGED known

\* Only what the user has created is ever deleted.
Delete ==
  \E p \in DOMAIN table \ Builtins :
    /\ table' = [q \in DOMAIN table \ {p} |-> table[q]]
    /\ UNCHANGED known

Next == Ensure \/ Create \/ Update \/ Delete

Spec == Init /\ [][Next]_vars
=============================================================================
