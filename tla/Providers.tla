------------------------------ MODULE Providers ------------------------------
(***************************************************************************)
(* The providers of one user                                               *)
(* (services/api/app/services/provider_service.py): rows that the user     *)
(* creates, edits and deletes, and built-in ones that the first access     *)
(* makes and the user may edit.                                            *)
(*                                                                         *)
(* Every operation first makes sure that the built-in providers are there, *)
(* with a commit of its own, then reads what it needs and commits.  The    *)
(* routes do not await in between, so a server has one session open at a   *)
(* time; the sessions of several servers interleave statement by statement.*)
(* The rows of different users have no key in common.                      *)
(***************************************************************************)

CONSTANTS
  Servers,
  Builtins,     \* ids of the built-in providers of the user
  Customs,      \* ids that uuid4 will yield
  Names,
  BuiltinName,  \* the name a built-in provider is created with
  UserConfigs,  \* base_url, api_key, models and routes, as one value: what users enter
  EnvConfigs,   \* and what the definitions and the environment of a server give
  Keep          \* "not in the request"

ASSUME ConstantsAssumption ==
  /\ Builtins \intersect Customs = {}
  /\ Customs # {}
  /\ BuiltinName \in [Builtins -> Names]
  /\ \A b, c \in Builtins : BuiltinName[b] = BuiltinName[c] => b = c
  /\ EnvConfigs # {}
  /\ Keep \notin Names \union UserConfigs \union EnvConfigs

VARIABLES
  rows,      \* the table
  used,      \* the ids that have been in it
  session,   \* the session of each server
  desired    \* what a built-in provider is created with now

vars == <<rows, used, session, desired>>

-----------------------------------------------------------------------------

Ids == Builtins \union Customs

Configs == UserConfigs \union EnvConfigs

ProviderRow == [present : BOOLEAN, name : Names, config : Configs, is_builtin : BOOLEAN]

Ops == {"create", "update", "delete", "read"}

\* pc: the statement that comes next.  view: the row that was loaded.  missing and
\* unflagged: what the read of the built-in providers found.
Session ==
  [pc : {"idle", "ensure", "load", "name", "commit"},
   op : Ops, id : Ids, name : Names \union {Keep}, config : UserConfigs \union {Keep},
   view : ProviderRow, missing : SUBSET Builtins, unflagged : SUBSET Builtins]

Absent == [present |-> FALSE, name |-> CHOOSE n \in Names : TRUE,
           config |-> CHOOSE c \in EnvConfigs : TRUE, is_builtin |-> FALSE]

NoSession ==
  [pc |-> "idle", op |-> "read", id |-> CHOOSE p \in Ids : TRUE, name |-> Keep,
   config |-> Keep, view |-> Absent, missing |-> {}, unflagged |-> {}]

\* UniqueConstraint("owner_id", "name").
UniqueNames(table) ==
  \A p, q \in Ids :
    table[p].present /\ table[q].present /\ table[p].name = table[q].name => p = q

\* Mutant: the table has no such constraint.
Constraints_none(table) == TRUE

Constraints(table) == UniqueNames(table)

Builtin(b) ==
  [present |-> TRUE, name |-> BuiltinName[b], config |-> desired, is_builtin |-> TRUE]

-----------------------------------------------------------------------------

\* A user who is new, or whose rows were written by a release that did not have all the
\* built-in providers, or did not flag them.
Init ==
  /\ rows \in [Ids -> [present : BOOLEAN, name : Names, config : EnvConfigs, is_builtin : {FALSE}]]
  /\ UniqueNames(rows)
  /\ \A p \in Ids : ~rows[p].present => rows[p] = Absent
  /\ used = {p \in Ids : rows[p].present}
  /\ session = [s \in Servers |-> NoSession]
  /\ desired \in EnvConfigs

Goto(s, pc) == session' = [session EXCEPT ![s].pc = pc]

Close(s) == session' = [session EXCEPT ![s] = NoSession]

First(op) == IF op = "create" THEN "name" ELSE "load"

\* A request opens a session and reads the built-in providers.  A create has drawn its
\* id already; an update names at least one column.
Begin(s, op, p, name, config) ==
  /\ session[s].pc = "idle"
  /\ op = "create" => p \in Customs \ used /\ name # Keep /\ config # Keep
                      /\ \A t \in Servers : session[t].pc # "idle" => session[t].id # p
  /\ op = "update" => name # Keep \/ config # Keep
  /\ op \in {"delete", "read"} => name = Keep /\ config = Keep
  /\ LET missing   == {b \in Builtins : ~rows[b].present}
         unflagged == {b \in Builtins : rows[b].present /\ ~rows[b].is_builtin}
     IN session' = [session EXCEPT ![s] =
          [pc |-> IF missing \union unflagged = {} THEN First(op) ELSE "ensure",
           op |-> op, id |-> p, name |-> name, config |-> config, view |-> Absent,
           missing |-> missing, unflagged |-> unflagged]]
  /\ UNCHANGED <<rows, used, desired>>

\* Mutant: a row that is there is left as it is.
Ensured_unflagged(s) == [p \in Ids |-> IF p \in session[s].missing THEN Builtin(p) ELSE rows[p]]

\* An UPDATE of the one column: what the user has made of the row stays.
Ensured(s) ==
  [p \in Ids |->
     CASE p \in session[s].missing   -> Builtin(p)
       [] p \in session[s].unflagged -> [rows[p] EXCEPT !.is_builtin = TRUE]
       [] OTHER                      -> rows[p]]

\* The inserts and updates of one commit.  Another server may have inserted the rows
\* since they were missed, or a row of the user may have the name.
EnsureFails(s) ==
  \/ \E b \in session[s].missing : rows[b].present
  \/ ~Constraints(Ensured(s))

_ensure_builtin_providers(s) ==
  /\ session[s].pc = "ensure"
  /\ ~EnsureFails(s)
  /\ rows' = Ensured(s)
  /\ used' = used \union session[s].missing
  /\ Goto(s, First(session[s].op))
  /\ UNCHANGED desired

\* IntegrityError: nothing of the commit is kept, and the request fails.
EnsureRaises(s) ==
  /\ session[s].pc = "ensure"
  /\ EnsureFails(s)
  /\ Close(s)
  /\ UNCHANGED <<rows, used, desired>>

\* NotFound; and the read operations end here in any case.
_require_provider_row(s) ==
  /\ session[s].pc = "load"
  /\ LET row == rows[session[s].id]
         renames == session[s].name \notin {Keep, row.name}
     IN IF ~row.present \/ session[s].op = "read" \/ (session[s].op = "delete" /\ row.is_builtin)
        THEN Close(s)
        ELSE session' = [session EXCEPT ![s].view = row,
               ![s].pc = IF session[s].op = "update" /\ renames THEN "name" ELSE "commit"]
  /\ UNCHANGED <<rows, used, desired>>

\* Conflict when another row has the name.
_ensure_unique_name(s) ==
  /\ session[s].pc = "name"
  /\ IF \E p \in Ids \ {session[s].id} : rows[p].present /\ rows[p].name = session[s].name
     THEN Close(s)
     ELSE Goto(s, "commit")
  /\ UNCHANGED <<rows, used, desired>>

-----------------------------------------------------------------------------
(* Commits.                                                                  *)

Commits(s, op) == session[s].pc = "commit" /\ session[s].op = op

Created(s) ==
  [rows EXCEPT ![session[s].id] =
     [present |-> TRUE, name |-> session[s].name, config |-> session[s].config,
      is_builtin |-> FALSE]]

create_provider(s) ==
  /\ Commits(s, "create")
  /\ IF Constraints(Created(s))
     THEN rows' = Created(s) /\ used' = used \union {session[s].id}
     ELSE UNCHANGED <<rows, used>>
  /\ Close(s)
  /\ UNCHANGED desired

Given(value, loaded) == IF value = Keep THEN loaded ELSE value

\* Mutant: the UPDATE carries every column.
Updated_whole_row(s) ==
  [rows EXCEPT ![session[s].id].name = Given(session[s].name, session[s].view.name),
               ![session[s].id].config = Given(session[s].config, session[s].view.config)]

\* Mutant: an attribute is assigned although the request does not name it.
Updated_unguarded(s) ==
  [rows EXCEPT ![session[s].id].name = session[s].name,
               ![session[s].id].config = session[s].config]

\* The UPDATE carries the columns that differ from what was loaded, and always the time.
Updated(s) ==
  LET view == session[s].view
      Flushed(value, loaded, stored) == IF value \in {Keep, loaded} THEN stored ELSE value
  IN [rows EXCEPT
        ![session[s].id].name = Flushed(session[s].name, view.name, @),
        ![session[s].id].config = Flushed(session[s].config, view.config, @)]

\* Mutant: a row that is gone is inserted again.
update_provider_upserts(s) ==
  /\ Commits(s, "update")
  /\ rows' = [Updated(s) EXCEPT ![session[s].id].present = TRUE]
  /\ Close(s)
  /\ UNCHANGED <<used, desired>>

\* StaleDataError when the row is gone, IntegrityError when the name is taken by now.
update_provider(s) ==
  /\ Commits(s, "update")
  /\ IF rows[session[s].id].present /\ Constraints(Updated(s))
     THEN rows' = Updated(s)
     ELSE UNCHANGED rows
  /\ Close(s)
  /\ UNCHANGED <<used, desired>>

\* A row that is already gone is no error.
delete_provider(s) ==
  /\ Commits(s, "delete")
  /\ rows' = [rows EXCEPT ![session[s].id] = Absent]
  /\ Close(s)
  /\ UNCHANGED <<used, desired>>

\* A server stops: the transaction is rolled back.
Crash(s) ==
  /\ session[s].pc # "idle"
  /\ Close(s)
  /\ UNCHANGED <<rows, used, desired>>

\* All servers restart with other definitions or another environment.
Redeploy ==
  /\ \A s \in Servers : session[s].pc = "idle"
  /\ desired' \in EnvConfigs \ {desired}
  /\ UNCHANGED <<rows, used, session>>

-----------------------------------------------------------------------------

Request(s) ==
  \E op \in Ops, p \in Ids, name \in Names \union {Keep}, config \in UserConfigs \union {Keep} :
    Begin(s, op, p, name, config)

Statement(s) ==
  \/ _ensure_builtin_providers(s) \/ EnsureRaises(s)
  \/ _require_provider_row(s) \/ _ensure_unique_name(s)
  \/ create_provider(s) \/ update_provider(s) \/ delete_provider(s)

Next ==
  \/ \E s \in Servers : Request(s) \/ Statement(s) \/ Crash(s)
  \/ Redeploy

Spec == Init /\ [][Next]_vars

-----------------------------------------------------------------------------

TypeOK ==
  /\ rows \in [Ids -> ProviderRow]
  /\ used \subseteq Ids
  /\ session \in [Servers -> Session]
  /\ desired \in EnvConfigs

\* No two providers of a user share a name, although the name is checked by one
\* statement and inserted by another, and built-in providers are not checked at all.
NamesAreUnique == UniqueNames(rows)

\* A built-in provider is never lost, not even one that an earlier release had not
\* flagged and that a delete meets first.
BuiltinsStay == [][\A b \in Builtins : rows[b].present => rows'[b].present]_vars

\* A commit changes the columns that its request names and no other: an edit of another
\* server since the load survives, and so do the edits of a built-in provider when it is
\* ensured again.
OnlyNamedColumnsChange ==
  [][\A p \in Ids :
       rows[p].present /\ rows'[p].present =>
         LET Writes(col, value) ==
               \E s \in Servers : Commits(s, "update") /\ session[s].id = p
                                  /\ session[s][col] = value
         IN /\ rows'[p].name # rows[p].name => Writes("name", rows'[p].name)
            /\ rows'[p].config # rows[p].config => Writes("config", rows'[p].config)]_vars

\* A deleted provider never comes back, whatever sessions had loaded it.
DeletedStaysDeleted ==
  [][\A p \in used : ~rows[p].present => ~rows'[p].present]_vars

\* The rows that are there, without the representation of the others.
TableOf(table) ==
  [p \in {q \in Ids : table[q].present} |->
     [name |-> table[p].name, config |-> table[p].config, builtin |-> table[p].is_builtin]]

Table == INSTANCE ProviderTable WITH table <- TableOf(rows), known <- used

\* However the statements of the servers interleave, fail or stop half way: every operation
\* takes effect at one moment, that of its commit, and as on the table of that moment, or
\* not at all.
ImplementsTable == Table!Spec
=============================================================================
