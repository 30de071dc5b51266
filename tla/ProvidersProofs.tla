--------------------------- MODULE ProvidersProofs ---------------------------
(***************************************************************************)
(* Proofs about Providers, for every set of servers, of built-in providers *)
(* and of names.                                                           *)
(*                                                                         *)
(* The argument.  A session reaches the statement that loads a row only    *)
(* after every built-in provider is there and flagged, and no commit takes *)
(* either away; so a delete that passed the flag is not about a built-in   *)
(* provider (SessionInv).  An id that was used is never drawn again, nor   *)
(* inserted as a built-in provider once more, because those are never      *)
(* deleted (TableInv).                                                     *)
(* So the four commits are the four operations of ProviderTable, and what  *)
(* else a session does leaves the table alone.                             *)
(***************************************************************************)
EXTENDS Providers, TLAPS

Flagged(b) == rows[b].present /\ rows[b].is_builtin

\* What a session has found, and still holds.
SessionOf(s) ==
  /\ session[s].missing \intersect session[s].unflagged = {}
  /\ session[s].pc = "ensure" =>
       \A b \in Builtins :
         \/ b \in session[s].missing
         \/ rows[b].present /\ (b \in session[s].unflagged \/ rows[b].is_builtin)
  /\ session[s].pc \in {"load", "name", "commit"} => \A b \in Builtins : Flagged(b)
  /\ session[s].pc # "idle" /\ session[s].op = "create" =>
       /\ session[s].id \in Customs \ used
       /\ session[s].name # Keep /\ session[s].config # Keep
  /\ session[s].op = "delete" => /\ session[s].pc # "name"
                                 /\ session[s].pc = "commit" => session[s].id \notin Builtins

SessionInv == \A s \in Servers : SessionOf(s)

\* Two sessions do not create under the same id.
Creates(s) == session[s].pc # "idle" /\ session[s].op = "create"

CreateInv ==
  \A s, t \in Servers : Creates(s) /\ Creates(t) /\ session[s].id = session[t].id => s = t

TableInv ==
  /\ UniqueNames(rows)
  /\ \A p \in Ids : rows[p].present => p \in used
  /\ \A b \in Builtins : b \in used => rows[b].present

IInv == TypeOK /\ SessionInv /\ CreateInv /\ TableInv

-----------------------------------------------------------------------------
(* Types.                                                                    *)

LEMMA AbsentType ==
  ASSUME rows \in [Ids -> ProviderRow]
  PROVE  Absent \in ProviderRow /\ ~Absent.present
<1>1. PICK p \in Customs : TRUE
    BY ConstantsAssumption
<1>2. rows[p].name \in Names
    BY <1>1 DEF Ids, ProviderRow
<1>3. (CHOOSE n \in Names : TRUE) \in Names /\ (CHOOSE c \in EnvConfigs : TRUE) \in EnvConfigs
    BY <1>2, ConstantsAssumption
<1> QED
    BY <1>3 DEF Absent, ProviderRow, Configs

LEMMA NoSessionType ==
  ASSUME rows \in [Ids -> ProviderRow]
  PROVE  NoSession \in Session /\ NoSession.pc = "idle" /\ NoSession.op = "read"
<1>1. (CHOOSE p \in Ids : TRUE) \in Ids
    BY ConstantsAssumption DEF Ids
<1> QED
    BY <1>1, AbsentType DEF NoSession, Session, Ops

LEMMA BuiltinType ==
  ASSUME NEW b \in Builtins, desired \in EnvConfigs
  PROVE  /\ Builtin(b) \in ProviderRow /\ Builtin(b).present /\ Builtin(b).is_builtin
  BY ConstantsAssumption DEF Builtin, ProviderRow, Configs

-----------------------------------------------------------------------------
(* What the statements do to the table.                                      *)

\* What every step leaves true of the rows and the ids.
Safe ==
  /\ rows' \in [Ids -> ProviderRow] /\ used' \subseteq Ids
  /\ TableInv'
  /\ used \subseteq used'
  /\ \A b \in Builtins : /\ rows[b].present => rows'[b].present
                         /\ Flagged(b) => Flagged(b)'

\* A commit that adds nothing to the table and keeps the built-in providers.
LEMMA SmallChange ==
  ASSUME IInv, rows' \in [Ids -> ProviderRow], UniqueNames(rows'), used' = used,
         \A p \in Ids : rows'[p].present => rows[p].present,
         \A b \in Builtins : /\ rows[b].present => rows'[b].present
                             /\ Flagged(b) => rows'[b].is_builtin
  PROVE  Safe
<1>1. TableInv'
    BY DEF IInv, TableInv, UniqueNames, Ids
<1> QED
    BY <1>1 DEF Safe, IInv, TypeOK, Flagged

LEMMA EnsuredIs ==
  ASSUME IInv, NEW s \in Servers, NEW p \in Ids
  PROVE  /\ p \in session[s].missing => Ensured(s)[p] = Builtin(p)
         /\ p \notin session[s].missing =>
              /\ Ensured(s)[p].present = rows[p].present /\ Ensured(s)[p].name = rows[p].name
              /\ Ensured(s)[p].config = rows[p].config
              /\ rows[p].is_builtin => Ensured(s)[p].is_builtin
              /\ p \in session[s].unflagged => Ensured(s)[p].is_builtin
         /\ Ensured(s)[p] \in ProviderRow
<1>1. /\ rows[p] \in ProviderRow /\ session[s].missing \subseteq Builtins
      /\ session[s].missing \intersect session[s].unflagged = {}
    BY DEF IInv, TypeOK, Session, SessionInv, SessionOf
<1>2. CASE p \in session[s].missing
  <2>1. Ensured(s)[p] = Builtin(p)
    BY <1>1, <1>2 DEF Ensured
  <2> QED
    BY <1>1, <1>2, <2>1, BuiltinType DEF IInv, TypeOK
<1>3. CASE p \notin session[s].missing /\ p \in session[s].unflagged
  <2>1. Ensured(s)[p] = [rows[p] EXCEPT !.is_builtin = TRUE]
    BY <1>3 DEF Ensured
  <2> QED
    BY <1>1, <1>3, <2>1 DEF ProviderRow
<1>4. CASE p \notin session[s].missing /\ p \notin session[s].unflagged
  <2>1. Ensured(s)[p] = rows[p]
    BY <1>4 DEF Ensured
  <2> QED
    BY <1>1, <1>4, <2>1
<1> QED
    BY <1>2, <1>3, <1>4

\* After the commit of the built-in providers they are all there and flagged.
LEMMA EnsureEffect ==
  ASSUME IInv, NEW s \in Servers, _ensure_builtin_providers(s)
  PROVE  Safe /\ \A b \in Builtins : Flagged(b)'
<1>1. /\ rows' = Ensured(s) /\ used' = used \union session[s].missing
      /\ session[s].pc = "ensure" /\ Constraints(Ensured(s))
      /\ \A b \in session[s].missing : ~rows[b].present
    BY DEF _ensure_builtin_providers, EnsureFails
<1>2. session[s].missing \subseteq Builtins
    BY DEF IInv, TypeOK, Session
<1>3. rows' \in [Ids -> ProviderRow] /\ used' \subseteq Ids
  <2>1. Ensured(s) = [p \in Ids |-> Ensured(s)[p]]
    BY DEF Ensured
  <2>2. \A p \in Ids : Ensured(s)[p] \in ProviderRow
    BY EnsuredIs DEF IInv
  <2> QED
    BY <1>1, <1>2, <2>1, <2>2 DEF Ids, IInv, TypeOK
<1>4. \A b \in Builtins : Flagged(b)'
  <2> SUFFICES ASSUME NEW b \in Builtins
               PROVE  rows'[b].present /\ rows'[b].is_builtin
    BY DEF Flagged
  <2>1. b \in Ids
    BY DEF Ids
  <2>2. CASE b \in session[s].missing
    BY <1>1, <2>1, <2>2, EnsuredIs, BuiltinType DEF IInv, TypeOK
  <2>3. CASE b \notin session[s].missing
    <3>1. rows[b].present /\ (b \in session[s].unflagged \/ rows[b].is_builtin)
      BY <1>1, <2>3 DEF IInv, SessionInv, SessionOf
    <3> QED
      BY <1>1, <2>1, <2>3, <3>1, EnsuredIs DEF IInv
  <2> QED
    BY <2>2, <2>3
<1>5. TableInv'
  <2>1. UniqueNames(rows)'
    BY <1>1 DEF Constraints, UniqueNames
  <2>2. \A p \in Ids : rows'[p].present => p \in used'
    BY <1>1, EnsuredIs DEF IInv, TableInv
  <2>3. \A b \in Builtins : rows'[b].present
    BY <1>4 DEF Flagged
  <2> QED
    BY <2>1, <2>2, <2>3 DEF TableInv
<1> QED
    BY <1>1, <1>3, <1>4, <1>5 DEF Safe, Flagged

LEMMA CreateEffect ==
  ASSUME IInv, NEW s \in Servers, create_provider(s)
  PROVE  Safe /\ used' \subseteq used \union {session[s].id}
<1>1. session[s].id \in Customs \ used /\ session[s].id \in Ids
    BY DEF IInv, SessionInv, SessionOf, create_provider, Commits, Ids
<1>2. CASE rows' = rows /\ used' = used
    BY <1>2, SmallChange DEF IInv, TypeOK, TableInv, Flagged
<1>3. CASE rows' = Created(s) /\ used' = used \union {session[s].id} /\ Constraints(Created(s))
  <2> DEFINE new == [present |-> TRUE, name |-> session[s].name, config |-> session[s].config,
                     is_builtin |-> FALSE]
  <2>1. rows' = [rows EXCEPT ![session[s].id] = new]
    BY <1>3 DEF Created
  <2>2. new \in ProviderRow /\ new.present
    <3>1. session[s].name \in Names /\ session[s].config \in UserConfigs
      BY DEF create_provider, Commits, IInv, TypeOK, Session, SessionInv, SessionOf
    <3> QED
      BY <3>1 DEF ProviderRow, Configs
  <2> HIDE DEF new
  <2>3. rows' \in [Ids -> ProviderRow] /\ used' \subseteq Ids
    BY <1>1, <1>3, <2>1, <2>2 DEF IInv, TypeOK
  <2>4. \A p \in Ids : p # session[s].id => rows'[p] = rows[p]
    BY <1>1, <2>1 DEF IInv, TypeOK
  <2>5. session[s].id \notin Builtins /\ Builtins \subseteq Ids
    BY <1>1, ConstantsAssumption DEF Ids
  <2>6. TableInv'
    <3>1. UniqueNames(rows)'
      BY <1>3 DEF Constraints, UniqueNames
    <3>2. \A p \in Ids : rows'[p].present => p \in used'
      BY <1>3, <2>4 DEF IInv, TableInv
    <3>3. \A b \in Builtins : b \in used' => rows'[b].present
      BY <1>3, <2>4, <2>5 DEF IInv, TableInv
    <3> QED
      BY <3>1, <3>2, <3>3 DEF TableInv
  <2> QED
    BY <1>3, <2>3, <2>4, <2>5, <2>6 DEF Safe, Flagged
<1> QED
    BY <1>2, <1>3 DEF create_provider

LEMMA UpdateEffect ==
  ASSUME IInv, NEW s \in Servers, update_provider(s)
  PROVE  Safe /\ used' = used
<1> DEFINE id == session[s].id
<1>1. used' = used /\ id \in Ids /\ session[s] \in Session
    BY DEF update_provider, IInv, TypeOK, Session
<1>2. CASE rows' = rows
    BY <1>1, <1>2, SmallChange DEF IInv, TypeOK, TableInv, Flagged
<1>3. CASE rows' = Updated(s) /\ rows[id].present /\ Constraints(Updated(s))
  <2>1. PICK name, config :
          /\ name \in Names /\ config \in Configs
          /\ rows' = [rows EXCEPT ![id].name = name, ![id].config = config]
    <3> DEFINE name == IF session[s].name \in {Keep, session[s].view.name} THEN rows[id].name
                       ELSE session[s].name
               config == IF session[s].config \in {Keep, session[s].view.config} THEN rows[id].config
                         ELSE session[s].config
    <3>1. name \in Names
      BY <1>1 DEF Session, IInv, TypeOK, ProviderRow
    <3>2. config \in Configs
      BY <1>1 DEF Session, IInv, TypeOK, ProviderRow, Configs
    <3>3. rows' = [rows EXCEPT ![id].name = name, ![id].config = config]
      BY <1>3 DEF Updated
    <3> QED
      BY <3>1, <3>2, <3>3
  <2>2. rows[id] \in ProviderRow
    BY <1>1 DEF IInv, TypeOK
  <2>3. /\ rows'[id] \in ProviderRow /\ rows'[id].present = rows[id].present
        /\ rows'[id].is_builtin = rows[id].is_builtin
    BY <1>1, <2>1, <2>2 DEF IInv, TypeOK, ProviderRow
  <2>4. \A p \in Ids : p # id => rows'[p] = rows[p]
    BY <1>1, <2>1 DEF IInv, TypeOK
  <2>5. rows' \in [Ids -> ProviderRow]
    BY <1>1, <2>1, <2>3, <2>4 DEF IInv, TypeOK
  <2>6. UniqueNames(rows')
    BY <1>3 DEF Constraints
  <2> HIDE DEF id
  <2> QED
    BY <1>1, <2>3, <2>4, <2>5, <2>6, SmallChange DEF Flagged, Ids
<1> QED
    BY <1>1, <1>2, <1>3 DEF update_provider

LEMMA DeleteEffect ==
  ASSUME IInv, NEW s \in Servers, delete_provider(s)
  PROVE  Safe /\ used' = used
<1> DEFINE id == session[s].id
<1>1. used' = used /\ id \in Ids /\ id \notin Builtins /\ rows' = [rows EXCEPT ![id] = Absent]
    BY DEF delete_provider, Commits, IInv, TypeOK, Session, SessionInv, SessionOf
<1>2. Absent \in ProviderRow /\ ~Absent.present
    BY AbsentType DEF IInv, TypeOK
<1> HIDE DEF id
<1>3. /\ rows' \in [Ids -> ProviderRow]
      /\ ~rows'[id].present
      /\ \A p \in Ids : p # id => rows'[p] = rows[p]
    BY <1>1, <1>2 DEF IInv, TypeOK
<1>4. UniqueNames(rows')
    BY <1>3 DEF UniqueNames, IInv, TableInv
<1> QED
    BY <1>1, <1>3, <1>4, SmallChange DEF Flagged, Ids
-----------------------------------------------------------------------------
(* The invariant.                                                            *)

\* An empty table, or that of an earlier release, and no session.
LEMMA InitIInv == Init => IInv
<1> SUFFICES ASSUME Init
             PROVE  IInv
    OBVIOUS
<1>1. rows \in [Ids -> ProviderRow]
    BY DEF Init, ProviderRow, Configs
<1>2. \A s \in Servers : session[s] = NoSession
    BY DEF Init
<1>3. NoSession \in Session /\ NoSession.pc = "idle" /\ NoSession.op = "read"
      /\ NoSession.missing = {}
    BY <1>1, NoSessionType DEF NoSession
<1>4. TypeOK
    BY <1>1, <1>3 DEF Init, TypeOK
<1>5. SessionInv /\ CreateInv
    BY <1>2, <1>3 DEF SessionInv, SessionOf, CreateInv, Creates
<1>6. TableInv
    BY DEF Init, TableInv, Ids
<1> QED
    BY <1>4, <1>5, <1>6 DEF IInv

\* A step of one session that is safe for the table is safe for the other sessions.
LEMMA SessionStep ==
  ASSUME IInv, Safe, desired' = desired,
         NEW s \in Servers, NEW new \in Session, session' = [session EXCEPT ![s] = new],
         \A p \in used' \ used : p \in Builtins \/ (Creates(s) /\ p = session[s].id),
         SessionOf(s)',
         new.pc # "idle" /\ new.op = "create" =>
           \/ Creates(s) /\ new.id = session[s].id
           \/ \A t \in Servers : session[t].pc # "idle" => session[t].id # new.id
  PROVE  IInv'
<1>1. session'[s] = new /\ \A t \in Servers : t # s => session'[t] = session[t]
    BY DEF IInv, TypeOK
<1>2. TypeOK' /\ TableInv'
    BY DEF Safe, IInv, TypeOK
<1>3. ASSUME NEW t \in Servers, t # s
      PROVE  SessionOf(t)'
  <2>1. SessionOf(t) /\ session'[t] = session[t]
    BY <1>1, <1>3 DEF IInv, SessionInv
  <2>2. Creates(t) => session[t].id \in Customs \ used'
    <3> SUFFICES ASSUME Creates(t), session[t].id \in used'
                 PROVE  FALSE
      BY <2>1 DEF SessionOf, Creates
    <3>1. session[t].id \in used' \ used /\ session[t].id \notin Builtins
      BY <2>1, ConstantsAssumption DEF SessionOf, Creates
    <3> QED
      BY <1>3, <3>1 DEF IInv, CreateInv
  <2> QED
    BY <2>1, <2>2 DEF SessionOf, Safe, Flagged, Creates
<1>4. SessionInv'
    BY <1>3 DEF SessionInv
<1>5. CreateInv'
  <2> SUFFICES ASSUME NEW t \in Servers, NEW u \in Servers, Creates(t)', Creates(u)',
                      session'[t].id = session'[u].id, t # u
               PROVE  FALSE
    BY DEF CreateInv
  <2>1. ASSUME NEW v \in Servers, v # s, Creates(s)', Creates(v)', session'[s].id = session'[v].id
        PROVE  FALSE
    BY <1>1, <2>1 DEF Creates, IInv, CreateInv
  <2>2. t = s \/ u = s
    BY <1>1 DEF Creates, IInv, CreateInv
  <2> QED
    BY <2>1, <2>2
<1> QED
    BY <1>2, <1>4, <1>5 DEF IInv

\* What leaves the table alone is safe for it.
LEMMA NoChange ==
  ASSUME IInv, rows' = rows, used' = used
  PROVE  Safe
  BY DEF IInv, TypeOK, TableInv, UniqueNames, Safe, Flagged

\* A session that is closed owes nothing.
LEMMA ClosedSession ==
  ASSUME IInv, Safe, NEW s \in Servers, Close(s), desired' = desired,
         \A p \in used' \ used : p \in Builtins \/ (Creates(s) /\ p = session[s].id)
  PROVE  IInv'
<1>1. /\ NoSession \in Session /\ NoSession.pc = "idle" /\ NoSession.op = "read"
      /\ NoSession.missing = {}
    BY NoSessionType DEF IInv, TypeOK, NoSession
<1>2. session' = [session EXCEPT ![s] = NoSession] /\ session'[s] = NoSession
    BY DEF Close, IInv, TypeOK
<1>3. SessionOf(s)'
    BY <1>1, <1>2 DEF SessionOf
<1> QED
    BY <1>1, <1>2, <1>3, SessionStep

\* A request begins.
LEMMA BeginKeepsIInv ==
  ASSUME IInv, NEW s \in Servers, Request(s)
  PROVE  IInv'
<1>1. PICK op \in Ops, p \in Ids, name \in Names \union {Keep}, config \in UserConfigs \union {Keep} :
        Begin(s, op, p, name, config)
    BY DEF Request
<1> DEFINE missing == {b \in Builtins : ~rows[b].present}
           unflagged == {b \in Builtins : rows[b].present /\ ~rows[b].is_builtin}
           pc == IF missing \union unflagged = {} THEN First(op) ELSE "ensure"
           new == [pc |-> pc, op |-> op, id |-> p, name |-> name, config |-> config,
                   view |-> Absent, missing |-> missing, unflagged |-> unflagged]
<1>2. rows' = rows /\ used' = used /\ desired' = desired /\ session' = [session EXCEPT ![s] = new]
    BY <1>1 DEF Begin
<1>3. pc \in {"ensure", "name", "load"} /\ (op = "delete" => pc # "name")
    BY DEF First, Ops
<1>4. missing \subseteq Builtins /\ unflagged \subseteq Builtins /\ missing \intersect unflagged = {}
    OBVIOUS
<1>5. \A b \in Builtins : b \in missing \/ (rows[b].present /\ (b \in unflagged \/ rows[b].is_builtin))
    OBVIOUS
<1>6. pc # "ensure" => \A b \in Builtins : Flagged(b)
    BY DEF Flagged
<1>7. op = "create" => /\ p \in Customs \ used /\ name # Keep /\ config # Keep
                       /\ \A t \in Servers : session[t].pc # "idle" => session[t].id # p
    BY <1>1 DEF Begin
<1>8. Absent \in ProviderRow
    BY AbsentType DEF IInv, TypeOK
<1> HIDE DEF missing, unflagged, pc
<1>9. new \in Session /\ new.pc # "commit"
    BY <1>3, <1>4, <1>8 DEF Session
<1>10. session'[s] = new
    BY <1>2 DEF IInv, TypeOK
<1>11. SessionOf(s)'
    BY <1>2, <1>3, <1>4, <1>5, <1>6, <1>7, <1>10 DEF SessionOf, Flagged
<1> QED
    BY <1>2, <1>7, <1>9, <1>11, SessionStep, NoChange

\* A session goes on with its next statement.
LEMMA GoOn ==
  ASSUME IInv, Safe, desired' = desired, used' \subseteq used \union Builtins,
         NEW s \in Servers, session[s].pc # "idle",
         NEW pc \in {"load", "name", "commit"}, NEW view \in ProviderRow,
         session' = [session EXCEPT ![s].pc = pc, ![s].view = view],
         \A b \in Builtins : Flagged(b)',
         session[s].op = "delete" => /\ pc # "name"
                                     /\ pc = "commit" => session[s].id \notin Builtins
  PROVE  IInv'
<1> DEFINE new == [session[s] EXCEPT !.pc = pc, !.view = view]
<1>1. session[s] \in Session
    BY DEF IInv, TypeOK
<1>2. /\ new \in Session /\ new.pc = pc /\ new.op = session[s].op /\ new.id = session[s].id
      /\ new.name = session[s].name /\ new.config = session[s].config
      /\ new.missing = session[s].missing /\ new.unflagged = session[s].unflagged
    BY <1>1 DEF Session
<1>3. session' = [session EXCEPT ![s] = new]
    BY DEF IInv, TypeOK
<1> HIDE DEF new
<1>4. session'[s] = new
    BY <1>3 DEF IInv, TypeOK
<1>5. Creates(s) => session[s].id \in Customs \ used'
    BY ConstantsAssumption DEF IInv, SessionInv, SessionOf, Creates
<1>6. SessionOf(s)'
    BY <1>2, <1>4, <1>5 DEF SessionOf, IInv, SessionInv, Creates
<1> QED
    BY <1>2, <1>3, <1>6, SessionStep DEF Creates
\* The statements before the commit.
LEMMA StatementKeepsIInv ==
  ASSUME IInv, NEW s \in Servers,
         \/ _ensure_builtin_providers(s) \/ EnsureRaises(s)
         \/ _require_provider_row(s) \/ _ensure_unique_name(s)
  PROVE  IInv'
<1>1. session[s] \in Session /\ session[s].view \in ProviderRow /\ SessionOf(s)
    BY DEF IInv, TypeOK, Session, SessionInv
<1>2. CASE _ensure_builtin_providers(s)
  <2>1. Safe /\ \A b \in Builtins : Flagged(b)'
    BY <1>2, EnsureEffect
  <2>2. used' \subseteq used \union Builtins /\ session[s].pc = "ensure"
    BY <1>1, <1>2 DEF _ensure_builtin_providers, Session
  <2> DEFINE pc == First(session[s].op)
  <2>3. pc \in {"load", "name", "commit"} /\ pc # "commit" /\ (session[s].op = "delete" => pc # "name")
    BY DEF First
  <2>4. session' = [session EXCEPT ![s].pc = pc, ![s].view = session[s].view] /\ desired' = desired
    BY <1>1, <1>2 DEF _ensure_builtin_providers, Goto, IInv, TypeOK, Session
  <2> HIDE DEF pc
  <2> QED
    BY <1>1, <2>1, <2>2, <2>3, <2>4, GoOn
<1>3. CASE EnsureRaises(s)
    BY <1>3, NoChange, ClosedSession DEF EnsureRaises
<1>4. ASSUME _require_provider_row(s) \/ _ensure_unique_name(s)
      PROVE  /\ rows' = rows /\ used' = used /\ desired' = desired
             /\ session[s].pc \in {"load", "name"}
             /\ \A b \in Builtins : Flagged(b) /\ Flagged(b)'
    BY <1>1, <1>4 DEF _require_provider_row, _ensure_unique_name, SessionOf, Flagged
<1>5. CASE _require_provider_row(s)
  <2>1. CASE Close(s)
    BY <1>4, <1>5, <2>1, NoChange, ClosedSession
  <2>2. CASE ~Close(s)
    <3> DEFINE row == rows[session[s].id]
    <3>1. PICK pc \in {"name", "commit"} :
            /\ session' = [session EXCEPT ![s].pc = pc, ![s].view = row]
            /\ pc = "name" => session[s].op = "update"
      <4> DEFINE pc == IF session[s].op = "update" /\ session[s].name \notin {Keep, row.name}
                       THEN "name" ELSE "commit"
      <4>1. session' = [session EXCEPT ![s].view = row, ![s].pc = pc]
        BY <1>5, <2>2 DEF _require_provider_row
      <4>2. session' = [session EXCEPT ![s].pc = pc, ![s].view = row]
        BY <1>1, <4>1 DEF Session, IInv, TypeOK
      <4> QED
        BY <4>2
    <3>2. session[s].op = "delete" => ~row.is_builtin
      BY <1>5, <2>2 DEF _require_provider_row
    <3>3. session[s].op = "delete" => session[s].id \notin Builtins
      BY <1>4, <1>5, <3>2 DEF Flagged
    <3>4. row \in ProviderRow
      BY <1>1 DEF IInv, TypeOK, Session
    <3> HIDE DEF row
    <3> QED
      BY <1>4, <1>5, <3>1, <3>3, <3>4, NoChange, GoOn
  <2> QED
    BY <2>1, <2>2
<1>6. CASE _ensure_unique_name(s)
  <2>1. CASE Close(s)
    BY <1>4, <1>6, <2>1, NoChange, ClosedSession
  <2>2. CASE Goto(s, "commit")
    <3>1. session' = [session EXCEPT ![s].pc = "commit", ![s].view = session[s].view]
      BY <1>1, <2>2 DEF Goto, IInv, TypeOK, Session
    <3>2. session[s].op # "delete"
      BY <1>1, <1>6 DEF _ensure_unique_name, SessionOf
    <3> QED
      BY <1>1, <1>4, <1>6, <3>1, <3>2, NoChange, GoOn
  <2> QED
    BY <1>6, <2>1, <2>2 DEF _ensure_unique_name
<1> QED
    BY <1>2, <1>3, <1>5, <1>6

\* The commits, and a server that stops.
LEMMA CommitKeepsIInv ==
  ASSUME IInv, NEW s \in Servers,
         create_provider(s) \/ update_provider(s) \/ delete_provider(s) \/ Crash(s)
  PROVE  IInv'
<1>1. CASE create_provider(s)
    BY <1>1, CreateEffect, ClosedSession DEF create_provider, Commits, Creates
<1>2. CASE update_provider(s)
    BY <1>2, UpdateEffect, ClosedSession DEF update_provider
<1>3. CASE delete_provider(s)
    BY <1>3, DeleteEffect, ClosedSession DEF delete_provider
<1>4. CASE Crash(s)
    BY <1>4, NoChange, ClosedSession DEF Crash
<1> QED
    BY <1>1, <1>2, <1>3, <1>4

\* Every step keeps the invariant.
LEMMA NextIInv == IInv /\ [Next]_vars => IInv'
<1> SUFFICES ASSUME IInv, [Next]_vars
             PROVE  IInv'
    OBVIOUS
<1>1. CASE Redeploy
    BY <1>1 DEF Redeploy, IInv, TypeOK, SessionInv, SessionOf, CreateInv, Creates, TableInv,
                UniqueNames, Flagged
<1>2. CASE UNCHANGED vars
    BY <1>2 DEF vars, IInv, TypeOK, SessionInv, SessionOf, CreateInv, Creates, TableInv,
                UniqueNames, Flagged
<1>3. ASSUME NEW s \in Servers, Request(s) \/ Statement(s) \/ Crash(s)
      PROVE  IInv'
    BY <1>3, BeginKeepsIInv, StatementKeepsIInv, CommitKeepsIInv DEF Statement
<1> QED
    BY <1>1, <1>2, <1>3 DEF Next

LEMMA Invariance == Spec => []IInv
  BY InitIInv, NextIInv, PTL DEF Spec

-----------------------------------------------------------------------------
(* The theorems.                                                             *)

\* Every variable keeps its type.
THEOREM TypeCorrect == Spec => []TypeOK
<1>1. IInv => TypeOK
    BY DEF IInv
<1> QED
    BY <1>1, Invariance, PTL

\* However the statements of the servers interleave, no two providers share a name.
THEOREM NamesStayUnique == Spec => []NamesAreUnique
<1>1. IInv => NamesAreUnique
    BY DEF IInv, TableInv, NamesAreUnique
<1> QED
    BY <1>1, Invariance, PTL

\* What each step may do to the rows.
LEMMA StepEffect ==
  ASSUME IInv, [Next]_vars
  PROVE  \/ rows' = rows /\ used' = used
         \/ \E s \in Servers : \/ _ensure_builtin_providers(s) \/ create_provider(s)
                               \/ update_provider(s) \/ delete_provider(s)
<1>1. CASE Redeploy \/ UNCHANGED vars
    BY <1>1 DEF Redeploy, vars
<1>2. ASSUME NEW s \in Servers, Request(s) \/ Crash(s)
      PROVE  rows' = rows /\ used' = used
    BY <1>2 DEF Request, Begin, Crash
<1>3. ASSUME NEW s \in Servers,
             EnsureRaises(s) \/ _require_provider_row(s) \/ _ensure_unique_name(s)
      PROVE  rows' = rows /\ used' = used
    BY <1>3 DEF EnsureRaises, _require_provider_row, _ensure_unique_name
<1> QED
    BY <1>1, <1>2, <1>3 DEF Next, Statement

LEMMA StepIsSafe ==
  ASSUME IInv, [Next]_vars
  PROVE  Safe
  BY StepEffect, NoChange, EnsureEffect, CreateEffect, UpdateEffect, DeleteEffect

\* A built-in provider is never lost.
THEOREM BuiltinsAreKept == Spec => BuiltinsStay
<1>1. IInv /\ [Next]_vars => [\A b \in Builtins : rows[b].present => rows'[b].present]_vars
    BY StepIsSafe DEF Safe
<1> QED
    BY <1>1, Invariance, PTL DEF Spec, BuiltinsStay

\* A deleted provider never comes back.
THEOREM DeletedIsGone == Spec => DeletedStaysDeleted
<1>1. IInv /\ [Next]_vars => [\A p \in used : ~rows[p].present => ~rows'[p].present]_vars
  <2> SUFFICES ASSUME IInv, [Next]_vars, NEW p \in used, ~rows[p].present, rows'[p].present
               PROVE  FALSE
    OBVIOUS
  <2>1. p \in Ids /\ p \notin Builtins
    BY DEF IInv, TypeOK, TableInv
  <2>2. PICK s \in Servers : \/ _ensure_builtin_providers(s) \/ create_provider(s)
                             \/ update_provider(s) \/ delete_provider(s)
    BY StepEffect
  <2>3. session[s] \in Session /\ session[s].id \in Ids
    BY DEF IInv, TypeOK, Session
  <2>4. CASE _ensure_builtin_providers(s)
    <3>1. p \notin session[s].missing /\ rows' = Ensured(s)
      BY <2>1, <2>3, <2>4 DEF Session, _ensure_builtin_providers
    <3> QED
      BY <2>1, <3>1, EnsuredIs
  <2>5. CASE create_provider(s)
    <3>1. session[s].id \notin used
      BY <2>5 DEF create_provider, Commits, IInv, SessionInv, SessionOf
    <3> QED
      BY <2>1, <2>3, <2>5, <3>1 DEF create_provider, Created, IInv, TypeOK
  <2>6. CASE update_provider(s)
    BY <2>1, <2>3, <2>6 DEF update_provider, Updated, IInv, TypeOK, ProviderRow
  <2>7. CASE delete_provider(s)
    <3>1. ~Absent.present
      BY AbsentType DEF IInv, TypeOK
    <3> QED
      BY <2>1, <2>3, <2>7, <3>1 DEF delete_provider, IInv, TypeOK
  <2> QED
    BY <2>2, <2>4, <2>5, <2>6, <2>7
<1> QED
    BY <1>1, Invariance, PTL DEF Spec, DeletedStaysDeleted

\* A commit changes only the columns that its request names.
THEOREM OthersColumnsSurvive == Spec => OnlyNamedColumnsChange
<1> DEFINE Writes(p, col, value) ==
             \E s \in Servers : Commits(s, "update") /\ session[s].id = p /\ session[s][col] = value
           Named(p) == rows[p].present /\ rows'[p].present =>
                         /\ rows'[p].name # rows[p].name => Writes(p, "name", rows'[p].name)
                         /\ rows'[p].config # rows[p].config => Writes(p, "config", rows'[p].config)
<1>1. ASSUME IInv, [Next]_vars, NEW p \in Ids, rows[p].present, rows'[p].present
      PROVE  Named(p)
  <2>1. CASE rows' = rows
    BY <2>1
  <2>2. ASSUME NEW s \in Servers, _ensure_builtin_providers(s)
        PROVE  Named(p)
    <3>1. rows' = Ensured(s) /\ p \notin session[s].missing
      BY <1>1, <2>2 DEF _ensure_builtin_providers, EnsureFails
    <3> QED
      BY <1>1, <3>1, EnsuredIs
  <2>3. ASSUME NEW s \in Servers, create_provider(s)
        PROVE  Named(p)
    <3>1. session[s].id # p
      BY <1>1, <2>3 DEF create_provider, Commits, IInv, TableInv, SessionInv, SessionOf
    <3>2. rows'[p] = rows[p]
      BY <1>1, <2>3, <3>1 DEF create_provider, Created, IInv, TypeOK
    <3> QED
      BY <3>2
  <2>4. ASSUME NEW s \in Servers, delete_provider(s)
        PROVE  Named(p)
    <3>1. ~Absent.present
      BY <1>1, AbsentType DEF IInv, TypeOK
    <3>2. rows'[p] = rows[p]
      BY <1>1, <2>4, <3>1 DEF delete_provider, IInv, TypeOK
    <3> QED
      BY <3>2
  <2>5. ASSUME NEW s \in Servers, update_provider(s)
        PROVE  Named(p)
    <3>1. CASE rows' = Updated(s) /\ session[s].id = p
      <4>1. rows[p] \in ProviderRow
        BY <1>1 DEF IInv, TypeOK
      <4>2. rows'[p].name # rows[p].name => rows'[p].name = session[s].name
        BY <1>1, <3>1, <4>1 DEF Updated, IInv, TypeOK, ProviderRow
      <4>3. rows'[p].config # rows[p].config => rows'[p].config = session[s].config
        BY <1>1, <3>1, <4>1 DEF Updated, IInv, TypeOK, ProviderRow
      <4>4. Commits(s, "update") /\ session[s].name = session[s]["name"]
            /\ session[s].config = session[s]["config"]
        BY <2>5 DEF update_provider
      <4> QED
        BY <2>5, <3>1, <4>2, <4>3, <4>4
    <3>2. CASE rows' = Updated(s) /\ session[s].id # p
      <4>1. rows'[p] = rows[p]
        BY <1>1, <3>2 DEF Updated, IInv, TypeOK
      <4> QED
        BY <4>1
    <3> QED
      BY <2>1, <2>5, <3>1, <3>2 DEF update_provider
  <2> QED
    BY <1>1, <2>1, <2>2, <2>3, <2>4, <2>5, StepEffect
<1>2. IInv /\ [Next]_vars => [\A p \in Ids : Named(p)]_vars
    BY <1>1
<1>3. Spec => [][\A p \in Ids : Named(p)]_vars
    BY <1>2, Invariance, PTL DEF Spec
<1> QED
    BY <1>3 DEF OnlyNamedColumnsChange

-----------------------------------------------------------------------------
(* The promise.                                                              *)

\* What is in the table of the promise, and under which ids.
LEMMA TableIs ==
  ASSUME NEW table
  PROVE  DOMAIN TableOf(table) = {p \in Ids : table[p].present}
  BY DEF TableOf

LEMMA RowIs ==
  ASSUME NEW table, NEW p \in Ids, table[p].present
  PROVE  /\ p \in DOMAIN TableOf(table)
         /\ TableOf(table)[p] = [name |-> table[p].name, config |-> table[p].config,
                                 builtin |-> table[p].is_builtin]
         /\ TableOf(table)[p].name = table[p].name
         /\ TableOf(table)[p].config = table[p].config
         /\ TableOf(table)[p].builtin = table[p].is_builtin
  BY DEF TableOf

\* The constraint of the database is that of the promise.
LEMMA NamesOfTable ==
  ASSUME NEW table, UniqueNames(table)
  PROVE  Table!UniqueNames(TableOf(table))
<1> SUFFICES ASSUME NEW p \in DOMAIN TableOf(table), NEW q \in DOMAIN TableOf(table),
                    TableOf(table)[p].name = TableOf(table)[q].name
             PROVE  p = q
    BY DEF Table!UniqueNames
<1>1. p \in Ids /\ q \in Ids /\ table[p].present /\ table[q].present
    BY TableIs
<1>2. TableOf(table)[p].name = table[p].name /\ TableOf(table)[q].name = table[q].name
    BY <1>1, RowIs
<1> QED
    BY <1>1, <1>2 DEF UniqueNames

\* A row that a step leaves alone is the same in the promise.
LEMMA SameRow ==
  ASSUME NEW before, NEW after, NEW p \in Ids, before[p].present, after[p] = before[p]
  PROVE  TableOf(after)[p] = TableOf(before)[p]
  BY DEF TableOf

LEMMA TableType ==
  ASSUME rows \in [Ids -> ProviderRow]
  PROVE  TableOf(rows) \in [DOMAIN TableOf(rows) -> Table!Row]
<1>1. TableOf(rows) = [p \in DOMAIN TableOf(rows) |-> TableOf(rows)[p]]
    BY DEF TableOf
<1>2. ASSUME NEW p \in DOMAIN TableOf(rows)
      PROVE  TableOf(rows)[p] \in Table!Row
  <2>1. p \in Ids /\ rows[p].present /\ rows[p] \in ProviderRow
    BY TableIs
  <2> QED
    BY <2>1 DEF TableOf, ProviderRow, Configs, Table!Row
<1> QED
    BY <1>1, <1>2

\* A row with its flag set.
LEMMA FlaggedRow ==
  ASSUME NEW row \in Table!Row
  PROVE  [row EXCEPT !.builtin = TRUE]
           = [name |-> row.name, config |-> row.config, builtin |-> TRUE]
<1> DEFINE new == [row EXCEPT !.builtin = TRUE]
<1>1. /\ new \in Table!Row
      /\ new.name = row.name /\ new.config = row.config /\ new.builtin = TRUE
    BY DEF Table!Row
<1> HIDE DEF new
<1>2. new = [name |-> new.name, config |-> new.config, builtin |-> new.builtin]
    BY <1>1 DEF Table!Row
<1>3. new = [name |-> row.name, config |-> row.config, builtin |-> TRUE]
    BY <1>1, <1>2, Zenon
<1> QED
    BY <1>3 DEF new

LEMMA InitPromises == Init => Table!Init
<1> SUFFICES ASSUME Init
             PROVE  Table!Init
    OBVIOUS
<1>1. UniqueNames(rows) /\ used = DOMAIN TableOf(rows) /\ DOMAIN TableOf(rows) \subseteq Ids
    BY TableIs, RowIs DEF Init
<1>2. \A p \in DOMAIN TableOf(rows) : TableOf(rows)[p] \in Table!Row /\ ~TableOf(rows)[p].builtin
  <2> SUFFICES ASSUME NEW p \in Ids, rows[p].present
               PROVE  TableOf(rows)[p] \in Table!Row /\ ~TableOf(rows)[p].builtin
    BY TableIs, RowIs
  <2>1. rows[p] \in [present : BOOLEAN, name : Names, config : EnvConfigs, is_builtin : {FALSE}]
    BY DEF Init
  <2>2. rows[p].name \in Names /\ rows[p].config \in EnvConfigs /\ rows[p].is_builtin = FALSE
    BY <2>1
  <2>3. TableOf(rows)[p] = [name |-> rows[p].name, config |-> rows[p].config, builtin |-> FALSE]
    BY <2>2, RowIs, Zenon
  <2> QED
    BY <2>2, <2>3 DEF Table!Row
<1> QED
    BY <1>1, <1>2, NamesOfTable DEF Table!Init

\* The commit of the built-in providers adds those that are not there, and flags the others.
LEMMA EnsurePromises ==
  ASSUME IInv, NEW s \in Servers, _ensure_builtin_providers(s)
  PROVE  Table!Ensure
<1> DEFINE there == DOMAIN TableOf(rows)
           ensured == [p \in there \union Builtins |->
                         IF p \notin there
                         THEN [name |-> BuiltinName[p], config |-> desired, builtin |-> TRUE]
                         ELSE IF p \in Builtins THEN [TableOf(rows)[p] EXCEPT !.builtin = TRUE]
                         ELSE TableOf(rows)[p]]
<1>1. /\ rows' = Ensured(s) /\ used' = used \union session[s].missing
      /\ session[s].pc = "ensure" /\ Constraints(rows')
      /\ \A b \in session[s].missing : ~rows[b].present
    BY DEF _ensure_builtin_providers, EnsureFails
<1>2. /\ session[s].missing \subseteq Builtins /\ session[s].unflagged \subseteq Builtins
      /\ Builtins \subseteq Ids
    BY DEF IInv, TypeOK, Session, Ids
<1>3. \A b \in Builtins : b \in session[s].missing <=> ~rows[b].present
    BY <1>1, <1>2 DEF IInv, SessionInv, SessionOf
<1>4. \A b \in Builtins : rows'[b].present /\ rows'[b].is_builtin
    BY EnsureEffect DEF Flagged
<1>5. \A p \in Ids : rows'[p].present <=> p \in there \union Builtins
  <2> SUFFICES ASSUME NEW p \in Ids
               PROVE  rows'[p].present <=> p \in there \union Builtins
    OBVIOUS
  <2>1. p \in there <=> rows[p].present
    BY TableIs, RowIs
  <2> HIDE DEF there
  <2>2. CASE p \in Builtins
    BY <1>4, <2>2
  <2>3. CASE p \notin Builtins
    <3>1. rows'[p].present = rows[p].present
      BY <1>1, <1>2, <2>3, EnsuredIs
    <3> QED
      BY <2>1, <2>3, <3>1
  <2> QED
    BY <2>2, <2>3
<1>6. ASSUME NEW p \in Ids, rows'[p].present
      PROVE  TableOf(rows')[p] = ensured[p]
  <2>1. TableOf(rows')[p] = [name |-> rows'[p].name, config |-> rows'[p].config,
                             builtin |-> rows'[p].is_builtin]
    BY <1>6, TableIs, RowIs
  <2>2. CASE p \in session[s].missing
    <3>1. rows'[p] = Builtin(p)
      BY <1>1, <2>2, EnsuredIs
    <3>2. p \in Builtins /\ p \notin there
      BY <1>1, <1>2, <2>2, TableIs, RowIs
    <3> QED
      BY <2>1, <3>1, <3>2 DEF Builtin
  <2>3. CASE p \notin session[s].missing
    <3>1. /\ rows'[p].present = rows[p].present /\ rows'[p].name = rows[p].name
          /\ rows'[p].config = rows[p].config
      BY <1>1, <2>3, EnsuredIs
    <3>2. p \in there /\ TableOf(rows)[p] = [name |-> rows[p].name, config |-> rows[p].config,
                                             builtin |-> rows[p].is_builtin]
      BY <1>6, <3>1, TableIs, RowIs
    <3>3. CASE p \in Builtins
      <4>1. rows'[p].is_builtin = TRUE
        BY <1>1, <1>2, <1>4, <3>3, EnsuredIs DEF ProviderRow
      <4>2. TableOf(rows')[p] = [name |-> rows[p].name, config |-> rows[p].config,
                                 builtin |-> TRUE]
        BY <2>1, <3>1, <4>1, Zenon
      <4>3. [TableOf(rows)[p] EXCEPT !.builtin = TRUE]
              = [name |-> rows[p].name, config |-> rows[p].config, builtin |-> TRUE]
        <5>1. /\ TableOf(rows)[p] \in Table!Row
              /\ TableOf(rows)[p].name = rows[p].name
              /\ TableOf(rows)[p].config = rows[p].config
          BY <1>6, <3>1, <3>2, TableType, RowIs DEF IInv, TypeOK
        <5> QED
          BY <5>1, FlaggedRow, Zenon
      <4>4. ensured[p] = [TableOf(rows)[p] EXCEPT !.builtin = TRUE]
        BY <3>2, <3>3
      <4> QED
        BY <4>2, <4>3, <4>4, Zenon
    <3>4. CASE p \notin Builtins
      <4>1. rows'[p] = rows[p]
        BY <1>1, <1>2, <2>3, <3>4 DEF Ensured
      <4>2. TableOf(rows')[p] = TableOf(rows)[p]
        BY <3>1, <1>6, <4>1, SameRow
      <4> QED
        BY <3>2, <3>4, <4>2
    <3> QED
      BY <3>3, <3>4
  <2> QED
    BY <2>2, <2>3
<1>7. TableOf(rows') = ensured
  <2>1. DOMAIN TableOf(rows') = there \union Builtins
    BY <1>2, <1>5, TableIs, RowIs
  <2>2. TableOf(rows') = [p \in DOMAIN TableOf(rows') |-> TableOf(rows')[p]]
    BY DEF TableOf
  <2>3. \A p \in DOMAIN TableOf(rows') : TableOf(rows')[p] = ensured[p]
    BY <1>6, TableIs, RowIs
  <2> HIDE DEF there
  <2> QED
    BY <2>1, <2>2, <2>3
<1>8. used' = used \union Builtins
    BY <1>1, <1>2, <1>3 DEF IInv, TableInv
<1>9. Table!UniqueNames(TableOf(rows'))
    BY <1>1, NamesOfTable DEF Constraints
<1>10. desired \in EnvConfigs
    BY DEF IInv, TypeOK
<1> QED
    BY <1>7, <1>8, <1>9, <1>10 DEF Table!Ensure

\* A row under an id that was drawn for it.
LEMMA CreatePromises ==
  ASSUME IInv, NEW s \in Servers, create_provider(s), rows' = Created(s),
         used' = used \union {session[s].id}, Constraints(rows')
  PROVE  Table!Create
<1> DEFINE id == session[s].id
           name == session[s].name
           config == session[s].config
<1>1. /\ id \in Ids \ (used \union Builtins) /\ name \in Names /\ config \in UserConfigs
    BY ConstantsAssumption DEF create_provider, Commits, IInv, TypeOK, Session, SessionInv,
                               SessionOf, Ids
<1>2. /\ rows'[id] = [present |-> TRUE, name |-> name, config |-> config, is_builtin |-> FALSE]
      /\ \A p \in Ids : p # id => rows'[p] = rows[p]
    BY <1>1 DEF Created, IInv, TypeOK
<1> HIDE DEF id, name, config
<1>3. DOMAIN TableOf(rows') = DOMAIN TableOf(rows) \union {id}
  <2>1. \A p \in Ids : rows'[p].present <=> rows[p].present \/ p = id
    BY <1>1, <1>2
  <2> QED
    BY <1>1, <2>1, TableIs
<1>4. \A p \in DOMAIN TableOf(rows') :
        TableOf(rows')[p] = IF p = id THEN [name |-> name, config |-> config, builtin |-> FALSE]
                            ELSE TableOf(rows)[p]
  <2>1. TableOf(rows')[id] = [name |-> name, config |-> config, builtin |-> FALSE]
    <3>1. /\ rows'[id].present /\ rows'[id].name = name /\ rows'[id].config = config
          /\ rows'[id].is_builtin = FALSE
      BY <1>2
    <3>2. TableOf(rows')[id] = [name |-> rows'[id].name, config |-> rows'[id].config,
                                builtin |-> rows'[id].is_builtin]
      BY <1>1, <3>1, RowIs
    <3> QED
      BY <3>1, <3>2, Zenon
  <2>2. ASSUME NEW p \in Ids, p # id, rows'[p].present
        PROVE  TableOf(rows')[p] = TableOf(rows)[p]
    BY <1>2, <2>2, SameRow
  <2> QED
    BY <2>1, <2>2, TableIs
<1>5. TableOf(rows') = [p \in DOMAIN TableOf(rows') |-> TableOf(rows')[p]]
    BY DEF TableOf
<1>6. TableOf(rows') = [p \in DOMAIN TableOf(rows) \union {id} |->
                          IF p = id THEN [name |-> name, config |-> config, builtin |-> FALSE]
                          ELSE TableOf(rows)[p]]
    BY <1>3, <1>4, <1>5
<1>7. Table!UniqueNames(TableOf(rows'))
    BY NamesOfTable DEF Constraints
<1>8. used' = used \union {id}
    BY DEF id
<1>9. /\ TableOf(rows)' = [p \in DOMAIN TableOf(rows) \union {id} |->
                             IF p = id THEN [name |-> name, config |-> config, builtin |-> FALSE]
                             ELSE TableOf(rows)[p]]
      /\ Table!UniqueNames(TableOf(rows)')
    BY <1>6, <1>7
<1> SUFFICES \E p \in Ids \ (used \union Builtins), n \in Names, c \in UserConfigs :
                /\ TableOf(rows)' = [q \in DOMAIN TableOf(rows) \union {p} |->
                                       IF q = p THEN [name |-> n, config |-> c, builtin |-> FALSE]
                                       ELSE TableOf(rows)[q]]
                /\ Table!UniqueNames(TableOf(rows)')
                /\ used' = used \union {p}
    BY DEF Table!Create
<1> USE <1>1
<1> WITNESS id \in Ids \ (used \union Builtins), name \in Names, config \in UserConfigs
<1> QED
    BY <1>8, <1>9

\* The columns that an UPDATE carries.
LEMMA UpdatePromises ==
  ASSUME IInv, NEW s \in Servers, update_provider(s), rows' = Updated(s), used' = used,
         rows[session[s].id].present, Constraints(rows')
  PROVE  Table!Update
<1> DEFINE id == session[s].id
           name == rows'[id].name
           config == rows'[id].config
           row == rows[id]
<1>1. id \in Ids /\ session[s] \in Session /\ row \in ProviderRow
    BY DEF IInv, TypeOK, Session
<1>2. /\ name \in Names \union {row.name} /\ config \in UserConfigs \union {row.config}
      /\ rows'[id] = [present |-> TRUE, name |-> name, config |-> config,
                      is_builtin |-> row.is_builtin]
      /\ \A p \in Ids : p # id => rows'[p] = rows[p]
    BY <1>1 DEF Updated, IInv, TypeOK, ProviderRow, Session
<1>3. row.present
    OBVIOUS
<1> HIDE DEF name, config
<1>4. DOMAIN TableOf(rows') = DOMAIN TableOf(rows) /\ id \in DOMAIN TableOf(rows)
  <2>1. \A p \in Ids : rows'[p].present <=> rows[p].present
    BY <1>1, <1>2, <1>3
  <2> QED
    BY <1>1, <1>3, <2>1, TableIs
<1>5. TableOf(rows)[id] = [name |-> row.name, config |-> row.config, builtin |-> row.is_builtin]
    BY <1>1, <1>3, TableIs, RowIs
<1>6. TableOf(rows')[id] = [name |-> name, config |-> config, builtin |-> row.is_builtin]
    BY <1>1, <1>2, TableIs, RowIs
<1>7. ASSUME NEW p \in DOMAIN TableOf(rows), p # id
      PROVE  TableOf(rows')[p] = TableOf(rows)[p]
  <2>1. p \in Ids /\ rows[p].present
    BY TableIs
  <2> QED
    BY <1>2, <1>7, <2>1, SameRow
<1> HIDE DEF id, row
<1>8. TableOf(rows) = [p \in DOMAIN TableOf(rows) |-> TableOf(rows)[p]]
      /\ TableOf(rows') = [p \in DOMAIN TableOf(rows') |-> TableOf(rows')[p]]
    BY DEF TableOf
<1>9. TableOf(rows') = [TableOf(rows) EXCEPT ![id].name = name, ![id].config = config]
  <2>1. TableOf(rows) \in [DOMAIN TableOf(rows) -> Table!Row]
    BY TableType DEF IInv, TypeOK
  <2>2. name \in Names /\ config \in Configs
    BY <1>1, <1>2 DEF ProviderRow, Configs
  <2> DEFINE T == TableOf(rows)
             S == DOMAIN T
             edited == [T EXCEPT ![id].name = name, ![id].config = config]
  <2>3. T \in [S -> Table!Row] /\ id \in S /\ T[id].builtin = row.is_builtin
    BY <1>4, <1>5, <2>1
  <2> HIDE DEF T, S
  <2>4. /\ edited[id] = [name |-> name, config |-> config, builtin |-> T[id].builtin]
        /\ edited \in [S -> Table!Row]
        /\ \A p \in S \ {id} : edited[p] = T[p]
    BY <2>2, <2>3 DEF Table!Row, Configs
  <2> HIDE DEF edited
  <2>5. TableOf(rows') = edited
    <3>1. TableOf(rows') = [p \in S |-> TableOf(rows')[p]]
      BY <1>4, <1>8 DEF S, T
    <3>2. TableOf(rows')[id] = edited[id]
      BY <1>6, <2>3, <2>4, Zenon
    <3>3. \A p \in S \ {id} : TableOf(rows')[p] = edited[p]
      BY <1>7, <2>4 DEF S, T
    <3> QED
      BY <2>3, <2>4, <3>1, <3>2, <3>3
  <2> QED
    BY <2>5 DEF edited, T
<1>10. Table!UniqueNames(TableOf(rows'))
    BY NamesOfTable DEF Constraints
<1>11. name \in Names \union {TableOf(rows)[id].name}
       /\ config \in UserConfigs \union {TableOf(rows)[id].config}
    BY <1>2, <1>5
<1> QED
    BY <1>4, <1>9, <1>10, <1>11 DEF Table!Update

\* A row that is there is deleted, and is not a built-in one; one that is gone stays so.
LEMMA DeletePromises ==
  ASSUME IInv, NEW s \in Servers, delete_provider(s)
  PROVE  Table!Delete \/ (TableOf(rows') = TableOf(rows) /\ used' = used)
<1> DEFINE id == session[s].id
<1>1. /\ id \in Ids /\ id \notin Builtins /\ used' = used
      /\ rows' = [rows EXCEPT ![id] = Absent] /\ ~Absent.present
    BY AbsentType DEF delete_provider, Commits, IInv, TypeOK, Session, SessionInv, SessionOf
<1>2. ~rows'[id].present /\ \A p \in Ids : p # id => rows'[p] = rows[p]
    BY <1>1 DEF IInv, TypeOK
<1> HIDE DEF id
<1>3. DOMAIN TableOf(rows') = DOMAIN TableOf(rows) \ {id}
  <2>1. \A p \in Ids : rows'[p].present <=> rows[p].present /\ p # id
    BY <1>1, <1>2
  <2> QED
    BY <1>1, <2>1, TableIs
<1>4. ASSUME NEW p \in DOMAIN TableOf(rows')
      PROVE  TableOf(rows')[p] = TableOf(rows)[p]
  <2>1. p \in Ids /\ rows'[p].present /\ p # id
    BY <1>2, TableIs
  <2> QED
    BY <1>2, <2>1, SameRow
<1>5. TableOf(rows) = [p \in DOMAIN TableOf(rows) |-> TableOf(rows)[p]]
      /\ TableOf(rows') = [p \in DOMAIN TableOf(rows') |-> TableOf(rows')[p]]
    BY DEF TableOf
<1>6. CASE id \in DOMAIN TableOf(rows)
  <2>1. TableOf(rows') = [p \in DOMAIN TableOf(rows) \ {id} |-> TableOf(rows)[p]]
    BY <1>3, <1>4, <1>5
  <2> QED
    BY <1>1, <1>6, <2>1 DEF Table!Delete
<1>7. CASE id \notin DOMAIN TableOf(rows)
  <2>1. TableOf(rows') = TableOf(rows)
    BY <1>3, <1>4, <1>5, <1>7
  <2> QED
    BY <1>1, <2>1
<1> QED
    BY <1>6, <1>7

\* However the statements of the sessions interleave, every operation takes effect on the
\* table at one moment, or not at all.
THEOREM ImplementsTheTable == Spec => ImplementsTable
<1>1. ASSUME IInv, [Next]_vars
      PROVE  [Table!Next]_(Table!vars)
  <2>1. CASE rows' = rows /\ used' = used
    BY <2>1 DEF Table!vars, TableOf
  <2>2. ASSUME NEW s \in Servers, _ensure_builtin_providers(s)
        PROVE  Table!Next
    BY <1>1, <2>2, EnsurePromises DEF Table!Next
  <2>3. ASSUME NEW s \in Servers, create_provider(s)
        PROVE  Table!Next \/ (rows' = rows /\ used' = used)
    BY <1>1, <2>3, CreatePromises DEF Table!Next, create_provider
  <2>4. ASSUME NEW s \in Servers, update_provider(s)
        PROVE  Table!Next \/ (rows' = rows /\ used' = used)
    BY <1>1, <2>4, UpdatePromises DEF Table!Next, update_provider
  <2>5. ASSUME NEW s \in Servers, delete_provider(s)
        PROVE  Table!Next \/ (TableOf(rows') = TableOf(rows) /\ used' = used)
    BY <1>1, <2>5, DeletePromises DEF Table!Next
  <2>6. CASE TableOf(rows') = TableOf(rows) /\ used' = used
    BY <2>6 DEF Table!vars
  <2> QED
    BY <1>1, <2>1, <2>2, <2>3, <2>4, <2>5, <2>6, StepEffect
<1> QED
    BY <1>1, InitPromises, Invariance, PTL DEF Spec, ImplementsTable, Table!Spec
=============================================================================
