-------------------------- MODULE VideoTasksProofs --------------------------
(***************************************************************************)
(* Proofs about VideoTasks, for every set of tasks and of servers.         *)
(*                                                                         *)
(* The argument.  Only the coroutine of a task ever gives its row a        *)
(* result, and it does so in its last session; a boot changes the status   *)
(* and the detail of the rows it loaded unfinished and nothing else.  So   *)
(* results are safe however the sessions of several servers interleave     *)
(* (SessionInv, CoroutineInv, RowInv).  Where servers do not overlap, what *)
(* a session has loaded is still what the table holds when it commits, and *)
(* a row is unfinished exactly while its coroutine lives or its server has *)
(* yet to boot again (ExclusiveInv).                                       *)
(***************************************************************************)
EXTENDS VideoTasks, TLAPS

RunnerOps == {"start", "complete", "fail"}

\* What an open session is about.
Session(s) ==
  /\ txn[s].op = "idle" => txn[s].on = {}
  /\ server[s] = "down" => txn[s].op = "idle"
  /\ server[s] = "booting" <=> txn[s].op = "boot"
  /\ txn[s].op \in RunnerOps => \E t \in Tasks : txn[s].on = {t}
  /\ \A t \in txn[s].on :
       /\ txn[s].op \in RunnerOps => host[t] = s
       /\ txn[s].op = "start" => coro[t] = "spawned"
       /\ txn[s].op \in {"complete", "fail"} => coro[t] = "generating"
       /\ txn[s].op = "boot" => /\ txn[s].view[t].status \in Active
                               /\ host[t] # NoServer

SessionInv == \A s \in Servers : Session(s)

\* Where a coroutine lives.
Coroutine(t) ==
  /\ host[t] = NoServer <=> row[t].status = "absent"
  /\ coro[t] # "none" => host[t] # NoServer
  /\ coro[t] \in Live => server[host[t]] = "up" /\ t \in running_tasks[host[t]]
  /\ coro[t] = "none" /\ host[t] # NoServer => DbMayFail
  /\ coro[t] = "raised" => DbMayFail

CoroutineInv == \A t \in Tasks : Coroutine(t)

\* What a row can hold, given what became of its coroutine.
RowOf(t) ==
  /\ row[t].status = "absent" =>
       row[t].detail = "none" /\ ~row[t].result /\ ~row[t].batch_result
  /\ coro[t] = "returned" => row[t].status \in Terminal
  /\ coro[t] \in Live => /\ row[t].status # "completed"
                         /\ ~row[t].result /\ ~row[t].batch_result
  /\ coro[t] = "killed" /\ row[t].status \in Active =>
       \/ server[host[t]] = "down"
       \/ server[host[t]] = "booting" /\ t \in txn[host[t]].on

\* What the session of a runner has loaded, given what the table holds.
ViewOf(s, t) ==
  t \in txn[s].on /\ txn[s].op \in RunnerOps =>
    /\ txn[s].view[t].kind = row[t].kind
    /\ ~txn[s].view[t].result /\ ~txn[s].view[t].batch_result
    /\ txn[s].view[t].status # "completed"
    /\ txn[s].view[t].status = "failed" => row[t].status = "failed"

RowInv ==
  /\ \A t \in Tasks : RowOf(t)
  /\ \A s \in Servers, t \in Tasks : ViewOf(s, t)

\* Servers take turns, and then no session works on stale rows, and a boot has
\* loaded every unfinished row.
Turns ==
  \A s1, s2 \in Servers : s1 # s2 => server[s1] = "down" \/ server[s2] = "down"

Fresh(s) ==
  /\ \A t \in txn[s].on : txn[s].view[t] = row[t]
  /\ server[s] = "booting" => Unfinished \subseteq txn[s].on

Phase(t) ==
  /\ coro[t] = "spawned" => row[t].status = "queued"
  /\ coro[t] = "generating" => row[t].status = "running"

ExclusiveInv ==
  /\ Turns
  /\ \A s \in Servers : Fresh(s)
  /\ \A t \in Tasks : Phase(t)

IInv ==
  /\ TypeOK
  /\ SessionInv
  /\ CoroutineInv
  /\ RowInv
  /\ CompletedRowHasResult
  /\ Exclusive => ExclusiveInv /\ OutcomeMatchesStatus

-----------------------------------------------------------------------------
(* The methods on one row.                                                   *)

\* What a method assigns to a row is a row; it never changes the kind.
LEMMA AssignedType ==
  ASSUME NEW op \in Ops, NEW r \in Row
  PROVE  Assigned(op, r) \in Row /\ Assigned(op, r).kind = r.kind
  BY DEF Assigned, update_task_status, complete_task, fail_task, mark_interrupted,
         Ops, Row, Status, Active, Terminal, Kinds

\* An UPDATE of a row by a row is a row.
LEMMA FlushedType ==
  ASSUME NEW old \in Row, NEW new \in Row, NEW cur \in Row
  PROVE  Flushed(old, new, cur) \in Row
  BY DEF Flushed, Row

LEMMA FlushedResults ==
  ASSUME NEW old, NEW new, NEW cur
  PROVE  /\ Flushed(old, new, cur).result =
              IF new.result # old.result THEN new.result ELSE cur.result
         /\ Flushed(old, new, cur).batch_result =
              IF new.batch_result # old.batch_result
              THEN new.batch_result ELSE cur.batch_result
  BY DEF Flushed

\* When nobody else has written, the UPDATE leaves what the method assigned.
LEMMA FlushedFresh ==
  ASSUME NEW old \in Row, NEW new \in Row, new.kind = old.kind
  PROVE  Flushed(old, new, old) = new
  BY DEF Flushed, Row

LEMMA CommittedType ==
  ASSUME TypeOK, NEW s \in Servers
  PROVE  Committed(s) \in [Tasks -> Row]
<1> SUFFICES ASSUME NEW t \in Tasks
             PROVE  Committed(s)[t] \in Row
    BY DEF Committed
<1>1. txn[s] \in Txn /\ row[t] \in Row
    BY DEF TypeOK
<1>2. txn[s].view[t] \in Row /\ txn[s].op \in Ops
    BY <1>1 DEF Txn
<1>3. Assigned(txn[s].op, txn[s].view[t]) \in Row
    BY <1>2, AssignedType
<1> QED
    BY <1>1, <1>2, <1>3, FlushedType DEF Committed

-----------------------------------------------------------------------------
(* Types.                                                                    *)

LEMMA NoRowType == NoRow \in Row /\ NoTxn \in Txn
  BY DEF NoRow, Row, NoTxn, Txn, Ops, Status, Kinds, Active, Terminal

\* The row of a new task.
LEMMA QueuedRow ==
  ASSUME NEW k \in Kinds
  PROVE  LET r == [NoRow EXCEPT !.status = "queued", !.kind = k]
         IN  /\ r \in Row
             /\ r.status = "queued" /\ r.kind = k /\ r.detail = "none"
             /\ r.result = FALSE /\ r.batch_result = FALSE
<1> DEFINE r == [NoRow EXCEPT !.status = "queued", !.kind = k]
<1>1. r \in Row
    BY NoRowType DEF Row, Status, Active
<1>2. /\ r.status = "queued" /\ r.kind = k /\ r.detail = NoRow.detail
      /\ r.result = NoRow.result /\ r.batch_result = NoRow.batch_result
    BY NoRowType DEF Row
<1>3. NoRow.detail = "none" /\ NoRow.result = FALSE /\ NoRow.batch_result = FALSE
    BY DEF NoRow
<1> QED
    BY <1>1, <1>2, <1>3, Zenon

LEMMA LoadType ==
  ASSUME TypeOK, NEW s \in Servers, NEW op \in Ops, NEW on \in SUBSET Tasks,
         Load(s, op, on)
  PROVE  txn' \in [Servers -> Txn]
  BY DEF TypeOK, Load, Txn

LEMMA TypeStep == TypeOK /\ [Next]_vars => TypeOK'
<1> SUFFICES ASSUME TypeOK, [Next]_vars
             PROVE  TypeOK'
    OBVIOUS
<1>1. CASE UNCHANGED vars
    BY <1>1 DEF TypeOK, vars
<1>2. ASSUME NEW s \in Servers, NEW t \in Tasks, NEW k \in Kinds,
             Submit(s, t, k) \/ SubmitRaises(s, t, k)
      PROVE  TypeOK'
  <2>1. row' \in [Tasks -> Row]
    BY <1>2, QueuedRow DEF Submit, SubmitRaises, create_task_record, TypeOK
  <2>2. /\ running_tasks' \in [Servers -> SUBSET Tasks]
        /\ coro' \in [Tasks -> Coro]
    BY <1>2 DEF Submit, SubmitRaises, spawn_background_task, TypeOK, Coro, Live
  <2> QED
    BY <1>2, <2>1, <2>2 DEF Submit, SubmitRaises, TypeOK
<1>3. ASSUME NEW s \in Servers, NEW t \in Tasks, Resume(s, t)
      PROVE  TypeOK'
  <2>1. txn' \in [Servers -> Txn]
    BY <1>3, LoadType DEF Resume, RunnerStarts, GenerationReturns, GenerationRaises, Ops
  <2> QED
    BY <1>3, <2>1 DEF Resume, RunnerStarts, GenerationReturns, GenerationRaises, TypeOK
<1>4. ASSUME NEW s \in Servers, NEW t \in Tasks,
             RunnerCommits(s, t) \/ RunnerDbError(s, t)
      PROVE  TypeOK'
  <2>1. row' \in [Tasks -> Row]
    BY <1>4, CommittedType DEF RunnerCommits, RunnerDbError, TypeOK
  <2>2. coro' \in [Tasks -> Coro] /\ txn' \in [Servers -> Txn]
    BY <1>4, NoRowType DEF RunnerCommits, RunnerDbError, TypeOK, Coro, Live, Ended
  <2> QED
    BY <1>4, <2>1, <2>2 DEF RunnerCommits, RunnerDbError, TypeOK
<1>5. ASSUME NEW s \in Servers, NEW t \in Tasks, Cleanup(s, t)
      PROVE  TypeOK'
    BY <1>5 DEF Cleanup, TypeOK
<1>6. ASSUME NEW s \in Servers, Stop(s)
      PROVE  TypeOK'
  <2>1. coro' \in [Tasks -> Coro] /\ txn' \in [Servers -> Txn]
    BY <1>6, NoRowType DEF Stop, TypeOK, Coro, Ended
  <2> QED
    BY <1>6, <2>1 DEF Stop, TypeOK
<1>7. ASSUME NEW s \in Servers, Boot(s)
      PROVE  TypeOK'
  <2>1. txn' \in [Servers -> Txn]
    BY <1>7, LoadType DEF Boot, Ops, Unfinished, TypeOK
  <2>2. server' \in [Servers -> {"down", "booting", "up"}]
    BY <1>7 DEF Boot, TypeOK
  <2> QED
    BY <1>7, <2>1, <2>2 DEF Boot, TypeOK
<1>8. ASSUME NEW s \in Servers, BootCommits(s) \/ BootDbError(s)
      PROVE  TypeOK'
  <2>1. row' \in [Tasks -> Row] /\ txn' \in [Servers -> Txn]
    BY <1>8, CommittedType, NoRowType DEF BootCommits, BootDbError, TypeOK
  <2> QED
    BY <1>8, <2>1 DEF BootCommits, BootDbError, TypeOK
<1> QED
    BY <1>1, <1>2, <1>3, <1>4, <1>5, <1>6, <1>7, <1>8
    DEF Next, Request, Runner, Lifecycle, Resume

\* Every variable keeps its type, for all tasks and servers.
THEOREM TypeCorrect == Spec => []TypeOK
<1>1. Init => TypeOK
    BY NoRowType DEF Init, TypeOK, Coro
<1> QED
    BY <1>1, TypeStep, PTL DEF Spec

-----------------------------------------------------------------------------
(* What a commit does to the table.                                          *)

\* The commit of a runner touches one row, and not its kind; it gives the row a
\* result only at the end of a successful generation.
LEMMA RunnerCommit ==
  ASSUME TypeOK, RowInv, NEW s \in Servers, NEW t \in Tasks,
         txn[s].on = {t}, txn[s].op \in RunnerOps
  PROVE  /\ \A u \in Tasks \ {t} : Committed(s)[u] = row[u]
         /\ Committed(s)[t].kind = row[t].kind
         /\ txn[s].op = "start" =>
              /\ Committed(s)[t].status \in {"running", row[t].status}
              /\ Committed(s)[t].result = row[t].result
              /\ Committed(s)[t].batch_result = row[t].batch_result
         /\ txn[s].op = "complete" =>
              /\ Committed(s)[t].status = "completed"
              /\ coro[t] \in Live =>
                   /\ Committed(s)[t].result = (row[t].kind = "single")
                   /\ Committed(s)[t].batch_result = (row[t].kind = "multi")
         /\ txn[s].op = "fail" =>
              /\ Committed(s)[t].status = "failed"
              /\ Committed(s)[t].result = row[t].result
              /\ Committed(s)[t].batch_result = row[t].batch_result
<1> DEFINE old == txn[s].view[t]
           new == Assigned(txn[s].op, old)
<1>1. old \in Row /\ row[t] \in Row
    BY DEF TypeOK, Txn
<1>2. Committed(s)[t] = Flushed(old, new, row[t])
    BY DEF Committed
<1>3. ViewOf(s, t) /\ RowOf(t)
    BY DEF RowInv
<1>4. \A u \in Tasks \ {t} : Committed(s)[u] = row[u]
    BY DEF Committed
<1>5. CASE txn[s].op = "start"
  <2>1. new = update_task_status(old)
    BY <1>5 DEF Assigned
  <2> QED
    BY <1>1, <1>2, <1>4, <1>5, <2>1 DEF Flushed, update_task_status, Row
<1>6. CASE txn[s].op = "complete"
  <2>1. new = complete_task(old)
    BY <1>6 DEF Assigned
  <2>2. /\ new.status = "completed"
        /\ new.result = (old.kind = "single")
        /\ new.batch_result = (old.kind = "multi")
    BY <1>1, <2>1 DEF complete_task, Row
  <2>3. /\ old.status # "completed" /\ old.kind = row[t].kind
        /\ ~old.result /\ ~old.batch_result
    BY <1>3, <1>6 DEF ViewOf
  <2>4. coro[t] \in Live => ~row[t].result /\ ~row[t].batch_result
    BY <1>3 DEF RowOf
  <2>5. /\ Committed(s)[t].kind = row[t].kind
        /\ Committed(s)[t].status = "completed"
    BY <1>1, <1>2, <2>2, <2>3 DEF Flushed
  <2>6. ASSUME coro[t] \in Live
        PROVE  /\ Committed(s)[t].result = (row[t].kind = "single")
               /\ Committed(s)[t].batch_result = (row[t].kind = "multi")
    <3>1. /\ old.result = FALSE /\ old.batch_result = FALSE
          /\ row[t].result = FALSE /\ row[t].batch_result = FALSE
      <4>1. /\ old.result \in BOOLEAN /\ old.batch_result \in BOOLEAN
            /\ row[t].result \in BOOLEAN /\ row[t].batch_result \in BOOLEAN
        BY <1>1 DEF Row
      <4> QED
        BY <2>3, <2>4, <2>6, <4>1, Zenon
    <3>2. /\ Committed(s)[t].result = IF new.result # FALSE THEN new.result ELSE FALSE
          /\ Committed(s)[t].batch_result =
               IF new.batch_result # FALSE THEN new.batch_result ELSE FALSE
      <4>1. /\ Committed(s)[t].result =
                 IF new.result # old.result THEN new.result ELSE row[t].result
            /\ Committed(s)[t].batch_result =
                 IF new.batch_result # old.batch_result
                 THEN new.batch_result ELSE row[t].batch_result
        BY <1>2, FlushedResults
      <4> QED
        BY <3>1, <4>1, Zenon
    <3>3. /\ Committed(s)[t].result = new.result
          /\ Committed(s)[t].batch_result = new.batch_result
      BY <3>2, Zenon
    <3> QED
      BY <2>2, <2>3, <3>3, Zenon
  <2> QED
    BY <1>4, <1>6, <2>5, <2>6
<1>7. CASE txn[s].op = "fail"
  <2>1. new = fail_task(old)
    BY <1>7 DEF Assigned
  <2>2. old.status = "failed" => row[t].status = "failed"
    BY <1>3, <1>7 DEF ViewOf
  <2>3. /\ new.status = "failed" /\ new.result = old.result
        /\ new.batch_result = old.batch_result
    BY <1>1, <2>1 DEF fail_task, Row
  <2>4. Committed(s)[t].status = "failed"
    BY <1>2, <2>2, <2>3 DEF Flushed
  <2> QED
    BY <1>2, <1>4, <1>7, <2>3, <2>4 DEF Flushed
<1> QED
    BY <1>5, <1>6, <1>7 DEF RunnerOps

\* The commit of a boot fails the rows it loaded, and changes no result.
LEMMA BootCommit ==
  ASSUME TypeOK, SessionInv, NEW s \in Servers, server[s] = "booting", NEW t \in Tasks
  PROVE  /\ t \notin txn[s].on => Committed(s)[t] = row[t]
         /\ t \in txn[s].on => Committed(s)[t].status = "failed"
         /\ Committed(s)[t].kind = row[t].kind
         /\ Committed(s)[t].result = row[t].result
         /\ Committed(s)[t].batch_result = row[t].batch_result
<1>1. txn[s].op = "boot" /\ (t \in txn[s].on => txn[s].view[t].status \in Active)
    BY DEF SessionInv, Session
<1>2. txn[s].view[t] \in Row /\ row[t] \in Row
    BY DEF TypeOK, Txn
<1>3. Assigned(txn[s].op, txn[s].view[t]) = mark_interrupted(txn[s].view[t])
    BY <1>1 DEF Assigned
<1>4. CASE t \notin txn[s].on
    BY <1>4 DEF Committed
<1>5. CASE t \in txn[s].on
  <2>1. Committed(s)[t] = Flushed(txn[s].view[t], mark_interrupted(txn[s].view[t]), row[t])
    BY <1>3, <1>5 DEF Committed
  <2> QED
    BY <1>1, <1>2, <1>5, <2>1 DEF Flushed, mark_interrupted, Row, Active
<1> QED
    BY <1>4, <1>5

-----------------------------------------------------------------------------
(* Sessions.                                                                 *)

LEMMA SessionStep == IInv /\ [Next]_vars => SessionInv'
<1> SUFFICES ASSUME IInv, [Next]_vars, NEW x \in Servers
             PROVE  Session(x)'
    BY DEF SessionInv
<1>0. /\ TypeOK /\ TypeOK' /\ Session(x) /\ SessionInv /\ CoroutineInv
      /\ txn[x] \in Txn
    BY TypeStep DEF IInv, SessionInv, TypeOK
<1>1. CASE UNCHANGED vars
    BY <1>0, <1>1 DEF Session, vars
<1>2. ASSUME NEW s \in Servers, NEW t \in Tasks, NEW k \in Kinds,
             Submit(s, t, k) \/ SubmitRaises(s, t, k)
      PROVE  Session(x)'
  <2>1. UNCHANGED <<server, txn>> /\ row[t].status = "absent"
    BY <1>2 DEF Submit, SubmitRaises
  <2>2. coro[t] = "none"
    BY <1>0, <2>1 DEF CoroutineInv, Coroutine
  <2>3. \A u \in Tasks \ {t} : host'[u] = host[u] /\ coro'[u] = coro[u]
    BY <1>0, <1>2 DEF Submit, SubmitRaises, spawn_background_task, TypeOK
  <2>4. t \notin txn[x].on
    BY <1>0, <2>1, <2>2 DEF Session, RunnerOps, CoroutineInv, Coroutine, Txn, Ops
  <2> QED
    BY <1>0, <2>1, <2>3, <2>4 DEF Session, RunnerOps, Txn
<1>3. ASSUME NEW s \in Servers, NEW t \in Tasks, Resume(s, t)
      PROVE  Session(x)'
  <2>1. /\ server[s] = "up" /\ host[t] = s /\ UNCHANGED <<server, host, coro>>
        /\ \E op \in RunnerOps :
             /\ txn' = [txn EXCEPT ![s] = [op |-> op, on |-> {t}, view |-> row]]
             /\ coro[t] = IF op = "start" THEN "spawned" ELSE "generating"
    BY <1>3 DEF Resume, RunnerStarts, GenerationReturns, GenerationRaises, LoopFree,
                Load, RunnerOps
  <2>2. CASE x # s
    BY <1>0, <2>1, <2>2 DEF Session, TypeOK
  <2>3. CASE x = s
    BY <1>0, <2>1, <2>3 DEF Session, TypeOK, RunnerOps
  <2> QED
    BY <2>2, <2>3
<1>4. ASSUME NEW s \in Servers, NEW t \in Tasks,
             RunnerCommits(s, t) \/ RunnerDbError(s, t)
      PROVE  Session(x)'
  <2>1. /\ server[s] = "up" /\ UNCHANGED <<server, host>>
        /\ txn[s].op \in RunnerOps /\ txn[s].on = {t}
        /\ txn' = [txn EXCEPT ![s] = NoTxn]
        /\ \A u \in Tasks \ {t} : coro'[u] = coro[u]
    BY <1>0, <1>4 DEF RunnerCommits, RunnerDbError, RunnerOps, TypeOK
  <2>2. CASE x = s
    BY <1>0, <2>1, <2>2 DEF Session, TypeOK, RunnerOps, NoTxn
  <2>3. CASE x # s
    <3>1. txn'[x] = txn[x] /\ server'[x] = server[x]
      BY <1>0, <2>1, <2>3 DEF TypeOK
    <3>2. host[t] = s
      BY <1>0, <2>1 DEF SessionInv, Session
    <3>3. txn[x].op \in RunnerOps => t \notin txn[x].on
      BY <1>0, <2>3, <3>2 DEF Session
    <3> QED
      BY <1>0, <2>1, <3>1, <3>3 DEF Session, RunnerOps, Txn
  <2> QED
    BY <2>2, <2>3
<1>5. ASSUME NEW s \in Servers, NEW t \in Tasks, Cleanup(s, t)
      PROVE  Session(x)'
    BY <1>0, <1>5 DEF Session, Cleanup
<1>6. ASSUME NEW s \in Servers, Stop(s)
      PROVE  Session(x)'
  <2>1. CASE x = s
    BY <1>0, <1>6, <2>1 DEF Session, Stop, NoTxn, RunnerOps, TypeOK
  <2>2. CASE x # s
    <3>1. txn'[x] = txn[x] /\ server'[x] = server[x] /\ UNCHANGED host
      BY <1>0, <1>6, <2>2 DEF Stop, TypeOK
    <3>2. \A u \in Tasks : host[u] # s => coro'[u] = coro[u]
      BY <1>6 DEF Stop
    <3> QED
      BY <1>0, <2>2, <3>1, <3>2 DEF Session, RunnerOps, Txn
  <2> QED
    BY <2>1, <2>2
<1>7. ASSUME NEW s \in Servers, Boot(s)
      PROVE  Session(x)'
  <2>1. CASE x # s
    BY <1>0, <1>7, <2>1 DEF Session, Boot, Load, TypeOK
  <2>2. CASE x = s /\ Unfinished = {}
    BY <1>0, <1>7, <2>2 DEF Session, Boot, TypeOK
  <2>3. CASE x = s /\ Unfinished # {}
    <3>1. server'[s] = "booting" /\ txn'[s] = [op |-> "boot", on |-> Unfinished, view |-> row]
      BY <1>0, <1>7, <2>3 DEF Boot, Load, TypeOK
    <3>2. \A t \in Unfinished : host[t] # NoServer /\ row[t].status \in Active
      BY <1>0 DEF CoroutineInv, Coroutine, Unfinished, Active
    <3> QED
      BY <1>7, <2>3, <3>1, <3>2 DEF Session, RunnerOps, Unfinished, Boot
  <2> QED
    BY <2>1, <2>2, <2>3
<1>8. ASSUME NEW s \in Servers, BootCommits(s) \/ BootDbError(s)
      PROVE  Session(x)'
  <2>1. /\ server'[s] \in {"up", "down"} /\ txn'[s] = NoTxn
        /\ x # s => txn'[x] = txn[x] /\ server'[x] = server[x]
        /\ UNCHANGED <<host, coro>>
    BY <1>0, <1>8 DEF BootCommits, BootDbError, TypeOK
  <2> QED
    BY <1>0, <2>1 DEF Session, NoTxn, RunnerOps
<1> QED
    BY <1>1, <1>2, <1>3, <1>4, <1>5, <1>6, <1>7, <1>8
    DEF Next, Request, Runner, Lifecycle, Resume

-----------------------------------------------------------------------------
(* Coroutines.                                                               *)

LEMMA CoroutineStep == IInv /\ [Next]_vars => CoroutineInv'
<1> SUFFICES ASSUME IInv, [Next]_vars, NEW u \in Tasks
             PROVE  Coroutine(u)'
    BY DEF CoroutineInv
<1>0. /\ TypeOK /\ TypeOK' /\ Coroutine(u) /\ SessionInv /\ CoroutineInv /\ RowInv
      /\ host[u] \in Servers \union {NoServer}
    BY TypeStep DEF IInv, CoroutineInv, TypeOK
<1>1. CASE UNCHANGED vars
    BY <1>0, <1>1 DEF Coroutine, vars
<1>2. ASSUME NEW s \in Servers, NEW t \in Tasks, NEW k \in Kinds,
             Submit(s, t, k) \/ SubmitRaises(s, t, k)
      PROVE  Coroutine(u)'
  <2>1. /\ server[s] = "up" /\ row[t].status = "absent" /\ UNCHANGED server
        /\ host' = [host EXCEPT ![t] = s]
        /\ row'[t].status = "queued"
        /\ u # t => row'[u] = row[u]
    BY <1>0, <1>2, QueuedRow DEF Submit, SubmitRaises, LoopFree, create_task_record, TypeOK
  <2>2. coro[t] = "none"
    BY <1>0, <2>1 DEF CoroutineInv, Coroutine
  <2>3. \/ coro' = [coro EXCEPT ![t] = "spawned"]
           /\ running_tasks' = [running_tasks EXCEPT ![s] = @ \union {t}]
        \/ DbMayFail /\ UNCHANGED <<coro, running_tasks>>
    BY <1>2 DEF Submit, SubmitRaises, spawn_background_task
  <2>4. CASE u = t
    BY <1>0, <2>1, <2>2, <2>3, <2>4, NoServerAssumption DEF Coroutine, TypeOK, Live
  <2>5. CASE u # t
    BY <1>0, <2>1, <2>3, <2>5, NoServerAssumption DEF Coroutine, TypeOK, Live
  <2> QED
    BY <2>4, <2>5
<1>3. ASSUME NEW s \in Servers, NEW t \in Tasks, Resume(s, t)
      PROVE  Coroutine(u)'
    BY <1>0, <1>3 DEF Coroutine, Resume, RunnerStarts, GenerationReturns, GenerationRaises
<1>4. ASSUME NEW s \in Servers, NEW t \in Tasks,
             RunnerCommits(s, t) \/ RunnerDbError(s, t)
      PROVE  Coroutine(u)'
  <2>1. /\ UNCHANGED <<server, host, running_tasks>>
        /\ txn[s].op \in RunnerOps /\ txn[s].on = {t}
        /\ row' \in {row, Committed(s)}
        /\ u # t => coro'[u] = coro[u]
        /\ \/ coro'[t] \in {"generating", "returned"}
           \/ DbMayFail /\ coro'[t] = "raised"
    BY <1>0, <1>4 DEF RunnerCommits, RunnerDbError, RunnerOps, TypeOK
  <2>2. coro[t] \in Live /\ host[t] = s
    BY <1>0, <2>1 DEF SessionInv, Session, Live, RunnerOps
  <2>3. row'[u].status = "absent" <=> row[u].status = "absent"
    <3>1. row[t].status # "absent"
      BY <1>0, <2>2, NoServerAssumption DEF CoroutineInv, Coroutine
    <3>2. CASE u # t
      BY <1>0, <2>1, <3>2, RunnerCommit
    <3>3. CASE u = t
      BY <1>0, <2>1, <3>1, <3>3, RunnerCommit DEF RunnerOps
    <3> QED
      BY <3>2, <3>3
  <2>4. CASE u # t
    BY <1>0, <2>1, <2>3, <2>4 DEF Coroutine
  <2>5. CASE u = t
    BY <1>0, <2>1, <2>2, <2>3, <2>5, NoServerAssumption DEF Coroutine, Live
  <2> QED
    BY <2>4, <2>5
<1>5. ASSUME NEW s \in Servers, NEW t \in Tasks, Cleanup(s, t)
      PROVE  Coroutine(u)'
    BY <1>0, <1>5 DEF Coroutine, Cleanup, Live, Ended, TypeOK
<1>6. ASSUME NEW s \in Servers, Stop(s)
      PROVE  Coroutine(u)'
  <2>1. UNCHANGED <<row, host>>
        /\ coro'[u] = IF host[u] = s /\ coro[u] \in Live THEN "killed" ELSE coro[u]
    BY <1>6 DEF Stop
  <2>2. \A o \in Servers \ {s} : /\ server'[o] = server[o]
                                 /\ running_tasks'[o] = running_tasks[o]
    BY <1>0, <1>6 DEF Stop, TypeOK
  <2>3. CASE host[u] = s /\ coro[u] \in Live
    BY <1>0, <2>1, <2>3 DEF Coroutine, Live
  <2>4. CASE ~(host[u] = s /\ coro[u] \in Live)
    <3>1. coro'[u] = coro[u] /\ host'[u] = host[u] /\ row'[u] = row[u]
      BY <2>1, <2>4
    <3>2. coro[u] \in Live => host[u] \in Servers \ {s}
      BY <1>0, <2>4 DEF Coroutine, Live
    <3> QED
      BY <1>0, <2>2, <3>1, <3>2 DEF Coroutine
  <2> QED
    BY <2>3, <2>4
<1>7. ASSUME NEW s \in Servers, Boot(s)
      PROVE  Coroutine(u)'
  <2>1. /\ UNCHANGED <<row, running_tasks, host, coro>> /\ server[s] = "down"
        /\ \A o \in Servers \ {s} : server'[o] = server[o]
    BY <1>0, <1>7 DEF Boot, TypeOK
  <2> QED
    BY <1>0, <2>1 DEF Coroutine, Live
<1>8. ASSUME NEW s \in Servers, BootCommits(s) \/ BootDbError(s)
      PROVE  Coroutine(u)'
  <2>1. /\ UNCHANGED <<running_tasks, host, coro>> /\ server[s] = "booting"
        /\ \A o \in Servers \ {s} : server'[o] = server[o]
        /\ row' \in {row, Committed(s)}
    BY <1>0, <1>8 DEF BootCommits, BootDbError, TypeOK
  <2>2. txn[s].op = "boot" /\ (u \in txn[s].on => host[u] # NoServer)
    BY <1>0, <2>1 DEF SessionInv, Session
  <2>3. row'[u].status = row[u].status \/ (u \in txn[s].on /\ row'[u].status = "failed")
    BY <1>0, <2>1, BootCommit
  <2>4. u \in txn[s].on => row[u].status # "absent"
    BY <1>0, <2>2 DEF SessionInv, Session, Coroutine
  <2> QED
    BY <1>0, <2>1, <2>3, <2>4 DEF Coroutine, Live
<1> QED
    BY <1>1, <1>2, <1>3, <1>4, <1>5, <1>6, <1>7, <1>8
    DEF Next, Request, Runner, Lifecycle, Resume

-----------------------------------------------------------------------------
(* How each kind of step changes the table: the facts the row invariants     *)
(* need.                                                                     *)

LEMMA SubmitEffect ==
  ASSUME IInv, NEW s \in Servers, NEW t \in Tasks, NEW k \in Kinds,
         Submit(s, t, k) \/ SubmitRaises(s, t, k)
  PROVE  /\ UNCHANGED <<server, txn>> /\ coro[t] = "none" /\ coro'[t] \in {"none", "spawned"}
         /\ \A x \in Servers : t \notin txn[x].on
         /\ row[t].status = "absent" /\ row'[t].status = "queued" /\ row'[t].detail = "none"
         /\ row'[t].result = FALSE /\ row'[t].batch_result = FALSE
         /\ \A u \in Tasks \ {t} : /\ row'[u] = row[u] /\ host'[u] = host[u]
                                   /\ coro'[u] = coro[u]
<1>0. TypeOK /\ SessionInv /\ CoroutineInv
    BY DEF IInv
<1>1. UNCHANGED <<server, txn>> /\ row[t].status = "absent"
    BY DEF Submit, SubmitRaises
<1>2. coro[t] = "none" /\ host[t] = NoServer
    BY <1>0, <1>1 DEF CoroutineInv, Coroutine
<1>3. ASSUME NEW x \in Servers PROVE t \notin txn[x].on
    BY <1>0, <1>2, NoServerAssumption
    DEF SessionInv, Session, RunnerOps, TypeOK, Txn, Ops
<1>4. /\ \A u \in Tasks \ {t} : /\ row'[u] = row[u] /\ host'[u] = host[u]
                                /\ coro'[u] = coro[u]
      /\ coro'[t] \in {"none", "spawned"}
    BY <1>0, <1>2 DEF Submit, SubmitRaises, create_task_record, spawn_background_task, TypeOK
<1>5. row'[t] = [NoRow EXCEPT !.status = "queued", !.kind = k]
    BY <1>0 DEF Submit, SubmitRaises, create_task_record, TypeOK
<1> QED
    BY <1>1, <1>2, <1>3, <1>4, <1>5, QueuedRow

LEMMA ResumeEffect ==
  ASSUME IInv, NEW s \in Servers, NEW t \in Tasks, Resume(s, t)
  PROVE  /\ UNCHANGED <<row, server, running_tasks, host, coro>>
         /\ server[s] = "up" /\ host[t] = s /\ coro[t] \in Live
         /\ txn'[s].op \in RunnerOps /\ txn'[s].on = {t} /\ txn'[s].view = row
         /\ txn'[s].op = "start" <=> coro[t] = "spawned"
         /\ \A x \in Servers \ {s} : txn'[x] = txn[x]
  BY DEF IInv, TypeOK, Resume, RunnerStarts, GenerationReturns, GenerationRaises, LoopFree,
         Load, RunnerOps, Live

LEMMA RunnerEffect ==
  ASSUME IInv, NEW s \in Servers, NEW t \in Tasks,
         RunnerCommits(s, t) \/ RunnerDbError(s, t)
  PROVE  /\ UNCHANGED <<server, running_tasks, host>>
         /\ server[s] = "up" /\ host[t] = s /\ coro[t] \in Live
         /\ txn[s].op \in RunnerOps /\ txn[s].on = {t}
         /\ txn[s].op = "start" <=> coro[t] = "spawned"
         /\ row' \in {row, Committed(s)}
         /\ coro'[t] # "raised" => row' = Committed(s)
         /\ coro'[t] = "generating" => txn[s].op = "start"
         /\ coro'[t] = "returned" => txn[s].op \in {"complete", "fail"}
         /\ coro'[t] \in {"generating", "returned", "raised"}
         /\ txn'[s] = NoTxn
         /\ \A x \in Servers \ {s} : txn'[x] = txn[x]
         /\ \A u \in Tasks \ {t} : row'[u] = row[u] /\ coro'[u] = coro[u]
<1>0. TypeOK /\ SessionInv /\ RowInv
    BY DEF IInv
<1>1. /\ UNCHANGED <<server, running_tasks, host>>
      /\ server[s] = "up" /\ txn[s].op \in RunnerOps /\ txn[s].on = {t}
      /\ row' \in {row, Committed(s)}
      /\ txn' = [txn EXCEPT ![s] = NoTxn]
    BY DEF RunnerCommits, RunnerDbError, RunnerOps
<1>2. /\ coro'[t] # "raised" => row' = Committed(s)
      /\ coro'[t] = "generating" => txn[s].op = "start"
      /\ coro'[t] = "returned" => txn[s].op \in {"complete", "fail"}
      /\ coro'[t] \in {"generating", "returned", "raised"}
      /\ \A u \in Tasks \ {t} : coro'[u] = coro[u]
    BY <1>0 DEF RunnerCommits, RunnerDbError, TypeOK
<1>3. host[t] = s /\ coro[t] \in Live /\ (txn[s].op = "start" <=> coro[t] = "spawned")
    BY <1>0, <1>1 DEF SessionInv, Session, Live, RunnerOps
<1>4. \A u \in Tasks \ {t} : row'[u] = row[u]
    BY <1>0, <1>1, RunnerCommit
<1> QED
    BY <1>0, <1>1, <1>2, <1>3, <1>4 DEF TypeOK

LEMMA StopEffect ==
  ASSUME IInv, NEW s \in Servers, Stop(s)
  PROVE  /\ UNCHANGED <<row, host>>
         /\ server'[s] = "down" /\ txn'[s] = NoTxn
         /\ \A x \in Servers \ {s} : server'[x] = server[x] /\ txn'[x] = txn[x]
         /\ \A u \in Tasks : coro'[u] = IF host[u] = s /\ coro[u] \in Live
                                        THEN "killed" ELSE coro[u]
<1>1. TypeOK
    BY DEF IInv
<1>2. \A u \in Tasks : coro'[u] = IF host[u] = s /\ coro[u] \in Live
                                  THEN "killed" ELSE coro[u]
    BY DEF Stop
<1> QED
    BY <1>1, <1>2 DEF Stop, TypeOK

LEMMA BootEffect ==
  ASSUME IInv, NEW s \in Servers, Boot(s)
  PROVE  /\ UNCHANGED <<row, running_tasks, host, coro>> /\ server[s] = "down"
         /\ Exclusive => \A x \in Servers : server[x] = "down"
         /\ \A x \in Servers \ {s} : server'[x] = server[x] /\ txn'[x] = txn[x]
         /\ \/ Unfinished = {} /\ server'[s] = "up" /\ txn'[s] = txn[s]
            \/ /\ server'[s] = "booting" /\ txn'[s].op = "boot"
               /\ txn'[s].on = Unfinished /\ txn'[s].view = row
  BY DEF IInv, TypeOK, Boot, Load

LEMMA BootEndEffect ==
  ASSUME IInv, NEW s \in Servers, BootCommits(s) \/ BootDbError(s)
  PROVE  /\ UNCHANGED <<running_tasks, host, coro>>
         /\ server[s] = "booting" /\ txn[s].op = "boot" /\ txn'[s] = NoTxn
         /\ row' \in {row, Committed(s)}
         /\ \/ server'[s] = "up" /\ row' = Committed(s)
            \/ server'[s] = "down"
         /\ \A x \in Servers \ {s} : server'[x] = server[x] /\ txn'[x] = txn[x]
         /\ \A u \in Tasks :
              /\ u \notin txn[s].on => row'[u] = row[u]
              /\ row'[u].kind = row[u].kind
              /\ row'[u].result = row[u].result
              /\ row'[u].batch_result = row[u].batch_result
              /\ row'[u].status = row[u].status \/ row'[u].status = "failed"
<1>0. TypeOK /\ SessionInv
    BY DEF IInv
<1>1. /\ UNCHANGED <<running_tasks, host, coro>>
      /\ server[s] = "booting" /\ txn'[s] = NoTxn
      /\ row' \in {row, Committed(s)}
      /\ \/ server'[s] = "up" /\ row' = Committed(s)
         \/ server'[s] = "down"
      /\ \A x \in Servers \ {s} : server'[x] = server[x] /\ txn'[x] = txn[x]
    BY <1>0 DEF BootCommits, BootDbError, TypeOK
<1>2. txn[s].op = "boot"
    BY <1>0, <1>1 DEF SessionInv, Session
<1>3. ASSUME NEW u \in Tasks
      PROVE  /\ u \notin txn[s].on => row'[u] = row[u]
             /\ row'[u].kind = row[u].kind
             /\ row'[u].result = row[u].result
             /\ row'[u].batch_result = row[u].batch_result
             /\ row'[u].status = row[u].status \/ row'[u].status = "failed"
    BY <1>0, <1>1, BootCommit
<1> QED
    BY <1>1, <1>2, <1>3

-----------------------------------------------------------------------------
(* Rows.                                                                     *)

LEMMA RowStep == IInv /\ [Next]_vars => (\A u \in Tasks : RowOf(u)')
<1> SUFFICES ASSUME IInv, [Next]_vars, NEW u \in Tasks
             PROVE  RowOf(u)'
    OBVIOUS
<1>0. /\ TypeOK /\ Coroutine(u) /\ RowOf(u) /\ SessionInv /\ RowInv
      /\ host[u] \in Servers \union {NoServer} /\ row[u] \in Row
    BY DEF IInv, CoroutineInv, TypeOK, RowInv
<1>1. CASE UNCHANGED vars
    BY <1>0, <1>1 DEF RowOf, vars
<1>2. ASSUME NEW s \in Servers, NEW t \in Tasks, NEW k \in Kinds,
             Submit(s, t, k) \/ SubmitRaises(s, t, k)
      PROVE  RowOf(u)'
  <2>1. CASE u = t
    <3>1. /\ row'[u].status = "queued" /\ coro'[u] \in {"none", "spawned"}
          /\ row'[u].result = FALSE /\ row'[u].batch_result = FALSE
      BY <1>2, <2>1, SubmitEffect
    <3> QED
      BY <3>1 DEF RowOf
  <2>2. CASE u # t
    <3>1. /\ row'[u] = row[u] /\ coro'[u] = coro[u] /\ host'[u] = host[u]
          /\ UNCHANGED <<server, txn>>
      BY <1>2, <2>2, SubmitEffect
    <3> QED
      BY <1>0, <3>1 DEF RowOf
  <2> QED
    BY <2>1, <2>2
<1>3. ASSUME NEW s \in Servers, NEW t \in Tasks, Resume(s, t)
      PROVE  RowOf(u)'
  <2>1. /\ UNCHANGED <<row, server, host, coro>> /\ server[s] = "up"
        /\ host[u] # s /\ host[u] # NoServer => txn'[host[u]] = txn[host[u]]
    BY <1>0, <1>3, ResumeEffect
  <2>2. coro[u] = "killed" => host[u] # NoServer
    BY <1>0 DEF Coroutine
  <2> QED
    BY <1>0, <2>1, <2>2 DEF RowOf
<1>4. ASSUME NEW s \in Servers, NEW t \in Tasks,
             RunnerCommits(s, t) \/ RunnerDbError(s, t)
      PROVE  RowOf(u)'
  <2>1. CASE u # t
    <3>1. /\ row'[u] = row[u] /\ coro'[u] = coro[u] /\ UNCHANGED <<server, host>>
          /\ server[s] = "up"
          /\ host[u] # s /\ host[u] # NoServer => txn'[host[u]] = txn[host[u]]
      BY <1>0, <1>4, <2>1, RunnerEffect
    <3>2. coro[u] = "killed" => host[u] # NoServer
      BY <1>0 DEF Coroutine
    <3> QED
      BY <1>0, <3>1, <3>2 DEF RowOf
  <2>0. u = t => row'[u].status # "absent"
    <3>1. Coroutine(u)'
      BY CoroutineStep DEF CoroutineInv
    <3>2. u = t => host'[u] # NoServer
      BY <1>4, RunnerEffect, NoServerAssumption
    <3> QED
      BY <3>1, <3>2 DEF Coroutine
  <2>2. CASE u = t /\ coro'[u] = "raised"
    BY <2>0, <2>2 DEF RowOf, Live
  <2>3. CASE u = t /\ coro'[u] = "generating"
    <3>1. /\ row'[u].status \in {"running", row[u].status}
          /\ row'[u].result = row[u].result /\ row'[u].batch_result = row[u].batch_result
      BY <1>0, <1>4, <2>3, RunnerEffect, RunnerCommit
    <3>2. row[u].status # "completed" /\ ~row[u].result /\ ~row[u].batch_result
      BY <1>0, <1>4, <2>3, RunnerEffect DEF RowOf
    <3> QED
      BY <2>0, <2>3, <3>1, <3>2 DEF RowOf
  <2>4. CASE u = t /\ coro'[u] = "returned"
    <3>1. row'[u].status \in {"completed", "failed"}
      BY <1>0, <1>4, <2>4, RunnerEffect, RunnerCommit
    <3> QED
      BY <2>4, <3>1 DEF RowOf, Live, Terminal
  <2> QED
    BY <1>4, <2>1, <2>2, <2>3, <2>4, RunnerEffect
<1>5. ASSUME NEW s \in Servers, NEW t \in Tasks, Cleanup(s, t)
      PROVE  RowOf(u)'
    BY <1>0, <1>5 DEF RowOf, Cleanup
<1>6. ASSUME NEW s \in Servers, Stop(s)
      PROVE  RowOf(u)'
  <2>1. CASE host[u] = s
    BY <1>0, <1>6, <2>1, StopEffect DEF RowOf, Live
  <2>2. CASE host[u] # s
    BY <1>0, <1>6, <2>2, StopEffect DEF RowOf, Live, Coroutine
  <2> QED
    BY <2>1, <2>2
<1>7. ASSUME NEW s \in Servers, Boot(s)
      PROVE  RowOf(u)'
  <2>1. CASE host[u] = s
    BY <1>0, <1>7, <2>1, BootEffect DEF RowOf, Unfinished
  <2>2. CASE host[u] # s
    BY <1>0, <1>7, <2>2, BootEffect DEF RowOf, Coroutine
  <2> QED
    BY <2>1, <2>2
<1>8. ASSUME NEW s \in Servers, BootCommits(s) \/ BootDbError(s)
      PROVE  RowOf(u)'
  <2>0. /\ UNCHANGED <<host, coro>>
        /\ row'[u].status = row[u].status \/ row'[u].status = "failed"
        /\ row'[u].result = row[u].result /\ row'[u].batch_result = row[u].batch_result
    BY <1>8, BootEndEffect
  <2>4. row'[u].status = "absent" =>
          row'[u].detail = "none" /\ ~row'[u].result /\ ~row'[u].batch_result
    <3> SUFFICES ASSUME row'[u].status = "absent"
                 PROVE  row'[u] = row[u]
      BY <1>0 DEF RowOf
    <3>1. row[u].status = "absent"
      BY <2>0
    <3>2. u \notin txn[s].on
      BY <1>0, <1>8, <3>1, BootEndEffect DEF SessionInv, Session, Coroutine
    <3> QED
      BY <1>8, <3>2, BootEndEffect
  <2>1. coro'[u] = "returned" => row'[u].status \in Terminal
    BY <1>0, <2>0 DEF RowOf, Terminal
  <2>2. coro'[u] \in Live => /\ row'[u].status # "completed"
                             /\ ~row'[u].result /\ ~row'[u].batch_result
    BY <1>0, <2>0 DEF RowOf
  <2>3. coro'[u] = "killed" /\ row'[u].status \in Active =>
          \/ server'[host'[u]] = "down"
          \/ server'[host'[u]] = "booting" /\ u \in txn'[host'[u]].on
    <3> SUFFICES ASSUME coro[u] = "killed", row'[u].status \in Active
                 PROVE  \/ server'[host[u]] = "down"
                        \/ server'[host[u]] = "booting" /\ u \in txn'[host[u]].on
      BY <2>0
    <3>1. row[u].status \in Active
      BY <2>0 DEF Active
    <3>2. /\ host[u] \in Servers
          /\ \/ server[host[u]] = "down"
             \/ server[host[u]] = "booting" /\ u \in txn[host[u]].on
      BY <1>0, <3>1 DEF RowOf, Coroutine
    <3>3. CASE host[u] # s
      BY <1>8, <3>2, <3>3, BootEndEffect
    <3>4. CASE host[u] = s
      <4>1. u \in txn[s].on => Committed(s)[u].status = "failed"
        BY <1>0, <1>8, BootEndEffect, BootCommit
      <4> QED
        BY <1>8, <3>2, <3>4, <4>1, BootEndEffect DEF Active
    <3> QED
      BY <3>3, <3>4
  <2> QED
    BY <2>1, <2>2, <2>3, <2>4 DEF RowOf
<1> QED
    BY <1>1, <1>2, <1>3, <1>4, <1>5, <1>6, <1>7, <1>8
    DEF Next, Request, Runner, Lifecycle, Resume

LEMMA ViewStep == IInv /\ [Next]_vars => (\A x \in Servers, u \in Tasks : ViewOf(x, u)')
<1> SUFFICES ASSUME IInv, [Next]_vars, NEW x \in Servers, NEW u \in Tasks
             PROVE  ViewOf(x, u)'
    OBVIOUS
<1>0. /\ TypeOK /\ RowOf(u) /\ ViewOf(x, u) /\ SessionInv /\ RowInv
    BY DEF IInv, RowInv
<1>1. CASE UNCHANGED vars
    BY <1>0, <1>1 DEF ViewOf, vars
<1>2. ASSUME NEW s \in Servers, NEW t \in Tasks, NEW k \in Kinds,
             Submit(s, t, k) \/ SubmitRaises(s, t, k)
      PROVE  ViewOf(x, u)'
    BY <1>0, <1>2, SubmitEffect DEF ViewOf
<1>3. ASSUME NEW s \in Servers, NEW t \in Tasks, Resume(s, t)
      PROVE  ViewOf(x, u)'
  <2>1. CASE x = s
    BY <1>0, <1>3, <2>1, ResumeEffect DEF ViewOf, RowOf
  <2>2. CASE x # s
    BY <1>0, <1>3, <2>2, ResumeEffect DEF ViewOf
  <2> QED
    BY <2>1, <2>2
<1>4. ASSUME NEW s \in Servers, NEW t \in Tasks,
             RunnerCommits(s, t) \/ RunnerDbError(s, t)
      PROVE  ViewOf(x, u)'
  <2>1. CASE x = s
    BY <1>4, <2>1, RunnerEffect DEF ViewOf, NoTxn
  <2>2. CASE x # s
    <3>1. txn'[x] = txn[x]
      BY <1>4, <2>2, RunnerEffect
    <3>2. u \in txn[x].on /\ txn[x].op \in RunnerOps => host[u] = x
      BY <1>0 DEF SessionInv, Session
    <3>3. u \in txn[x].on /\ txn[x].op \in RunnerOps => row'[u] = row[u]
      BY <1>4, <2>2, <3>2, RunnerEffect
    <3> QED
      BY <1>0, <3>1, <3>3 DEF ViewOf
  <2> QED
    BY <2>1, <2>2
<1>5. ASSUME NEW s \in Servers, NEW t \in Tasks, Cleanup(s, t)
      PROVE  ViewOf(x, u)'
    BY <1>0, <1>5 DEF ViewOf, Cleanup
<1>6. ASSUME NEW s \in Servers, Stop(s)
      PROVE  ViewOf(x, u)'
    BY <1>0, <1>6, StopEffect DEF ViewOf, NoTxn
<1>7. ASSUME NEW s \in Servers, Boot(s)
      PROVE  ViewOf(x, u)'
    BY <1>0, <1>7, BootEffect DEF ViewOf, RunnerOps
<1>8. ASSUME NEW s \in Servers, BootCommits(s) \/ BootDbError(s)
      PROVE  ViewOf(x, u)'
    BY <1>0, <1>8, BootEndEffect DEF ViewOf, NoTxn
<1> QED
    BY <1>1, <1>2, <1>3, <1>4, <1>5, <1>6, <1>7, <1>8
    DEF Next, Request, Runner, Lifecycle, Resume

LEMMA CompletedStep == IInv /\ [Next]_vars => CompletedRowHasResult'
<1> SUFFICES ASSUME IInv, [Next]_vars, NEW u \in Tasks, row'[u].status = "completed"
             PROVE  /\ row'[u].result = (row'[u].kind = "single")
                    /\ row'[u].batch_result = (row'[u].kind = "multi")
    BY DEF CompletedRowHasResult
<1>0. /\ TypeOK /\ RowOf(u) /\ SessionInv /\ RowInv
      /\ row[u].status = "completed" =>
           row[u].result = (row[u].kind = "single") /\ row[u].batch_result = (row[u].kind = "multi")
    BY DEF IInv, RowInv, CompletedRowHasResult
<1>1. CASE row'[u] = row[u]
    BY <1>0, <1>1
<1>2. ASSUME NEW s \in Servers, NEW t \in Tasks, NEW k \in Kinds,
             Submit(s, t, k) \/ SubmitRaises(s, t, k)
      PROVE  row'[u] = row[u]
    BY <1>2, SubmitEffect
<1>3. ASSUME NEW s \in Servers, NEW t \in Tasks,
             RunnerCommits(s, t) \/ RunnerDbError(s, t), row'[u] # row[u]
      PROVE  /\ row'[u].result = (row'[u].kind = "single")
             /\ row'[u].batch_result = (row'[u].kind = "multi")
  <2>1. u = t /\ row' = Committed(s) /\ coro[u] \in Live
    BY <1>3, RunnerEffect
  <2>2. row[u].status # "completed"
    BY <1>0, <2>1 DEF RowOf
  <2>3. txn[s].op = "complete"
    BY <1>0, <1>3, <2>1, <2>2, RunnerEffect, RunnerCommit DEF RunnerOps
  <2>4. /\ row'[u].kind = row[u].kind
        /\ row'[u].result = (row[u].kind = "single")
        /\ row'[u].batch_result = (row[u].kind = "multi")
    BY <1>0, <1>3, <2>1, <2>3, RunnerEffect, RunnerCommit
  <2> QED
    BY <2>4
<1>4. ASSUME NEW s \in Servers, BootCommits(s) \/ BootDbError(s)
      PROVE  /\ row'[u].result = (row'[u].kind = "single")
             /\ row'[u].batch_result = (row'[u].kind = "multi")
  <2>1. row[u].status = "completed"
    BY <1>4, BootEndEffect
  <2> QED
    BY <1>0, <1>4, <2>1, BootEndEffect
<1>5. ASSUME NEW s \in Servers, NEW t \in Tasks,
             Resume(s, t) \/ Cleanup(s, t) \/ Stop(s) \/ Boot(s)
      PROVE  row'[u] = row[u]
    BY <1>5, ResumeEffect DEF Cleanup, Stop, Boot
<1> QED
    BY <1>1, <1>2, <1>3, <1>4, <1>5
    DEF Next, Request, Runner, Lifecycle, Resume, vars

-----------------------------------------------------------------------------
(* Servers that take turns.                                                  *)

\* Under ExclusiveInv the commit of a session leaves exactly what the method
\* assigned: nobody has written to its rows since it loaded them.
LEMMA FreshCommit ==
  ASSUME TypeOK, ExclusiveInv, NEW s \in Servers, NEW t \in Tasks, t \in txn[s].on
  PROVE  /\ row[t] \in Row
         /\ Committed(s)[t] = Assigned(txn[s].op, row[t])
<1>1. row[t] \in Row /\ txn[s].op \in Ops /\ txn[s].view[t] = row[t]
    BY DEF TypeOK, Txn, ExclusiveInv, Fresh
<1>2. Assigned(txn[s].op, row[t]) \in Row /\ Assigned(txn[s].op, row[t]).kind = row[t].kind
    BY <1>1, AssignedType
<1>3. Flushed(row[t], Assigned(txn[s].op, row[t]), row[t]) = Assigned(txn[s].op, row[t])
    BY <1>1, <1>2, FlushedFresh
<1>4. Committed(s)[t] = Flushed(row[t], Assigned(txn[s].op, row[t]), row[t])
    BY <1>1 DEF Committed
<1> QED
    BY <1>1, <1>3, <1>4

\* A runner's commit, under ExclusiveInv.
LEMMA RunnerFresh ==
  ASSUME IInv, Exclusive, NEW s \in Servers, NEW t \in Tasks,
         RunnerCommits(s, t) \/ RunnerDbError(s, t), row' = Committed(s)
  PROVE  /\ txn[s].op = "start" =>
              row[t].status = "queued" /\ row'[t] = update_task_status(row[t])
         /\ txn[s].op = "complete" =>
              row[t].status = "running" /\ row'[t] = complete_task(row[t])
         /\ txn[s].op = "fail" =>
              row[t].status = "running" /\ row'[t] = fail_task(row[t])
<1>1. TypeOK /\ ExclusiveInv /\ SessionInv /\ t \in txn[s].on
    BY RunnerEffect DEF IInv
<1>2. row'[t] = Assigned(txn[s].op, row[t])
    BY <1>1, FreshCommit
<1>3. /\ txn[s].op = "start" => coro[t] = "spawned"
      /\ txn[s].op \in {"complete", "fail"} => coro[t] = "generating"
    BY <1>1 DEF SessionInv, Session
<1> QED
    BY <1>1, <1>2, <1>3 DEF Assigned, ExclusiveInv, Phase

\* A boot's commit, under ExclusiveInv.
LEMMA BootFresh ==
  ASSUME IInv, Exclusive, NEW s \in Servers, BootCommits(s) \/ BootDbError(s),
         row' = Committed(s), NEW t \in Tasks
  PROVE  /\ row[t].status \in Active => row'[t] = mark_interrupted(row[t])
         /\ row[t].status \notin Active => row'[t] = row[t]
<1>1. TypeOK /\ ExclusiveInv /\ SessionInv /\ server[s] = "booting" /\ txn[s].op = "boot"
    BY BootEndEffect DEF IInv
<1>2. t \in txn[s].on <=> row[t].status \in Active
    BY <1>1 DEF ExclusiveInv, Fresh, Unfinished, SessionInv, Session
<1>3. t \in txn[s].on => row'[t] = mark_interrupted(row[t])
    BY <1>1, FreshCommit DEF Assigned
<1>4. t \notin txn[s].on => row'[t] = row[t]
    BY BootEndEffect
<1> QED
    BY <1>2, <1>3, <1>4

LEMMA TurnsStep == IInv /\ Exclusive /\ [Next]_vars => Turns'
<1> SUFFICES ASSUME IInv, Exclusive, [Next]_vars,
                    NEW x \in Servers, NEW y \in Servers, x # y
             PROVE  server'[x] = "down" \/ server'[y] = "down"
    BY DEF Turns
<1>0. Turns
    BY DEF IInv, ExclusiveInv
<1>1. CASE UNCHANGED server
    BY <1>0, <1>1 DEF Turns
<1>2. ASSUME NEW s \in Servers, Stop(s) \/ BootCommits(s) \/ BootDbError(s)
      PROVE  server'[x] = "down" \/ server'[y] = "down"
  <2>1. /\ server[s] # "down"
        /\ \A z \in Servers \ {s} : server'[z] = server[z]
    BY <1>2, StopEffect, BootEndEffect DEF Stop
  <2> QED
    BY <1>0, <2>1 DEF Turns
<1>3. ASSUME NEW s \in Servers, Boot(s)
      PROVE  server'[x] = "down" \/ server'[y] = "down"
    BY <1>3, BootEffect
<1>4. ASSUME NEW s \in Servers, NEW t \in Tasks, Request(s, t) \/ Runner(s, t)
      PROVE  UNCHANGED server
    BY <1>4 DEF Request, Runner, Submit, SubmitRaises, RunnerStarts, GenerationReturns,
                GenerationRaises, RunnerCommits, RunnerDbError, Cleanup
<1> QED
    BY <1>1, <1>2, <1>3, <1>4 DEF Next, Lifecycle, vars

LEMMA FreshStep ==
  IInv /\ Exclusive /\ [Next]_vars => (\A x \in Servers : Fresh(x)')
<1> SUFFICES ASSUME IInv, Exclusive, [Next]_vars, NEW x \in Servers
             PROVE  Fresh(x)'
    OBVIOUS
<1>0. /\ TypeOK /\ SessionInv /\ Session(x) /\ Turns /\ Fresh(x) /\ RowInv
      /\ txn[x] \in Txn
    BY DEF IInv, ExclusiveInv, SessionInv, TypeOK
<1>1. CASE UNCHANGED vars
    BY <1>0, <1>1 DEF Fresh, Unfinished, vars
<1>2. ASSUME NEW s \in Servers, NEW t \in Tasks, NEW k \in Kinds,
             Submit(s, t, k) \/ SubmitRaises(s, t, k)
      PROVE  Fresh(x)'
  <2>1. server[s] = "up" /\ server'[x] = server[x] /\ txn'[x] = txn[x] /\ t \notin txn[x].on
    BY <1>2, SubmitEffect DEF Submit, SubmitRaises, LoopFree
  <2>2. \A u \in txn[x].on : row'[u] = row[u]
    BY <1>0, <1>2, <2>1, SubmitEffect DEF Txn
  <2>3. server[x] # "booting"
    BY <1>0, <2>1 DEF Turns
  <2> QED
    BY <1>0, <2>1, <2>2, <2>3 DEF Fresh
<1>3. ASSUME NEW s \in Servers, NEW t \in Tasks, Resume(s, t)
      PROVE  Fresh(x)'
  <2>1. CASE x = s
    BY <1>0, <1>3, <2>1, ResumeEffect DEF Fresh
  <2>2. CASE x # s
    BY <1>0, <1>3, <2>2, ResumeEffect DEF Fresh, Unfinished
  <2> QED
    BY <2>1, <2>2
<1>4. ASSUME NEW s \in Servers, NEW t \in Tasks,
             RunnerCommits(s, t) \/ RunnerDbError(s, t)
      PROVE  Fresh(x)'
  <2>1. CASE x = s
    BY <1>4, <2>1, RunnerEffect DEF Fresh, NoTxn
  <2>2. CASE x # s
    BY <1>0, <1>4, <2>2, RunnerEffect DEF Fresh, Turns, Session
  <2> QED
    BY <2>1, <2>2
<1>5. ASSUME NEW s \in Servers, NEW t \in Tasks, Cleanup(s, t)
      PROVE  Fresh(x)'
    BY <1>0, <1>5 DEF Fresh, Unfinished, Cleanup
<1>6. ASSUME NEW s \in Servers, Stop(s)
      PROVE  Fresh(x)'
  <2>1. CASE x = s
    BY <1>6, <2>1, StopEffect DEF Fresh, NoTxn
  <2>2. CASE x # s
    BY <1>0, <1>6, <2>2, StopEffect DEF Fresh, Unfinished
  <2> QED
    BY <2>1, <2>2
<1>7. ASSUME NEW s \in Servers, Boot(s)
      PROVE  Fresh(x)'
  <2>1. CASE x = s
    BY <1>0, <1>7, <2>1, BootEffect DEF Fresh, Unfinished, Session
  <2>2. CASE x # s
    BY <1>0, <1>7, <2>2, BootEffect DEF Fresh, Unfinished
  <2> QED
    BY <2>1, <2>2
<1>8. ASSUME NEW s \in Servers, BootCommits(s) \/ BootDbError(s)
      PROVE  Fresh(x)'
  <2>1. CASE x = s
    BY <1>8, <2>1, BootEndEffect DEF Fresh, NoTxn
  <2>2. CASE x # s
    BY <1>0, <1>8, <2>2, BootEndEffect DEF Fresh, Turns, Session
  <2> QED
    BY <2>1, <2>2
<1> QED
    BY <1>1, <1>2, <1>3, <1>4, <1>5, <1>6, <1>7, <1>8
    DEF Next, Request, Runner, Lifecycle, Resume

\* The methods keep a row consistent when they find it in the status they
\* expect.
LEMMA MethodsKeepConsistent ==
  ASSUME NEW r \in Row, Consistent(r)
  PROVE  /\ r.status = "queued" => /\ Consistent(update_task_status(r))
                                   /\ update_task_status(r).status = "running"
         /\ r.status = "running" => /\ Consistent(complete_task(r))
                                    /\ Consistent(fail_task(r))
         /\ r.status \in Active => Consistent(mark_interrupted(r))
  BY DEF Consistent, update_task_status, complete_task, fail_task, mark_interrupted,
         Row, Active

LEMMA OutcomeStep == IInv /\ Exclusive /\ [Next]_vars => OutcomeMatchesStatus'
<1> SUFFICES ASSUME IInv, Exclusive, [Next]_vars, NEW u \in Tasks
             PROVE  Consistent(row'[u])
    BY DEF OutcomeMatchesStatus
<1>0. TypeOK /\ Consistent(row[u]) /\ row[u] \in Row
    BY DEF IInv, OutcomeMatchesStatus, TypeOK
<1>1. CASE row'[u] = row[u]
    BY <1>0, <1>1
<1>2. ASSUME NEW s \in Servers, NEW t \in Tasks, NEW k \in Kinds,
             Submit(s, t, k) \/ SubmitRaises(s, t, k), row'[u] # row[u]
      PROVE  Consistent(row'[u])
  <2>1. /\ row'[u].status = "queued" /\ row'[u].detail = "none"
        /\ row'[u].result = FALSE /\ row'[u].batch_result = FALSE
    BY <1>2, SubmitEffect
  <2> QED
    BY <2>1 DEF Consistent
<1>3. ASSUME NEW s \in Servers, NEW t \in Tasks,
             RunnerCommits(s, t) \/ RunnerDbError(s, t), row'[u] # row[u]
      PROVE  Consistent(row'[u])
  <2>1. u = t /\ row' = Committed(s) /\ txn[s].op \in RunnerOps
    BY <1>3, RunnerEffect
  <2> QED
    BY <1>0, <1>3, <2>1, RunnerFresh, MethodsKeepConsistent DEF RunnerOps
<1>4. ASSUME NEW s \in Servers, BootCommits(s) \/ BootDbError(s), row'[u] # row[u]
      PROVE  Consistent(row'[u])
  <2>1. row' = Committed(s)
    BY <1>4, BootEndEffect
  <2> QED
    BY <1>0, <1>4, <2>1, BootFresh, MethodsKeepConsistent
<1>5. ASSUME NEW s \in Servers, NEW t \in Tasks,
             Resume(s, t) \/ Cleanup(s, t) \/ Stop(s) \/ Boot(s)
      PROVE  row'[u] = row[u]
    BY <1>5, ResumeEffect DEF Cleanup, Stop, Boot
<1> QED
    BY <1>1, <1>2, <1>3, <1>4, <1>5
    DEF Next, Request, Runner, Lifecycle, Resume, vars

LEMMA PhaseStep == IInv /\ Exclusive /\ [Next]_vars => (\A u \in Tasks : Phase(u)')
<1> SUFFICES ASSUME IInv, Exclusive, [Next]_vars, NEW u \in Tasks
             PROVE  Phase(u)'
    OBVIOUS
<1>0. TypeOK /\ Phase(u) /\ Coroutine(u) /\ CoroutineInv /\ Turns /\ row[u] \in Row
    BY DEF IInv, ExclusiveInv, CoroutineInv, TypeOK
<1>1. CASE row'[u] = row[u] /\ coro'[u] = coro[u]
    BY <1>0, <1>1 DEF Phase
<1>2. ASSUME NEW s \in Servers, NEW t \in Tasks, NEW k \in Kinds,
             Submit(s, t, k) \/ SubmitRaises(s, t, k)
      PROVE  Phase(u)'
  <2>1. CASE u = t
    BY <1>2, <2>1, SubmitEffect DEF Phase
  <2>2. CASE u # t
    BY <1>0, <1>2, <2>2, SubmitEffect DEF Phase
  <2> QED
    BY <2>1, <2>2
<1>3. ASSUME NEW s \in Servers, NEW t \in Tasks,
             RunnerCommits(s, t) \/ RunnerDbError(s, t)
      PROVE  Phase(u)'
  <2>1. CASE u # t
    BY <1>0, <1>3, <2>1, RunnerEffect DEF Phase
  <2>2. CASE u = t /\ coro'[t] = "generating"
    <3>1. /\ txn[s].op = "start" /\ row' = Committed(s)
      BY <1>3, <2>2, RunnerEffect
    <3>2. row[u].status = "queued" /\ row'[u] = update_task_status(row[u])
      BY <1>3, <2>2, <3>1, RunnerFresh
    <3>3. row'[u].status = "running"
      BY <1>0, <3>2 DEF update_task_status, Row
    <3> QED
      BY <2>2, <3>3 DEF Phase
  <2>3. CASE u = t /\ coro'[t] # "generating"
    BY <1>3, <2>3, RunnerEffect DEF Phase
  <2> QED
    BY <2>1, <2>2, <2>3
<1>4. ASSUME NEW s \in Servers, Stop(s)
      PROVE  Phase(u)'
    BY <1>0, <1>4, StopEffect DEF Phase
<1>5. ASSUME NEW s \in Servers, BootCommits(s) \/ BootDbError(s)
      PROVE  Phase(u)'
  <2>1. server[s] = "booting" /\ coro'[u] = coro[u]
    BY <1>5, BootEndEffect
  <2>2. coro[u] \notin Live
    BY <1>0, <2>1 DEF Coroutine, Turns, TypeOK, Live
  <2> QED
    BY <2>1, <2>2 DEF Phase, Live
<1>6. ASSUME NEW s \in Servers, NEW t \in Tasks,
             Resume(s, t) \/ Cleanup(s, t) \/ Boot(s)
      PROVE  row'[u] = row[u] /\ coro'[u] = coro[u]
    BY <1>6, ResumeEffect DEF Cleanup, Boot
<1> QED
    BY <1>1, <1>2, <1>3, <1>4, <1>5, <1>6
    DEF Next, Request, Runner, Lifecycle, Resume, vars

-----------------------------------------------------------------------------
(* The theorems.                                                             *)

\* IInv is an inductive invariant.
THEOREM Invariance == Spec => []IInv
<1>1. Init => IInv
  <2> SUFFICES ASSUME Init
               PROVE  IInv
    OBVIOUS
  <2>1. TypeOK
    BY NoRowType DEF Init, TypeOK, Coro
  <2>2. \A t \in Tasks : row[t] = NoRow /\ host[t] = NoServer /\ coro[t] = "none"
    BY DEF Init
  <2>3. \A s \in Servers : server[s] = "down" /\ txn[s] = NoTxn
    BY DEF Init
  <2>4. SessionInv
    BY <2>3 DEF SessionInv, Session, NoTxn, RunnerOps
  <2>5. CoroutineInv
    <3>1. NoRow.status = "absent"
      BY DEF NoRow
    <3> QED
      BY <2>2, <3>1 DEF CoroutineInv, Coroutine, Live
  <2>6. RowInv
    BY <2>2, <2>3 DEF NoRow, RowInv, RowOf, ViewOf, NoTxn, Live
  <2>7. CompletedRowHasResult /\ OutcomeMatchesStatus
    BY <2>2 DEF CompletedRowHasResult, OutcomeMatchesStatus, Consistent, NoRow, Active
  <2>8. ExclusiveInv
    BY <2>2, <2>3 DEF ExclusiveInv, Turns, Fresh, Phase, NoTxn
  <2> QED
    BY <2>1, <2>4, <2>5, <2>6, <2>7, <2>8 DEF IInv
<1>2. IInv /\ [Next]_vars => IInv'
  <2> SUFFICES ASSUME IInv, [Next]_vars
               PROVE  IInv'
    OBVIOUS
  <2>1. TypeOK'
    BY TypeStep DEF IInv
  <2>2. SessionInv' /\ CoroutineInv' /\ CompletedRowHasResult'
    BY SessionStep, CoroutineStep, CompletedStep
  <2>3. RowInv'
    BY RowStep, ViewStep DEF RowInv
  <2>4. ASSUME Exclusive PROVE ExclusiveInv' /\ OutcomeMatchesStatus'
    BY <2>4, TurnsStep, FreshStep, PhaseStep, OutcomeStep DEF ExclusiveInv
  <2> QED
    BY <2>1, <2>2, <2>3, <2>4 DEF IInv
<1> QED
    BY <1>1, <1>2, PTL DEF Spec

\* While the server that accepted an unfinished task is up, the task's coroutine
\* is alive, or a session of it has raised - however many servers share the
\* table.
THEOREM UnfinishedHandled == Spec => []UnfinishedRowIsHandled
<1>1. IInv => UnfinishedRowIsHandled
  <2> SUFFICES ASSUME IInv, NEW t \in Tasks,
                      row[t].status \in Active, server[host[t]] = "up", coro[t] \notin Live
               PROVE  DbMayFail /\ coro[t] \in {"none", "raised"}
    BY DEF UnfinishedRowIsHandled
  <2>1. /\ Coroutine(t) /\ RowOf(t) /\ coro[t] \in Coro
        /\ row[t].status # "absent" /\ row[t].status \notin Terminal
    BY DEF IInv, CoroutineInv, RowInv, TypeOK, Active, Terminal
  <2>2. coro[t] # "returned" /\ coro[t] # "killed"
    BY <2>1 DEF RowOf
  <2> QED
    BY <2>1, <2>2 DEF Coroutine, Coro, Ended
<1> QED
    BY <1>1, Invariance, PTL

\* A live coroutine is referenced by its server.
THEOREM LiveReferenced == Spec => []LiveCoroutineIsReferenced
<1>1. IInv => LiveCoroutineIsReferenced
    BY DEF IInv, CoroutineInv, Coroutine, LiveCoroutineIsReferenced
<1> QED
    BY <1>1, Invariance, PTL

\* A completed row has the result of its kind, even when servers overlap.
THEOREM CompletedHasResult == Spec => []CompletedRowHasResult
<1>1. IInv => CompletedRowHasResult
    BY DEF IInv
<1> QED
    BY <1>1, Invariance, PTL

\* Without overlap, a poller never reads a row whose parts disagree.
THEOREM OutcomeConsistent ==
  ASSUME Exclusive
  PROVE  Spec => []OutcomeMatchesStatus
<1>1. IInv => OutcomeMatchesStatus
    BY DEF IInv
<1> QED
    BY <1>1, Invariance, PTL

\* Without overlap, a step leaves a finished row alone.
LEMMA FinalStep ==
  ASSUME Exclusive, IInv, [Next]_vars, NEW u \in Tasks, row[u].status \in Terminal
  PROVE  row'[u] = row[u]
<1>1. ASSUME NEW s \in Servers, NEW t \in Tasks, NEW k \in Kinds,
             Submit(s, t, k) \/ SubmitRaises(s, t, k)
      PROVE  row'[u] = row[u]
    BY <1>1, SubmitEffect DEF Terminal
<1>2. ASSUME NEW s \in Servers, NEW t \in Tasks,
             RunnerCommits(s, t) \/ RunnerDbError(s, t)
      PROVE  row'[u] = row[u]
    BY <1>2, RunnerEffect, RunnerFresh DEF Terminal, RunnerOps
<1>3. ASSUME NEW s \in Servers, BootCommits(s) \/ BootDbError(s)
      PROVE  row'[u] = row[u]
  <2>1. row' = row \/ row' = Committed(s)
    BY <1>3, BootEndEffect
  <2> QED
    BY <1>3, <2>1, BootFresh DEF Terminal, Active
<1>4. ASSUME NEW s \in Servers, NEW t \in Tasks,
             Resume(s, t) \/ Cleanup(s, t) \/ Stop(s) \/ Boot(s)
      PROVE  row'[u] = row[u]
    BY <1>4, ResumeEffect DEF Cleanup, Stop, Boot
<1> QED
    BY <1>1, <1>2, <1>3, <1>4 DEF Next, Request, Runner, Lifecycle, Resume, vars

\* Without overlap, a finished row never changes again.
THEOREM FinishedIsFinal ==
  ASSUME Exclusive
  PROVE  Spec => FinishedRowIsFinal
<1>1. IInv /\ [Next]_vars =>
        [\A t \in Tasks : row[t].status \in Terminal => row'[t] = row[t]]_vars
    BY FinalStep
<1> QED
    BY <1>1, Invariance, PTL DEF Spec, FinishedRowIsFinal

\* Without overlap, a server that comes up leaves no unfinished row behind it.
THEOREM BootCloses ==
  ASSUME Exclusive
  PROVE  Spec => BootClosesUnfinishedRows
<1>1. ASSUME IInv, [Next]_vars, NEW s \in Servers, server[s] # "up", server'[s] = "up",
             NEW u \in Tasks
      PROVE  row'[u].status \notin Active
  <2>1. Boot(s) \/ BootCommits(s)
    <3>1. ASSUME NEW x \in Servers, NEW t \in Tasks, Request(x, t) \/ Runner(x, t)
          PROVE  UNCHANGED server
      BY <3>1 DEF Request, Runner, Submit, SubmitRaises, RunnerStarts, GenerationReturns,
                  GenerationRaises, RunnerCommits, RunnerDbError, Cleanup
    <3>2. ASSUME NEW x \in Servers, Lifecycle(x)
          PROVE  Boot(s) \/ BootCommits(s)
      <4>1. TypeOK
        BY <1>1 DEF IInv
      <4>2. x = s
        BY <1>1, <3>2, <4>1 DEF Lifecycle, Stop, Boot, BootCommits, BootDbError, TypeOK
      <4> QED
        BY <1>1, <3>2, <4>1, <4>2 DEF Lifecycle, Stop, BootDbError, TypeOK
    <3> QED
      BY <1>1, <3>1, <3>2 DEF Next, vars
  <2>2. CASE Boot(s)
    BY <1>1, <2>2, BootEffect DEF Unfinished
  <2>3. CASE BootCommits(s)
    <3>1. row' = Committed(s) /\ row[u] \in Row
      BY <1>1, <2>3 DEF BootCommits, IInv, TypeOK
    <3>2. CASE row[u].status \in Active
      <4>1. row'[u] = mark_interrupted(row[u])
        BY <1>1, <2>3, <3>1, <3>2, BootFresh
      <4> QED
        BY <3>1, <4>1 DEF mark_interrupted, Row, Active
    <3>3. CASE row[u].status \notin Active
      BY <1>1, <2>3, <3>1, <3>3, BootFresh
    <3> QED
      BY <3>2, <3>3
  <2> QED
    BY <2>1, <2>2, <2>3
<1>2. IInv /\ [Next]_vars =>
        [\A s \in Servers : server[s] # "up" /\ server'[s] = "up" =>
           \A t \in Tasks : row'[t].status \notin Active]_vars
    BY <1>1
<1> QED
    BY <1>2, Invariance, PTL DEF Spec, BootClosesUnfinishedRows

\* No step erases a stored result, even when servers overlap.
THEOREM ResultKept == Spec => StoredResultIsKept
<1>1. ASSUME IInv, [Next]_vars, NEW u \in Tasks
      PROVE  /\ row[u].result => row'[u].result
             /\ row[u].batch_result => row'[u].batch_result
  <2>1. ASSUME NEW s \in Servers, NEW t \in Tasks, NEW k \in Kinds,
               Submit(s, t, k) \/ SubmitRaises(s, t, k)
        PROVE  row'[u] = row[u] \/ (~row[u].result /\ ~row[u].batch_result)
    <3>1. u # t => row'[u] = row[u]
      BY <1>1, <2>1, SubmitEffect
    <3>2. row[t].status = "absent"
      BY <1>1, <2>1, SubmitEffect
    <3>3. RowOf(t)
      BY <1>1 DEF IInv, RowInv
    <3> QED
      BY <3>1, <3>2, <3>3 DEF RowOf
  <2>2. ASSUME NEW s \in Servers, NEW t \in Tasks,
               RunnerCommits(s, t) \/ RunnerDbError(s, t)
        PROVE  row'[u] = row[u] \/ (~row[u].result /\ ~row[u].batch_result)
    BY <1>1, <2>2, RunnerEffect DEF IInv, RowInv, RowOf
  <2>3. ASSUME NEW s \in Servers, BootCommits(s) \/ BootDbError(s)
        PROVE  row'[u].result = row[u].result /\ row'[u].batch_result = row[u].batch_result
    BY <1>1, <2>3, BootEndEffect
  <2>4. ASSUME NEW s \in Servers, NEW t \in Tasks,
               Resume(s, t) \/ Cleanup(s, t) \/ Stop(s) \/ Boot(s)
        PROVE  row'[u] = row[u]
    BY <1>1, <2>4, ResumeEffect DEF Cleanup, Stop, Boot
  <2> QED
    BY <1>1, <2>1, <2>2, <2>3, <2>4
    DEF Next, Request, Runner, Lifecycle, Resume, vars
<1>2. IInv /\ [Next]_vars =>
        [\A t \in Tasks : /\ row[t].result => row'[t].result
                          /\ row[t].batch_result => row'[t].batch_result]_vars
    BY <1>1
<1> QED
    BY <1>2, Invariance, PTL DEF Spec, StoredResultIsKept

-----------------------------------------------------------------------------
(* The promise to pollers.                                                   *)

\* A step that changes one row changes one entry of what pollers read.
LEMMA OneEntry ==
  ASSUME TypeOK, TypeOK', NEW t \in Tasks, \A u \in Tasks \ {t} : row'[u] = row[u]
  PROVE  /\ [u \in Tasks |-> row'[u].status] =
              [[u \in Tasks |-> row[u].status] EXCEPT ![t] = row'[t].status]
         /\ [u \in Tasks |-> row'[u].kind] =
              [[u \in Tasks |-> row[u].kind] EXCEPT ![t] = row'[t].kind]
         /\ [u \in Tasks |-> AnswerOf(row'[u])] =
              [[u \in Tasks |-> AnswerOf(row[u])] EXCEPT ![t] = AnswerOf(row'[t])]
<1>1. \A u \in Tasks \ {t} : AnswerOf(row'[u]) = AnswerOf(row[u])
    OBVIOUS
<1> QED
    BY <1>1

\* The answer a poller reads in a consistent row.
LEMMA AnswerOfConsistent ==
  ASSUME NEW r \in Row, Consistent(r)
  PROVE  /\ r.status \in Active => AnswerOf(r) = "none"
         /\ r.status = "completed" => AnswerOf(r) = Promise!ResultOf(r.kind)
         /\ r.status = "failed" => AnswerOf(r) = r.detail
  BY DEF AnswerOf, Consistent, Row, Kinds, Active, Promise!ResultOf

\* A step of a runner that changes the table is a step of the promise.
LEMMA RunnerKeepsPromise ==
  ASSUME IInv, IInv', Exclusive, NEW s \in Servers, NEW t \in Tasks,
         RunnerCommits(s, t) \/ RunnerDbError(s, t), row' = Committed(s)
  PROVE  Promise!Begin(t) \/ Promise!Deliver(t) \/ Promise!Reject(t)
<1>0. /\ TypeOK /\ TypeOK' /\ row[t] \in Row /\ row'[t] \in Row
      /\ Consistent(row[t]) /\ Consistent(row'[t])
    BY DEF IInv, TypeOK, OutcomeMatchesStatus
<1>1. \A u \in Tasks \ {t} : row'[u] = row[u]
    BY RunnerEffect
<1>2. CASE txn[s].op = "start"
  <2>1. row[t].status = "queued" /\ row'[t] = update_task_status(row[t])
    BY <1>2, RunnerFresh
  <2>2. row'[t].status = "running" /\ row'[t].kind = row[t].kind
    BY <1>0, <2>1 DEF update_task_status, Row
  <2>3. AnswerOf(row[t]) = "none" /\ AnswerOf(row'[t]) = "none"
    BY <1>0, <2>1, <2>2, AnswerOfConsistent DEF Active
  <2>4. Promise!Begin(t)
    <3>1. /\ [u \in Tasks |-> row'[u].kind] = [u \in Tasks |-> row[u].kind]
          /\ [u \in Tasks |-> AnswerOf(row'[u])] = [u \in Tasks |-> AnswerOf(row[u])]
      BY <1>1, <2>2, <2>3
    <3>2. [u \in Tasks |-> row'[u].status] =
            [[u \in Tasks |-> row[u].status] EXCEPT ![t] = "running"]
      BY <1>0, <1>1, <2>2, OneEntry
    <3> QED
      BY <2>1, <3>1, <3>2 DEF Promise!Begin
  <2> QED
    BY <2>4
<1>3. CASE txn[s].op = "complete"
  <2>1. row[t].status = "running" /\ row'[t] = complete_task(row[t])
    BY <1>3, RunnerFresh
  <2>2. row'[t].status = "completed" /\ row'[t].kind = row[t].kind
    BY <1>0, <2>1 DEF complete_task, Row
  <2>3. AnswerOf(row'[t]) = Promise!ResultOf(row[t].kind)
    BY <1>0, <2>2, AnswerOfConsistent
  <2>4. Promise!Deliver(t)
    BY <1>0, <1>1, <2>1, <2>2, <2>3, OneEntry DEF Promise!Deliver
  <2> QED
    BY <2>4
<1>4. CASE txn[s].op = "fail"
  <2>1. row[t].status = "running" /\ row'[t] = fail_task(row[t])
    BY <1>4, RunnerFresh
  <2>2. row'[t].status = "failed" /\ row'[t].kind = row[t].kind /\ row'[t].detail = "error"
    BY <1>0, <2>1 DEF fail_task, Row
  <2>3. AnswerOf(row'[t]) = "error"
    BY <1>0, <2>2, AnswerOfConsistent
  <2>4. Promise!Reject(t)
    BY <1>0, <1>1, <2>1, <2>2, <2>3, OneEntry DEF Promise!Reject
  <2> QED
    BY <2>4
<1> QED
    BY <1>2, <1>3, <1>4, RunnerEffect DEF RunnerOps

\* The commit of a boot is one interruption of every unfinished task.
LEMMA BootKeepsPromise ==
  ASSUME IInv, IInv', Exclusive, NEW s \in Servers, BootCommits(s) \/ BootDbError(s),
         row' = Committed(s), row' # row
  PROVE  Promise!Interrupt
<1>0. TypeOK /\ TypeOK' /\ OutcomeMatchesStatus /\ OutcomeMatchesStatus'
    BY DEF IInv
<1>1. Promise!Unfinished = Unfinished
    BY DEF Promise!Unfinished, Unfinished, Active
<1>2. ASSUME NEW t \in Tasks, t \in Unfinished
      PROVE  /\ row'[t].status = "failed" /\ row'[t].kind = row[t].kind
             /\ AnswerOf(row'[t]) = "interrupted"
  <2>1. row'[t] = mark_interrupted(row[t]) /\ row[t] \in Row /\ row'[t] \in Row
    BY <1>0, <1>2, BootFresh DEF Unfinished, TypeOK
  <2>2. /\ row'[t].status = "failed" /\ row'[t].kind = row[t].kind
        /\ row'[t].detail = "interrupted"
    BY <2>1 DEF mark_interrupted, Row
  <2> QED
    BY <1>0, <2>1, <2>2, AnswerOfConsistent DEF OutcomeMatchesStatus
<1>3. ASSUME NEW t \in Tasks, t \notin Unfinished
      PROVE  row'[t] = row[t]
    BY <1>3, BootFresh DEF Unfinished
<1>4. Unfinished # {}
    BY <1>0, <1>3 DEF TypeOK
<1>5. [t \in Tasks |-> row'[t].status] =
        [t \in Tasks |-> IF t \in Unfinished THEN "failed" ELSE row[t].status]
    BY <1>2, <1>3
<1>6. [t \in Tasks |-> AnswerOf(row'[t])] =
        [t \in Tasks |-> IF t \in Unfinished THEN "interrupted" ELSE AnswerOf(row[t])]
    BY <1>2, <1>3
<1>7. [t \in Tasks |-> row'[t].kind] = [t \in Tasks |-> row[t].kind]
    BY <1>2, <1>3
<1> QED
    BY <1>1, <1>4, <1>5, <1>6, <1>7 DEF Promise!Interrupt

\* The request that creates a row is the acceptance of a task.
LEMMA SubmitKeepsPromise ==
  ASSUME IInv, IInv', Exclusive, NEW s \in Servers, NEW t \in Tasks, NEW k \in Kinds,
         Submit(s, t, k) \/ SubmitRaises(s, t, k)
  PROVE  Promise!Accept(t)
<1>0. /\ TypeOK /\ TypeOK' /\ row[t] \in Row /\ row'[t] \in Row /\ RowOf(t)
      /\ Consistent(row'[t])
    BY DEF IInv, TypeOK, RowInv, OutcomeMatchesStatus
<1>1. /\ row[t].status = "absent" /\ row'[t].status = "queued"
      /\ \A u \in Tasks \ {t} : row'[u] = row[u]
    BY SubmitEffect
<1>2. AnswerOf(row[t]) = "none"
    BY <1>0, <1>1 DEF RowOf, AnswerOf
<1>3. AnswerOf(row'[t]) = "none"
    BY <1>0, <1>1, AnswerOfConsistent DEF Active
<1>4. row'[t].kind \in {"single", "multi"}
    BY <1>0 DEF Row, Kinds
<1> QED
    BY <1>0, <1>1, <1>2, <1>3, <1>4, OneEntry DEF Promise!Accept

\* Without overlap, the service implements the promise to pollers: accepted,
\* begun, and finished once and for all with the answer of its kind.
THEOREM KeepsPromise ==
  ASSUME Exclusive
  PROVE  Spec => ImplementsLifecycle
<1>1. Init => Promise!Init
    BY DEF Init, NoRow, AnswerOf, Promise!Init
<1>2. IInv /\ IInv' /\ [Next]_vars => [Promise!Next]_(Promise!vars)
  <2> SUFFICES ASSUME IInv, IInv', [Next]_vars, row' # row
               PROVE  Promise!Next
    BY DEF Promise!vars
  <2>1. ASSUME NEW s \in Servers, NEW t \in Tasks, NEW k \in Kinds,
               Submit(s, t, k) \/ SubmitRaises(s, t, k)
        PROVE  Promise!Next
    BY <2>1, SubmitKeepsPromise DEF Promise!Next
  <2>2. ASSUME NEW s \in Servers, NEW t \in Tasks,
               RunnerCommits(s, t) \/ RunnerDbError(s, t)
        PROVE  Promise!Next
    BY <2>2, RunnerEffect, RunnerKeepsPromise DEF Promise!Next
  <2>3. ASSUME NEW s \in Servers, BootCommits(s) \/ BootDbError(s)
        PROVE  Promise!Next
    BY <2>3, BootEndEffect, BootKeepsPromise DEF Promise!Next
  <2>4. /\ \A s \in Servers : ~Stop(s) /\ ~Boot(s)
        /\ \A s \in Servers, t \in Tasks : ~Resume(s, t) /\ ~Cleanup(s, t)
    BY ResumeEffect DEF Cleanup, Stop, Boot
  <2>5. PICK s \in Servers : Lifecycle(s) \/ \E t \in Tasks : Request(s, t) \/ Runner(s, t)
    BY DEF Next, vars
  <2>6. CASE Lifecycle(s)
    BY <2>3, <2>4, <2>6 DEF Lifecycle
  <2>7. CASE \E t \in Tasks : Request(s, t)
    BY <2>1, <2>7 DEF Request
  <2>8. CASE \E t \in Tasks : Runner(s, t)
    BY <2>2, <2>4, <2>8 DEF Runner, Resume
  <2> QED
    BY <2>5, <2>6, <2>7, <2>8
<1> QED
    BY <1>1, <1>2, Invariance, PTL DEF Spec, Promise!Spec, ImplementsLifecycle

=============================================================================
