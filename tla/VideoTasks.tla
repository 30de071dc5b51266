----------------------------- MODULE VideoTasks -----------------------------
(***************************************************************************)
(* The asynchronous video task service of the API                          *)
(* (services/api/app/services/video_generation_task_service.py).           *)
(*                                                                         *)
(* A submitted task is a row of the table video_generation_tasks and a     *)
(* coroutine on the event loop of the server that accepted it.  The row    *)
(* is durable, the coroutine is not: a server that starts marks every      *)
(* unfinished row it finds as interrupted.                                 *)
(*                                                                         *)
(* A method of the service opens a session, loads the row, assigns to its  *)
(* attributes and commits, without an await in between: on one server      *)
(* nothing else runs meanwhile, but another server that shares the         *)
(* database may commit between the load and the commit.  So each method    *)
(* is a load step and a commit step, and txn[s] is the open session of     *)
(* server s; while it is open no other coroutine of s runs.                *)
(***************************************************************************)

CONSTANTS
  Tasks,      \* task ids (uuid4: never reused)
  Servers,    \* instances of the service that share one database
  NoServer,   \* "no server": the task was never submitted
  Exclusive,  \* TRUE: a server starts only when the others are down, as with
              \* the single api container of docker-compose.yml
  DbMayFail   \* TRUE: a session may raise instead of committing

ASSUME NoServerAssumption == NoServer \notin Servers
ASSUME FlagsAssumption == Exclusive \in BOOLEAN /\ DbMayFail \in BOOLEAN

VARIABLES
  row,            \* the task table
  server,         \* "down", "booting" or "up"
  txn,            \* the session a server has open, if any
  running_tasks,  \* the dictionary _running_tasks of each server
  host,           \* the server that accepted the task
  coro            \* the coroutine of the task

vars == <<row, server, txn, running_tasks, host, coro>>

-----------------------------------------------------------------------------

Kinds    == {"single", "multi"}
Active   == {"queued", "running"}
Terminal == {"completed", "failed"}
Status   == {"absent"} \union Active \union Terminal

\* result and batch_result are TRUE when the JSON column is not NULL.
Row == [status : Status, kind : Kinds,
        detail : {"none", "interrupted", "error"},
        result : BOOLEAN, batch_result : BOOLEAN]

NoRow == [status |-> "absent", kind |-> "single", detail |-> "none",
          result |-> FALSE, batch_result |-> FALSE]

\* A coroutine is "spawned" until its first step has committed, then it awaits
\* the provider ("generating").  It ends by returning, by an exception that
\* leaves the runner, or with its server.
Live  == {"spawned", "generating"}
Ended == {"returned", "raised", "killed"}
Coro  == {"none"} \union Live \union Ended

Ops == {"idle", "start", "complete", "fail", "boot"}

\* The rows a session has loaded (on) and what they held at that moment.
Txn == [op : Ops, on : SUBSET Tasks, view : [Tasks -> Row]]

NoTxn == [op |-> "idle", on |-> {}, view |-> [t \in Tasks |-> NoRow]]

-----------------------------------------------------------------------------
(* The object-relational mapper: an UPDATE carries only the attributes whose *)
(* value differs from the one that was loaded.                               *)

\* Mutant: an UPDATE of every column.
FlushedWholeRow(old, new, cur) == new

Flushed(old, new, cur) ==
  [status |-> IF new.status # old.status THEN new.status ELSE cur.status,
   kind   |-> cur.kind,
   detail |-> IF new.detail # old.detail THEN new.detail ELSE cur.detail,
   result |-> IF new.result # old.result THEN new.result ELSE cur.result,
   batch_result |-> IF new.batch_result # old.batch_result
                    THEN new.batch_result ELSE cur.batch_result]

update_task_status(r) == [r EXCEPT !.status = "running"]

\* Mutant: the batch result is stored in the column of the single result.
complete_task_one_column(r) ==
  [r EXCEPT !.status = "completed", !.result = TRUE, !.detail = "none"]

\* Mutant: the batch result is not stored.
complete_task_no_batch(r) ==
  [r EXCEPT !.status = "completed", !.result = (r.kind = "single"), !.detail = "none"]

complete_task(r) ==
  [r EXCEPT !.status = "completed",
            !.result = (r.kind = "single"),
            !.batch_result = (r.kind = "multi"),
            !.detail = "none"]

\* Mutant: a failed generation is put back in the queue.
fail_task_requeues(r) == [r EXCEPT !.status = "queued"]

fail_task(r) == [r EXCEPT !.status = "failed", !.detail = "error"]

mark_interrupted(r) == [r EXCEPT !.status = "failed", !.detail = "interrupted"]

\* What the method that opened the session has assigned to a loaded row.
Assigned(op, r) ==
  CASE op = "start"    -> update_task_status(r)
    [] op = "complete" -> complete_task(r)
    [] op = "fail"     -> fail_task(r)
    [] op = "boot"     -> mark_interrupted(r)
    [] OTHER           -> r

\* The table after server s commits its open session.
Committed(s) ==
  [t \in Tasks |->
     IF t \in txn[s].on
     THEN Flushed(txn[s].view[t], Assigned(txn[s].op, txn[s].view[t]), row[t])
     ELSE row[t]]

-----------------------------------------------------------------------------

Init ==
  /\ row = [t \in Tasks |-> NoRow]
  /\ server = [s \in Servers |-> "down"]
  /\ txn = [s \in Servers |-> NoTxn]
  /\ running_tasks = [s \in Servers |-> {}]
  /\ host = [t \in Tasks |-> NoServer]
  /\ coro = [t \in Tasks |-> "none"]

\* The event loop of s is free to run a handler, a coroutine or a callback.
LoopFree(s) == server[s] = "up" /\ txn[s].op = "idle"

Load(s, op, on) == txn' = [txn EXCEPT ![s] = [op |-> op, on |-> on, view |-> row]]

-----------------------------------------------------------------------------
(* Requests.  submit_single_video and submit_multi_video differ in the kind  *)
(* of the row and in the runner they spawn.                                  *)

\* Mutant: the status the records of task_service.py start with.
create_task_record_draft(t, k) ==
  row' = [row EXCEPT ![t] = [NoRow EXCEPT !.status = "draft", !.kind = k]]

create_task_record(t, k) ==
  row' = [row EXCEPT ![t] = [NoRow EXCEPT !.status = "queued", !.kind = k]]

\* Mutant: fire and forget.
spawn_unreferenced_task(s, t) ==
  /\ coro' = [coro EXCEPT ![t] = "spawned"]
  /\ UNCHANGED running_tasks

spawn_background_task(s, t) ==
  /\ coro' = [coro EXCEPT ![t] = "spawned"]
  /\ running_tasks' = [running_tasks EXCEPT ![s] = @ \union {t}]

Submit(s, t, k) ==
  /\ LoopFree(s)
  /\ row[t].status = "absent"
  /\ create_task_record(t, k)
  /\ host' = [host EXCEPT ![t] = s]
  /\ spawn_background_task(s, t)
  /\ UNCHANGED <<server, txn>>

\* The INSERT commits, and the commit's answer or the refresh that follows it
\* raises: the request fails, the row stays, and no coroutine is spawned.
SubmitRaises(s, t, k) ==
  /\ DbMayFail
  /\ LoopFree(s)
  /\ row[t].status = "absent"
  /\ create_task_record(t, k)
  /\ host' = [host EXCEPT ![t] = s]
  /\ UNCHANGED <<server, txn, running_tasks, coro>>

-----------------------------------------------------------------------------
(* The runners _run_single_video_task and _run_multi_video_task.             *)

\* First step of the coroutine: _update_task_status(task_id, "running").
RunnerStarts(s, t) ==
  /\ LoopFree(s)
  /\ host[t] = s
  /\ coro[t] = "spawned"
  /\ Load(s, "start", {t})
  /\ UNCHANGED <<row, server, running_tasks, host, coro>>

\* The generation returns: _complete_task.
GenerationReturns(s, t) ==
  /\ LoopFree(s)
  /\ host[t] = s
  /\ coro[t] = "generating"
  /\ Load(s, "complete", {t})
  /\ UNCHANGED <<row, server, running_tasks, host, coro>>

\* Mutant: the exception is logged and the runner returns.
GenerationRaisesUnrecorded(s, t) ==
  /\ LoopFree(s)
  /\ host[t] = s
  /\ coro[t] = "generating"
  /\ coro' = [coro EXCEPT ![t] = "returned"]
  /\ UNCHANGED <<row, server, txn, running_tasks, host>>

\* The generation raises: except Exception, _fail_task.
GenerationRaises(s, t) ==
  /\ LoopFree(s)
  /\ host[t] = s
  /\ coro[t] = "generating"
  /\ Load(s, "fail", {t})
  /\ UNCHANGED <<row, server, running_tasks, host, coro>>

\* The runner's session commits; the runner goes on to await the provider, or
\* it is done.
RunnerCommits(s, t) ==
  /\ server[s] = "up"
  /\ txn[s].op \in {"start", "complete", "fail"}
  /\ txn[s].on = {t}
  /\ row' = Committed(s)
  /\ coro' = [coro EXCEPT ![t] = IF txn[s].op = "start" THEN "generating"
                                                         ELSE "returned"]
  /\ txn' = [txn EXCEPT ![s] = NoTxn]
  /\ UNCHANGED <<server, running_tasks, host>>

\* The session raises, before or after the database applied the commit.  None
\* of the three calls is inside the runner's try: the exception ends it.
RunnerDbError(s, t) ==
  /\ DbMayFail
  /\ server[s] = "up"
  /\ txn[s].op \in {"start", "complete", "fail"}
  /\ txn[s].on = {t}
  /\ row' \in {row, Committed(s)}
  /\ coro' = [coro EXCEPT ![t] = "raised"]
  /\ txn' = [txn EXCEPT ![s] = NoTxn]
  /\ UNCHANGED <<server, running_tasks, host>>

\* The done-callback _cleanup drops the reference that kept the task alive.
Cleanup(s, t) ==
  /\ LoopFree(s)
  /\ t \in running_tasks[s]
  /\ coro[t] \in Ended
  /\ running_tasks' = [running_tasks EXCEPT ![s] = @ \ {t}]
  /\ UNCHANGED <<row, server, txn, host, coro>>

-----------------------------------------------------------------------------
(* The life of a server.                                                     *)

\* The process dies, or the event loop shuts down: CancelledError is not an
\* Exception, so no runner writes to its row on the way out.  A session that
\* has not committed leaves no trace.
Stop(s) ==
  /\ server[s] # "down"
  /\ server' = [server EXCEPT ![s] = "down"]
  /\ txn' = [txn EXCEPT ![s] = NoTxn]
  /\ running_tasks' = [running_tasks EXCEPT ![s] = {}]
  /\ coro' = [t \in Tasks |-> IF host[t] = s /\ coro[t] \in Live
                              THEN "killed" ELSE coro[t]]
  /\ UNCHANGED <<row, host>>

\* Mutant: only the rows that were running.
UnfinishedRunning == {t \in Tasks : row[t].status = "running"}

\* Mutant: every row that did not complete.
UnfinishedNotCompleted == {t \in Tasks : row[t].status \notin {"absent", "completed"}}

Unfinished == {t \in Tasks : row[t].status \in Active}

\* __init__ runs _mark_incomplete_tasks_as_interrupted: it loads the unfinished
\* rows, and returns at once when there are none.
Boot(s) ==
  /\ server[s] = "down"
  /\ Exclusive => \A other \in Servers : server[other] = "down"
  /\ IF Unfinished = {}
     THEN server' = [server EXCEPT ![s] = "up"] /\ UNCHANGED txn
     ELSE server' = [server EXCEPT ![s] = "booting"] /\ Load(s, "boot", Unfinished)
  /\ UNCHANGED <<row, running_tasks, host, coro>>

BootCommits(s) ==
  /\ server[s] = "booting"
  /\ row' = Committed(s)
  /\ server' = [server EXCEPT ![s] = "up"]
  /\ txn' = [txn EXCEPT ![s] = NoTxn]
  /\ UNCHANGED <<running_tasks, host, coro>>

\* The exception leaves __init__ and the lifespan handler: the server does not
\* come up.
BootDbError(s) ==
  /\ DbMayFail
  /\ server[s] = "booting"
  /\ row' \in {row, Committed(s)}
  /\ server' = [server EXCEPT ![s] = "down"]
  /\ txn' = [txn EXCEPT ![s] = NoTxn]
  /\ UNCHANGED <<running_tasks, host, coro>>

-----------------------------------------------------------------------------

Request(s, t) == \E k \in Kinds : Submit(s, t, k) \/ SubmitRaises(s, t, k)

Runner(s, t) ==
  \/ RunnerStarts(s, t)
  \/ GenerationReturns(s, t)
  \/ GenerationRaises(s, t)
  \/ RunnerCommits(s, t)
  \/ RunnerDbError(s, t)
  \/ Cleanup(s, t)

Lifecycle(s) == Stop(s) \/ Boot(s) \/ BootCommits(s) \/ BootDbError(s)

Next ==
  \E s \in Servers :
    \/ Lifecycle(s)
    \/ \E t \in Tasks : Request(s, t) \/ Runner(s, t)

Spec == Init /\ [][Next]_vars

\* A server that is up runs what its event loop has to run: it starts each
\* coroutine, finishes each session it opened and resumes each coroutine whose
\* provider call has ended; and a boot that has begun comes to an end.  A
\* provider call ends because every HTTP request of the gateway has a timeout
\* and its poll loops have a deadline.  Nobody is assumed to restart a server.
Resume(s, t) ==
  RunnerStarts(s, t) \/ GenerationReturns(s, t) \/ GenerationRaises(s, t)

Fairness ==
  \A s \in Servers :
    /\ WF_vars(BootCommits(s))
    /\ \A t \in Tasks : WF_vars(Resume(s, t)) /\ WF_vars(RunnerCommits(s, t))

FairSpec == Spec /\ Fairness

-----------------------------------------------------------------------------

TypeOK ==
  /\ row \in [Tasks -> Row]
  /\ server \in [Servers -> {"down", "booting", "up"}]
  /\ txn \in [Servers -> Txn]
  /\ running_tasks \in [Servers -> SUBSET Tasks]
  /\ host \in [Tasks -> Servers \union {NoServer}]
  /\ coro \in [Tasks -> Coro]

\* An unfinished row is somebody's business: while the server that accepted it
\* is up, a live coroutine will finish the row.  The only rows left behind are
\* those whose session raised - in the request, before the coroutine was
\* spawned ("none"), or in the runner ("raised") - and those of a coroutine
\* killed by a stop, which the boot that follows closes when nobody else shares
\* the database.
UnfinishedRowIsHandled ==
  \A t \in Tasks :
    row[t].status \in Active /\ server[host[t]] = "up" =>
      \/ coro[t] \in Live
      \/ DbMayFail /\ coro[t] \in {"none", "raised"}

\* asyncio keeps only weak references to tasks: a live coroutine of a running
\* server is in _running_tasks, or it could be collected while it waits.
LiveCoroutineIsReferenced ==
  \A t \in Tasks : coro[t] \in Live => t \in running_tasks[host[t]]

\* What a poller reads is consistent: a completed row carries exactly the
\* result of its kind and no error, a failed row an error and no result, an
\* unfinished row neither.
Consistent(r) ==
  /\ r.status = "completed" => /\ r.result = (r.kind = "single")
                               /\ r.batch_result = (r.kind = "multi")
                               /\ r.detail = "none"
  /\ r.status = "failed" => r.detail # "none" /\ ~r.result /\ ~r.batch_result
  /\ r.status \in Active => r.detail = "none" /\ ~r.result /\ ~r.batch_result

OutcomeMatchesStatus == \A t \in Tasks : Consistent(row[t])

\* A finished row is final: no late coroutine, boot or retry changes what a
\* client has been told.  (When servers do not overlap.)
FinishedRowIsFinal ==
  [][\A t \in Tasks : row[t].status \in Terminal => row'[t] = row[t]]_vars

\* When a server comes up, no row it found unfinished is still unfinished, so
\* no client polls for ever for work that died with the previous process.
\* (When servers do not overlap.)
BootClosesUnfinishedRows ==
  [][\A s \in Servers :
       server[s] # "up" /\ server'[s] = "up" =>
         \A t \in Tasks : row'[t].status \notin Active]_vars

\* Even when servers share the database, a completed row has the result of its
\* kind, and ...
CompletedRowHasResult ==
  \A t \in Tasks :
    row[t].status = "completed" =>
      row[t].result = (row[t].kind = "single") /\ row[t].batch_result = (row[t].kind = "multi")

\* ... a stored result is never erased, whatever is done to the status.
StoredResultIsKept ==
  [][\A t \in Tasks :
       /\ row[t].result => row'[t].result
       /\ row[t].batch_result => row'[t].batch_result]_vars

\* Every submitted task is finished, or its server goes down, when sessions do
\* not fail.  (FairSpec.)
EveryTaskFinishes ==
  \A t \in Tasks : \A s \in Servers :
    (row[t].status \in Active /\ host[t] = s)
      ~> (row[t].status \in Terminal \/ server[s] = "down")

-----------------------------------------------------------------------------
(* What a poller reads of a row, and the promise it implements.              *)

AnswerOf(r) ==
  CASE r.detail # "none" -> r.detail
    [] r.result          -> "result"
    [] r.batch_result    -> "batch_result"
    [] OTHER             -> "none"

Promise == INSTANCE TaskLifecycle
  WITH status <- [t \in Tasks |-> row[t].status],
       kind   <- [t \in Tasks |-> row[t].kind],
       answer <- [t \in Tasks |-> AnswerOf(row[t])]

\* When servers do not overlap, the service implements the promise.
ImplementsLifecycle == Promise!Spec

=============================================================================
