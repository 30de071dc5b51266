---------------------------- MODULE TaskLifecycle ----------------------------
(***************************************************************************)
(* What the asynchronous video API promises to a client that polls a task  *)
(* (VideoGenerationTaskStatus and VideoGenerationTaskResponse in           *)
(* packages/shared/contracts/generations.py): a task is queued, then       *)
(* running, then finished for ever with one answer, a result or an error.  *)
(* How the answer is computed, and by which process, is not visible.       *)
(***************************************************************************)
CONSTANT Tasks

VARIABLES
  status,   \* what the poller reads
  kind,     \* the kind of task that was asked for
  answer    \* what a finished task delivers

vars == <<status, kind, answer>>

Unfinished == {t \in Tasks : status[t] \in {"queued", "running"}}

\* A single task answers with a result, a multi task with a batch result.
ResultOf(k) == IF k = "single" THEN "result" ELSE "batch_result"

Init ==
  /\ status = [t \in Tasks |-> "absent"]
  /\ kind = [t \in Tasks |-> "single"]
  /\ answer = [t \in Tasks |-> "none"]

Accept(t) ==
  /\ status[t] = "absent"
  /\ status' = [status EXCEPT ![t] = "queued"]
  /\ \E k \in {"single", "multi"} : kind' = [kind EXCEPT ![t] = k]
  /\ UNCHANGED answer

Begin(t) ==
  /\ status[t] = "queued"
  /\ status' = [status EXCEPT ![t] = "running"]
  /\ UNCHANGED <<kind, answer>>

Deliver(t) ==
  /\ status[t] = "running"
  /\ status' = [status EXCEPT ![t] = "completed"]
  /\ answer' = [answer EXCEPT ![t] = ResultOf(kind[t])]
  /\ UNCHANGED kind

Reject(t) ==
  /\ status[t] = "running"
  /\ status' = [status EXCEPT ![t] = "failed"]
  /\ answer' = [answer EXCEPT ![t] = "error"]
  /\ UNCHANGED kind

\* A restart gives up every unfinished task at once.
Interrupt ==
  /\ Unfinished # {}
  /\ status' = [t \in Tasks |-> IF t \in Unfinished THEN "failed" ELSE status[t]]
  /\ answer' = [t \in Tasks |-> IF t \in Unfinished THEN "interrupted" ELSE answer[t]]
  /\ UNCHANGED kind

Next ==
  \/ \E t \in Tasks : Accept(t) \/ Begin(t) \/ Deliver(t) \/ Reject(t)
  \/ Interrupt

Spec == Init /\ [][Next]_vars

=============================================================================
