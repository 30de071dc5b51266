---------------------------- MODULE GatewayProofs ----------------------------
(***************************************************************************)
(* Proofs about Gateway, for every timeout and every set of endpoints.     *)
(*                                                                         *)
(* The argument.  The work of the provider does not change once it has     *)
(* ended, so an answer that shows an end is still true when the gateway    *)
(* looks at it, however long it was on its way (ReplyInv).  The work has   *)
(* begun just when the POST was taken, and a POST is sent once (TakenInv). *)
(* Every poll after the deadline leads to an evaluation that does not go   *)
(* on (DeadlineInv).                                                       *)
(***************************************************************************)
EXTENDS Gateway, TLAPS

\* A call has ended when its caller was told something, and not before.
EndInv == pc \in Ended <=> outcome # "pending"

TakenInv ==
  /\ post = "taken" <=> status # "none"
  /\ tasks = IF post = "taken" THEN 1 ELSE 0
  /\ pc = "building" => post = "unsent"
  /\ pc \in {"posted", "poll", "polling", "polled"} => post = "taken"

ReplyInv ==
  /\ reply.status \in Terminal => status = reply.status
  /\ pc = "polled" => reply.status # "none"
  /\ adapter \in Direct /\ pc = "posted" => status = "succeeded"

DeadlineInv ==
  /\ overtime <= 1
  /\ overtime > 0 => left = 0 /\ pc \in {"polling", "polled"} \union Ended

IInv == TypeOK /\ EndInv /\ TakenInv /\ ReplyInv /\ DeadlineInv /\ LateAnswerCounts

-----------------------------------------------------------------------------
(* The invariant.                                                            *)

\* Of a fresh call nothing is known yet.
LEMMA InitIInv == Init => IInv
  BY TimeoutAssumption
  DEF Init, IInv, TypeOK, EndInv, TakenInv, ReplyInv, DeadlineInv, LateAnswerCounts,
      Ended, Waiting, Status, Active, Terminal, Content, Reply, Direct, Polled, Outcomes

\* The provider's steps change the work, and only until it has ended.
LEMMA ProviderKeepsIInv ==
  ASSUME IInv, Provider
  PROVE  IInv'
<1>1. CASE TakePost
  <2>1. status = "none" /\ status' # "none" /\ status' \in Status /\ content' \in Content
    BY <1>1 DEF TakePost, IInv, TakenInv, Status, Active, Terminal
  <2>2. TypeOK'
    BY <1>1, <2>1 DEF TakePost, IInv, TypeOK
  <2>3. TakenInv' /\ EndInv'
    BY <1>1, <2>1 DEF TakePost, IInv, TakenInv, EndInv
  <2>4. ReplyInv'
    BY <1>1, <2>1 DEF TakePost, IInv, TypeOK, ReplyInv, TakenInv, Terminal
  <2>5. DeadlineInv' /\ LateAnswerCounts'
    BY <1>1 DEF TakePost, IInv, DeadlineInv, LateAnswerCounts
  <2> QED
    BY <2>2, <2>3, <2>4, <2>5 DEF IInv
<1>2. CASE TaskProceeds
  <2>1. status' \in Status \ {"none"} /\ status # "none"
    BY <1>2 DEF TaskProceeds, Status, Active, Terminal
  <2>2. TypeOK' /\ TakenInv' /\ EndInv'
    BY <1>2, <2>1 DEF TaskProceeds, IInv, TypeOK, TakenInv, EndInv
  <2>3. ReplyInv'
    BY <1>2, <2>1 DEF TaskProceeds, IInv, ReplyInv, Terminal, Active, Direct, Polled
  <2>4. DeadlineInv' /\ LateAnswerCounts'
    BY <1>2 DEF TaskProceeds, IInv, DeadlineInv, LateAnswerCounts
  <2> QED
    BY <2>2, <2>3, <2>4 DEF IInv
<1> QED
    BY <1>1, <1>2 DEF Provider

\* The steps that end a call, for a reason that is checked where it is given.
LEMMA EndKeepsIInv ==
  ASSUME IInv, outcome = "pending",
         NEW how \in Ended, NEW what \in Outcomes \ {"pending"}, End(how, what),
         what = "timed_out" => left = 0 /\ Polling(Unfinished),
         UNCHANGED <<adapter, endpoint, Remote, reply, left, overtime>>
  PROVE  IInv'
<1>1. TypeOK' /\ EndInv'
    BY DEF IInv, TypeOK, EndInv, End, Ended, Waiting, Remote
<1>2. TakenInv' /\ ReplyInv'
    BY DEF IInv, TakenInv, ReplyInv, End, Ended, Remote
<1>3. DeadlineInv'
    BY DEF IInv, DeadlineInv, End
<1>4. what = "timed_out" => reply.status \in Active \union (IF adapter = "modelscope" THEN {"expired"} ELSE {})
    BY DEF Polling, Unfinished, Successes, Failures, Unknown, IInv, ReplyInv, Status, Active, Terminal
<1>5. LateAnswerCounts'
    BY <1>4 DEF LateAnswerCounts, End, Remote
<1> QED
    BY <1>1, <1>2, <1>3, <1>5 DEF IInv

\* The steps that end a call are these.
Ending ==
  \/ RejectBody \/ RefuseUrl \/ RequestFails
  \/ BrokenAnswer \/ ParseDirect \/ TaskIdMissing
  \/ TaskSucceeded \/ TaskFailed \/ UnknownStatus \/ TimesOut

\* What the caller is told by each of them, and what is true of the work then.
LEMMA EndingEffect ==
  ASSUME IInv, Ending
  PROVE  /\ outcome = "pending" /\ UNCHANGED <<adapter, endpoint, Remote, reply, left, overtime>>
         /\ \E how \in Ended, what \in Outcomes \ {"pending"} :
              /\ End(how, what)
              /\ what = "timed_out" => left = 0 /\ Polling(Unfinished)
              /\ what = "result" => status = "succeeded"
              /\ what = "task_failed" => status \in Terminal \ {"succeeded"}
<1> USE DEF Ended, Outcomes
<1>1. outcome = "pending"
    BY DEF Ending, RejectBody, RefuseUrl, RequestFails, BrokenAnswer, ParseDirect, TaskIdMissing,
           TaskSucceeded, TaskFailed, UnknownStatus, TimesOut, Polling, Waiting, IInv, EndInv
<1>2. UNCHANGED <<adapter, endpoint, Remote, reply, left, overtime>>
    BY DEF Ending, RejectBody, RefuseUrl, RequestFails, BrokenAnswer, ParseDirect, TaskIdMissing,
           TaskSucceeded, TaskFailed, UnknownStatus, TimesOut, Reads
<1>3. CASE RejectBody \/ RefuseUrl
  <2>1. End("raised", "invalid")
    BY <1>3 DEF RejectBody, RefuseUrl
  <2> QED
    BY <1>1, <1>2, <2>1
<1>4. CASE RequestFails \/ TaskIdMissing \/ UnknownStatus
  <2>1. End("raised", "upstream")
    BY <1>4 DEF RequestFails, TaskIdMissing, UnknownStatus
  <2> QED
    BY <1>1, <1>2, <2>1
<1>5. CASE BrokenAnswer
  <2>1. End("raised", "unexpected")
    BY <1>5 DEF BrokenAnswer
  <2> QED
    BY <1>1, <1>2, <2>1
<1>6. CASE ParseDirect
  <2>1. End("raised", "upstream") \/ End("returned", "result")
    BY <1>6 DEF ParseDirect
  <2>2. status = "succeeded"
    BY <1>6 DEF ParseDirect, IInv, ReplyInv
  <2> QED
    BY <1>1, <1>2, <2>1, <2>2
<1>7. CASE TaskSucceeded
  <2>1. End("raised", "upstream") \/ End("returned", "result")
    BY <1>7 DEF TaskSucceeded
  <2>2. status = "succeeded"
    BY <1>7 DEF TaskSucceeded, Polling, Successes, IInv, ReplyInv, Terminal
  <2> QED
    BY <1>1, <1>2, <2>1, <2>2
<1>8. CASE TaskFailed
  <2>1. End("raised", "task_failed")
    BY <1>8 DEF TaskFailed
  <2>2. status \in Terminal \ {"succeeded"}
    BY <1>8 DEF TaskFailed, Polling, Failures, IInv, ReplyInv, Terminal
  <2> QED
    BY <1>1, <1>2, <2>1, <2>2
<1>9. CASE TimesOut
  <2>1. End("raised", "timed_out") /\ left = 0 /\ Polling(Unfinished)
    BY <1>9 DEF TimesOut
  <2> QED
    BY <1>1, <1>2, <2>1
<1> QED
    BY <1>3, <1>4, <1>5, <1>6, <1>7, <1>8, <1>9 DEF Ending

\* The steps with which a call goes on, and the passing of time.
Going == Post \/ Poll \/ AnswerPost \/ AnswerPoll \/ TaskIdKnown \/ Sleep \/ Elapse

LEMMA GoingKeepsIInv ==
  ASSUME IInv, Going
  PROVE  IInv' /\ outcome' = outcome /\ tasks' = tasks /\ status' = status
<1> USE TimeoutAssumption DEF IInv, Remote
<1>1. CASE Post
    BY <1>1 DEF Post, TypeOK, EndInv, TakenInv, ReplyInv, DeadlineInv, LateAnswerCounts, Ended, Waiting
<1>2. CASE Poll
    BY <1>2 DEF Poll, TypeOK, EndInv, TakenInv, ReplyInv, DeadlineInv, LateAnswerCounts, Ended, Waiting
<1>3. CASE AnswerPost
  <2>1. reply' \in Reply /\ reply'.status = status /\ pc' = "posted" /\ pc = "posting"
    BY <1>3 DEF AnswerPost, Answer, TypeOK, Reply
  <2> QED
    BY <1>3, <2>1 DEF AnswerPost, Answer, TypeOK, EndInv, TakenInv, ReplyInv, DeadlineInv,
                      LateAnswerCounts, Ended, Waiting
<1>4. CASE AnswerPoll
  <2>1. reply' \in Reply /\ reply'.status = status /\ pc' = "polled" /\ pc = "polling"
    BY <1>4 DEF AnswerPoll, Answer, TypeOK, Reply
  <2> QED
    BY <1>4, <2>1 DEF AnswerPoll, Answer, TypeOK, EndInv, TakenInv, ReplyInv, DeadlineInv,
                      LateAnswerCounts, Ended, Waiting
<1>5. CASE TaskIdKnown
    BY <1>5 DEF TaskIdKnown, Reads, TypeOK, EndInv, TakenInv, ReplyInv, DeadlineInv,
                LateAnswerCounts, Ended, Waiting
<1>6. CASE Sleep
    BY <1>6 DEF Sleep, Polling, Reads, TypeOK, EndInv, TakenInv, ReplyInv, DeadlineInv,
                LateAnswerCounts, Ended, Waiting
<1>7. CASE Elapse
    BY <1>7 DEF Elapse, TypeOK, EndInv, TakenInv, ReplyInv, DeadlineInv, LateAnswerCounts, Ended, Waiting
<1> QED
    BY <1>1, <1>2, <1>3, <1>4, <1>5, <1>6, <1>7 DEF Going

LEMMA NextKinds == Next => Provider \/ Ending \/ Going
  BY DEF Next, Call, Evaluate, Ending, Going

\* Every step keeps the invariant.
LEMMA NextIInv == IInv /\ [Next]_vars => IInv'
<1> SUFFICES ASSUME IInv, [Next]_vars
             PROVE  IInv'
    OBVIOUS
<1>1. CASE Provider
    BY <1>1, ProviderKeepsIInv
<1>2. CASE Ending
    BY <1>2, EndingEffect, EndKeepsIInv
<1>3. CASE Going
    BY <1>3, GoingKeepsIInv
<1>4. CASE UNCHANGED vars
    BY <1>4 DEF vars, IInv, TypeOK, EndInv, TakenInv, ReplyInv, DeadlineInv, LateAnswerCounts, Polling
<1> QED
    BY <1>1, <1>2, <1>3, <1>4, NextKinds

LEMMA Invariance == Spec => []IInv
  BY InitIInv, NextIInv, PTL DEF Spec

-----------------------------------------------------------------------------
(* The theorems.                                                             *)

\* Every variable of a call keeps its type.
THEOREM TypeCorrect == Spec => []TypeOK
<1>1. IInv => TypeOK
    BY DEF IInv
<1> QED
    BY <1>1, Invariance, PTL

\* An end of the task that arrives after the deadline is still reported as what it is.
THEOREM LateAnswers == Spec => []LateAnswerCounts
<1>1. IInv => LateAnswerCounts
    BY DEF IInv
<1> QED
    BY <1>1, Invariance, PTL

\* For every timeout, at most one poll is sent after the deadline.
THEOREM DeadlineBound == Spec => []OnePollPastDeadline
<1>1. IInv => OnePollPastDeadline
    BY DEF IInv, DeadlineInv, OnePollPastDeadline
<1> QED
    BY <1>1, Invariance, PTL

\* The provider's steps are steps of its work in the promise, or none.
LEMMA ProviderKeepsPromise ==
  ASSUME IInv, Provider
  PROVE  Promise!Next \/ UNCHANGED Promise!vars
<1>1. ReportOf' = ReportOf
    BY DEF Provider, TakePost, TaskProceeds, ReportOf
<1>2. CASE TakePost
  <2>1. tasks = 0 /\ tasks' = 1
    BY <1>2 DEF TakePost, IInv, TakenInv
  <2>2. Work' \in {"going", "succeeded", "failed"}
    BY <1>2 DEF TakePost, Work, Active
  <2> QED
    BY <1>1, <2>1, <2>2 DEF Promise!Next, Promise!Start
<1>3. CASE TaskProceeds
  <2>1. tasks' = tasks /\ Work = "going" /\ Work' \in {"going", "succeeded", "failed"}
    BY <1>3 DEF TaskProceeds, Work, Active, Terminal
  <2> QED
    BY <1>1, <2>1 DEF Promise!Next, Promise!Finish, Promise!vars
<1> QED
    BY <1>2, <1>3 DEF Provider

\* A step that ends the call reports, and what it reports is true of the work.
LEMMA EndingKeepsPromise ==
  ASSUME IInv, Ending
  PROVE  Promise!Next
<1>1. tasks' = tasks /\ Work' = Work
    BY EndingEffect DEF Remote, Work
<1>2. ReportOf = "pending"
    BY EndingEffect DEF ReportOf
<1>3. PICK how \in Ended, what \in Outcomes \ {"pending"} :
        /\ End(how, what)
        /\ what = "result" => status = "succeeded"
        /\ what = "task_failed" => status \in Terminal \ {"succeeded"}
    BY EndingEffect
<1>4. ReportOf' = CASE what = "result" -> "result" [] what = "task_failed" -> "failed" [] OTHER -> "gave_up"
    BY <1>3 DEF End, ReportOf, Outcomes
<1>5. what = "result" => Work = "succeeded"
    BY <1>3 DEF Work, Active
<1>6. what = "task_failed" => Work = "failed"
    BY <1>3 DEF Work, Active, Terminal
<1> QED
    BY <1>1, <1>2, <1>4, <1>5, <1>6 DEF Promise!Next, Promise!Report

\* For every provider, timeout and order of failures: the work is caused once at most, what
\* is reported of it is true, and it is reported once.
THEOREM KeepsPromise == Spec => ImplementsProviderCall
<1>1. Init => Promise!Init
  <2>1. Init => Work = "none" /\ ReportOf = "pending"
    BY DEF Init, Work, ReportOf, Active
  <2> QED
    BY <2>1 DEF Init, Promise!Init
<1>2. IInv /\ [Next]_vars => [Promise!Next]_(Promise!vars)
  <2> SUFFICES ASSUME IInv, [Next]_vars
               PROVE  Promise!Next \/ UNCHANGED Promise!vars
    OBVIOUS
  <2>1. CASE Provider
    BY <2>1, ProviderKeepsPromise
  <2>2. CASE Ending
    BY <2>2, EndingKeepsPromise
  <2>3. CASE Going
    BY <2>3, GoingKeepsIInv DEF Promise!vars, Work, ReportOf
  <2>4. CASE UNCHANGED vars
    BY <2>4 DEF vars, Promise!vars, Work, ReportOf
  <2> QED
    BY <2>1, <2>2, <2>3, <2>4, NextKinds
<1> QED
    BY <1>1, <1>2, Invariance, PTL DEF Spec, Promise!Spec, ImplementsProviderCall

-----------------------------------------------------------------------------
(* How long a call can take, in steps of its own, whatever the provider does *)
(* and however often it changes its mind: a poll takes three of them, and a  *)
(* poll that does not end the call leaves less time to the deadline.         *)

Budget ==
  CASE pc = "building" -> 3 * Timeout + 6
    [] pc = "posting"  -> 3 * Timeout + 5
    [] pc = "posted"   -> 3 * Timeout + 4
    [] pc = "poll"     -> 3 * left + 3
    [] pc = "polling"  -> 3 * left + 2
    [] pc = "polled"   -> 3 * left + 1
    [] pc \in Ended    -> 0

\* A call takes at most 3 * Timeout + 6 steps, those of time included.
Spends ==
  /\ Budget \in 0..3 * Timeout + 6
  /\ Budget' <= Budget
  /\ Call \/ Elapse => Budget' < Budget

LEMMA BudgetBounds ==
  ASSUME IInv
  PROVE  /\ Budget \in 0..3 * Timeout + 6
         /\ pc \notin Ended => Budget > 0
         /\ Timeout \in Nat /\ left \in 0..Timeout
<1>1. Timeout \in Nat /\ left \in 0..Timeout /\ pc \in {"building", "poll"} \union Waiting \union Ended
    BY TimeoutAssumption DEF IInv, TypeOK
<1> QED
    BY <1>1 DEF Budget, Waiting, Ended

LEMMA NextSpends ==
  ASSUME IInv, [Next]_vars
  PROVE  [Spends]_vars
<1>1. Timeout \in Nat /\ left \in 0..Timeout /\ Budget \in 0..3 * Timeout + 6
    BY BudgetBounds
<1>2. CASE Provider
  <2>1. pc' = pc /\ left' = left
    BY <1>2 DEF Provider, TakePost, TaskProceeds
  <2>2. Budget' = Budget
    BY <2>1 DEF Budget
  <2>3. status' # status
    BY <1>2 DEF Provider, TakePost, TaskProceeds, IInv, TakenInv, Active, Terminal
  <2>4. ~Call /\ ~Elapse
    <3>1. Call => status' = status
      <4>1. Ending => status' = status
        BY EndingEffect DEF Remote
      <4>2. Going => status' = status
        BY GoingKeepsIInv
      <4> QED
        BY <4>1, <4>2 DEF Call, Evaluate, Ending, Going
    <3>2. Elapse => status' = status
      BY DEF Elapse, Remote
    <3> QED
      BY <2>3, <3>1, <3>2
  <2> QED
    BY <1>1, <2>2, <2>4 DEF Spends
<1>3. CASE Ending
  <2>1. pc' \in Ended /\ pc \notin Ended
    BY <1>3, EndingEffect DEF End, IInv, EndInv
  <2>2. Budget' = 0
    BY <2>1 DEF Budget, Ended
  <2>3. Budget > 0
    BY <2>1, BudgetBounds
  <2> QED
    BY <1>1, <2>2, <2>3 DEF Spends
<1>4. CASE Going
  <2>1. \/ pc = "building" /\ pc' = "posting"
        \/ pc = "posting" /\ pc' = "posted"
        \/ pc = "posted" /\ pc' = "poll" /\ left' = Timeout
        \/ pc = "poll" /\ pc' = "polling" /\ left' = left
        \/ pc = "polling" /\ pc' = "polled" /\ left' = left
        \/ pc = "polled" /\ pc' = "poll" /\ left > 0 /\ left' = left - 1
        \/ pc \in {"poll", "polling", "polled"} /\ pc' = pc /\ left > 0 /\ left' = left - 1
    BY <1>4 DEF Going, Post, Poll, AnswerPost, AnswerPoll, Answer, TaskIdKnown, Sleep, Polling,
                Elapse
  <2>2. Budget' < Budget
    BY <1>1, <2>1 DEF Budget, Ended
  <2>3. Budget' <= Budget
    <3>1. Budget' \in Nat
      BY <1>1, <2>1 DEF Budget, Ended
    <3> QED
      BY <1>1, <2>2, <3>1
  <2> QED
    BY <1>1, <2>2, <2>3 DEF Spends
<1> QED
    BY <1>2, <1>3, <1>4, NextKinds

\* The loop of _poll_*_task: a call ends within a number of its own steps that the timeout
\* alone decides, for every timeout and whatever the provider answers.
THEOREM CallIsBounded == Spec => [][Spends]_vars
<1>1. IInv /\ [Next]_vars => [Spends]_vars
    BY NextSpends
<1> QED
    BY <1>1, Invariance, PTL DEF Spec
=============================================================================
