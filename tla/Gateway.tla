------------------------------- MODULE Gateway -------------------------------
(***************************************************************************)
(* One call of HttpProviderGateway (packages/provider_sdk/gateway.py):     *)
(* generate_image, generate_video or generate_text.                        *)
(*                                                                         *)
(* Most adapters answer the POST with the result.  Volcengine Ark and      *)
(* ModelScope answer it with the id of a task that runs on their side, and *)
(* the gateway polls the task, once a second, until it has ended or the    *)
(* timeout of the endpoint has passed.  The task has a life of its own:    *)
(* it goes on when a poll fails and when the gateway has given up.         *)
(***************************************************************************)
EXTENDS Integers

CONSTANTS
  Endpoints,   \* the endpoints a provider may be configured with
  Timeout      \* timeout_seconds of the endpoint, in polls

ASSUME TimeoutAssumption == Timeout \in Nat \ {0}

VARIABLES
  adapter,
  endpoint,
  pc,
  post,      \* the POST: "unsent", "sent", or "taken" by the provider
  tasks,     \* how often the provider took it
  status,    \* the work as the provider shows it
  content,   \* what the provider has to say when the work is done
  reply,     \* the answer on its way to the gateway, or the last one read
  left,      \* time to the deadline (0: it has passed)
  overtime,  \* polls sent after the deadline
  outcome    \* what the caller is told

vars == <<adapter, endpoint, pc, post, tasks, status, content, reply, left, overtime, outcome>>

-----------------------------------------------------------------------------

\* The work is done by the POST itself, or by a task that is polled.
Direct == {"media", "text"}
Polled == {"volcengine_ark", "modelscope"}

\* "odd": a status no adapter knows; "empty": none in the answer.
Active    == {"queued", "running", "odd", "empty"}
Terminal  == {"succeeded", "failed", "cancelled", "expired"}
Status    == {"none"} \union Active \union Terminal

\* The JSON of an answer: it has what the adapter looks for, or is an object that
\* has not, or has a shape on which the parser itself fails.
Content == {"good", "poor", "broken"}

Reply == [status : Status, content : Content]

\* userinfo: the URL names a user.  private_ok, http_ok: GMF_ALLOW_PRIVATE_PROVIDER_URLS
\* and GMF_ALLOW_INSECURE_HTTP_PROVIDER_URLS, or their defaults for APP_ENV.
Endpoint == [scheme : {"https", "http", "other"}, userinfo : BOOLEAN,
             host : {"missing", "localhost", "named"},
             private_ok : BOOLEAN, http_ok : BOOLEAN]

ASSUME EndpointsAssumption == Endpoints \subseteq Endpoint

\* What a name may resolve to, each time it is asked: "private" stands for private and
\* loopback addresses, "special" for link-local, multicast, unspecified and reserved ones.
_resolve_host_ips == {{"unresolved"}} \union SUBSET {"public", "private", "special"}

_ensure_outbound_provider_url_is_allowed(ips) ==
  /\ endpoint.scheme # "other"
  /\ endpoint.scheme = "http" => endpoint.http_ok
  /\ ~endpoint.userinfo
  /\ \/ endpoint.host = "localhost" /\ endpoint.private_ok
     \/ /\ endpoint.host = "named"
        /\ "unresolved" \notin ips /\ "special" \notin ips
        /\ "private" \in ips => endpoint.private_ok

Ended == {"returned", "raised"}

-----------------------------------------------------------------------------

Init ==
  /\ adapter \in Direct \union Polled
  /\ endpoint \in Endpoints
  /\ pc = "building"
  /\ post = "unsent"
  /\ tasks = 0
  /\ status = "none"
  /\ content = "good"
  /\ reply = [status |-> "none", content |-> "good"]
  /\ left = Timeout
  /\ overtime = 0
  /\ outcome = "pending"

Remote == <<post, tasks, status, content>>

End(how, what) == pc' = how /\ outcome' = what

-----------------------------------------------------------------------------
(* The provider.                                                             *)

\* It takes the POST, even when the gateway no longer waits for the answer.
TakePost ==
  /\ post = "sent"
  /\ post' = "taken"
  /\ tasks' = tasks + 1
  /\ status' \in IF adapter \in Polled THEN {"queued", "running"} ELSE {"succeeded", "failed"}
  /\ content' \in Content
  /\ UNCHANGED <<adapter, endpoint, pc, reply, left, overtime, outcome>>

\* The task goes on; what it has ended as, it stays.
TaskProceeds ==
  /\ adapter \in Polled /\ status \in Active
  /\ status' \in (Active \union Terminal) \ {status}
  /\ content' \in Content
  /\ UNCHANGED <<adapter, endpoint, pc, post, tasks, reply, left, overtime, outcome>>

\* It answers with what it knows at that moment.  (Work that a POST has done and that
\* failed is answered with an HTTP error: RequestFails.)
Answer(at, next) ==
  /\ pc = at
  /\ reply' = [status |-> status, content |-> content]
  /\ pc' = next
  /\ UNCHANGED <<adapter, endpoint, Remote, left, overtime, outcome>>

AnswerPost ==
  /\ post = "taken"
  /\ adapter \in Direct => status = "succeeded"
  /\ Answer("posting", "posted")

AnswerPoll == Answer("polling", "polled")

\* Time passes while a request is under way, and before it.
Elapse ==
  /\ pc \in {"poll", "polling", "polled"}
  /\ left > 0
  /\ left' = left - 1
  /\ UNCHANGED <<adapter, endpoint, pc, Remote, reply, overtime, outcome>>

-----------------------------------------------------------------------------
(* _request_json.                                                            *)

\* Only the body of an Ark request is checked (Generation: ArkAccepts).
RejectBody ==
  /\ pc = "building"
  /\ adapter = "volcengine_ark"
  /\ End("raised", "invalid")
  /\ UNCHANGED <<adapter, endpoint, Remote, reply, left, overtime>>

Post ==
  /\ pc = "building"
  /\ \E ips \in _resolve_host_ips : _ensure_outbound_provider_url_is_allowed(ips)
  /\ pc' = "posting"
  /\ post' = "sent"
  /\ UNCHANGED <<adapter, endpoint, tasks, status, content, reply, left, overtime, outcome>>

Poll ==
  /\ pc = "poll"
  /\ \E ips \in _resolve_host_ips : _ensure_outbound_provider_url_is_allowed(ips)
  /\ pc' = "polling"
  /\ overtime' = IF left = 0 THEN overtime + 1 ELSE overtime
  /\ UNCHANGED <<adapter, endpoint, Remote, reply, left, outcome>>

\* The URL is refused, before a poll like before the POST: a name may have stopped
\* resolving while the task runs.
RefuseUrl ==
  /\ pc \in {"building", "poll"}
  /\ \E ips \in _resolve_host_ips : ~_ensure_outbound_provider_url_is_allowed(ips)
  /\ End("raised", "invalid")
  /\ UNCHANGED <<adapter, endpoint, Remote, reply, left, overtime>>

Waiting == {"posting", "posted", "polling", "polled"}

\* Mutant: a POST that failed is sent again.
RequestFails_retries ==
  /\ pc \in Waiting
  /\ IF pc = "posting" THEN pc' = "building" /\ UNCHANGED outcome
                       ELSE End("raised", "upstream")
  /\ UNCHANGED <<adapter, endpoint, Remote, reply, left, overtime>>

\* An HTTP error, a request error or a timeout, or an answer that is no JSON: the call
\* ends, whichever request it was, and no request is repeated.
RequestFails ==
  /\ pc \in Waiting
  /\ End("raised", "upstream")
  /\ UNCHANGED <<adapter, endpoint, Remote, reply, left, overtime>>

-----------------------------------------------------------------------------
(* What the answers mean.                                                    *)

Reads == UNCHANGED <<adapter, endpoint, Remote, reply, overtime>>

\* An answer on which the parser fails: no ServiceError.
BrokenAnswer ==
  /\ pc \in {"posted", "polled"}
  /\ reply.content = "broken"
  /\ End("raised", "unexpected")
  /\ Reads /\ UNCHANGED left

\* _parse_media_result makes an empty list of outputs out of a poor answer,
\* _parse_text_result refuses it.
ParseDirect ==
  /\ pc = "posted"
  /\ adapter \in Direct
  /\ reply.content # "broken"
  /\ IF adapter = "text" /\ reply.content = "poor" THEN End("raised", "upstream")
                                                   ELSE End("returned", "result")
  /\ Reads /\ UNCHANGED left

\* No id in the answer: the task, if there is one, is out of reach.
TaskIdMissing ==
  /\ pc = "posted"
  /\ adapter \in Polled
  /\ reply.content = "poor"
  /\ End("raised", "upstream")
  /\ Reads /\ UNCHANGED left

\* The deadline is set when the task is known; the first poll follows at once.
TaskIdKnown ==
  /\ pc = "posted"
  /\ adapter \in Polled
  /\ reply.content = "good"
  /\ pc' = "poll"
  /\ left' = Timeout
  /\ Reads /\ UNCHANGED outcome

Polling(shown) == pc = "polled" /\ reply.content # "broken" /\ reply.status \in shown

Successes == {"succeeded"}

\* ModelScope has no "expired": it counts as running.
Failures ==
  IF adapter = "modelscope" THEN {"failed", "cancelled"} ELSE {"failed", "cancelled", "expired"}

\* Only the Ark adapter refuses a status that it does not know.
Unknown == IF adapter = "modelscope" THEN {} ELSE {"odd"}

Unfinished == Status \ (Successes \union Failures \union Unknown)

\* The result parsers raise when there is no video or no image in the answer.
TaskSucceeded ==
  /\ Polling(Successes)
  /\ IF reply.content = "good" THEN End("returned", "result") ELSE End("raised", "upstream")
  /\ Reads /\ UNCHANGED left

TaskFailed ==
  /\ Polling(Failures)
  /\ End("raised", "task_failed")
  /\ Reads /\ UNCHANGED left

UnknownStatus ==
  /\ Polling(Unknown)
  /\ End("raised", "upstream")
  /\ Reads /\ UNCHANGED left

\* Mutant: the deadline is looked at before the answer.
TimesOut_before_answer ==
  /\ Polling(Status)
  /\ left = 0
  /\ End("raised", "timed_out")
  /\ Reads /\ UNCHANGED left

\* The deadline is looked at only after an answer that says the task goes on.
TimesOut ==
  /\ Polling(Unfinished)
  /\ left = 0
  /\ End("raised", "timed_out")
  /\ Reads /\ UNCHANGED left

\* Mutant: an answer without a status skips the deadline.
Sleep_empty_skips ==
  /\ Polling(Unfinished)
  /\ left > 0 \/ reply.status = "empty"
  /\ pc' = "poll"
  /\ left' = IF left > 0 THEN left - 1 ELSE 0
  /\ Reads /\ UNCHANGED outcome

\* Mutant: no deadline.
Sleep_no_deadline ==
  /\ Polling(Unfinished)
  /\ pc' = "poll"
  /\ left' = left - 1
  /\ Reads /\ UNCHANGED outcome

\* Mutant: the deadline is computed inside the loop.
Sleep_new_deadline ==
  /\ Polling(Unfinished)
  /\ left > 0
  /\ pc' = "poll"
  /\ left' = Timeout
  /\ Reads /\ UNCHANGED outcome

\* asyncio.sleep(1.0), and back to the head of the loop.
Sleep ==
  /\ Polling(Unfinished)
  /\ left > 0
  /\ pc' = "poll"
  /\ left' = left - 1
  /\ Reads /\ UNCHANGED outcome

-----------------------------------------------------------------------------

Provider == TakePost \/ TaskProceeds

Evaluate ==
  \/ BrokenAnswer \/ ParseDirect \/ TaskIdMissing \/ TaskIdKnown
  \/ TaskSucceeded \/ TaskFailed \/ UnknownStatus \/ TimesOut \/ Sleep

Call ==
  \/ RejectBody \/ Post \/ Poll \/ RefuseUrl
  \/ AnswerPost \/ AnswerPoll \/ RequestFails
  \/ Evaluate

Next == Provider \/ Call \/ Elapse

Spec == Init /\ [][Next]_vars

\* The event loop resumes a call that can go on, and every request ends in an answer or
\* in an error, because httpx bounds how long it waits for the peer.  Of the provider's
\* task nothing is assumed.
FairSpec == Spec /\ WF_vars(Call)

-----------------------------------------------------------------------------

Outcomes == {"pending", "result", "task_failed", "timed_out", "invalid", "upstream", "unexpected"}

TypeOK ==
  /\ adapter \in Direct \union Polled
  /\ endpoint \in Endpoints
  /\ pc \in {"building", "poll"} \union Waiting \union Ended
  /\ post \in {"unsent", "sent", "taken"}
  /\ tasks \in Nat
  /\ status \in Status
  /\ content \in Content
  /\ reply \in Reply
  /\ left \in 0..Timeout
  /\ overtime \in Nat
  /\ outcome \in Outcomes

\* An answer that arrives after the deadline still counts: the caller is told that the
\* task timed out only when the deadline has passed and the last answer was not an end
\* of the task that the adapter knows.
LateAnswerCounts ==
  outcome = "timed_out" =>
    left = 0 /\ reply.status \in Active \union (IF adapter = "modelscope" THEN {"expired"} ELSE {})

\* The deadline is checked after a poll, so a call may outlive it, but by one poll only,
\* whatever the provider answers.
OnePollPastDeadline == overtime <= 1

\* A call ends although the task never does.  (FairSpec.)
CallEnds == <>(pc \in Ended)

\* The call implements the promise.
Work ==
  CASE status = "none"      -> "none"
    [] status \in Active    -> "going"
    [] status = "succeeded" -> "succeeded"
    [] OTHER                -> "failed"

ReportOf ==
  CASE outcome \in {"pending", "result"} -> outcome
    [] outcome = "task_failed"           -> "failed"
    [] OTHER                             -> "gave_up"

Promise == INSTANCE ProviderCall WITH started <- tasks, work <- Work, report <- ReportOf

\* No retry causes the work twice, no answer is taken for another, and a call that has
\* reported does not report again.
ImplementsProviderCall == Promise!Spec
=============================================================================
