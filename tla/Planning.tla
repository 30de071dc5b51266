------------------------------ MODULE Planning ------------------------------
(***************************************************************************)
(* The planning of a batch (plan_multi_video in                            *)
(* services/api/app/services/generation_service.py): a total duration is   *)
(* cut into segments, a text model is asked for the content of each, its   *)
(* answer is accepted or refused, and the tokens it reports are logged.    *)
(*                                                                         *)
(* The tokens pass through three forms: the provider's own, TokenUsage of  *)
(* packages/shared/contracts/generations.py, and TokenUsage of             *)
(* packages/shared/contracts/call_logs.py.                                 *)
(***************************************************************************)
EXTENDS Integers, Sequences, TLAPS

CONSTANTS
  Totals,    \* total_duration_seconds of a request
  Lengths,   \* segment_duration_seconds of a request
  Counts,    \* token counts a provider reports
  None       \* an absent field

VARIABLES
  request,   \* the durations asked for
  at,        \* how far the operation is
  answer,    \* what the provider answered
  log,       \* the call log
  plan       \* the segments returned

vars == <<request, at, answer, log, plan>>

-----------------------------------------------------------------------------
(* The durations of the segments.                                            *)

segment_count(total, length) == (total + length - 1) \div length

\* All segments have the length asked for but the last, which has what remains.
plan_segment_durations(total, length) ==
  LET n == segment_count(total, length)
  IN [i \in 1..n |-> IF i < n THEN length ELSE total - length * (n - 1)]

-----------------------------------------------------------------------------
(* The tokens.                                                               *)

\* What a provider reports under the names prompt_tokens, completion_tokens, total_tokens.
Reported == [prompt : Counts \union {None}, completion : Counts \union {None}, total : Counts \union {None}]

\* An expression a or b or c over the names a count may have: a count of zero is passed over
\* like an absent one.
FirstNonZero(count) == IF count = 0 THEN None ELSE count

\* A pydantic model keeps the arguments its class declares and drops the others: TokenUsage
\* declares input_tokens, output_tokens and total_tokens.
TokenUsage(arguments) ==
  [name \in {"input_tokens", "output_tokens", "total_tokens"} |->
     IF name \in DOMAIN arguments THEN arguments[name] ELSE None]

NoUsage == [name \in {} |-> None]

parse_token_usage(value) ==
  LET prompt == FirstNonZero(value.prompt)
      completion == FirstNonZero(value.completion)
      total == IF value.total = None /\ prompt # None /\ completion # None
               THEN prompt + completion ELSE value.total
  IN IF {prompt, completion, total} = {None} THEN NoUsage
     ELSE TokenUsage([prompt_tokens |-> prompt, completion_tokens |-> completion, total_tokens |-> total])

to_call_log_token_usage(usage) ==
  IF usage = NoUsage THEN NoUsage
  ELSE [prompt_tokens |-> usage["input_tokens"], completion_tokens |-> usage["output_tokens"],
        total_tokens |-> usage["total_tokens"]]

-----------------------------------------------------------------------------
(* The operation.                                                            *)

\* What validate_durations lets through.
Init ==
  /\ request \in {r \in [total : Totals, length : Lengths] : r.length <= r.total}
  /\ at = "calling"
  /\ answer = [segments |-> 0, usable |-> FALSE, usage |-> [prompt |-> None, completion |-> None, total |-> None]]
  /\ log = <<>>
  /\ plan = <<>>

durations == plan_segment_durations(request.total, request.length)

\* The model answers: some number of segments, each with or without the texts it must have.
ProviderAnswers ==
  /\ at = "calling"
  /\ \E n \in {0, Len(durations), Len(durations) + 1}, usable \in BOOLEAN, usage \in Reported :
       /\ answer' = [segments |-> n, usable |-> usable, usage |-> usage]
       /\ log' = Append(log, [status |-> "success",
                              token_usage |-> to_call_log_token_usage(parse_token_usage(usage))])
  /\ at' = "answered"
  /\ UNCHANGED <<request, plan>>

ProviderFails ==
  /\ at = "calling"
  /\ log' = Append(log, [status |-> "error", token_usage |-> NoUsage])
  /\ at' = "raised"
  /\ UNCHANGED <<request, answer, plan>>

\* parse_multi_video_segments accepts as many segments as were asked for, all complete; its
\* refusal comes after the call was logged as a success.
Parse ==
  /\ at = "answered"
  /\ IF answer.segments = Len(durations) /\ answer.usable
     THEN /\ plan' = [i \in 1..answer.segments |-> [segment_index |-> i, duration_seconds |-> durations[i]]]
          /\ at' = "planned"
     ELSE at' = "raised" /\ UNCHANGED plan
  /\ UNCHANGED <<request, answer, log>>

Next == ProviderAnswers \/ ProviderFails \/ Parse

Spec == Init /\ [][Next]_vars

-----------------------------------------------------------------------------
(* Properties.                                                               *)

\* What the repository says of the call log (README.md:26, "token usage"; the console shows
\* prompt and completion tokens, call-log-list.tsx:239): the prompt and completion tokens
\* that a provider reports are in the record of the call.
LoggedTokensAreReported ==
  \A n \in DOMAIN log : at = "answered" =>
    /\ answer.usage.prompt \notin {0, None} => log[n].token_usage["prompt_tokens"] = answer.usage.prompt
    /\ answer.usage.completion \notin {0, None} =>
         log[n].token_usage["completion_tokens"] = answer.usage.completion

-----------------------------------------------------------------------------

\* For a positive length, the number of segments is the quotient rounded up: as many whole
\* segments as fit before the end of the total, and one that ends with it.
LEMMA SegmentCount ==
  ASSUME NEW total \in Nat \ {0}, NEW length \in Nat \ {0}
  PROVE  /\ segment_count(total, length) \in Nat \ {0}
         /\ length * (segment_count(total, length) - 1) < total
         /\ total <= length * segment_count(total, length)
<1> DEFINE n == segment_count(total, length)
<1>1. n \in Int /\ n * length <= total + length - 1 /\ total + length - 1 < (n + 1) * length
  BY SMTT(30) DEF segment_count
<1>2. length * n <= total + length - 1 /\ total + length - 1 < length * n + length
  BY <1>1, SMTT(30)
<1>3. n > 0
  <2>1. SUFFICES ASSUME n <= 0 PROVE FALSE
    BY <1>1
  <2>2. length * n <= 0
    BY <1>1, <2>1, SMTT(30)
  <2> QED
    BY <1>1, <1>2, <2>2
<1>4. length * (n - 1) = length * n - length
  BY <1>1, SMTT(30)
<1> QED
  BY <1>1, <1>2, <1>3, <1>4

\* Whatever durations are asked for, the segments of a plan fill the total exactly
\* (_plan_segment_durations): all have the length asked for, but the last, which is not empty
\* and not longer, and the ones before it and it add up to the total.
THEOREM DurationsFillTotal ==
  ASSUME NEW total \in Nat \ {0}, NEW length \in Nat \ {0}
  PROVE  LET d == plan_segment_durations(total, length)
             n == segment_count(total, length)
         IN /\ n >= 1 /\ DOMAIN d = 1..n
            /\ \A i \in 1..(n - 1) : d[i] = length
            /\ d[n] \in 1..length
            /\ length * (n - 1) + d[n] = total
<1> DEFINE n == segment_count(total, length)
           d == plan_segment_durations(total, length)
<1>1. /\ n \in Nat \ {0} /\ length * (n - 1) < total /\ total <= length * n
  BY SegmentCount
<1>2. length * (n - 1) = length * n - length /\ length * (n - 1) \in Int
  BY <1>1, SMTT(30)
<1>3. d = [i \in 1..n |-> IF i < n THEN length ELSE total - length * (n - 1)]
  BY DEF plan_segment_durations
<1>4. DOMAIN d = 1..n /\ \A i \in 1..(n - 1) : d[i] = length
  BY <1>1, <1>3
<1>5. d[n] = total - length * (n - 1)
  BY <1>1, <1>3
<1>6. d[n] \in 1..length /\ length * (n - 1) + d[n] = total
  BY <1>1, <1>2, <1>5
<1> QED
  BY <1>1, <1>4, <1>6
=============================================================================
