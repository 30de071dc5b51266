----------------------------- MODULE ProviderCall -----------------------------
(***************************************************************************)
(* What a call of the provider gateway promises, whatever the provider and *)
(* the network do: it causes the work at most once, reports a result only  *)
(* of work that succeeded and a provider's failure only of work that       *)
(* failed, and reports once.  It may give up at any time, and the work may *)
(* begin, go on or succeed after it has.                                   *)
(***************************************************************************)
EXTENDS Naturals

VARIABLES started, work, report

vars == <<started, work, report>>

Init == started = 0 /\ work = "none" /\ report = "pending"

\* Some work is done before the request that caused it is answered.
Start ==
  /\ started = 0
  /\ started' = 1
  /\ work' \in {"going", "succeeded", "failed"}
  /\ UNCHANGED report

Finish ==
  /\ work = "going"
  /\ work' \in {"succeeded", "failed"}
  /\ UNCHANGED <<started, report>>

Report ==
  /\ report = "pending"
  /\ \/ report' = "result" /\ work = "succeeded"
     \/ report' = "failed" /\ work = "failed"
     \/ report' = "gave_up"
  /\ UNCHANGED <<started, work>>

Next == Start \/ Finish \/ Report

Spec == Init /\ [][Next]_vars
=============================================================================
