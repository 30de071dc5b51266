---------------------------- MODULE BatchPromise ----------------------------
(***************************************************************************)
(* What a generation request promises to its caller                        *)
(* (MultiVideoGenerationResponse in packages/shared/contracts/              *)
(* generations.py): one report per segment, in the order of the request,   *)
(* none of them ever taken back - or nothing at all.                       *)
(***************************************************************************)
EXTENDS Naturals, Sequences

VARIABLES
  length,    \* how many segments were asked for
  reports,   \* the reports so far: which segment, and how it ended
  outcome    \* "pending", "returned" or "raised" (the caller gets no report)

vars == <<length, reports, outcome>>

Init ==
  /\ length \in Nat \ {0}
  /\ reports = <<>>
  /\ outcome = "pending"

Report ==
  /\ outcome = "pending"
  /\ Len(reports) < length
  /\ \E status \in {"success", "error"} :
       reports' = Append(reports, [segment |-> Len(reports) + 1, status |-> status])
  /\ UNCHANGED <<length, outcome>>

Return ==
  /\ outcome = "pending"
  /\ Len(reports) = length
  /\ outcome' = "returned"
  /\ UNCHANGED <<length, reports>>

Raise ==
  /\ outcome = "pending"
  /\ outcome' = "raised"
  /\ UNCHANGED <<length, reports>>

Next == Report \/ Return \/ Raise

Spec == Init /\ [][Next]_vars

=============================================================================
