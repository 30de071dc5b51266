----------------------------- MODULE Generation -----------------------------
(***************************************************************************)
(* One request to the generation service                                   *)
(* (services/api/app/services/generation_service.py): an image, a video, a *)
(* text, a batch of video segments or the regeneration of one segment.     *)
(*                                                                         *)
(* Every operation is a loop over segments - a single image, video or text *)
(* is a loop of one - and a segment is a provider call, its entry in the   *)
(* call log, and the outputs it saves in the asset library, each with a    *)
(* commit of its own.  The last frame of a segment may be the first image  *)
(* of the next.  A segment of a batch that fails is reported in its place  *)
(* and the others go on.                                                   *)
(***************************************************************************)
EXTENDS Naturals, Sequences, SequencesExt

CONSTANTS
  Requests,     \* the requests to consider
  OutputLists   \* what a provider may answer

VARIABLES
  request,   \* the validated request and the provider it names
  pc,
  n,         \* the segment the loop is at
  previous_segment_last_frame,
  outputs,   \* what the current provider call returned
  failure,   \* why the current provider call failed, or "none"
  saved,     \* how many of the outputs are in the library
  results,   \* the list segments of the batch
  library,   \* the assets the request has saved
  call_log,  \* the entries it has written
  received   \* what the provider was asked

vars == <<request, pc, n, previous_segment_last_frame, outputs, failure, saved,
          results, library, call_log, received>>

-----------------------------------------------------------------------------

Image == [from : {"base", "frame"}, n : Nat]

\* The last frame of segment k, or for k = 0 the one a client sends along.
FrameOf(k) == [from |-> "frame", n |-> k]

InputModes == {"unset", "first_frame", "first_last_frame", "unsupported"}

\* ark: a video, and the adapter is volcengine_ark.  base: the number of images of the
\* request.  bridges[n]: segment n asks for use_previous_segment_last_frame.
\* given: a client sends a frame with a regeneration.  "unsupported" is an option
\* that Ark refuses whatever the images: reference_image, or frames.
Request ==
  [op : {"media", "text", "batch", "segment"}, ark : BOOLEAN, count : Nat \ {0},
   base : Nat, input_mode : InputModes, save : BOOLEAN,
   bridges : Seq(BOOLEAN), given : BOOLEAN]

\* An output has no content ("none": for a text, content that the sanitiser
\* refuses), or content that the asset contract refuses ("invalid").
Output == [content : {"storable", "none", "invalid"}, last_frame : BOOLEAN]

\* The contract of a batch refuses a bridge from nowhere; every other operation
\* is one segment.  Only an image or a video may be asked for more than once.
ASSUME RequestsAssumption ==
  /\ Requests \subseteq Request
  /\ \A r \in Requests : IF r.op = "batch" THEN r.bridges # <<>> /\ ~r.bridges[1]
                                           ELSE Len(r.bridges) = 1
  /\ \A r \in Requests : r.op # "media" => r.count = 1

ASSUME OutputsAssumption == OutputLists \subseteq Seq(Output)

Causes == {"no_frame", "rejected", "provider", "unsaved"}

Ended == {"returned", "raised", "killed"}

-----------------------------------------------------------------------------

InLoop == pc = "segment" /\ n <= Len(request.bridges)

Bridged == request.bridges[n]

base_image_materials == [i \in 1..request.base |-> [from |-> "base", n |-> i]]

\* Mutant: the images are not cut down to the two that Ark accepts.
segment_image_materials_uncut ==
  IF ~Bridged THEN base_image_materials
              ELSE previous_segment_last_frame \o base_image_materials

segment_image_materials ==
  LET stitched == previous_segment_last_frame \o base_image_materials
  IN IF ~Bridged \/ previous_segment_last_frame = <<>>
     THEN base_image_materials
     ELSE IF request.ark /\ Len(stitched) > 2 THEN SubSeq(stitched, 1, 2) ELSE stitched

\* An Ark segment that must be stitched, and nothing to stitch it to.
FrameMissing == request.ark /\ Bridged /\ previous_segment_last_frame = <<>>

\* The option input_mode of a segment.
input_mode ==
  IF request.input_mode # "unset" \/ ~request.ark \/ ~Bridged
  THEN request.input_mode
  ELSE IF Len(segment_image_materials) <= 1 THEN "first_frame" ELSE "first_last_frame"

\* What the gateway checks before it sends anything to Ark.
ArkAccepts ==
  /\ request.count = 1
  /\ input_mode # "unsupported"
  /\ Len(segment_image_materials) <= 2
  /\ input_mode = "first_last_frame" => Len(segment_image_materials) = 2
  /\ input_mode = "first_frame" => Len(segment_image_materials) = 1

\* The first frame among the outputs, if any (an operation other than a batch has
\* no use for it).
extract_last_frame_material ==
  IF \E i \in DOMAIN outputs : outputs[i].last_frame THEN <<FrameOf(n)>> ELSE <<>>

-----------------------------------------------------------------------------

Init ==
  /\ request \in Requests
  /\ pc = "accepted"
  /\ n = 1
  /\ previous_segment_last_frame = <<>>
  /\ outputs = <<>>
  /\ failure = "none"
  /\ saved = 0
  /\ results = <<>>
  /\ library = {}
  /\ call_log = <<>>
  /\ received = <<>>

Effects == <<library, call_log, received>>
Current == <<outputs, failure, saved>>

\* The request names a provider, a model or an asset that is not there, or of
\* the wrong kind.
Refuse ==
  /\ pc = "accepted"
  /\ pc' = "raised"
  /\ UNCHANGED <<request, n, previous_segment_last_frame, Current, results, Effects>>

EnterLoop ==
  /\ pc = "accepted"
  /\ pc' = "segment"
  /\ previous_segment_last_frame' = IF request.given THEN <<FrameOf(0)>> ELSE <<>>
  /\ UNCHANGED <<request, n, Current, results, Effects>>

Raise ==
  /\ pc' = "raised"
  /\ UNCHANGED <<n, previous_segment_last_frame, results, Current>>

\* Mutant: the count of saved outputs is not reset.
CallEnds_keeps_saved == outputs' = <<>> /\ failure' = "none" /\ UNCHANGED saved

\* The variables of a call are its own.
CallEnds == outputs' = <<>> /\ failure' = "none" /\ saved' = 0

\* The loop appends what the segment came to, and goes on to the next.
Report(report, frame) ==
  /\ results' = Append(results, report)
  /\ previous_segment_last_frame' = frame
  /\ n' = n + 1
  /\ pc' = "segment"
  /\ CallEnds

Failure(cause) == [segment |-> n, status |-> "error", cause |-> cause, saved |-> {}]

\* Mutant: the frame of an earlier segment survives a failure.
ReportFailure_keeps_frame(cause) == Report(Failure(cause), previous_segment_last_frame)

\* Mutant: a failed segment is left out of the list.
ReportFailure_skips(cause) ==
  /\ n' = n + 1
  /\ pc' = "segment"
  /\ previous_segment_last_frame' = <<>>
  /\ CallEnds
  /\ UNCHANGED results

\* The segment is reported as an error, and leaves no frame.
ReportFailure(cause) == Report(Failure(cause), <<>>)

\* A ServiceError out of the provider call or the saving: segments catch it,
\* the other operations do not.
ServiceErrorIn(cause) ==
  IF request.op \in {"batch", "segment"} THEN ReportFailure(cause) ELSE Raise

\* Nothing to stitch to: only the loop of a batch catches this one.
NoFrame ==
  /\ InLoop
  /\ FrameMissing
  /\ IF request.op = "batch" THEN ReportFailure("no_frame") ELSE Raise
  /\ UNCHANGED <<request, Effects>>

GatewayRejects ==
  /\ InLoop
  /\ ~FrameMissing
  /\ request.ark /\ ~ArkAccepts
  /\ failure' = "rejected"
  /\ pc' = "answered"
  /\ UNCHANGED <<request, n, previous_segment_last_frame, outputs, saved, results, Effects>>

CallProvider ==
  /\ InLoop
  /\ ~FrameMissing
  /\ request.ark => ArkAccepts
  /\ received' = Append(received, [segment |-> n, images |-> segment_image_materials])
  /\ pc' = "called"
  /\ UNCHANGED <<request, n, previous_segment_last_frame, Current, results, library, call_log>>

\* Ark answers with one video, a text model with one text.
ProviderAnswers(list) ==
  /\ pc = "called"
  /\ request.ark \/ request.op = "text" => Len(list) = 1
  /\ request.ark => list[1].content # "none"
  /\ outputs' = list
  /\ failure' = "none"
  /\ pc' = "answered"
  /\ UNCHANGED <<request, n, previous_segment_last_frame, saved, results, Effects>>

ProviderFails ==
  /\ pc = "called"
  /\ failure' = "provider"
  /\ pc' = "answered"
  /\ UNCHANGED <<request, n, previous_segment_last_frame, outputs, saved, results, Effects>>

Entry(status) == [segment |-> n, status |-> status]

\* Mutant: an exception of the log is taken for one of the provider.
LogCall_unguarded ==
  /\ pc = "answered"
  /\ IF failure = "none"
     THEN \/ /\ call_log' = Append(call_log, Entry("success"))
             /\ pc' = "saving"
             /\ UNCHANGED <<n, previous_segment_last_frame, results, Current>>
          \/ /\ call_log' = call_log \o <<Entry("success"), Entry("error")>>
             /\ ServiceErrorIn("provider")
     ELSE call_log' = Append(call_log, Entry("error")) /\ ServiceErrorIn(failure)
  /\ UNCHANGED <<request, library, received>>

\* The entry is written whether the call succeeded or not; if that fails, the
\* exception is swallowed.
LogCall ==
  /\ pc = "answered"
  /\ \/ call_log' = Append(call_log, Entry(IF failure = "none" THEN "success" ELSE "error"))
     \/ UNCHANGED call_log
  /\ IF failure = "none"
     THEN pc' = "saving" /\ UNCHANGED <<n, previous_segment_last_frame, results, Current>>
     ELSE ServiceErrorIn(failure)
  /\ UNCHANGED <<request, library, received>>

-----------------------------------------------------------------------------
(* Saving.                                                                   *)

Asset(i) == <<n, i>>

\* The text is refused before it is saved, whether it is to be saved or not.
TextRefused == request.op = "text" /\ outputs[1].content = "none"

MoreToSave == pc = "saving" /\ ~TextRefused /\ request.save /\ saved < Len(outputs)

RefuseText ==
  /\ pc = "saving"
  /\ TextRefused
  /\ Raise
  /\ UNCHANGED <<request, Effects>>

SaveOutput ==
  /\ MoreToSave
  /\ outputs[saved + 1].content = "storable"
  /\ library' = library \union {Asset(saved + 1)}
  /\ saved' = saved + 1
  /\ UNCHANGED <<request, pc, n, previous_segment_last_frame, outputs, failure, results,
                 call_log, received>>

\* Nothing to store: the call was paid for, and what was saved before stays.
NothingToSave ==
  /\ MoreToSave
  /\ outputs[saved + 1].content = "none"
  /\ ServiceErrorIn("unsaved")
  /\ UNCHANGED <<request, Effects>>

\* The contract or the database refuses the asset; a commit that raises may have
\* been applied.  This is no ServiceError: it
\* ends a batch too.
SaveRaises ==
  /\ MoreToSave
  /\ \/ outputs[saved + 1].content = "invalid" /\ UNCHANGED library
     \/ /\ outputs[saved + 1].content = "storable"
        /\ library' \in {library, library \union {Asset(saved + 1)}}
  /\ Raise
  /\ UNCHANGED <<request, call_log, received>>

\* Mutant: the first asset is not reported.
Success_short == [segment |-> n, status |-> "success", cause |-> "none",
                  saved |-> {Asset(i) : i \in 2..saved}]

Success == [segment |-> n, status |-> "success", cause |-> "none",
            saved |-> {Asset(i) : i \in 1..saved}]

Deliver ==
  /\ pc = "saving"
  /\ ~TextRefused
  /\ request.save => saved = Len(outputs)
  /\ Report(Success, extract_last_frame_material)
  /\ UNCHANGED <<request, Effects>>

Return ==
  /\ pc = "segment"
  /\ n > Len(request.bridges)
  /\ pc' = "returned"
  /\ UNCHANGED <<request, n, previous_segment_last_frame, Current, results, Effects>>

\* The process stops; what is committed stays.
Killed ==
  /\ pc \notin Ended
  /\ pc' = "killed"
  /\ UNCHANGED <<request, n, previous_segment_last_frame, Current, results, Effects>>

Next ==
  \/ Refuse \/ EnterLoop
  \/ NoFrame \/ GatewayRejects \/ CallProvider
  \/ (\E list \in OutputLists : ProviderAnswers(list))
  \/ ProviderFails \/ LogCall
  \/ RefuseText \/ SaveOutput \/ NothingToSave \/ SaveRaises \/ Deliver
  \/ Return \/ Killed

Spec == Init /\ [][Next]_vars

-----------------------------------------------------------------------------

TypeOK ==
  /\ request \in Requests
  /\ pc \in {"accepted", "segment", "called", "answered", "saving"} \union Ended
  /\ n \in 1..Len(request.bridges) + 1
  /\ previous_segment_last_frame \in {<<>>} \union {<<FrameOf(k)>> : k \in 0..n-1}
  /\ outputs \in {<<>>} \union OutputLists
  /\ failure \in {"none", "rejected", "provider"}
  /\ saved \in 0..Len(outputs)
  /\ \A i \in DOMAIN results :
       /\ results[i].status \in {"success", "error"}
       /\ results[i].cause \in Causes \union {"none"}
  /\ library \subseteq (1..n) \X (Nat \ {0})
  /\ \A i \in DOMAIN call_log : call_log[i] \in [segment : 1..n, status : {"success", "error"}]
  /\ \A i \in DOMAIN received : received[i].segment \in 1..n

\* What the provider was asked is what the plan says.  A segment that is not
\* bridged sees the images of the request and nothing of another segment.  A
\* bridged one is stitched to the segment just before it, which succeeded, and
\* keeps the images of the request in their order behind the frame; on Ark it
\* is never sent without the frame.
StitchedTo(r) ==
  /\ results[r.segment - 1].segment = r.segment - 1
  /\ results[r.segment - 1].status = "success"

ReceivedAsPlanned ==
  \A i \in DOMAIN received :
    LET r      == received[i]
        framed == r.images # <<>> /\ r.images[1].from = "frame"
    IN /\ framed => /\ request.bridges[r.segment]
                    /\ r.images[1] = FrameOf(r.segment - 1)
                    /\ r.segment > 1 => StitchedTo(r)
                    /\ IsPrefix(Tail(r.images), base_image_materials)
       /\ ~framed => r.images = base_image_materials
       /\ request.ark /\ request.bridges[r.segment] => framed

\* Whoever leaves the input mode to the service and names at most two images
\* never has a segment refused because of its images.
AutomaticModeIsAccepted ==
  /\ request.op \in {"batch", "segment"}
  /\ request.input_mode = "unset"
  /\ request.base <= 2
  => \A i \in DOMAIN results : results[i].cause # "rejected"

\* Every asset of a segment that was reported is in the report, unless the
\* saving failed half way; and what is reported as saved is in the library.
SavedAssetsAreReported ==
  /\ \A i \in DOMAIN results : results[i].saved \subseteq library
  /\ \A a \in library, i \in DOMAIN results :
       results[i].segment = a[1] => a \in results[i].saved \/ results[i].cause = "unsaved"

\* The call log agrees with the reports: at most one entry for a segment that got
\* as far as the gateway, none for the others, and it says what the provider did,
\* not what became of the outputs.  A log that fails can lose an entry, and do no
\* other harm: a segment that was generated is not reported as failed.
LogAgreesWithReports ==
  \A i \in DOMAIN results :
    LET entries  == {k \in DOMAIN call_log : call_log[k].segment = results[i].segment}
        answered == results[i].status = "success" \/ results[i].cause = "unsaved"
    IN /\ results[i].cause = "no_frame" => entries = {}
       /\ \A k \in entries : entries = {k} /\ (call_log[k].status = "success") = answered

Promise == INSTANCE BatchPromise
  WITH length  <- Len(request.bridges),
       reports <- [i \in DOMAIN results |->
                     [segment |-> results[i].segment, status |-> results[i].status]],
       outcome <- CASE pc = "returned"           -> "returned"
                    [] pc \in {"raised", "killed"} -> "raised"
                    [] OTHER                     -> "pending"

\* A request returns one report per segment in order, or nothing.
ImplementsPromise == Promise!Spec

=============================================================================
