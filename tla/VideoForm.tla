------------------------------ MODULE VideoForm ------------------------------
(***************************************************************************)
(* The page that submits video tasks and follows them                      *)
(* (apps/frontend/components/generations/video-gen-form.tsx), with the     *)
(* rows of the tasks in the service.                                       *)
(*                                                                         *)
(* Requests for the list of tasks overlap: one at mount, one at each tick  *)
(* of a timer that runs while a shown task is unfinished, one when the     *)
(* user asks.  An answer holds the rows of the moment the service read     *)
(* them, and may arrive after a later answer or after the answer to a      *)
(* submit.  Regenerated segments and saved assets are kept by the page.    *)
(***************************************************************************)
EXTENDS Naturals, SequencesExt

CONSTANTS
  Segments,      \* the indices of the segments of a batch
  MaxTasks,      \* bound on the tasks of the user
  MaxLists,      \* bound on the list requests under way
  MaxVideos,     \* bound on the segments regenerated
  MaxCopies,     \* bound on the copies of one part in the library
  SavedParts,    \* bound: the parts that the user saves
  RemadeParts    \* bound: the segments that the user regenerates

ASSUME SegmentsAssumption == Segments \subseteq Nat \ {0}
ASSUME BoundsAssumption == {MaxTasks, MaxLists, MaxVideos, MaxCopies} \subseteq Nat /\ MaxLists # 0

VARIABLES
  rows,          \* the tasks in the service, in the order they were created
  records,       \* taskRecords: the task shown, by task_id
  activeTaskId,  \* 0 for null
  asked,         \* how many list requests wait for the service
  answers,       \* the list answers under way, in the order the service read them
  refreshing,    \* taskRecordsRefreshing
  plan,          \* there is a plan to confirm
  request,       \* the submit or plan request that makes the page busy
  regens,        \* the segments under regeneration (segmentRefreshing)
  made,          \* where the videos of the regenerations made so far belong
  assetStates,   \* taskAssetStates and segmentAssetStates
  saves,         \* the saves under way
  library,       \* how many copies the asset library has
  failed         \* the parts a save of which failed

vars == <<rows, records, activeTaskId, asked, answers, refreshing, plan, request,
          regens, made, assetStates, saves, library, failed>>

-----------------------------------------------------------------------------

Ids == 1..MaxTasks
Kinds == {"single", "multi"}

\* "pending" is queued or running: the page tells them apart in a label only.
Statuses == {"pending", "completed", "failed"}

\* The result of a single task is its part 0, the segments of a batch are its parts.
Parts(kind) == IF kind = "single" THEN {0} ELSE Segments

\* 0: no video.  1: the video of the stored row.  n + 1: the n-th regeneration.
Video == 0..MaxVideos + 1

Row == UNION {[kind : {k}, status : Statuses, video : [Parts(k) -> Video]] : k \in Kinds}

Keys == Ids \X (Segments \union {0})

Blank(kind) == [p \in Parts(kind) |-> 0]

IsPending(task) == task.status = "pending"
hasPendingTasks == \E t \in DOMAIN records : IsPending(records[t])

Newest(tasks) == IF tasks = {} THEN 0 ELSE CHOOSE t \in tasks : \A u \in tasks : u <= t

NoRequest == [stage |-> "none", kind |-> "single"]

-----------------------------------------------------------------------------

\* The page asks for the list when it is mounted.
Init ==
  /\ rows = <<>>
  /\ records = <<>>
  /\ activeTaskId = 0
  /\ asked = 1 /\ answers = <<>>
  /\ refreshing = FALSE
  /\ plan = FALSE
  /\ request = NoRequest
  /\ regens = {}
  /\ made = <<>>
  /\ assetStates = [k \in Keys |-> "idle"]
  /\ saves = [k \in Keys |-> 0]
  /\ library = [k \in Keys |-> 0]
  /\ failed = {}

Saving == <<assetStates, saves, library, failed>>
Regenerating == <<regens, made>>
Listing == <<asked, answers, refreshing>>
Submitting == <<plan, request>>
Shown == <<records, activeTaskId>>

-----------------------------------------------------------------------------
(* The service.                                                              *)

\* A task ends with a result, some of whose segments may have no video, or it fails, also when
\* a restart interrupts it.
TaskEnds(t) ==
  /\ IsPending(rows[t])
  /\ \/ rows' = [rows EXCEPT ![t].status = "failed"]
     \/ \E video \in [Parts(rows[t].kind) -> {0, 1}] :
          /\ rows[t].kind = "single" => video[0] = 1
          /\ rows' = [rows EXCEPT ![t].status = "completed", ![t].video = video]
  /\ UNCHANGED <<Shown, Listing, Submitting, Regenerating, Saving>>

\* The service reads the rows for a list answer.
list_tasks ==
  /\ asked > 0
  /\ asked' = asked - 1
  /\ answers' = Append(answers, rows)
  /\ UNCHANGED <<rows, Shown, refreshing, Submitting, Regenerating, Saving>>

\* The service stores a task.
Accept ==
  /\ request.stage = "sent" /\ request.kind \in Kinds
  /\ Len(rows) < MaxTasks
  /\ rows' = Append(rows, [kind |-> request.kind, status |-> "pending", video |-> Blank(request.kind)])
  /\ request' = [request EXCEPT !.stage = "accepted"]
  /\ UNCHANGED <<Shown, Listing, plan, Regenerating, Saving>>

-----------------------------------------------------------------------------
(* The list of tasks.                                                        *)

Ask == asked + Len(answers) < MaxLists /\ asked' = asked + 1 /\ UNCHANGED answers

\* Mutant: the timer watches the active task only.
Tick_active ==
  /\ activeTaskId # 0 /\ IsPending(records[activeTaskId])
  /\ Ask
  /\ UNCHANGED <<rows, Shown, refreshing, Submitting, Regenerating, Saving>>

\* The interval of four seconds, which does not wait for the request before.
Tick ==
  /\ hasPendingTasks
  /\ Ask
  /\ UNCHANGED <<rows, Shown, refreshing, Submitting, Regenerating, Saving>>

Refresh ==
  /\ ~refreshing
  /\ Ask
  /\ refreshing' = TRUE
  /\ UNCHANGED <<rows, Shown, Submitting, Regenerating, Saving>>

\* Answer n is there; a request that ends also ends the wait of the refresh button, be it
\* that of the button or not.
Ends(n) == answers' = RemoveAt(answers, n) /\ refreshing' = FALSE /\ UNCHANGED asked

\* Mutant: the active task is kept whatever the answer holds.
loadTaskRecords_keeps_active(n) ==
  /\ records' = answers[n]
  /\ activeTaskId' = IF activeTaskId # 0 THEN activeTaskId ELSE Newest(DOMAIN records')
  /\ Ends(n)
  /\ UNCHANGED <<rows, Submitting, Regenerating, Saving>>

\* An answer replaces all the records; the active task stays if it is there.
loadTaskRecords(n) ==
  /\ records' = answers[n]
  /\ activeTaskId' = IF activeTaskId \in DOMAIN records' THEN activeTaskId ELSE Newest(DOMAIN records')
  /\ Ends(n)
  /\ UNCHANGED <<rows, Submitting, Regenerating, Saving>>

\* A list request fails: the records stay as they are.  (It may as well have failed before
\* the service read the rows, which changes nothing.)
LoadFails(n) == Ends(n) /\ UNCHANGED <<rows, Shown, Submitting, Regenerating, Saving>>

Select(t) ==
  /\ t \in DOMAIN records \ {activeTaskId}
  /\ activeTaskId' = t
  /\ UNCHANGED <<rows, records, Listing, Submitting, Regenerating, Saving>>

-----------------------------------------------------------------------------
(* Submits: handleSingleSubmit, handlePlanSubmit, handleGenerateMultiVideo.  *)

busy == request.stage # "none"

Sent(kind) ==
  /\ ~busy
  /\ Len(rows) < MaxTasks
  /\ request' = [stage |-> "sent", kind |-> kind]

SubmitSingle ==
  /\ Sent("single")
  /\ UNCHANGED <<rows, Shown, Listing, plan, Regenerating, Saving>>

SubmitPlan ==
  /\ Sent("plan")
  /\ plan' = FALSE
  /\ UNCHANGED <<rows, Shown, Listing, Regenerating, Saving>>

\* Mutant: the saved marks of single tasks go too, and those of failed saves with them.
SubmitMulti_clears_all ==
  /\ plan
  /\ Sent("multi")
  /\ assetStates' = [k \in Keys |-> "idle"]
  /\ UNCHANGED <<rows, Shown, Listing, plan, Regenerating, saves, library, failed>>

\* The marks of the saved segments are cleared, those of every earlier batch included.
SubmitMulti ==
  /\ plan
  /\ Sent("multi")
  /\ assetStates' = [k \in Keys |-> IF k[2] = 0 THEN assetStates[k] ELSE "idle"]
  /\ UNCHANGED <<rows, Shown, Listing, plan, Regenerating, saves, library, failed>>

PlanArrives ==
  /\ request = [stage |-> "sent", kind |-> "plan"]
  /\ request' = NoRequest
  /\ plan' = TRUE
  /\ UNCHANGED <<rows, Shown, Listing, Regenerating, Saving>>

\* The answer to a submit is the row as it was stored; the service has not seen another
\* submit of this page since.
upsertTaskRecord ==
  LET t == Len(rows)
      row == [rows[t] EXCEPT !.status = "pending", !.video = Blank(rows[t].kind)]
  IN /\ records' = [u \in DOMAIN records \union {t} |-> IF u = t THEN row ELSE records[u]]
     /\ activeTaskId' = t

SubmitArrives ==
  /\ request.stage = "accepted"
  /\ upsertTaskRecord
  /\ request' = NoRequest
  /\ plan' = (plan /\ request.kind = "multi")
  /\ UNCHANGED <<rows, Listing, Regenerating, Saving>>

\* An error, perhaps after the task was stored.
RequestFails ==
  /\ busy
  /\ request' = NoRequest
  /\ UNCHANGED <<rows, Shown, Listing, plan, Regenerating, Saving>>

-----------------------------------------------------------------------------
(* Regeneration of one segment of the active batch.                          *)

\* The active task of some kind has its result.
ActiveResult(kind) ==
  /\ activeTaskId \in DOMAIN records
  /\ records[activeTaskId].kind = kind
  /\ records[activeTaskId].status = "completed"

\* Mutant: any finished task will do.
handleRegenerateSegment_any_kind(s) ==
  /\ \E kind \in Kinds : ActiveResult(kind)
  /\ <<activeTaskId, s>> \in RemadeParts \ regens
  /\ Len(made) < MaxVideos
  /\ regens' = regens \union {<<activeTaskId, s>>}
  /\ UNCHANGED <<rows, Shown, Listing, Submitting, made, Saving>>

\* The button is disabled while the segment is under regeneration.
handleRegenerateSegment(s) ==
  /\ ActiveResult("multi")
  /\ <<activeTaskId, s>> \in RemadeParts \ regens
  /\ Len(made) < MaxVideos
  /\ regens' = regens \union {<<activeTaskId, s>>}
  /\ UNCHANGED <<rows, Shown, Listing, Submitting, made, Saving>>

\* Mutant: the answer goes to the task that is active when it arrives.
Replaced_active(k, video) ==
  records' = [t \in DOMAIN records |->
                IF t = activeTaskId /\ records[t].kind = "multi" /\ records[t].status = "completed"
                THEN [records[t] EXCEPT !.video[k[2]] = video] ELSE records[t]]

\* The segment is replaced in the task it was asked for, if that is there with a result.
Replaced(k, video) ==
  records' = [t \in DOMAIN records |->
                IF t = k[1] /\ records[t].status = "completed"
                THEN [records[t] EXCEPT !.video[k[2]] = video] ELSE records[t]]

\* The answer is a new video, or a segment that failed and has none.  Either goes to the page
\* only: the row in the service stays.
RegenerationArrives(k) ==
  /\ k \in regens
  /\ \/ /\ Len(made) < MaxVideos
        /\ made' = Append(made, k)
        /\ Replaced(k, Len(made') + 1)
     \/ Replaced(k, 0) /\ UNCHANGED made
  /\ regens' = regens \ {k}
  /\ UNCHANGED <<rows, activeTaskId, Listing, Submitting, Saving>>

RegenerationFails(k) ==
  /\ k \in regens
  /\ regens' = regens \ {k}
  /\ UNCHANGED <<rows, Shown, Listing, Submitting, made, Saving>>

-----------------------------------------------------------------------------
(* Saving to the asset library: handleSaveToAssets, handleSaveSegmentToAssets. *)

\* The button is there when the part has a video, and disabled while it is being saved and
\* once it has been.
SaveStarts(k) ==
  /\ k \in SavedParts
  /\ k[1] = activeTaskId
  /\ \E kind \in Kinds : ActiveResult(kind) /\ k[2] \in Parts(kind)
  /\ records[k[1]].video[k[2]] # 0
  /\ assetStates[k] = "idle"
  /\ library[k] + saves[k] < MaxCopies
  /\ assetStates' = [assetStates EXCEPT ![k] = "saving"]
  /\ saves' = [saves EXCEPT ![k] = @ + 1]
  /\ UNCHANGED <<rows, Shown, Listing, Submitting, Regenerating, library, failed>>

SaveArrives(k) ==
  /\ saves[k] > 0
  /\ saves' = [saves EXCEPT ![k] = @ - 1]
  /\ library' = [library EXCEPT ![k] = @ + 1]
  /\ assetStates' = [assetStates EXCEPT ![k] = "saved"]
  /\ UNCHANGED <<rows, Shown, Listing, Submitting, Regenerating, failed>>

\* Some asset was refused or its answer was lost: none or some of the copies were made.
SaveFails(k) ==
  /\ saves[k] > 0
  /\ saves' = [saves EXCEPT ![k] = @ - 1]
  /\ failed' = failed \union {k}
  /\ \E copies \in {0, 1} : library' = [library EXCEPT ![k] = @ + copies]
  /\ assetStates' = [assetStates EXCEPT ![k] = IF @ = "saved" THEN @ ELSE "idle"]
  /\ UNCHANGED <<rows, Shown, Listing, Submitting, Regenerating>>

-----------------------------------------------------------------------------

Next ==
  \/ \E t \in DOMAIN rows : TaskEnds(t)
  \/ list_tasks \/ Tick \/ Refresh
  \/ \E n \in DOMAIN answers : loadTaskRecords(n) \/ LoadFails(n)
  \/ \E t \in Ids : Select(t)
  \/ SubmitSingle \/ SubmitPlan \/ SubmitMulti
  \/ Accept \/ PlanArrives \/ SubmitArrives \/ RequestFails
  \/ \E s \in Segments : handleRegenerateSegment(s)
  \/ \E k \in Keys : RegenerationArrives(k) \/ RegenerationFails(k)
  \/ \E k \in Keys : SaveStarts(k) \/ SaveArrives(k) \/ SaveFails(k)

Spec == Init /\ [][Next]_vars

\* The service finishes every task (EveryTaskFinishes of VideoTasks, and boots close what a
\* crash leaves) and answers; the timer fires; not every answer is lost.
Fairness ==
  /\ \A t \in Ids : WF_vars(t \in DOMAIN rows /\ TaskEnds(t))
  /\ WF_vars(list_tasks) /\ WF_vars(Tick)
  /\ SF_vars(\E n \in DOMAIN answers : loadTaskRecords(n))

FairSpec == Spec /\ Fairness

-----------------------------------------------------------------------------
(* Properties.                                                               *)

\* Every variable has its type, no list answer holds more rows than there are, and a
\* segment under regeneration is one of a batch.
TypeOK ==
  /\ Len(rows) <= MaxTasks /\ \A t \in DOMAIN rows : rows[t] \in Row
  /\ DOMAIN records \subseteq DOMAIN rows /\ \A t \in DOMAIN records : records[t] \in Row
  /\ activeTaskId \in 0..MaxTasks
  /\ asked \in Nat /\ asked + Len(answers) <= MaxLists
  /\ \A n \in DOMAIN answers : DOMAIN answers[n] \subseteq DOMAIN rows
  /\ {refreshing, plan} \subseteq BOOLEAN
  /\ request \in [stage : {"none", "sent", "accepted"}, kind : Kinds \union {"plan"}]
  /\ \A k \in regens : k[1] \in DOMAIN rows /\ rows[k[1]].kind = "multi" /\ k[2] \in Segments
  /\ Len(made) <= MaxVideos /\ \A n \in DOMAIN made : made[n] \in Keys
  /\ assetStates \in [Keys -> {"idle", "saving", "saved"}]
  /\ {saves, library} \subseteq [Keys -> 0..MaxCopies] /\ failed \subseteq Keys

\* Whatever order list answers, submit answers and clicks come in, the page shows the
\* details of a task in its list as soon as it has one (video-gen-form.tsx 148, 280-285, 348).
ActiveIsShown ==
  IF records = <<>> THEN activeTaskId = 0 ELSE activeTaskId \in DOMAIN records

\* The page is never ahead of the service, and every video it shows in a place was made for
\* that place: the answer to a regeneration may come when another task is active, when its
\* own has been replaced by an older answer, or twice in an order the clicks did not have.
ShownVideoIsItsOwn ==
  \A t \in DOMAIN records :
    /\ records[t].kind = rows[t].kind
    /\ records[t].status \in {"pending", rows[t].status}
    /\ \A p \in DOMAIN records[t].video :
         LET video == records[t].video[p]
         IN CASE video = 0 -> TRUE
              [] video = 1 -> rows[t].video[p] = 1
              [] OTHER -> made[video - 1] = <<t, p>>

\* A part marked as saved is in the library, and the result of a single task is there at most
\* once, unless a save of it failed: the button, the mark and the copies agree
\* although saves are under way while other tasks are shown, submitted and saved.
SaveMarksAreTrue ==
  \A k \in Keys :
    /\ assetStates[k] = "saved" => library[k] > 0
    /\ k[2] = 0 /\ k \notin failed => library[k] + saves[k] <= 1

\* In the end the page shows no task as unfinished: however many answers are lost or
\* overtake one another, the timer runs while there is something to wait for.
PageSettles == <>[]~hasPendingTasks

\* What the page tells its user (video-gen-form.tsx:988, "视频生成会异步排队并自动轮询": tasks are
\* polled automatically): a task shown as unfinished is shown as finished in the end.
ShownTaskIsFollowed ==
  \A t \in Ids : (t \in DOMAIN records /\ IsPending(records[t]))
                   ~> (t \in DOMAIN records /\ ~IsPending(records[t]))
=============================================================================
