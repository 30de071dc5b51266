-------------------------- MODULE VideoFormProofs --------------------------
(***************************************************************************)
(* Proofs about VideoForm, for every number of tasks, list requests and    *)
(* regenerations, and every set of segments.                               *)
(*                                                                         *)
(* The argument.  A list answer holds the rows of an earlier moment, and   *)
(* a row only moves from unfinished to finished, its videos with it        *)
(* (RowsInv, AnswersInv).  So whatever answer replaces the records, each   *)
(* record is an earlier state of its row, and the segments the page has    *)
(* put into one were made for it (RecordsInv, RegensInv).  The copies of a *)
(* single result are counted by its mark (SaveInv).                        *)
(***************************************************************************)
EXTENDS VideoForm, SequenceTheorems, TLAPS

-----------------------------------------------------------------------------
(* Saves.                                                                    *)

SaveInv ==
  /\ assetStates \in [Keys -> {"idle", "saving", "saved"}]
  /\ saves \in [Keys -> Nat] /\ library \in [Keys -> Nat]
  /\ failed \subseteq Keys
  /\ \A k \in Keys :
       /\ library[k] + saves[k] <= MaxCopies
       /\ assetStates[k] = "saved" => library[k] > 0
       /\ k[2] = 0 /\ k \notin failed
          => /\ library[k] + saves[k] <= 1
             /\ assetStates[k] = "idle" => library[k] + saves[k] = 0

LEMMA InitSaveInv == Init => SaveInv
BY BoundsAssumption DEF Init, SaveInv, Keys

LEMMA SaveStartsKeeps ==
  ASSUME SaveInv, NEW k \in Keys, SaveStarts(k)
  PROVE  SaveInv'
<1>1. /\ assetStates[k] = "idle" /\ library[k] + saves[k] < MaxCopies
      /\ assetStates' = [assetStates EXCEPT ![k] = "saving"]
      /\ saves' = [saves EXCEPT ![k] = @ + 1]
      /\ library' = library /\ failed' = failed
    BY DEF SaveStarts
<1>2. MaxCopies \in Nat
    BY BoundsAssumption
<1>3. /\ assetStates' \in [Keys -> {"idle", "saving", "saved"}]
      /\ saves' \in [Keys -> Nat]
    BY <1>1 DEF SaveInv
<1>4. ASSUME NEW j \in Keys
      PROVE  /\ library'[j] + saves'[j] <= MaxCopies
             /\ assetStates'[j] = "saved" => library'[j] > 0
             /\ j[2] = 0 /\ j \notin failed'
                => /\ library'[j] + saves'[j] <= 1
                   /\ assetStates'[j] = "idle" => library'[j] + saves'[j] = 0
  <2>1. CASE j = k
    <3>1. saves'[j] = saves[j] + 1 /\ library'[j] = library[j] /\ assetStates'[j] = "saving"
        BY <1>1, <2>1 DEF SaveInv
    <3>2. library[j] \in Nat /\ saves[j] \in Nat
        BY DEF SaveInv
    <3> QED
        BY <1>1, <1>2, <2>1, <3>1, <3>2 DEF SaveInv
  <2>2. CASE j # k
    <3>1. saves'[j] = saves[j] /\ library'[j] = library[j] /\ assetStates'[j] = assetStates[j]
        BY <1>1, <2>2 DEF SaveInv
    <3> QED
        BY <1>1, <3>1 DEF SaveInv
  <2> QED
      BY <2>1, <2>2
<1> QED
    BY <1>1, <1>3, <1>4 DEF SaveInv

LEMMA SaveEndsKeeps ==
  ASSUME SaveInv, NEW k \in Keys, SaveArrives(k) \/ SaveFails(k)
  PROVE  SaveInv'
<1>1. PICK copies \in {0, 1} :
        /\ saves[k] > 0 /\ saves' = [saves EXCEPT ![k] = @ - 1]
        /\ library' = [library EXCEPT ![k] = @ + copies]
        /\ \/ copies = 1 /\ failed' = failed
              /\ assetStates' = [assetStates EXCEPT ![k] = "saved"]
           \/ /\ failed' = failed \union {k}
              /\ assetStates' = [assetStates EXCEPT ![k] = IF @ = "saved" THEN @ ELSE "idle"]
    BY DEF SaveArrives, SaveFails
<1>2. saves[k] \in Nat /\ library[k] \in Nat /\ copies \in Nat /\ MaxCopies \in Nat
    BY BoundsAssumption DEF SaveInv
<1>3. saves[k] - 1 \in Nat /\ library[k] + copies \in Nat
    BY <1>1, <1>2
<1>4. /\ assetStates' \in [Keys -> {"idle", "saving", "saved"}]
      /\ saves' \in [Keys -> Nat] /\ library' \in [Keys -> Nat] /\ failed' \subseteq Keys
  <2>1. saves' \in [Keys -> Nat] /\ library' \in [Keys -> Nat]
      BY <1>1, <1>3 DEF SaveInv
  <2>2. assetStates' \in [Keys -> {"idle", "saving", "saved"}] /\ failed' \subseteq Keys
      BY <1>1 DEF SaveInv
  <2> QED
      BY <2>1, <2>2
<1>5. ASSUME NEW j \in Keys
      PROVE  /\ library'[j] + saves'[j] <= MaxCopies
             /\ assetStates'[j] = "saved" => library'[j] > 0
             /\ j[2] = 0 /\ j \notin failed'
                => /\ library'[j] + saves'[j] <= 1
                   /\ assetStates'[j] = "idle" => library'[j] + saves'[j] = 0
  <2>1. CASE j = k
    <3>1. saves'[j] = saves[j] - 1 /\ library'[j] = library[j] + copies
        BY <1>1, <2>1 DEF SaveInv
    <3>2. library[j] + saves[j] <= MaxCopies
        BY DEF SaveInv
    <3>3. library'[j] + saves'[j] <= MaxCopies
        BY <1>2, <2>1, <3>1, <3>2
    <3>4. CASE copies = 1 /\ failed' = failed /\ assetStates' = [assetStates EXCEPT ![k] = "saved"]
      <4>1. assetStates'[j] = "saved"
          BY <2>1, <3>4 DEF SaveInv
      <4>2. j[2] = 0 /\ j \notin failed => library[j] + saves[j] <= 1
          BY DEF SaveInv
      <4>3. library'[j] > 0 /\ library'[j] + saves'[j] = library[j] + saves[j]
          BY <1>2, <2>1, <3>1, <3>4
      <4> QED
          BY <3>3, <3>4, <4>1, <4>2, <4>3
    <3>5. CASE /\ failed' = failed \union {k}
               /\ assetStates' = [assetStates EXCEPT ![k] = IF @ = "saved" THEN @ ELSE "idle"]
      <4>1. assetStates'[j] = "saved" => assetStates[j] = "saved"
          BY <2>1, <3>5 DEF SaveInv
      <4>2. assetStates[j] = "saved" => library[j] > 0
          BY DEF SaveInv
      <4>3. library'[j] >= library[j]
          BY <1>2, <2>1, <3>1
      <4>4. library'[j] \in Nat /\ library[j] \in Nat
          BY <1>4 DEF SaveInv
      <4> QED
          BY <2>1, <3>3, <3>5, <4>1, <4>2, <4>3, <4>4
    <3> QED
        BY <1>1, <3>4, <3>5
  <2>2. CASE j # k
    <3>1. saves'[j] = saves[j] /\ library'[j] = library[j] /\ assetStates'[j] = assetStates[j]
        BY <1>1, <2>2 DEF SaveInv
    <3>2. j \notin failed' => j \notin failed
        BY <1>1
    <3> QED
        BY <3>1, <3>2 DEF SaveInv
  <2> QED
      BY <2>1, <2>2
<1> QED
    BY <1>4, <1>5 DEF SaveInv

LEMMA SubmitMultiKeeps ==
  ASSUME SaveInv, SubmitMulti
  PROVE  SaveInv'
<1>1. /\ assetStates' = [k \in Keys |-> IF k[2] = 0 THEN assetStates[k] ELSE "idle"]
      /\ UNCHANGED <<saves, library, failed>>
    BY DEF SubmitMulti
<1>2. \A k \in Keys : /\ assetStates'[k] \in {assetStates[k], "idle"}
                      /\ k[2] = 0 => assetStates'[k] = assetStates[k]
    BY <1>1
<1>3. assetStates' \in [Keys -> {"idle", "saving", "saved"}]
    BY <1>1 DEF SaveInv
<1> QED
    BY <1>1, <1>2, <1>3 DEF SaveInv

LEMMA NextSaveInv == SaveInv /\ [Next]_vars => SaveInv'
<1> SUFFICES ASSUME SaveInv, Next \/ UNCHANGED vars
             PROVE  SaveInv'
    OBVIOUS
<1>1. CASE \E k \in Keys : SaveStarts(k) \/ SaveArrives(k) \/ SaveFails(k)
    BY <1>1, SaveStartsKeeps, SaveEndsKeeps
<1>2. CASE SubmitMulti
    BY <1>2, SubmitMultiKeeps
<1>3. CASE UNCHANGED Saving
    BY <1>3 DEF SaveInv, Saving
<1>4. CASE UNCHANGED vars
    BY <1>4 DEF SaveInv, vars
<1>5. CASE \/ \E t \in DOMAIN rows : TaskEnds(t)
           \/ list_tasks \/ Tick \/ Refresh
           \/ \E n \in DOMAIN answers : loadTaskRecords(n) \/ LoadFails(n)
           \/ \E t \in Ids : Select(t)
    BY <1>3, <1>5 DEF TaskEnds, list_tasks, Tick, Refresh, loadTaskRecords, LoadFails, Select
<1>6. CASE \/ SubmitSingle \/ SubmitPlan \/ Accept \/ PlanArrives \/ SubmitArrives
           \/ RequestFails
    BY <1>3, <1>6 DEF SubmitSingle, SubmitPlan, Accept, PlanArrives, SubmitArrives, RequestFails
<1>7. CASE \/ \E s \in Segments : handleRegenerateSegment(s)
           \/ \E k \in Keys : RegenerationArrives(k) \/ RegenerationFails(k)
    BY <1>3, <1>7 DEF handleRegenerateSegment, RegenerationArrives, RegenerationFails
<1> QED
    BY <1>1, <1>2, <1>4, <1>5, <1>6, <1>7 DEF Next

-----------------------------------------------------------------------------
(* Rows.                                                                     *)

LEMMA RowFacts ==
  ASSUME NEW r \in Row
  PROVE  /\ r.kind \in Kinds /\ r.status \in Statuses
         /\ r.video \in [Parts(r.kind) -> Video]
         /\ r = [kind |-> r.kind, status |-> r.status, video |-> r.video]
<1>1. PICK k \in Kinds : r \in [kind : {k}, status : Statuses, video : [Parts(k) -> Video]]
    BY DEF Row
<1> QED
    BY <1>1

LEMMA MakeRow ==
  ASSUME NEW k \in Kinds, NEW s \in Statuses, NEW v \in [Parts(k) -> Video]
  PROVE  [kind |-> k, status |-> s, video |-> v] \in Row
<1>1. [kind |-> k, status |-> s, video |-> v]
        \in [kind : {k}, status : Statuses, video : [Parts(k) -> Video]]
    OBVIOUS
<1> QED
    BY <1>1 DEF Row

LEMMA StatusSet ==
  ASSUME NEW r, NEW k, NEW s, NEW v, NEW z, r = [kind |-> k, status |-> s, video |-> v]
  PROVE  [r EXCEPT !.status = z] = [kind |-> k, status |-> z, video |-> v]
OBVIOUS

LEMMA VideoSet ==
  ASSUME NEW r, NEW k, NEW s, NEW v, NEW w, r = [kind |-> k, status |-> s, video |-> v]
  PROVE  [r EXCEPT !.video = w] = [kind |-> k, status |-> s, video |-> w]
OBVIOUS

LEMMA VideoRange == 0 \in Video /\ 1 \in Video /\ Video \subseteq Nat
BY BoundsAssumption DEF Video

LEMMA PartsKnown ==
  /\ Parts("multi") = Segments /\ Parts("single") = {0} /\ 0 \notin Segments
  /\ Segments \subseteq Nat
BY SegmentsAssumption DEF Parts

LEMMA RemoveAtFacts ==
  ASSUME NEW S, NEW s \in Seq(S), NEW i \in 1..Len(s)
  PROVE  /\ RemoveAt(s, i) \in Seq(S) /\ Len(RemoveAt(s, i)) = Len(s) - 1
         /\ \A m \in 1..Len(s) - 1 : \E j \in 1..Len(s) : RemoveAt(s, i)[m] = s[j]
<1> DEFINE front == SubSeq(s, 1, i - 1)
           back  == SubSeq(s, i + 1, Len(s))
<1>1. Len(s) \in Nat /\ i \in Nat /\ \A j \in 1..Len(s) : s[j] \in S
    BY LenProperties, ElementOfSeq
<1>2. /\ front \in Seq(S) /\ Len(front) = i - 1
      /\ \A j \in 1..i - 1 : front[j] = s[j]
  <2>1. \A j \in 1..i - 1 : s[j] \in S
      BY <1>1
  <2>2. /\ front \in Seq(S) /\ Len(front) = IF 1 <= i - 1 THEN (i - 1) - 1 + 1 ELSE 0
        /\ \A j \in 1..(i - 1) - 1 + 1 : front[j] = s[1 + j - 1]
      BY <1>1, <2>1, SubSeqProperties
  <2> HIDE DEF front
  <2> QED
      BY <1>1, <2>2
<1>3. /\ back \in Seq(S) /\ Len(back) = Len(s) - i
      /\ \A j \in 1..Len(s) - i : back[j] = s[i + j]
  <2>1. \A j \in i + 1..Len(s) : s[j] \in S
      BY <1>1
  <2>2. /\ back \in Seq(S)
        /\ Len(back) = IF i + 1 <= Len(s) THEN Len(s) - (i + 1) + 1 ELSE 0
        /\ \A j \in 1..Len(s) - (i + 1) + 1 : back[j] = s[(i + 1) + j - 1]
      BY <1>1, <2>1, SubSeqProperties
  <2> HIDE DEF back
  <2> QED
      BY <1>1, <2>2
<1> DEFINE rest == front \o back
<1>4. RemoveAt(s, i) = rest
    BY DEF RemoveAt
<1> HIDE DEF front, back
<1>5. /\ rest \in Seq(S) /\ Len(rest) = Len(front) + Len(back)
      /\ \A m \in 1..Len(front) + Len(back) :
            rest[m] = IF m <= Len(front) THEN front[m] ELSE back[m - Len(front)]
    BY <1>2, <1>3, ConcatProperties
<1> HIDE DEF rest
<1>6. ASSUME NEW m \in 1..Len(s) - 1
      PROVE  \E j \in 1..Len(s) : rest[m] = s[j]
  <2>1. CASE m <= i - 1
    <3>1. m \in 1..Len(front) + Len(back) /\ m \in 1..i - 1 /\ m \in 1..Len(s)
        BY <1>1, <1>2, <1>3, <2>1
    <3>2. rest[m] = front[m]
        BY <1>2, <1>5, <2>1, <3>1
    <3> QED
        BY <1>2, <3>1, <3>2
  <2>2. CASE ~(m <= i - 1)
    <3>1. /\ m \in 1..Len(front) + Len(back) /\ m - (i - 1) \in 1..Len(s) - i
          /\ m + 1 \in 1..Len(s) /\ i + (m - (i - 1)) = m + 1
        BY <1>1, <1>2, <1>3, <2>2
    <3>2. rest[m] = back[m - (i - 1)]
        BY <1>2, <1>5, <2>2, <3>1
    <3>3. back[m - (i - 1)] = s[m + 1]
        BY <1>3, <3>1
    <3> QED
        BY <3>1, <3>2, <3>3
  <2> QED
      BY <2>1, <2>2
<1>7. Len(rest) = Len(s) - 1
    BY <1>1, <1>2, <1>3, <1>5
<1> QED
    BY <1>4, <1>5, <1>6, <1>7

-----------------------------------------------------------------------------
(* What the page shows, and what is on its way to it.                        *)

\* A row has videos once it has ended.
RowsInv ==
  /\ rows \in Seq(Row) /\ Len(rows) <= MaxTasks
  /\ \A t \in 1..Len(rows) : \A p \in Parts(rows[t].kind) :
       /\ rows[t].video[p] \in {0, 1}
       /\ rows[t].status = "pending" => rows[t].video[p] = 0

\* task was the t-th row of the list at some time.
Stale(list, task, t) ==
  /\ task \in Row /\ t \in 1..Len(list)
  /\ task.kind = list[t].kind /\ task.status \in {"pending", list[t].status}
  /\ \A p \in Parts(task.kind) :
       task.video[p] = 0 \/ (task.video[p] = 1 /\ list[t].video[p] = 1)

\* The same, but for the segments remade for it.
Own(list, remade, task, t) ==
  /\ task \in Row /\ t \in 1..Len(list)
  /\ task.kind = list[t].kind /\ task.status \in {"pending", list[t].status}
  /\ \A p \in Parts(task.kind) :
       \/ task.video[p] = 0
       \/ task.video[p] = 1 /\ list[t].video[p] = 1
       \/ /\ task.video[p] > 1 /\ task.video[p] - 1 \in 1..Len(remade)
          /\ remade[task.video[p] - 1] = <<t, p>>

AnswersInv ==
  /\ answers \in Seq(Seq(Row))
  /\ \A m \in 1..Len(answers) : \A t \in DOMAIN answers[m] : Stale(rows, answers[m][t], t)

RecordsInv == \A t \in DOMAIN records : Own(rows, made, records[t], t)

MadeInv == made \in Seq(Keys) /\ Len(made) <= MaxVideos

RegensInv ==
  \A k \in regens : /\ k \in Keys /\ k[1] \in 1..Len(rows) /\ k[2] \in Segments
                    /\ rows[k[1]].kind = "multi"

RequestInv ==
  /\ request \in [stage : {"none", "sent", "accepted"}, kind : Kinds \union {"plan"}]
  /\ request.stage = "accepted" => request.kind \in Kinds /\ Len(rows) # 0

ListInv ==
  asked \in Nat /\ asked + Len(answers) <= MaxLists /\ {refreshing, plan} \subseteq BOOLEAN

ActiveInv ==
  /\ DOMAIN records = {} => records = <<>> /\ activeTaskId = 0
  /\ DOMAIN records # {} => activeTaskId \in DOMAIN records

ShowInv ==
  /\ RowsInv /\ AnswersInv /\ RecordsInv /\ MadeInv /\ RegensInv
  /\ RequestInv /\ ListInv /\ ActiveInv

LEMMA InitShowInv == Init => ShowInv
<1> SUFFICES ASSUME Init
             PROVE  ShowInv
    OBVIOUS
<1>1. /\ rows = <<>> /\ rows \in Seq(Row) /\ Len(rows) = 0
      /\ answers = <<>> /\ answers \in Seq(Seq(Row)) /\ Len(answers) = 0
      /\ made = <<>> /\ made \in Seq(Keys) /\ Len(made) = 0
      /\ records = <<>> /\ DOMAIN records = {}
    BY DEF Init
<1>2. MaxTasks \in Nat /\ MaxVideos \in Nat /\ MaxLists \in Nat
    BY BoundsAssumption
<1>3. RowsInv /\ AnswersInv /\ MadeInv /\ RecordsInv
    BY <1>1, <1>2 DEF RowsInv, AnswersInv, MadeInv, RecordsInv
<1>4. RegensInv /\ RequestInv /\ ActiveInv
    BY <1>1 DEF Init, RegensInv, RequestInv, ActiveInv, NoRequest, Kinds
<1>5. ListInv
  <2>1. MaxLists >= 1
      BY <1>2, BoundsAssumption
  <2>2. asked = 1 /\ refreshing \in BOOLEAN /\ plan \in BOOLEAN
      BY DEF Init
  <2>3. asked \in Nat /\ asked + Len(answers) <= MaxLists
      BY <1>1, <2>1, <2>2
  <2> QED
      BY <2>2, <2>3 DEF ListInv
<1> QED
    BY <1>3, <1>4, <1>5 DEF ShowInv

LEMMA StaleIsOwn ==
  ASSUME NEW list, NEW remade, NEW task, NEW t, Stale(list, task, t)
  PROVE  Own(list, remade, task, t)
BY DEF Stale, Own

\* A row keeps its kind, ends once, and keeps its videos.
RowsKept ==
  \A t \in 1..Len(rows) :
    /\ t \in 1..Len(rows') /\ rows'[t].kind = rows[t].kind
    /\ rows'[t].status = rows[t].status \/ rows[t].status = "pending"
    /\ \A p \in Parts(rows[t].kind) : rows[t].video[p] = 1 => rows'[t].video[p] = 1

LEMMA StaleKept ==
  ASSUME RowsKept, NEW task, NEW t, Stale(rows, task, t)
  PROVE  Stale(rows', task, t)
BY DEF RowsKept, Stale

LEMMA OwnKept ==
  ASSUME RowsKept, NEW task, NEW t, Own(rows, made, task, t)
  PROVE  Own(rows', made, task, t)
BY DEF RowsKept, Own

LEMMA RowsStep ==
  ASSUME ShowInv, RowsKept, RowsInv', RequestInv',
         UNCHANGED <<records, activeTaskId, asked, answers, refreshing, plan, regens, made>>
  PROVE  ShowInv'
<1>1. AnswersInv'
    BY StaleKept DEF ShowInv, AnswersInv
<1>2. RecordsInv'
    BY OwnKept DEF ShowInv, RecordsInv
<1>3. RegensInv'
    BY DEF ShowInv, RegensInv, RowsKept
<1>4. MadeInv' /\ ListInv' /\ ActiveInv'
    BY DEF ShowInv, MadeInv, ListInv, ActiveInv
<1> QED
    BY <1>1, <1>2, <1>3, <1>4 DEF ShowInv

LEMMA TaskEndsKeeps ==
  ASSUME ShowInv, NEW t \in DOMAIN rows, TaskEnds(t)
  PROVE  ShowInv'
<1>1. rows \in Seq(Row) /\ t \in 1..Len(rows) /\ rows[t] \in Row
    BY LenProperties, ElementOfSeq DEF ShowInv, RowsInv
<1>2. /\ rows[t].kind \in Kinds /\ rows[t].video \in [Parts(rows[t].kind) -> Video]
      /\ rows[t] = [kind |-> rows[t].kind, status |-> rows[t].status, video |-> rows[t].video]
    BY <1>1, RowFacts
<1>3. rows[t].status = "pending" /\ \A p \in Parts(rows[t].kind) : rows[t].video[p] = 0
    BY <1>1 DEF TaskEnds, IsPending, ShowInv, RowsInv
<1>4. PICK status \in {"failed", "completed"}, video \in [Parts(rows[t].kind) -> {0, 1}] :
        rows' = [rows EXCEPT ![t] = [kind |-> rows[t].kind, status |-> status,
                                     video |-> video]]
  <2>1. CASE rows' = [rows EXCEPT ![t].status = "failed"]
    <3>1. rows[t].video \in [Parts(rows[t].kind) -> {0, 1}]
        BY <1>2, <1>3
    <3>2. rows' = [rows EXCEPT ![t] = [rows[t] EXCEPT !.status = "failed"]]
        BY <2>1
    <3>3. [rows[t] EXCEPT !.status = "failed"]
            = [kind |-> rows[t].kind, status |-> "failed", video |-> rows[t].video]
        BY <1>2, StatusSet
    <3> QED
        BY <3>1, <3>2, <3>3
  <2>2. CASE \E video \in [Parts(rows[t].kind) -> {0, 1}] :
               rows' = [rows EXCEPT ![t].status = "completed", ![t].video = video]
    <3>1. PICK video \in [Parts(rows[t].kind) -> {0, 1}] :
            rows' = [rows EXCEPT ![t].status = "completed", ![t].video = video]
        BY <2>2
    <3>2. PICK old : old = rows[t]
        OBVIOUS
    <3>3. rows' = [rows EXCEPT ![t] = [old EXCEPT !.status = "completed", !.video = video]]
        BY <3>1, <3>2
    <3>4. old = [kind |-> old.kind, status |-> old.status, video |-> old.video]
        BY <1>2, <3>2
    <3>5. [old EXCEPT !.status = "completed", !.video = video]
            = [kind |-> old.kind, status |-> "completed", video |-> video]
      <4> DEFINE q == [old EXCEPT !.status = "completed"]
      <4>1. [old EXCEPT !.status = "completed", !.video = video] = [q EXCEPT !.video = video]
          OBVIOUS
      <4>2. q = [kind |-> old.kind, status |-> "completed", video |-> old.video]
          BY <3>4, StatusSet
      <4> HIDE DEF q
      <4>3. [q EXCEPT !.video = video]
              = [kind |-> old.kind, status |-> "completed", video |-> video]
          BY <4>2, VideoSet
      <4> QED
          BY <4>1, <4>3
    <3> QED
        BY <3>2, <3>3, <3>5
  <2> QED
      BY <2>1, <2>2 DEF TaskEnds
<1> DEFINE row == [kind |-> rows[t].kind, status |-> status, video |-> video]
<1>5. /\ row.kind = rows[t].kind /\ row.status = status /\ row.video = video
      /\ status # "pending" /\ status \in Statuses
    BY DEF Statuses
<1>6. row \in Row
  <2>1. video \in [Parts(rows[t].kind) -> Video]
      BY VideoRange
  <2> QED
      BY <1>2, <1>5, <2>1, MakeRow
<1> HIDE DEF row
<1>7. /\ rows' \in Seq(Row) /\ Len(rows') = Len(rows)
      /\ \A u \in 1..Len(rows) : rows'[u] = IF u = t THEN row ELSE rows[u]
    BY <1>1, <1>4, <1>6, ExceptSeq DEF row
<1>8. RowsKept
    BY <1>3, <1>5, <1>7 DEF RowsKept
<1>9. RowsInv'
    BY <1>5, <1>7 DEF ShowInv, RowsInv
<1>10. RequestInv'
    BY <1>7 DEF TaskEnds, Submitting, ShowInv, RequestInv
<1> QED
    BY <1>8, <1>9, <1>10, RowsStep DEF TaskEnds, Shown, Listing, Submitting, Regenerating

LEMMA AcceptKeeps ==
  ASSUME ShowInv, Accept
  PROVE  ShowInv'
<1> DEFINE row == [kind |-> request.kind, status |-> "pending", video |-> Blank(request.kind)]
<1>1. /\ request.kind \in Kinds /\ Len(rows) < MaxTasks /\ rows' = Append(rows, row)
      /\ request' = [request EXCEPT !.stage = "accepted"]
    BY DEF Accept
<1>2. row.kind = request.kind /\ row.status = "pending" /\ row.video = Blank(request.kind)
    OBVIOUS
<1>3. row \in Row
  <2>1. Blank(request.kind) \in [Parts(request.kind) -> Video] /\ "pending" \in Statuses
      BY VideoRange DEF Blank, Statuses
  <2> QED
      BY <1>1, <2>1, MakeRow
<1> HIDE DEF row
<1>4. rows \in Seq(Row) /\ Len(rows) \in Nat /\ MaxTasks \in Nat
    BY LenProperties, BoundsAssumption DEF ShowInv, RowsInv
<1>5. /\ rows' \in Seq(Row) /\ Len(rows') = Len(rows) + 1
      /\ \A u \in 1..Len(rows) : rows'[u] = rows[u]
      /\ rows'[Len(rows) + 1] = row
    BY <1>1, <1>3, <1>4, AppendProperties
<1>6. RowsKept
    BY <1>4, <1>5 DEF RowsKept
<1>7. RowsInv'
  <2>1. \A p \in Parts(row.kind) : row.video[p] = 0
      BY <1>2 DEF Blank
  <2>2. \A u \in 1..Len(rows) + 1 : u \in 1..Len(rows) \/ u = Len(rows) + 1
      BY <1>4
  <2>3. \A u \in 1..Len(rows) + 1 : \A p \in Parts(rows'[u].kind) :
          /\ rows'[u].video[p] \in {0, 1}
          /\ rows'[u].status = "pending" => rows'[u].video[p] = 0
      BY <1>5, <2>1, <2>2 DEF ShowInv, RowsInv
  <2> QED
      BY <1>1, <1>4, <1>5, <2>3 DEF RowsInv
<1>8. RequestInv'
    BY <1>1, <1>4, <1>5 DEF ShowInv, RequestInv
<1> QED
    BY <1>6, <1>7, <1>8, RowsStep DEF Accept, Shown, Listing, Regenerating

\* The other steps leave the rows alone.
LEMMA ListStep ==
  ASSUME ShowInv, AnswersInv', ListInv',
         UNCHANGED <<rows, records, activeTaskId, request, regens, made>>
  PROVE  ShowInv'
<1>1. RowsInv' /\ RecordsInv' /\ MadeInv' /\ RegensInv' /\ RequestInv' /\ ActiveInv'
    BY DEF ShowInv, RowsInv, RecordsInv, MadeInv, RegensInv, RequestInv, ActiveInv
<1> QED
    BY <1>1 DEF ShowInv

LEMMA list_tasksKeeps ==
  ASSUME ShowInv, list_tasks
  PROVE  ShowInv'
<1>1. /\ asked > 0 /\ asked' = asked - 1 /\ answers' = Append(answers, rows)
      /\ UNCHANGED <<rows, records, activeTaskId, refreshing, plan, request, regens, made>>
    BY DEF list_tasks, Shown, Submitting, Regenerating
<1>2. rows \in Seq(Row) /\ Len(rows) \in Nat /\ DOMAIN rows = 1..Len(rows)
    BY LenProperties DEF ShowInv, RowsInv
<1>3. answers \in Seq(Seq(Row)) /\ Len(answers) \in Nat
    BY LenProperties DEF ShowInv, AnswersInv
<1>4. /\ answers' \in Seq(Seq(Row)) /\ Len(answers') = Len(answers) + 1
      /\ \A m \in 1..Len(answers) : answers'[m] = answers[m]
      /\ answers'[Len(answers) + 1] = rows
    BY <1>1, <1>2, <1>3, AppendProperties
<1>5. \A t \in DOMAIN rows : Stale(rows, rows[t], t)
  <2>1. SUFFICES ASSUME NEW t \in 1..Len(rows)
                 PROVE  Stale(rows, rows[t], t)
      BY <1>2
  <2>2. rows[t] \in Row
      BY <1>2, ElementOfSeq
  <2>3. \A p \in Parts(rows[t].kind) : rows[t].video[p] \in {0, 1}
      BY DEF ShowInv, RowsInv
  <2> QED
      BY <2>2, <2>3 DEF Stale
<1>6. AnswersInv'
  <2>1. \A m \in 1..Len(answers) + 1 : m \in 1..Len(answers) \/ m = Len(answers) + 1
      BY <1>3
  <2>2. \A m \in 1..Len(answers) + 1 :
          \A t \in DOMAIN answers'[m] : Stale(rows, answers'[m][t], t)
      BY <1>4, <1>5, <2>1 DEF ShowInv, AnswersInv
  <2> QED
      BY <1>1, <1>4, <2>2 DEF AnswersInv
<1>7. ListInv'
  <2>1. /\ asked \in Nat /\ asked + Len(answers) <= MaxLists
        /\ {refreshing, plan} \subseteq BOOLEAN /\ MaxLists \in Nat
      BY BoundsAssumption DEF ShowInv, ListInv
  <2>2. asked - 1 \in Nat /\ (asked - 1) + (Len(answers) + 1) <= MaxLists
      BY <1>1, <1>3, <2>1
  <2> QED
      BY <1>1, <1>4, <2>1, <2>2 DEF ListInv
<1> QED
    BY <1>1, <1>6, <1>7, ListStep

LEMMA EndsKeeps ==
  ASSUME ShowInv, NEW m \in DOMAIN answers, Ends(m), UNCHANGED <<rows, plan>>
  PROVE  AnswersInv' /\ ListInv'
<1>1. answers' = RemoveAt(answers, m) /\ refreshing' = FALSE /\ asked' = asked
    BY DEF Ends
<1>2. /\ answers \in Seq(Seq(Row)) /\ Len(answers) \in Nat /\ m \in 1..Len(answers)
    BY LenProperties DEF ShowInv, AnswersInv
<1>3. /\ answers' \in Seq(Seq(Row)) /\ Len(answers') = Len(answers) - 1
      /\ \A i \in 1..Len(answers) - 1 : \E j \in 1..Len(answers) : answers'[i] = answers[j]
  <2> DEFINE rest == RemoveAt(answers, m)
             Lists == Seq(Row)
  <2>1. answers \in Seq(Lists) /\ m \in 1..Len(answers)
      BY <1>2
  <2> HIDE DEF Lists
  <2>2. rest \in Seq(Lists) /\ Len(rest) = Len(answers) - 1
      BY <2>1, RemoveAtFacts
  <2>3. \A i \in 1..Len(answers) - 1 : \E j \in 1..Len(answers) : rest[i] = answers[j]
    <3>1. \A s \in Seq(Lists) : \A k \in 1..Len(s) : \A i \in 1..Len(s) - 1 :
            \E j \in 1..Len(s) : RemoveAt(s, k)[i] = s[j]
        BY RemoveAtFacts
    <3> QED
        BY <2>1, <3>1
  <2>4. answers' = rest
      BY <1>1
  <2> HIDE DEF rest
  <2> QED
      BY <2>2, <2>3, <2>4 DEF Lists
<1>4. AnswersInv'
    BY <1>3 DEF ShowInv, AnswersInv
<1>5. ListInv'
  <2>1. /\ asked \in Nat /\ asked + Len(answers) <= MaxLists /\ MaxLists \in Nat
        /\ plan \in BOOLEAN
      BY BoundsAssumption DEF ShowInv, ListInv
  <2>2. asked + (Len(answers) - 1) <= MaxLists
      BY <1>2, <2>1
  <2> QED
      BY <1>1, <1>3, <2>1, <2>2 DEF ListInv
<1> QED
    BY <1>4, <1>5

LEMMA NewestIs ==
  ASSUME NEW k \in Nat
  PROVE  /\ k = 0 => Newest(1..k) = 0
         /\ k # 0 => Newest(1..k) \in 1..k
<1>1. k = 0 => 1..k = {}
    OBVIOUS
<1>2. k # 0 => 1..k # {} /\ k \in 1..k /\ \A u \in 1..k : u <= k
    OBVIOUS
<1> QED
    BY <1>1, <1>2 DEF Newest

LEMMA loadTaskRecordsKeeps ==
  ASSUME ShowInv, NEW m \in DOMAIN answers, loadTaskRecords(m)
  PROVE  ShowInv'
<1> DEFINE list == answers[m]
<1>1. /\ records' = list /\ Ends(m)
      /\ activeTaskId' = IF activeTaskId \in DOMAIN list THEN activeTaskId
                                                        ELSE Newest(DOMAIN list)
      /\ UNCHANGED <<rows, plan, request, regens, made>>
    BY DEF loadTaskRecords, Submitting, Regenerating
<1>2. m \in 1..Len(answers) /\ list \in Seq(Row)
    BY LenProperties, ElementOfSeq DEF ShowInv, AnswersInv
<1>3. \A t \in DOMAIN list : Stale(rows, list[t], t)
    BY <1>2 DEF ShowInv, AnswersInv
<1> HIDE DEF list
<1>4. DOMAIN list = 1..Len(list) /\ Len(list) \in Nat
    BY <1>2, LenProperties
<1>5. AnswersInv' /\ ListInv'
    BY <1>1, EndsKeeps
<1>6. RecordsInv'
    BY <1>1, <1>3, StaleIsOwn DEF RecordsInv
<1>7. ActiveInv'
  <2>1. CASE Len(list) = 0
    <3>1. list = <<>>
        BY <1>2, <2>1, EmptySeq
    <3>2. 0 \notin DOMAIN list /\ DOMAIN list = {}
        BY <1>4, <2>1
    <3>3. Newest(DOMAIN list) = 0
        BY <1>4, <2>1, NewestIs
    <3>4. activeTaskId' = 0
        BY <1>1, <3>2, <3>3
    <3> QED
        BY <1>1, <3>1, <3>2, <3>4 DEF ActiveInv
  <2>2. CASE Len(list) # 0
    <3>1. Newest(DOMAIN list) \in DOMAIN list
        BY <1>4, <2>2, NewestIs
    <3>2. DOMAIN list # {}
        BY <3>1
    <3> QED
        BY <1>1, <3>1, <3>2 DEF ActiveInv
  <2> QED
      BY <2>1, <2>2
<1>8. RowsInv' /\ MadeInv' /\ RegensInv' /\ RequestInv'
    BY <1>1 DEF ShowInv, RowsInv, MadeInv, RegensInv, RequestInv
<1> QED
    BY <1>5, <1>6, <1>7, <1>8 DEF ShowInv

LEMMA LoadFailsKeeps ==
  ASSUME ShowInv, NEW m \in DOMAIN answers, LoadFails(m)
  PROVE  ShowInv'
<1>1. Ends(m) /\ UNCHANGED <<rows, records, activeTaskId, plan, request, regens, made>>
    BY DEF LoadFails, Shown, Submitting, Regenerating
<1> QED
    BY <1>1, EndsKeeps, ListStep

LEMMA SelectKeeps ==
  ASSUME ShowInv, NEW t \in Ids, Select(t)
  PROVE  ShowInv'
<1>1. /\ t \in DOMAIN records /\ activeTaskId' = t
      /\ UNCHANGED <<rows, records, asked, answers, refreshing, plan, request, regens, made>>
    BY DEF Select, Listing, Submitting, Regenerating
<1>2. RowsInv' /\ AnswersInv' /\ RecordsInv' /\ MadeInv'
    BY <1>1 DEF ShowInv, RowsInv, AnswersInv, RecordsInv, MadeInv
<1>3. RegensInv' /\ RequestInv' /\ ListInv' /\ ActiveInv'
    BY <1>1 DEF ShowInv, RegensInv, RequestInv, ListInv, ActiveInv
<1> QED
    BY <1>2, <1>3 DEF ShowInv

LEMMA SubmitArrivesKeeps ==
  ASSUME ShowInv, SubmitArrives
  PROVE  ShowInv'
<1> DEFINE t == Len(rows)
           row == [rows[t] EXCEPT !.status = "pending", !.video = Blank(rows[t].kind)]
<1>1. /\ records' = [u \in DOMAIN records \union {t} |-> IF u = t THEN row ELSE records[u]]
      /\ activeTaskId' = t /\ request' = NoRequest
      /\ plan' = (plan /\ request.kind = "multi")
      /\ UNCHANGED <<rows, asked, answers, refreshing, regens, made>>
    BY DEF SubmitArrives, upsertTaskRecord, Listing, Regenerating
<1>2. rows \in Seq(Row) /\ t \in Nat /\ t # 0 /\ t \in 1..Len(rows)
    BY LenProperties DEF ShowInv, RowsInv, RequestInv, SubmitArrives
<1>3. PICK old \in Row : old = rows[t]
    BY <1>2, ElementOfSeq
<1>4. row = [kind |-> old.kind, status |-> "pending", video |-> Blank(old.kind)]
  <2> DEFINE q == [old EXCEPT !.status = "pending"]
             blank == Blank(old.kind)
  <2>1. row = [q EXCEPT !.video = blank]
      BY <1>3
  <2>2. old = [kind |-> old.kind, status |-> old.status, video |-> old.video]
      BY RowFacts
  <2>3. q = [kind |-> old.kind, status |-> "pending", video |-> old.video]
      BY <2>2, StatusSet
  <2> HIDE DEF q, row, blank
  <2>4. [q EXCEPT !.video = blank]
          = [kind |-> old.kind, status |-> "pending", video |-> blank]
      BY <2>3, VideoSet
  <2> QED
      BY <2>1, <2>4 DEF blank
<1> HIDE DEF row
<1>5. Own(rows, made, row, t)
  <2>1. old.kind \in Kinds /\ Blank(old.kind) \in [Parts(old.kind) -> Video]
      BY RowFacts, VideoRange DEF Blank
  <2>2. row \in Row
      BY <1>4, <2>1, MakeRow DEF Statuses
  <2>3. /\ row.kind = rows[t].kind /\ row.status = "pending"
        /\ \A p \in Parts(row.kind) : row.video[p] = 0
      BY <1>3, <1>4 DEF Blank
  <2> QED
      BY <1>2, <2>2, <2>3 DEF Own
<1> HIDE DEF t
<1>6. RecordsInv'
    BY <1>1, <1>5 DEF ShowInv, RecordsInv
<1>7. ActiveInv'
  <2>1. t \in DOMAIN records'
      BY <1>1
  <2> QED
      BY <1>1, <2>1 DEF ActiveInv
<1>8. RequestInv'
    BY <1>1 DEF RequestInv, NoRequest, Kinds
<1>9. ListInv'
  <2>1. plan' \in BOOLEAN
      BY <1>1
  <2> QED
      BY <1>1, <2>1 DEF ShowInv, ListInv
<1>10. RowsInv' /\ AnswersInv' /\ MadeInv' /\ RegensInv'
    BY <1>1 DEF ShowInv, RowsInv, AnswersInv, MadeInv, RegensInv
<1> QED
    BY <1>6, <1>7, <1>8, <1>9, <1>10 DEF ShowInv

LEMMA RegenStep ==
  ASSUME ShowInv, RegensInv',
         UNCHANGED <<rows, records, activeTaskId, asked, answers, refreshing, plan, request,
                     made>>
  PROVE  ShowInv'
<1>1. RowsInv' /\ AnswersInv' /\ RecordsInv' /\ MadeInv'
    BY DEF ShowInv, RowsInv, AnswersInv, RecordsInv, MadeInv
<1>2. RequestInv' /\ ListInv' /\ ActiveInv'
    BY DEF ShowInv, RequestInv, ListInv, ActiveInv
<1> QED
    BY <1>1, <1>2 DEF ShowInv

LEMMA handleRegenerateSegmentKeeps ==
  ASSUME ShowInv, NEW s \in Segments, handleRegenerateSegment(s)
  PROVE  ShowInv'
<1>1. /\ activeTaskId \in DOMAIN records /\ records[activeTaskId].kind = "multi"
      /\ regens' = regens \union {<<activeTaskId, s>>}
      /\ UNCHANGED <<rows, records, activeTaskId, asked, answers, refreshing, plan, request,
                     made>>
    BY DEF handleRegenerateSegment, ActiveResult, Shown, Listing, Submitting
<1>2. /\ activeTaskId \in 1..Len(rows)
      /\ rows[activeTaskId].kind = records[activeTaskId].kind
    BY <1>1 DEF ShowInv, RecordsInv, Own
<1>3. Len(rows) <= MaxTasks /\ Len(rows) \in Nat /\ MaxTasks \in Nat
    BY LenProperties, BoundsAssumption DEF ShowInv, RowsInv
<1>4. <<activeTaskId, s>> \in Keys
    BY <1>2, <1>3 DEF Keys, Ids
<1>5. RegensInv'
    BY <1>1, <1>2, <1>4 DEF ShowInv, RegensInv
<1> QED
    BY <1>1, <1>5, RegenStep

LEMMA RegenerationFailsKeeps ==
  ASSUME ShowInv, NEW k \in Keys, RegenerationFails(k)
  PROVE  ShowInv'
<1>1. /\ regens' = regens \ {k}
      /\ UNCHANGED <<rows, records, activeTaskId, asked, answers, refreshing, plan, request,
                     made>>
    BY DEF RegenerationFails, Shown, Listing, Submitting
<1>2. RegensInv'
    BY <1>1 DEF ShowInv, RegensInv
<1> QED
    BY <1>1, <1>2, RegenStep

\* A video that was made for the place k is put there, or the place is emptied.
LEMMA ReplacedIsOwn ==
  ASSUME NEW list, NEW remade, NEW task, NEW k \in Keys, NEW video \in Video,
         Own(list, remade, task, k[1]), k[2] \in Parts(task.kind),
         \/ video = 0
         \/ video > 1 /\ video - 1 \in 1..Len(remade) /\ remade[video - 1] = k
  PROVE  Own(list, remade, [task EXCEPT !.video[k[2]] = video], k[1])
<1> DEFINE new == [task EXCEPT !.video[k[2]] = video]
           videos == [task.video EXCEPT ![k[2]] = video]
<1>1. /\ task \in Row /\ task.kind \in Kinds /\ task.status \in Statuses
      /\ task.video \in [Parts(task.kind) -> Video]
      /\ task = [kind |-> task.kind, status |-> task.status, video |-> task.video]
    BY RowFacts DEF Own
<1>2. new = [task EXCEPT !.video = videos]
    OBVIOUS
<1>3. /\ videos \in [Parts(task.kind) -> Video]
      /\ videos[k[2]] = video
      /\ \A p \in Parts(task.kind) : p # k[2] => videos[p] = task.video[p]
    BY <1>1
<1> HIDE DEF videos, new
<1>4. new = [kind |-> task.kind, status |-> task.status, video |-> videos]
    BY <1>1, <1>2, VideoSet
<1>5. new \in Row /\ new.kind = task.kind /\ new.status = task.status /\ new.video = videos
    BY <1>1, <1>3, <1>4, MakeRow
<1>6. k = <<k[1], k[2]>>
    BY DEF Keys
<1>7. ASSUME NEW p \in Parts(task.kind)
      PROVE  \/ videos[p] = 0
             \/ videos[p] = 1 /\ list[k[1]].video[p] = 1
             \/ /\ videos[p] > 1 /\ videos[p] - 1 \in 1..Len(remade)
                /\ remade[videos[p] - 1] = <<k[1], p>>
  <2>1. CASE p = k[2]
      BY <1>3, <1>6, <2>1
  <2>2. CASE p # k[2]
      BY <1>3, <2>2 DEF Own
  <2> QED
      BY <2>1, <2>2
<1>8. Own(list, remade, new, k[1])
    BY <1>5, <1>7 DEF Own
<1> QED
    BY <1>8 DEF new

LEMMA OwnMore ==
  ASSUME NEW list, NEW remade \in Seq(Keys), NEW k \in Keys, NEW task, NEW t,
         Own(list, remade, task, t)
  PROVE  Own(list, Append(remade, k), task, t)
<1>1. /\ Len(remade) \in Nat /\ Len(Append(remade, k)) = Len(remade) + 1
      /\ \A i \in 1..Len(remade) : Append(remade, k)[i] = remade[i]
    BY AppendProperties, LenProperties
<1>2. \A i \in 1..Len(remade) : i \in 1..Len(Append(remade, k))
    BY <1>1
<1> QED
    BY <1>1, <1>2 DEF Own

LEMMA RegenerationArrivesKeeps ==
  ASSUME ShowInv, NEW k \in Keys, RegenerationArrives(k)
  PROVE  ShowInv'
<1>1. /\ k \in regens /\ regens' = regens \ {k}
      /\ UNCHANGED <<rows, activeTaskId, asked, answers, refreshing, plan, request>>
    BY DEF RegenerationArrives, Listing, Submitting
<1>2. made \in Seq(Keys) /\ Len(made) \in Nat /\ MaxVideos \in Nat /\ Len(made) <= MaxVideos
    BY LenProperties, BoundsAssumption DEF ShowInv, MadeInv
<1>3. PICK video : /\ Replaced(k, video)
                   /\ \/ video = 0 /\ made' = made
                      \/ /\ made' = Append(made, k) /\ Len(made) < MaxVideos
                         /\ video = Len(made') + 1
    BY DEF RegenerationArrives
<1>4. /\ made' \in Seq(Keys) /\ Len(made') <= MaxVideos
      /\ made' = Append(made, k) => Len(made') = Len(made) + 1 /\ made'[Len(made) + 1] = k
    BY <1>2, <1>3, AppendProperties
<1>5. /\ video \in Video
      /\ \/ video = 0
         \/ video > 1 /\ video - 1 \in 1..Len(made') /\ made'[video - 1] = k
  <2>1. CASE video = 0
      BY <2>1, VideoRange
  <2>2. CASE made' = Append(made, k) /\ Len(made) < MaxVideos /\ video = Len(made') + 1
    <3>1. Len(made') = Len(made) + 1 /\ made'[Len(made) + 1] = k
        BY <1>4, <2>2
    <3>2. video \in 0..MaxVideos + 1 /\ video > 1 /\ video - 1 = Len(made) + 1
        BY <1>2, <2>2, <3>1
    <3>3. video - 1 \in 1..Len(made')
        BY <1>2, <3>1, <3>2
    <3> QED
        BY <3>1, <3>2, <3>3 DEF Video
  <2> QED
      BY <1>3, <2>1, <2>2
<1>6. \A task, t : Own(rows, made, task, t) => Own(rows, made', task, t)
    BY <1>2, <1>3, OwnMore
<1>7. DOMAIN records' = DOMAIN records
    BY <1>3 DEF Replaced
<1>8. RecordsInv'
  <2>1. SUFFICES ASSUME NEW t \in DOMAIN records
                 PROVE  Own(rows, made', records'[t], t)
      BY <1>1, <1>7 DEF RecordsInv
  <2>2. Own(rows, made', records[t], t)
      BY <1>6 DEF ShowInv, RecordsInv
  <2>3. CASE t = k[1] /\ records[t].status = "completed"
    <3>1. PICK task : task = records[t]
        OBVIOUS
    <3>2. records'[t] = [task EXCEPT !.video[k[2]] = video]
        BY <1>3, <2>3, <3>1 DEF Replaced
    <3>3. k[2] \in Parts(task.kind)
      <4>1. k[2] \in Segments /\ rows[k[1]].kind = "multi"
          BY <1>1 DEF ShowInv, RegensInv
      <4>2. task.kind = "multi"
          BY <2>2, <2>3, <3>1, <4>1 DEF Own
      <4> QED
          BY <4>1, <4>2, PartsKnown
    <3>4. Own(rows, made', task, k[1])
        BY <2>2, <2>3, <3>1
    <3>5. Own(rows, made', [task EXCEPT !.video[k[2]] = video], k[1])
        BY <1>5, <3>3, <3>4, ReplacedIsOwn
    <3> QED
        BY <2>3, <3>2, <3>5
  <2>4. CASE ~(t = k[1] /\ records[t].status = "completed")
    <3>1. records'[t] = records[t]
        BY <1>3, <2>4 DEF Replaced
    <3> QED
        BY <2>2, <3>1
  <2> QED
      BY <2>3, <2>4
<1>9. ActiveInv'
  <2>1. DOMAIN records = {} => records' = <<>>
      BY <1>3 DEF Replaced
  <2> QED
      BY <1>1, <1>7, <2>1 DEF ShowInv, ActiveInv
<1>10. MadeInv' /\ RegensInv'
    BY <1>1, <1>4 DEF ShowInv, MadeInv, RegensInv
<1>11. RowsInv' /\ AnswersInv' /\ RequestInv' /\ ListInv'
    BY <1>1 DEF ShowInv, RowsInv, AnswersInv, RequestInv, ListInv
<1> QED
    BY <1>8, <1>9, <1>10, <1>11 DEF ShowInv

\* Steps that begin or end a request of the page.
LEMMA RequestStep ==
  ASSUME ShowInv, RequestInv', ListInv',
         UNCHANGED <<rows, records, activeTaskId, answers, regens, made>>
  PROVE  ShowInv'
<1>1. RowsInv' /\ AnswersInv' /\ RecordsInv' /\ MadeInv' /\ RegensInv' /\ ActiveInv'
    BY DEF ShowInv, RowsInv, AnswersInv, RecordsInv, MadeInv, RegensInv, ActiveInv
<1> QED
    BY <1>1 DEF ShowInv

LEMMA AskKeeps ==
  ASSUME ShowInv, Tick \/ Refresh
  PROVE  ShowInv'
<1>1. /\ asked + Len(answers) < MaxLists /\ asked' = asked + 1
      /\ refreshing' \in {refreshing, TRUE}
      /\ UNCHANGED <<rows, records, activeTaskId, answers, plan, request, regens, made>>
    BY DEF Tick, Refresh, Ask, Shown, Submitting, Regenerating
<1>2. RequestInv'
    BY <1>1 DEF ShowInv, RequestInv
<1>3. ListInv'
  <2>1. /\ asked \in Nat /\ refreshing \in BOOLEAN /\ plan \in BOOLEAN
        /\ Len(answers) \in Nat /\ MaxLists \in Nat
      BY LenProperties, BoundsAssumption DEF ShowInv, ListInv, AnswersInv
  <2>2. asked' \in Nat /\ asked' + Len(answers) <= MaxLists
      BY <1>1, <2>1
  <2>3. refreshing' \in BOOLEAN
      BY <1>1, <2>1
  <2> QED
      BY <1>1, <2>1, <2>2, <2>3 DEF ListInv
<1> QED
    BY <1>1, <1>2, <1>3, RequestStep

LEMMA SubmitKeeps ==
  ASSUME ShowInv, SubmitSingle \/ SubmitPlan \/ SubmitMulti \/ PlanArrives \/ RequestFails
  PROVE  ShowInv'
<1>1. UNCHANGED <<rows, records, activeTaskId, asked, answers, refreshing, regens, made>>
    BY DEF SubmitSingle, SubmitPlan, SubmitMulti, PlanArrives, RequestFails, Sent, Shown,
           Listing, Regenerating
<1>2. plan' \in BOOLEAN
  <2>1. plan \in BOOLEAN
      BY DEF ShowInv, ListInv
  <2>2. plan' = plan \/ plan' = TRUE \/ plan' = FALSE
      BY DEF SubmitSingle, SubmitPlan, SubmitMulti, PlanArrives, RequestFails
  <2> QED
      BY <2>1, <2>2
<1>3. \/ request' = NoRequest
      \/ \E kind \in Kinds \union {"plan"} : request' = [stage |-> "sent", kind |-> kind]
  <2>1. CASE PlanArrives \/ RequestFails
      BY <2>1 DEF PlanArrives, RequestFails
  <2>2. CASE SubmitSingle \/ SubmitPlan \/ SubmitMulti
    <3>1. Sent("single") \/ Sent("plan") \/ Sent("multi")
        BY <2>2 DEF SubmitSingle, SubmitPlan, SubmitMulti
    <3> QED
        BY <3>1 DEF Sent, Kinds
  <2> QED
      BY <2>1, <2>2
<1>4. RequestInv'
    BY <1>3 DEF RequestInv, NoRequest, Kinds
<1>5. ListInv'
    BY <1>1, <1>2 DEF ShowInv, ListInv
<1> QED
    BY <1>1, <1>4, <1>5, RequestStep

LEMMA SavesKeep ==
  ASSUME ShowInv,
         UNCHANGED <<rows, Shown, Listing, Submitting, Regenerating>>
  PROVE  ShowInv'
<1>1. UNCHANGED <<rows, records, activeTaskId, asked, answers, refreshing, plan, request,
                  regens, made>>
    BY DEF Shown, Listing, Submitting, Regenerating
<1>2. RegensInv'
    BY <1>1 DEF ShowInv, RegensInv
<1> QED
    BY <1>1, <1>2, RegenStep

LEMMA NextShowInv == ShowInv /\ [Next]_vars => ShowInv'
<1> SUFFICES ASSUME ShowInv, Next \/ UNCHANGED vars
             PROVE  ShowInv'
    OBVIOUS
<1>1. CASE \E t \in DOMAIN rows : TaskEnds(t)
    BY <1>1, TaskEndsKeeps
<1>2. CASE list_tasks \/ Tick \/ Refresh
    BY <1>2, list_tasksKeeps, AskKeeps
<1>3. CASE \E m \in DOMAIN answers : loadTaskRecords(m) \/ LoadFails(m)
    BY <1>3, loadTaskRecordsKeeps, LoadFailsKeeps
<1>4. CASE \E t \in Ids : Select(t)
    BY <1>4, SelectKeeps
<1>5. CASE SubmitSingle \/ SubmitPlan \/ SubmitMulti \/ PlanArrives \/ RequestFails
    BY <1>5, SubmitKeeps
<1>6. CASE Accept \/ SubmitArrives
    BY <1>6, AcceptKeeps, SubmitArrivesKeeps
<1>7. CASE \E s \in Segments : handleRegenerateSegment(s)
    BY <1>7, handleRegenerateSegmentKeeps
<1>8. CASE \E k \in Keys : RegenerationArrives(k) \/ RegenerationFails(k)
    BY <1>8, RegenerationArrivesKeeps, RegenerationFailsKeeps
<1>9. CASE \E k \in Keys : SaveStarts(k) \/ SaveArrives(k) \/ SaveFails(k)
    BY <1>9, SavesKeep DEF SaveStarts, SaveArrives, SaveFails
<1>10. CASE UNCHANGED vars
    BY <1>10, SavesKeep DEF vars, Shown, Listing, Submitting, Regenerating
<1> QED
    BY <1>1, <1>2, <1>3, <1>4, <1>5, <1>6, <1>7, <1>8, <1>9, <1>10 DEF Next

-----------------------------------------------------------------------------
(* The theorems.                                                             *)

LEMMA Invariance == Spec => []SaveInv /\ []ShowInv
BY InitSaveInv, NextSaveInv, InitShowInv, NextShowInv, PTL DEF Spec

\* Every variable has its type, and no answer knows a task the service does not.
THEOREM TypeCorrect == Spec => []TypeOK
<1>1. SaveInv /\ ShowInv => TypeOK
  <2> SUFFICES ASSUME SaveInv, ShowInv
               PROVE  TypeOK
      OBVIOUS
  <2>1. rows \in Seq(Row) /\ DOMAIN rows = 1..Len(rows) /\ Len(rows) \in Nat
        /\ Len(rows) <= MaxTasks /\ MaxTasks \in Nat
      BY LenProperties, BoundsAssumption DEF ShowInv, RowsInv
  <2>2. \A t \in DOMAIN rows : rows[t] \in Row
      BY <2>1, ElementOfSeq
  <2>3. DOMAIN records \subseteq DOMAIN rows /\ \A t \in DOMAIN records : records[t] \in Row
      BY <2>1 DEF ShowInv, RecordsInv, Own
  <2>4. activeTaskId \in 0..MaxTasks
    <3>1. CASE DOMAIN records = {}
        BY <2>1, <3>1 DEF ShowInv, ActiveInv
    <3>2. CASE DOMAIN records # {}
      <4>1. activeTaskId \in 1..Len(rows)
          BY <2>1, <2>3, <3>2 DEF ShowInv, ActiveInv
      <4> QED
          BY <2>1, <4>1
    <3> QED
        BY <3>1, <3>2
  <2>5. \A m \in DOMAIN answers : DOMAIN answers[m] \subseteq DOMAIN rows
    <3>1. DOMAIN answers = 1..Len(answers)
        BY LenProperties DEF ShowInv, AnswersInv
    <3> QED
        BY <2>1, <3>1 DEF ShowInv, AnswersInv, Stale
  <2>6. \A k \in regens : k[1] \in DOMAIN rows /\ rows[k[1]].kind = "multi" /\ k[2] \in Segments
      BY <2>1 DEF ShowInv, RegensInv
  <2>7. Len(made) <= MaxVideos /\ \A m \in DOMAIN made : made[m] \in Keys
    <3>1. DOMAIN made = 1..Len(made) /\ made \in Seq(Keys) /\ Len(made) <= MaxVideos
        BY LenProperties DEF ShowInv, MadeInv
    <3> QED
        BY <3>1, ElementOfSeq
  <2>8. {saves, library} \subseteq [Keys -> 0..MaxCopies]
    <3>1. MaxCopies \in Nat
        BY BoundsAssumption
    <3>2. \A k \in Keys : saves[k] \in 0..MaxCopies /\ library[k] \in 0..MaxCopies
        BY <3>1 DEF SaveInv
    <3> QED
        BY <3>2 DEF SaveInv
  <2> QED
      BY <2>1, <2>2, <2>3, <2>4, <2>5, <2>6, <2>7, <2>8
         DEF TypeOK, ShowInv, ListInv, RequestInv, SaveInv
<1> QED
    BY <1>1, Invariance, PTL

\* setActiveTaskId in loadTaskRecords and upsertTaskRecord: the details are always those of
\* a task in the list.
THEOREM ActiveTaskIsShown == Spec => []ActiveIsShown
<1>1. ShowInv => ActiveIsShown
  <2>1. DOMAIN <<>> = {}
      OBVIOUS
  <2> QED
      BY <2>1 DEF ShowInv, ActiveInv, ActiveIsShown
<1> QED
    BY <1>1, Invariance, PTL

\* However list answers, submits and regenerations overlap, no video is shown in a place it
\* was not made for.
THEOREM VideosAreOwn == Spec => []ShownVideoIsItsOwn
<1>1. ShowInv => ShownVideoIsItsOwn
  <2> SUFFICES ASSUME ShowInv, NEW t \in DOMAIN records
               PROVE  /\ records[t].kind = rows[t].kind
                      /\ records[t].status \in {"pending", rows[t].status}
                      /\ \A p \in DOMAIN records[t].video :
                           LET video == records[t].video[p]
                           IN CASE video = 0 -> TRUE
                                [] video = 1 -> rows[t].video[p] = 1
                                [] OTHER -> made[video - 1] = <<t, p>>
      BY DEF ShownVideoIsItsOwn
  <2>1. Own(rows, made, records[t], t)
      BY DEF ShowInv, RecordsInv
  <2>2. DOMAIN records[t].video = Parts(records[t].kind)
      BY <2>1, RowFacts DEF Own
  <2> QED
      BY <2>1, <2>2 DEF Own
<1> QED
    BY <1>1, Invariance, PTL

\* handleSaveToAssets and handleSaveSegmentToAssets: a saved mark is true, and a single
\* result is stored twice only after a save that failed.
THEOREM MarksAreTrue == Spec => []SaveMarksAreTrue
<1>1. SaveInv => SaveMarksAreTrue
    BY DEF SaveInv, SaveMarksAreTrue
<1> QED
    BY <1>1, Invariance, PTL
=============================================================================
