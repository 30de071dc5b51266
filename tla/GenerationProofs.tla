-------------------------- MODULE GenerationProofs --------------------------
(***************************************************************************)
(* Proofs about Generation, for every plan, every number of images and     *)
(* every answer of a provider.                                             *)
(*                                                                         *)
(* The argument.  The list holds one report for each segment the loop has  *)
(* passed, at its place (LoopInv).  The frame at hand is the one of the    *)
(* segment just before, and that segment succeeded (FrameInv), so what is  *)
(* put before the images of a bridged segment is what the plan asks for,   *)
(* and stays so because no report changes.  Between two segments nothing   *)
(* of the next one is in the library, and within one just the outputs      *)
(* counted as saved are (SaveInv).  A mode chosen by the service is chosen *)
(* from the images as they are sent, one or two of them (ModeInv).  For    *)
(* the call log, see LogInv.                                               *)
(***************************************************************************)
EXTENDS Generation, SequenceTheorems, TLAPS

-----------------------------------------------------------------------------
(* The images of a segment.                                                  *)

Images == Seq(Image)

LEMMA BaseImages ==
  ASSUME request \in Request
  PROVE  /\ base_image_materials \in Images
         /\ Len(base_image_materials) = request.base /\ request.base \in Nat
         /\ \A i \in 1..request.base : base_image_materials[i].from = "base"
<1>1. request.base \in Nat
    BY DEF Request
<1>2. \A i \in 1..request.base : [from |-> "base", n |-> i] \in Image
    BY <1>1 DEF Image
<1> QED
    BY <1>1, <1>2 DEF base_image_materials, Images

LEMMA PrefixIf ==
  ASSUME NEW S, NEW s \in Seq(S), NEW t \in Seq(S), Len(s) <= Len(t),
         \A i \in 1..Len(s) : s[i] = t[i]
  PROVE  IsPrefix(s, t)
<1>1. Len(s) \in Nat /\ Len(t) \in Nat
    BY LenProperties
<1>2. \A i \in 1..Len(s) : t[i] \in S
    BY <1>1, ElementOfSeq
<1>3. /\ SubSeq(t, 1, Len(s)) \in Seq(S) /\ Len(SubSeq(t, 1, Len(s))) = Len(s)
      /\ \A i \in 1..Len(s) : SubSeq(t, 1, Len(s))[i] = t[i]
    BY <1>1, <1>2, SubSeqProperties
<1>4. SubSeq(t, 1, Len(s)) = s
    BY <1>3, SeqEqual
<1>5. SubSeq(s, 1, Len(s)) = s
    BY SubSeqFull
<1> QED
    BY <1>4, <1>5 DEF IsPrefix

LEMMA TailPrefixIf ==
  ASSUME NEW S, NEW s \in Seq(S), NEW t \in Seq(S), Len(s) # 0, Len(s) <= Len(t) + 1,
         \A i \in 2..Len(s) : s[i] = t[i - 1]
  PROVE  s # <<>> /\ IsPrefix(Tail(s), t)
<1> DEFINE u == Tail(s)
<1>1. Len(s) \in Nat /\ Len(t) \in Nat
    BY LenProperties
<1>2. s # <<>>
    OBVIOUS
<1>3. /\ u \in Seq(S) /\ Len(u) = Len(s) - 1
      /\ \A i \in 1..Len(u) : u[i] = s[i + 1]
    BY <1>2, HeadTailProperties
<1>4. Len(u) <= Len(t) /\ \A i \in 1..Len(u) : u[i] = t[i]
    BY <1>1, <1>3
<1> HIDE DEF u
<1>5. IsPrefix(u, t)
    BY <1>3, <1>4, PrefixIf
<1> QED
    BY <1>2, <1>5 DEF u

\* A frame is put before the base images, and the result may be cut to two.
LEMMA StitchedShape ==
  ASSUME NEW S, NEW f \in S, NEW base \in Seq(S), NEW images,
         \/ images = <<f>> \o base
         \/ Len(<<f>> \o base) > 2 /\ images = SubSeq(<<f>> \o base, 1, 2)
  PROVE  /\ images \in Seq(S) /\ images # <<>> /\ images[1] = f
         /\ IsPrefix(Tail(images), base)
         /\ Len(images) = Len(base) + 1 \/ (Len(images) = 2 /\ Len(base) + 1 > 2)
         /\ Len(<<f>> \o base) = Len(base) + 1
<1> DEFINE stitched == <<f>> \o base
<1>1. Len(base) \in Nat
    BY LenProperties
<1>2. <<f>> \in Seq(S) /\ Len(<<f>>) = 1 /\ <<f>>[1] = f
    OBVIOUS
<1>3. /\ stitched \in Seq(S) /\ Len(stitched) = Len(base) + 1
      /\ \A i \in 1..Len(base) + 1 : stitched[i] = IF i <= 1 THEN f ELSE base[i - 1]
  <2>1. /\ stitched \in Seq(S) /\ Len(stitched) = 1 + Len(base)
        /\ \A i \in 1..1 + Len(base) : stitched[i] = IF i <= 1 THEN f ELSE base[i - 1]
    BY <1>2, ConcatProperties
  <2> HIDE DEF stitched
  <2> QED
    BY <1>1, <2>1
<1> HIDE DEF stitched
<1>4. images = stitched \/ (Len(stitched) > 2 /\ images = SubSeq(stitched, 1, 2))
    BY DEF stitched
<1>5. /\ images \in Seq(S) /\ Len(images) <= Len(base) + 1
      /\ Len(images) = Len(base) + 1 \/ (Len(images) = 2 /\ Len(base) + 1 > 2)
      /\ \A i \in 1..Len(images) : images[i] = stitched[i]
  <2>1. CASE images = stitched
    BY <1>1, <1>3, <2>1
  <2>2. CASE Len(stitched) > 2 /\ images = SubSeq(stitched, 1, 2)
    <3>1. \A i \in 1..2 : stitched[i] \in S
      BY <1>1, <1>3, <2>2, ElementOfSeq
    <3>2. images \in Seq(S) /\ Len(images) = 2 /\ \A i \in 1..2 : images[i] = stitched[i]
      BY <2>2, <3>1, SubSeqProperties
    <3> QED
      BY <1>1, <1>3, <2>2, <3>2
  <2> QED
    BY <1>4, <2>1, <2>2
<1>6. Len(images) # 0 /\ Len(images) \in Nat
    BY <1>1, <1>5
<1>7. images[1] = f /\ \A i \in 2..Len(images) : images[i] = base[i - 1]
    BY <1>1, <1>3, <1>5, <1>6
<1> QED
    BY <1>3, <1>5, <1>6, <1>7, TailPrefixIf DEF stitched

LEMMA Two ==
  ASSUME NEW S, NEW s \in Seq(S), Len(s) > 2
  PROVE  Len(SubSeq(s, 1, 2)) = 2
<1>1. Len(s) \in Nat
    BY LenProperties
<1>2. \A i \in 1..2 : s[i] \in S
    BY <1>1, ElementOfSeq
<1> QED
    BY <1>2, SubSeqProperties

-----------------------------------------------------------------------------
(* The invariant.                                                            *)

ReportRecord ==
  [segment : Nat, status : {"success", "error"}, cause : Causes \union {"none"},
   saved : SUBSET (Nat \X Nat)]

\* One report for each segment that the loop has passed, in order.
LoopInv ==
  /\ results \in Seq(ReportRecord)
  /\ Len(results) = n - 1
  /\ \A i \in 1..Len(results) : results[i].segment = i
  /\ pc = "accepted" => n = 1
  /\ pc \in {"called", "answered", "saving"} => n <= Len(request.bridges)
  /\ pc = "returned" => n = Len(request.bridges) + 1

\* The frame at hand is that of the segment before, which succeeded.
FrameInv ==
  /\ previous_segment_last_frame \in {<<>>, <<FrameOf(n - 1)>>}
  /\ previous_segment_last_frame # <<>> /\ n > 1 => results[n - 1].status = "success"

CallRecord == [segment : Nat, status : {"success", "error"}]
AskRecord == [segment : Nat, images : Images]

\* The log and the provider have heard of segments that the loop has reached.
HistoryInv ==
  /\ call_log \in Seq(CallRecord)
  /\ \A i \in 1..Len(call_log) : call_log[i].segment \in 1..n
  /\ received \in Seq(AskRecord)
  /\ \A i \in 1..Len(received) : received[i].segment \in 1..n

Automatic ==
  /\ request.op \in {"batch", "segment"}
  /\ request.input_mode = "unset"
  /\ request.base <= 2

ModeInv ==
  Automatic => /\ failure # "rejected"
               /\ \A i \in 1..Len(results) : results[i].cause # "rejected"

\* The library holds the outputs of the current segment that are counted as saved.
SaveInv ==
  /\ pc \notin Ended => \A j \in Nat : <<n, j>> \in library <=> j \in 1..saved
  /\ pc \notin {"saving"} \union Ended => saved = 0

IInv ==
  /\ TypeOK /\ LoopInv /\ FrameInv /\ HistoryInv /\ ModeInv /\ SaveInv
  /\ ReceivedAsPlanned /\ SavedAssetsAreReported

-----------------------------------------------------------------------------
(* What is always known of a request.                                        *)

LEMMA NonEmpty ==
  ASSUME NEW S, NEW s \in Seq(S), s # <<>>
  PROVE  Len(s) # 0
BY EmptySeq

LEMMA RequestKnown ==
  ASSUME request \in Requests
  PROVE  /\ request \in Request /\ request.bridges \in Seq(BOOLEAN)
         /\ Len(request.bridges) \in Nat \ {0} /\ request.base \in Nat
         /\ request.op = "batch" => ~request.bridges[1]
         /\ request.op # "batch" => Len(request.bridges) = 1
         /\ request.op # "media" => request.count = 1
<1>1. request \in Request /\ request.bridges \in Seq(BOOLEAN) /\ request.base \in Nat
    BY RequestsAssumption DEF Request
<1>2. request.op = "batch" => request.bridges # <<>> /\ ~request.bridges[1]
    BY RequestsAssumption
<1>3. request.op # "batch" => Len(request.bridges) = 1
    BY RequestsAssumption
<1>4. request.op # "media" => request.count = 1
    BY RequestsAssumption
<1>5. request.bridges # <<>> => Len(request.bridges) # 0
    BY <1>1, NonEmpty
<1>6. Len(request.bridges) \in Nat
    BY <1>1, LenProperties
<1>7. Len(request.bridges) # 0
    BY <1>2, <1>3, <1>5
<1> QED
    BY <1>1, <1>2, <1>3, <1>4, <1>6, <1>7

LEMMA Known ==
  ASSUME IInv
  PROVE  /\ n \in Nat /\ n >= 1 /\ n <= Len(request.bridges) + 1
         /\ Len(results) = n - 1 /\ DOMAIN results = 1..n - 1
         /\ \A i \in 1..n - 1 : results[i] \in ReportRecord /\ results[i].segment = i
         /\ DOMAIN call_log = 1..Len(call_log) /\ DOMAIN received = 1..Len(received)
         /\ saved \in Nat /\ FrameOf(n) \in Image
<1>1. n \in Nat /\ n >= 1 /\ n <= Len(request.bridges) + 1
    BY RequestKnown DEF IInv, TypeOK
<1>2. saved \in Nat
    BY DEF IInv, TypeOK
<1>3. Len(results) = n - 1 /\ DOMAIN results = 1..n - 1
    BY LenProperties DEF IInv, LoopInv
<1>4. \A i \in 1..n - 1 : results[i] \in ReportRecord /\ results[i].segment = i
    BY <1>3, ElementOfSeq DEF IInv, LoopInv
<1>5. DOMAIN call_log = 1..Len(call_log) /\ DOMAIN received = 1..Len(received)
    BY LenProperties DEF IInv, HistoryInv
<1> QED
    BY <1>1, <1>2, <1>3, <1>4, <1>5 DEF FrameOf, Image

LEMMA InitIInv == Init => IInv
<1> SUFFICES ASSUME Init
             PROVE  IInv
    OBVIOUS
<1> USE DEF Init
<1>1. /\ results = <<>> /\ Len(results) = 0 /\ results \in Seq(ReportRecord)
      /\ call_log = <<>> /\ Len(call_log) = 0 /\ call_log \in Seq(CallRecord)
      /\ received = <<>> /\ Len(received) = 0 /\ received \in Seq(AskRecord)
      /\ outputs = <<>> /\ Len(outputs) = 0
      /\ DOMAIN results = {} /\ DOMAIN call_log = {} /\ DOMAIN received = {}
    OBVIOUS
<1>2. n = 1 /\ n <= Len(request.bridges) /\ Len(request.bridges) \in Nat
    BY RequestKnown
<1>3. TypeOK
    BY <1>1, <1>2 DEF TypeOK
<1>4. LoopInv /\ FrameInv /\ HistoryInv /\ ModeInv /\ SaveInv
    BY <1>1, <1>2 DEF LoopInv, FrameInv, HistoryInv, ModeInv, SaveInv
<1>5. ReceivedAsPlanned /\ SavedAssetsAreReported
    BY <1>1 DEF ReceivedAsPlanned, SavedAssetsAreReported
<1> QED
    BY <1>3, <1>4, <1>5 DEF IInv

-----------------------------------------------------------------------------
(* The two ways in which a segment ends.                                     *)

\* What ReceivedAsPlanned says of one call.
AskedAsPlanned(r) ==
  LET framed == r.images # <<>> /\ r.images[1].from = "frame"
  IN /\ framed => /\ request.bridges[r.segment]
                  /\ r.images[1] = FrameOf(r.segment - 1)
                  /\ r.segment > 1 => StitchedTo(r)
                  /\ IsPrefix(Tail(r.images), base_image_materials)
     /\ ~framed => r.images = base_image_materials
     /\ request.ark /\ request.bridges[r.segment] => framed

LEMMA PlannedOneByOne ==
  ReceivedAsPlanned <=> \A i \in DOMAIN received : AskedAsPlanned(received[i])
BY DEF ReceivedAsPlanned, AskedAsPlanned

\* A call stays as planned while the reports of the segments before it stay.
LEMMA StillAsked ==
  ASSUME request' = request, NEW r \in AskRecord, r.segment \in 1..n, n \in Nat,
         \A i \in 1..n - 1 : results'[i] = results[i],
         AskedAsPlanned(r)
  PROVE  AskedAsPlanned(r)'
<1>1. base_image_materials' = base_image_materials
    BY DEF base_image_materials
<1>2. r.segment > 1 => results'[r.segment - 1] = results[r.segment - 1]
    BY DEF AskRecord
<1> QED
    BY <1>1, <1>2 DEF AskedAsPlanned, StitchedTo

LEMMA StillPlanned ==
  ASSUME IInv, request' = request, received' = received,
         \A i \in 1..n - 1 : results'[i] = results[i]
  PROVE  ReceivedAsPlanned'
<1>1. \A i \in 1..Len(received) :
        received[i] \in AskRecord /\ received[i].segment \in 1..n
    BY ElementOfSeq DEF IInv, HistoryInv
<1>2. \A i \in DOMAIN received : AskedAsPlanned(received[i])
    BY PlannedOneByOne DEF IInv
<1>3. SUFFICES ASSUME NEW i \in DOMAIN received, NEW r, r = received[i]
               PROVE  AskedAsPlanned(r)'
    BY DEF ReceivedAsPlanned, AskedAsPlanned
<1> QED
    BY <1>1, <1>2, <1>3, Known, StillAsked

LEMMA LogTyped ==
  ASSUME NEW k \in Nat, NEW m \in Nat, k <= m, NEW log \in Seq(CallRecord),
         \A i \in 1..Len(log) : log[i].segment \in 1..k
  PROVE  \A i \in DOMAIN log : log[i] \in [segment : 1..m, status : {"success", "error"}]
<1>1. SUFFICES ASSUME NEW i \in DOMAIN log
               PROVE  log[i] \in [segment : 1..m, status : {"success", "error"}]
    OBVIOUS
<1>2. i \in 1..Len(log)
    BY LenProperties
<1>3. log[i] \in CallRecord
    BY <1>2, ElementOfSeq
<1> QED
    BY <1>2, <1>3 DEF CallRecord

\* What ends a segment may also have written the entry of its call.
LogMayGrow ==
  /\ call_log' \in Seq(CallRecord)
  /\ \A i \in 1..Len(call_log') : call_log'[i].segment \in 1..n

\* A step that appends a report to the list goes on to the next segment.
LEMMA ReportStep ==
  ASSUME IInv, NEW report \in ReportRecord, NEW frame \in {<<>>, <<FrameOf(n)>>},
         Report(report, frame), request' = request, library' = library,
         received' = received, LogMayGrow, n <= Len(request.bridges), pc \notin Ended,
         report.segment = n, frame # <<>> => report.status = "success",
         report.saved \subseteq library,
         \A j \in Nat : <<n, j>> \in library
                         => <<n, j>> \in report.saved \/ report.cause = "unsaved",
         Automatic => report.cause # "rejected"
  PROVE  IInv'
<1>1. /\ results' = Append(results, report) /\ previous_segment_last_frame' = frame
      /\ n' = n + 1 /\ pc' = "segment" /\ outputs' = <<>> /\ failure' = "none"
      /\ saved' = 0
    BY DEF Report, CallEnds
<1>2. results \in Seq(ReportRecord)
    BY DEF IInv, LoopInv
<1>3. /\ results' \in Seq(ReportRecord) /\ Len(results') = n
      /\ \A i \in 1..n - 1 : results'[i] = results[i]
      /\ results'[n] = report
    BY <1>1, <1>2, Known, AppendProperties
<1>4. DOMAIN results' = 1..n /\ DOMAIN results = 1..n - 1 /\ n \in Nat /\ n >= 1
    BY <1>3, Known, LenProperties
<1>5. \A i \in 1..n : results'[i] \in ReportRecord /\ results'[i].segment = i
    BY <1>3, <1>4, Known
<1>6. TypeOK'
  <2>1. request \in Requests /\ pc' \in {"segment"}
      BY <1>1 DEF IInv, TypeOK
  <2>2. n + 1 \in 1..Len(request.bridges) + 1 /\ n \in 0..(n + 1) - 1
      BY <1>4, <2>1, RequestKnown
  <2>3. frame \in {<<>>} \union {<<FrameOf(k)>> : k \in 0..(n + 1) - 1}
      BY <2>2
  <2>4. Len(outputs') = 0 /\ 0 \in 0..Len(outputs')
      BY <1>1
  <2>5. \A i \in 1..n : /\ results'[i].status \in {"success", "error"}
                        /\ results'[i].cause \in Causes \union {"none"}
      BY <1>5 DEF ReportRecord
  <2>6. library \subseteq (1..n + 1) \X (Nat \ {0})
      BY <1>4 DEF IInv, TypeOK
  <2>7. \A i \in DOMAIN call_log' :
          call_log'[i] \in [segment : 1..n + 1, status : {"success", "error"}]
      BY <1>4, LogTyped DEF LogMayGrow
  <2>8. \A i \in DOMAIN received : received[i].segment \in 1..n + 1
      BY <1>4 DEF IInv, TypeOK
  <2> QED
      BY <1>1, <1>4, <2>1, <2>2, <2>3, <2>4, <2>5, <2>6, <2>7, <2>8 DEF TypeOK
<1>7. LoopInv'
    BY <1>1, <1>3, <1>4, <1>5 DEF LoopInv
<1>8. FrameInv'
    BY <1>1, <1>3, <1>4 DEF FrameInv
<1>9. HistoryInv'
    BY <1>1, <1>4 DEF HistoryInv, LogMayGrow, IInv
<1>10. ModeInv'
  <2>1. \A i \in 1..n : Automatic => results'[i].cause # "rejected"
      BY <1>3, <1>4, Known DEF IInv, ModeInv
  <2> QED
      BY <1>1, <1>3, <2>1 DEF ModeInv, Automatic
<1>11. SaveInv'
  <2>1. \A j \in Nat : <<n + 1, j>> \notin library
      BY <1>4 DEF IInv, TypeOK
  <2> QED
      BY <1>1, <2>1 DEF SaveInv
<1>12. ReceivedAsPlanned'
    BY <1>3, StillPlanned
<1>13. SavedAssetsAreReported'
  <2>1. \A i \in 1..n : results'[i].saved \subseteq library
      BY <1>3, <1>4 DEF IInv, SavedAssetsAreReported
  <2>2. ASSUME NEW a \in library, NEW i \in 1..n, results'[i].segment = a[1]
        PROVE  a \in results'[i].saved \/ results'[i].cause = "unsaved"
    <3>1. CASE i = n
      <4>1. PICK j \in Nat : a = <<n, j>>
          BY <1>5, <2>2, <3>1 DEF IInv, TypeOK
      <4> QED
          BY <1>3, <3>1, <4>1
    <3>2. CASE i # n
        BY <1>3, <1>4, <2>2, <3>2 DEF IInv, SavedAssetsAreReported
    <3> QED
        BY <3>1, <3>2
  <2> QED
      BY <1>4, <2>1, <2>2 DEF SavedAssetsAreReported
<1> QED
    BY <1>6, <1>7, <1>8, <1>9, <1>10, <1>11, <1>12, <1>13 DEF IInv

\* A step that ends the request without a result.
LEMMA RaiseStep ==
  ASSUME IInv, pc' \in {"raised", "killed"}, request' = request, received' = received,
         LogMayGrow, library \subseteq library',
         library' \subseteq library \union {Asset(saved + 1)},
         UNCHANGED <<n, previous_segment_last_frame, results, outputs, failure, saved>>
  PROVE  IInv'
<1>1. n \in Nat /\ n >= 1 /\ DOMAIN results = 1..n - 1 /\ saved + 1 \in Nat \ {0}
      /\ n <= n
    BY Known
<1>2. TypeOK'
  <2>1. \A i \in DOMAIN call_log' :
          call_log'[i] \in [segment : 1..n, status : {"success", "error"}]
      BY <1>1, LogTyped DEF LogMayGrow
  <2>2. library' \subseteq (1..n) \X (Nat \ {0})
      BY <1>1 DEF IInv, TypeOK, Asset
  <2> QED
      BY <2>1, <2>2 DEF IInv, TypeOK, Ended
<1>3. LoopInv' /\ FrameInv' /\ HistoryInv' /\ ModeInv'
    BY DEF IInv, LoopInv, FrameInv, HistoryInv, ModeInv, Automatic, LogMayGrow
<1>4. SaveInv'
    BY DEF SaveInv, Ended
<1>5. ReceivedAsPlanned'
    BY StillPlanned
<1>6. SavedAssetsAreReported'
  <2>1. \A i \in DOMAIN results : results[i].segment # n
      BY <1>1, Known
  <2> QED
      BY <2>1 DEF IInv, SavedAssetsAreReported, Asset
<1> QED
    BY <1>2, <1>3, <1>4, <1>5, <1>6 DEF IInv

\* A ServiceError either ends the segment or the request.
LEMMA ServiceErrorStep ==
  ASSUME IInv, NEW cause \in {"rejected", "provider", "unsaved"}, ServiceErrorIn(cause),
         request' = request, library' = library, received' = received, LogMayGrow,
         n <= Len(request.bridges), pc \notin Ended,
         saved # 0 => cause = "unsaved", Automatic => cause # "rejected"
  PROVE  IInv'
<1>1. CASE Raise
    BY <1>1, RaiseStep DEF Raise, Current
<1>2. CASE ReportFailure(cause)
  <2> DEFINE report == Failure(cause)
  <2>1. /\ report \in ReportRecord /\ report.segment = n /\ report.saved = {}
        /\ report.cause = cause
      BY Known DEF Failure, ReportRecord, Causes
  <2>2. Report(report, <<>>)
      BY <1>2 DEF ReportFailure
  <2>3. \A j \in Nat : <<n, j>> \in library => cause = "unsaved"
      BY DEF IInv, SaveInv
  <2> HIDE DEF report
  <2> QED
      BY <2>1, <2>2, <2>3, ReportStep
<1> QED
    BY <1>1, <1>2 DEF ServiceErrorIn

\* The log of a step that leaves it alone.
LEMMA LogAsItWas == IInv /\ call_log' = call_log => LogMayGrow
BY DEF IInv, HistoryInv, LogMayGrow

-----------------------------------------------------------------------------
(* Each action preserves the invariant.                                      *)

LEMMA RefuseStep == IInv /\ (Refuse \/ Killed) => IInv'
<1> SUFFICES ASSUME IInv, Refuse \/ Killed
             PROVE  IInv'
    OBVIOUS
<1>1. /\ pc' \in {"raised", "killed"}
      /\ UNCHANGED <<request, n, previous_segment_last_frame, results, outputs, failure,
                     saved, library, call_log, received>>
    BY DEF Refuse, Killed, Current, Effects
<1> QED
    BY <1>1, RaiseStep, LogAsItWas

LEMMA EnterLoopStep == IInv /\ EnterLoop => IInv'
<1> SUFFICES ASSUME IInv, EnterLoop
             PROVE  IInv'
    OBVIOUS
<1>1. /\ pc = "accepted" /\ pc' = "segment" /\ n = 1
      /\ previous_segment_last_frame' \in {<<>>, <<FrameOf(0)>>}
      /\ UNCHANGED <<request, n, results, outputs, failure, saved, library, call_log,
                     received>>
    BY DEF EnterLoop, Current, Effects, IInv, LoopInv
<1>2. TypeOK'
    BY <1>1 DEF IInv, TypeOK
<1>3. LoopInv' /\ FrameInv'
    BY <1>1 DEF IInv, LoopInv, FrameInv
<1>4. HistoryInv' /\ ModeInv' /\ SaveInv'
    BY <1>1 DEF IInv, HistoryInv, ModeInv, Automatic, SaveInv, Ended
<1>5. ReceivedAsPlanned'
    BY <1>1, StillPlanned
<1>6. SavedAssetsAreReported'
    BY <1>1 DEF IInv, SavedAssetsAreReported
<1> QED
    BY <1>2, <1>3, <1>4, <1>5, <1>6 DEF IInv

LEMMA NoFrameStep == IInv /\ NoFrame => IInv'
<1> SUFFICES ASSUME IInv, NoFrame
             PROVE  IInv'
    OBVIOUS
<1>1. /\ pc = "segment" /\ n <= Len(request.bridges)
      /\ UNCHANGED <<request, library, call_log, received>>
    BY DEF NoFrame, InLoop, Effects
<1>2. CASE Raise
    BY <1>1, <1>2, RaiseStep, LogAsItWas DEF Raise, Current
<1>3. CASE ReportFailure("no_frame")
  <2> DEFINE report == Failure("no_frame")
  <2>1. /\ report \in ReportRecord /\ report.segment = n /\ report.saved = {}
        /\ report.cause = "no_frame"
      BY Known DEF Failure, ReportRecord, Causes
  <2>2. Report(report, <<>>)
      BY <1>3 DEF ReportFailure
  <2>3. \A j \in Nat : <<n, j>> \notin library
      BY <1>1 DEF IInv, SaveInv, Ended
  <2> HIDE DEF report
  <2> QED
      BY <1>1, <2>1, <2>2, <2>3, ReportStep, LogAsItWas DEF Ended
<1> QED
    BY <1>2, <1>3 DEF NoFrame

\* The images of a segment, as ReceivedAsPlanned describes them.
LEMMA ImagesAsPlanned ==
  ASSUME IInv, InLoop, ~FrameMissing
  PROVE  /\ segment_image_materials \in Images
         /\ AskedAsPlanned([segment |-> n, images |-> segment_image_materials])
         /\ ~Bridged => Len(segment_image_materials) = request.base
         /\ request.ark /\ Bridged
            => \/ Len(segment_image_materials) = 1
               \/ Len(segment_image_materials) = 2
<1> DEFINE frame == FrameOf(n - 1)
           base == base_image_materials
           images == segment_image_materials
           r == [segment |-> n, images |-> images]
<1>1. /\ base \in Images /\ Len(base) = request.base /\ request.base \in Nat
      /\ \A i \in 1..request.base : base[i].from = "base"
    BY BaseImages, RequestKnown DEF IInv, TypeOK
<1>2. n \in Nat /\ n >= 1 /\ frame \in Image /\ frame.from = "frame"
    BY Known DEF FrameOf, Image
<1>3. previous_segment_last_frame \in {<<>>, <<frame>>}
    BY DEF IInv, FrameInv
<1>4. CASE ~Bridged \/ previous_segment_last_frame = <<>>
  <2>1. images = base
      BY <1>4 DEF segment_image_materials
  <2>2. base # <<>> => base[1].from = "base"
    <3>1. base # <<>> => Len(base) # 0
        BY <1>1, NonEmpty DEF Images
    <3> HIDE DEF base
    <3> QED
        BY <1>1, <3>1
  <2>3. ~(request.ark /\ Bridged)
      BY <1>4 DEF FrameMissing
  <2>4. r.segment = n /\ r.images = base
      BY <2>1
  <2> HIDE DEF r, images
  <2>5. AskedAsPlanned(r)
      BY <2>2, <2>3, <2>4 DEF AskedAsPlanned, Bridged
  <2> QED
      BY <1>1, <2>1, <2>3, <2>5 DEF r, images
<1>5. CASE Bridged /\ previous_segment_last_frame = <<frame>>
  <2>1. CASE previous_segment_last_frame = <<>>
      BY <1>4, <2>1
  <2>2. CASE previous_segment_last_frame # <<>>
    <3>1. images = IF request.ark /\ Len(<<frame>> \o base) > 2
                   THEN SubSeq(<<frame>> \o base, 1, 2) ELSE <<frame>> \o base
        BY <1>5, <2>2 DEF segment_image_materials
    <3> HIDE DEF images, base, frame
    <3>2. /\ images \in Seq(Image) /\ images # <<>> /\ images[1] = frame
          /\ IsPrefix(Tail(images), base)
          /\ Len(images) = Len(base) + 1 \/ (Len(images) = 2 /\ Len(base) + 1 > 2)
          /\ Len(<<frame>> \o base) = Len(base) + 1
      <4>1. \/ images = <<frame>> \o base
            \/ Len(<<frame>> \o base) > 2 /\ images = SubSeq(<<frame>> \o base, 1, 2)
          BY <3>1
      <4>2. base \in Seq(Image) /\ frame \in Image
          BY <1>1, <1>2 DEF Images
      <4> QED
          BY <4>1, <4>2, StitchedShape
    <3>3. request.ark => Len(images) <= 2 /\ Len(images) >= 1
      <4>1. CASE request.ark /\ Len(<<frame>> \o base) > 2
        <5>1. Len(images) = 2
            BY <1>1, <3>1, <3>2, <4>1, Two DEF Images
        <5> QED
            BY <5>1
      <4>2. CASE ~(request.ark /\ Len(<<frame>> \o base) > 2)
        <5>1. images = <<frame>> \o base
            BY <3>1, <4>2
        <5>2. Len(images) = Len(base) + 1
            BY <3>2, <5>1
        <5> QED
            BY <1>1, <3>2, <4>2, <5>2
      <4> QED
          BY <4>1, <4>2
    <3>4. n > 1 => results[n - 1].segment = n - 1 /\ results[n - 1].status = "success"
        BY <1>2, <2>2, Known DEF IInv, FrameInv
    <3>5. r.segment = n /\ r.images = images
        OBVIOUS
    <3> HIDE DEF r
    <3>6. AskedAsPlanned(r)
        BY <1>2, <1>5, <3>2, <3>4, <3>5 DEF AskedAsPlanned, Bridged, StitchedTo, frame, base
    <3>7. request.ark => Len(images) = 1 \/ Len(images) = 2
      <4>1. SUFFICES ASSUME request.ark
                     PROVE  Len(images) = 1 \/ Len(images) = 2
          OBVIOUS
      <4>2. PICK k \in Nat : k = Len(images)
          BY <3>2, LenProperties
      <4>3. k <= 2 /\ k >= 1
          BY <3>3, <4>1, <4>2
      <4> QED
          BY <4>2, <4>3
    <3> QED
        BY <1>5, <3>2, <3>6, <3>7 DEF r, images, Images
  <2> QED
      BY <2>1, <2>2
<1> QED
    BY <1>3, <1>4, <1>5

\* The mode the service chooses suits the images it has put together.
LEMMA AutomaticAccepted ==
  ASSUME IInv, InLoop, ~FrameMissing, request.ark, Automatic
  PROVE  ArkAccepts
<1>1. request.count = 1 /\ request.base \in Nat /\ request.base <= 2
    BY RequestKnown DEF IInv, TypeOK, Automatic
<1>2. request.input_mode = "unset"
    BY DEF Automatic
<1>3. CASE ~Bridged
  <2>1. Len(segment_image_materials) <= 2
      BY <1>1, <1>3, ImagesAsPlanned
  <2>2. input_mode = "unset"
      BY <1>2, <1>3 DEF input_mode
  <2> QED
      BY <1>1, <2>1, <2>2 DEF ArkAccepts
<1>4. CASE Bridged
  <2>1. Len(segment_image_materials) = 1 \/ Len(segment_image_materials) = 2
      BY <1>4, ImagesAsPlanned
  <2>2. input_mode = IF Len(segment_image_materials) <= 1
                     THEN "first_frame" ELSE "first_last_frame"
      BY <1>2, <1>4 DEF input_mode
  <2>3. CASE Len(segment_image_materials) = 1
    <3>1. input_mode = "first_frame"
        BY <2>2, <2>3
    <3> QED
        BY <1>1, <2>3, <3>1 DEF ArkAccepts
  <2>4. CASE Len(segment_image_materials) = 2
    <3>1. input_mode = "first_last_frame"
        BY <2>2, <2>4
    <3> QED
        BY <1>1, <2>4, <3>1 DEF ArkAccepts
  <2> QED
      BY <2>1, <2>3, <2>4
<1> QED
    BY <1>3, <1>4

LEMMA GatewayRejectsStep == IInv /\ GatewayRejects => IInv'
<1> SUFFICES ASSUME IInv, GatewayRejects
             PROVE  IInv'
    OBVIOUS
<1>1. /\ pc = "segment" /\ n <= Len(request.bridges) /\ pc' = "answered"
      /\ failure' = "rejected" /\ ~Automatic
      /\ UNCHANGED <<request, n, previous_segment_last_frame, outputs, saved, results,
                     library, call_log, received>>
    BY AutomaticAccepted DEF GatewayRejects, InLoop, Effects
<1>2. TypeOK'
    BY <1>1 DEF IInv, TypeOK
<1>3. LoopInv' /\ FrameInv'
    BY <1>1 DEF IInv, LoopInv, FrameInv
<1>4. HistoryInv' /\ ModeInv' /\ SaveInv'
    BY <1>1 DEF IInv, HistoryInv, ModeInv, Automatic, SaveInv, Ended
<1>5. ReceivedAsPlanned'
    BY <1>1, StillPlanned
<1>6. SavedAssetsAreReported'
    BY <1>1 DEF IInv, SavedAssetsAreReported
<1> QED
    BY <1>2, <1>3, <1>4, <1>5, <1>6 DEF IInv

LEMMA CallProviderStep == IInv /\ CallProvider => IInv'
<1> SUFFICES ASSUME IInv, CallProvider
             PROVE  IInv'
    OBVIOUS
<1> DEFINE r == [segment |-> n, images |-> segment_image_materials]
<1>1. /\ InLoop /\ ~FrameMissing /\ received' = Append(received, r)
      /\ pc = "segment" /\ n <= Len(request.bridges) /\ pc' = "called"
      /\ UNCHANGED <<request, n, previous_segment_last_frame, outputs, failure, saved,
                     results, library, call_log>>
    BY DEF CallProvider, InLoop, Current
<1>2. n \in Nat /\ n \in 1..n
    BY Known
<1>3. r \in AskRecord /\ r.segment = n /\ AskedAsPlanned(r)
    BY <1>1, <1>2, ImagesAsPlanned DEF AskRecord
<1> HIDE DEF r
<1>4. received \in Seq(AskRecord) /\ Len(received) \in Nat
    BY LenProperties DEF IInv, HistoryInv
<1>5. /\ received' \in Seq(AskRecord) /\ Len(received') = Len(received) + 1
      /\ \A i \in 1..Len(received) : received'[i] = received[i]
      /\ received'[Len(received) + 1] = r
    BY <1>1, <1>3, <1>4, AppendProperties
<1>6. DOMAIN received' = 1..Len(received) + 1 /\ DOMAIN received = 1..Len(received)
    BY <1>4, <1>5, LenProperties
<1>7. \A i \in 1..Len(received) + 1 : received'[i].segment \in 1..n
    BY <1>2, <1>3, <1>4, <1>5 DEF IInv, HistoryInv
<1>8. TypeOK'
    BY <1>1, <1>6, <1>7 DEF IInv, TypeOK
<1>9. LoopInv' /\ FrameInv'
    BY <1>1 DEF IInv, LoopInv, FrameInv
<1>10. HistoryInv' /\ ModeInv' /\ SaveInv'
    BY <1>1, <1>5, <1>7 DEF IInv, HistoryInv, ModeInv, Automatic, SaveInv, Ended
<1>11. ReceivedAsPlanned'
  <2>1. \A i \in 1..Len(received) :
          received[i] \in AskRecord /\ received[i].segment \in 1..n
      BY ElementOfSeq DEF IInv, HistoryInv
  <2>2. \A i \in DOMAIN received : AskedAsPlanned(received[i])
      BY PlannedOneByOne DEF IInv
  <2>3. SUFFICES ASSUME NEW i \in 1..Len(received) + 1, NEW q, q = received'[i]
                 PROVE  AskedAsPlanned(q)'
      BY <1>6 DEF ReceivedAsPlanned, AskedAsPlanned
  <2>4. q \in AskRecord /\ q.segment \in 1..n /\ AskedAsPlanned(q)
    <3>1. CASE i \in 1..Len(received)
        BY <1>5, <1>6, <2>1, <2>2, <2>3, <3>1
    <3>2. CASE i = Len(received) + 1
        BY <1>2, <1>3, <1>5, <2>3, <3>2
    <3> QED
        BY <1>4, <3>1, <3>2
  <2> QED
      BY <1>1, <1>2, <2>4, StillAsked
<1>12. SavedAssetsAreReported'
    BY <1>1 DEF IInv, SavedAssetsAreReported
<1> QED
    BY <1>8, <1>9, <1>10, <1>11, <1>12 DEF IInv

LEMMA AnsweredStep ==
  ASSUME NEW list \in {<<>>} \union OutputLists, IInv,
         ProviderAnswers(list) \/ ProviderFails
  PROVE  IInv'
<1>1. /\ pc = "called" /\ pc' = "answered"
      /\ failure' \in {"none", "provider"} /\ outputs' \in {outputs, list}
      /\ UNCHANGED <<request, n, previous_segment_last_frame, saved, results,
                     library, call_log, received>>
    BY DEF ProviderAnswers, ProviderFails, Effects
<1>2. TypeOK'
  <2>1. saved = 0
      BY <1>1 DEF IInv, SaveInv, Ended
  <2>2. outputs' \in {<<>>} \union OutputLists
      BY <1>1 DEF IInv, TypeOK
  <2>3. \A l \in {<<>>} \union OutputLists : 0 \in 0..Len(l)
    <3>1. \A l \in OutputLists : l \in Seq(Output)
        BY OutputsAssumption
    <3>2. \A l \in OutputLists : Len(l) \in Nat
        BY <3>1, LenProperties
    <3>3. Len(<<>>) = 0
        OBVIOUS
    <3> QED
        BY <3>2, <3>3
  <2>4. saved' \in 0..Len(outputs')
      BY <1>1, <2>1, <2>2, <2>3
  <2> QED
      BY <1>1, <2>2, <2>4 DEF IInv, TypeOK
<1>3. LoopInv' /\ FrameInv'
    BY <1>1 DEF IInv, LoopInv, FrameInv
<1>4. HistoryInv' /\ ModeInv' /\ SaveInv'
    BY <1>1 DEF IInv, HistoryInv, ModeInv, Automatic, SaveInv, Ended
<1>5. ReceivedAsPlanned'
    BY <1>1, StillPlanned
<1>6. SavedAssetsAreReported'
    BY <1>1 DEF IInv, SavedAssetsAreReported
<1> QED
    BY <1>2, <1>3, <1>4, <1>5, <1>6 DEF IInv

\* The entry of the call keeps the log well formed.
LEMMA EntryWritten ==
  ASSUME IInv, NEW status \in {"success", "error"},
         \/ call_log' = Append(call_log, Entry(status))
         \/ UNCHANGED call_log
  PROVE  LogMayGrow
<1>1. CASE UNCHANGED call_log
    BY <1>1, LogAsItWas
<1>2. CASE call_log' = Append(call_log, Entry(status))
  <2> DEFINE e == Entry(status)
  <2>1. n \in Nat /\ n \in 1..n
      BY Known
  <2>2. e \in CallRecord /\ e.segment = n
      BY <2>1 DEF Entry, CallRecord
  <2> HIDE DEF e
  <2>3. call_log \in Seq(CallRecord) /\ Len(call_log) \in Nat
      BY LenProperties DEF IInv, HistoryInv
  <2>4. /\ call_log' \in Seq(CallRecord) /\ Len(call_log') = Len(call_log) + 1
        /\ \A i \in 1..Len(call_log) : call_log'[i] = call_log[i]
        /\ call_log'[Len(call_log) + 1] = e
      BY <1>2, <2>2, <2>3, AppendProperties DEF e
  <2>5. \A i \in 1..Len(call_log) + 1 : call_log'[i].segment \in 1..n
      BY <2>1, <2>2, <2>3, <2>4 DEF IInv, HistoryInv
  <2> QED
      BY <2>4, <2>5 DEF LogMayGrow
<1> QED
    BY <1>1, <1>2

LEMMA LogCallStep == IInv /\ LogCall => IInv'
<1> SUFFICES ASSUME IInv, LogCall
             PROVE  IInv'
    OBVIOUS
<1>1. /\ pc = "answered" /\ saved = 0 /\ n <= Len(request.bridges)
      /\ UNCHANGED <<request, library, received>>
    BY DEF LogCall, IInv, SaveInv, LoopInv, Ended
<1>2. LogMayGrow
  <2>1. (IF failure = "none" THEN "success" ELSE "error") \in {"success", "error"}
      OBVIOUS
  <2> QED
      BY <2>1, EntryWritten DEF LogCall
<1>3. CASE failure # "none"
  <2>1. failure \in {"rejected", "provider"} /\ ServiceErrorIn(failure)
      BY <1>3 DEF LogCall, IInv, TypeOK
  <2>2. Automatic => failure # "rejected"
      BY DEF IInv, ModeInv
  <2> QED
      BY <1>1, <1>2, <2>1, <2>2, ServiceErrorStep DEF Ended
<1>4. CASE failure = "none"
  <2>1. /\ pc' = "saving"
        /\ UNCHANGED <<n, previous_segment_last_frame, results, outputs, failure, saved>>
      BY <1>4 DEF LogCall, Current
  <2>2. n \in Nat /\ n <= n
      BY Known
  <2>3. TypeOK'
    <3>1. \A i \in DOMAIN call_log' :
            call_log'[i] \in [segment : 1..n, status : {"success", "error"}]
        BY <1>2, <2>2, LogTyped DEF LogMayGrow
    <3> QED
        BY <1>1, <2>1, <3>1 DEF IInv, TypeOK
  <2>4. LoopInv' /\ FrameInv'
      BY <1>1, <2>1 DEF IInv, LoopInv, FrameInv
  <2>5. HistoryInv' /\ ModeInv' /\ SaveInv'
      BY <1>1, <1>2, <2>1
         DEF IInv, HistoryInv, LogMayGrow, ModeInv, Automatic, SaveInv, Ended
  <2>6. ReceivedAsPlanned'
      BY <1>1, <2>1, StillPlanned
  <2>7. SavedAssetsAreReported'
      BY <1>1, <2>1 DEF IInv, SavedAssetsAreReported
  <2> QED
      BY <2>3, <2>4, <2>5, <2>6, <2>7 DEF IInv
<1> QED
    BY <1>3, <1>4

LEMMA RefuseTextStep == IInv /\ RefuseText => IInv'
BY RaiseStep, LogAsItWas DEF RefuseText, Raise, Current, Effects

LEMMA SaveRaisesStep == IInv /\ SaveRaises => IInv'
<1> SUFFICES ASSUME IInv, SaveRaises
             PROVE  IInv'
    OBVIOUS
<1>1. library \subseteq library' /\ library' \subseteq library \union {Asset(saved + 1)}
    BY DEF SaveRaises
<1>2. /\ pc' = "raised"
      /\ UNCHANGED <<request, n, previous_segment_last_frame, results, outputs, failure,
                     saved, call_log, received>>
    BY DEF SaveRaises, Raise, Current
<1> QED
    BY <1>1, <1>2, RaiseStep, LogAsItWas

LEMMA NothingToSaveStep == IInv /\ NothingToSave => IInv'
<1> SUFFICES ASSUME IInv, NothingToSave
             PROVE  IInv'
    OBVIOUS
<1>1. /\ pc = "saving" /\ n <= Len(request.bridges) /\ ServiceErrorIn("unsaved")
      /\ UNCHANGED <<request, library, call_log, received>>
    BY DEF NothingToSave, MoreToSave, Effects, IInv, LoopInv
<1> QED
    BY <1>1, ServiceErrorStep, LogAsItWas DEF Ended

LEMMA SaveOutputStep == IInv /\ SaveOutput => IInv'
<1> SUFFICES ASSUME IInv, SaveOutput
             PROVE  IInv'
    OBVIOUS
<1>1. /\ pc = "saving" /\ pc' = pc /\ saved < Len(outputs)
      /\ library' = library \union {<<n, saved + 1>>} /\ saved' = saved + 1
      /\ UNCHANGED <<request, n, previous_segment_last_frame, outputs, failure, results,
                     call_log, received>>
    BY DEF SaveOutput, MoreToSave, Asset
<1>2. /\ n \in Nat /\ n >= 1 /\ saved \in Nat /\ DOMAIN results = 1..n - 1
      /\ \A i \in 1..n - 1 : results[i].segment = i
    BY Known
<1>3. TypeOK'
  <2>1. Len(outputs) \in Nat
    <3>1. CASE outputs = <<>>
        BY <3>1
    <3>2. CASE outputs \in OutputLists
      <4>1. outputs \in Seq(Output)
          BY <3>2, OutputsAssumption
      <4> QED
          BY <4>1, LenProperties
    <3> QED
        BY <3>1, <3>2 DEF IInv, TypeOK
  <2>2. saved' \in 0..Len(outputs)
      BY <1>1, <1>2, <2>1
  <2>3. library' \subseteq (1..n) \X (Nat \ {0})
      BY <1>1, <1>2 DEF IInv, TypeOK
  <2> QED
      BY <1>1, <2>2, <2>3 DEF IInv, TypeOK
<1>4. LoopInv' /\ FrameInv'
    BY <1>1 DEF IInv, LoopInv, FrameInv
<1>5. HistoryInv' /\ ModeInv'
    BY <1>1 DEF IInv, HistoryInv, ModeInv, Automatic
<1>6. SaveInv'
  <2>1. \A j \in Nat : <<n, j>> \in library <=> j \in 1..saved
      BY <1>1 DEF IInv, SaveInv, Ended
  <2>2. \A j \in Nat : <<n, j>> \in library' <=> j \in 1..saved + 1
      BY <1>1, <1>2, <2>1
  <2> QED
      BY <1>1, <2>2 DEF SaveInv, Ended
<1>7. ReceivedAsPlanned'
    BY <1>1, StillPlanned
<1>8. SavedAssetsAreReported'
    BY <1>1, <1>2 DEF IInv, SavedAssetsAreReported
<1> QED
    BY <1>3, <1>4, <1>5, <1>6, <1>7, <1>8 DEF IInv

LEMMA DeliverStep == IInv /\ Deliver => IInv'
<1> SUFFICES ASSUME IInv, Deliver
             PROVE  IInv'
    OBVIOUS
<1> DEFINE report == Success
           frame == extract_last_frame_material
<1>1. /\ pc = "saving" /\ n <= Len(request.bridges) /\ Report(report, frame)
      /\ UNCHANGED <<request, library, call_log, received>>
    BY DEF Deliver, Effects, IInv, LoopInv
<1>2. frame \in {<<>>, <<FrameOf(n)>>}
    BY DEF extract_last_frame_material
<1>3. n \in Nat /\ saved \in Nat
    BY Known
<1>4. \A j \in Nat : <<n, j>> \in library <=> j \in 1..saved
    BY <1>1 DEF IInv, SaveInv, Ended
<1>5. /\ report.segment = n /\ report.status = "success" /\ report.cause = "none"
      /\ report.saved = {<<n, i>> : i \in 1..saved}
      /\ report = [segment |-> report.segment, status |-> report.status,
                   cause |-> report.cause, saved |-> report.saved]
    BY DEF Success, Asset
<1> HIDE DEF report, frame
<1>6. report.saved \subseteq Nat \X Nat
    BY <1>3, <1>5
<1>7. report \in ReportRecord
    BY <1>3, <1>5, <1>6 DEF ReportRecord
<1>8. report.saved \subseteq library /\ \A j \in 1..saved : <<n, j>> \in report.saved
    BY <1>3, <1>4, <1>5
<1> QED
    BY <1>1, <1>2, <1>4, <1>5, <1>7, <1>8, ReportStep, LogAsItWas DEF Ended

LEMMA ReturnStep == IInv /\ (Return \/ UNCHANGED vars) => IInv'
<1> SUFFICES ASSUME IInv, Return \/ UNCHANGED vars
             PROVE  IInv'
    OBVIOUS
<1>1. UNCHANGED <<request, n, previous_segment_last_frame, outputs, failure, saved, results,
                  library, call_log, received>>
    BY DEF Return, Current, Effects, vars
<1>2. \/ pc' = pc
      \/ pc = "segment" /\ pc' = "returned" /\ n > Len(request.bridges)
    BY DEF Return, vars
<1>3. TypeOK'
    BY <1>1, <1>2 DEF IInv, TypeOK, Ended
<1>4. LoopInv'
  <2>1. n <= Len(request.bridges) + 1 /\ n \in Nat /\ Len(request.bridges) \in Nat
      BY Known, RequestKnown DEF IInv, TypeOK
  <2> QED
      BY <1>1, <1>2, <2>1 DEF IInv, LoopInv
<1>5. FrameInv' /\ HistoryInv' /\ ModeInv' /\ SaveInv'
    BY <1>1, <1>2 DEF IInv, FrameInv, HistoryInv, ModeInv, Automatic, SaveInv, Ended
<1>6. ReceivedAsPlanned'
    BY <1>1, StillPlanned
<1>7. SavedAssetsAreReported'
    BY <1>1 DEF IInv, SavedAssetsAreReported
<1> QED
    BY <1>3, <1>4, <1>5, <1>6, <1>7 DEF IInv

LEMMA NextIInv == IInv /\ [Next]_vars => IInv'
<1> SUFFICES ASSUME IInv, Next \/ UNCHANGED vars
             PROVE  IInv'
    OBVIOUS
<1>1. CASE \E list \in OutputLists : ProviderAnswers(list)
    BY <1>1, AnsweredStep
<1>2. CASE ProviderFails
    BY <1>2, AnsweredStep
<1> QED
    BY <1>1, <1>2, RefuseStep, EnterLoopStep, NoFrameStep, GatewayRejectsStep,
       CallProviderStep, LogCallStep, RefuseTextStep, SaveOutputStep, NothingToSaveStep,
       SaveRaisesStep, DeliverStep, ReturnStep DEF Next

-----------------------------------------------------------------------------
(* The theorems.                                                             *)

\* The inductive invariant holds of every request from its first step on.
LEMMA Invariance == Spec => []IInv
BY InitIInv, NextIInv, PTL DEF Spec

\* Every variable keeps its type, whatever the requests and the answers.
THEOREM TypeCorrect == Spec => []TypeOK
<1>1. IInv => TypeOK
    BY DEF IInv
<1> QED
    BY <1>1, Invariance, PTL

\* segment_image_materials: the provider is asked for what the plan of the batch says, with
\* the frame of the segment just before or with no frame of another segment at all.
THEOREM AskedAsItShould == Spec => []ReceivedAsPlanned
<1>1. IInv => ReceivedAsPlanned
    BY DEF IInv
<1> QED
    BY <1>1, Invariance, PTL

\* _save_..._output and the loop of a batch: no saved asset is missing from its report.
THEOREM AssetsAreReported == Spec => []SavedAssetsAreReported
<1>1. IInv => SavedAssetsAreReported
    BY DEF IInv
<1> QED
    BY <1>1, Invariance, PTL

\* The mode the service picks for a stitched segment is one the gateway accepts.
THEOREM AutomaticModeWorks == Spec => []AutomaticModeIsAccepted
<1>1. IInv => AutomaticModeIsAccepted
  <2> SUFFICES ASSUME IInv
               PROVE  AutomaticModeIsAccepted
      OBVIOUS
  <2>1. DOMAIN results = 1..Len(results)
      BY LenProperties DEF IInv, LoopInv
  <2> QED
      BY <2>1 DEF AutomaticModeIsAccepted, IInv, ModeInv, Automatic
<1> QED
    BY <1>1, Invariance, PTL

-----------------------------------------------------------------------------
(* The call log.  Nothing is logged of a segment before its call has ended,  *)
(* and once it is reported its entry, if any, stays what the report says.    *)

\* The provider did its part, whatever became of the outputs.
Answered(report) == report.status = "success" \/ report.cause = "unsaved"

Agrees(entry, report) ==
  report.cause # "no_frame" /\ (entry.status = "success") = Answered(report)

OneEntryEach ==
  \A j, k \in 1..Len(call_log) : call_log[j].segment = call_log[k].segment => j = k

LogInv ==
  /\ OneEntryEach
  /\ \A k \in 1..Len(call_log) :
       /\ pc \in {"accepted", "segment", "called", "answered"} => call_log[k].segment # n
       /\ pc = "saving" /\ call_log[k].segment = n => call_log[k].status = "success"
       /\ \A i \in 1..n - 1 : call_log[k].segment = i => Agrees(call_log[k], results[i])

\* A step that leaves the log and the list alone: the next phase is no earlier one.
LEMMA LogUntouched ==
  ASSUME IInv, LogInv, UNCHANGED <<call_log, results, n>>,
         \/ pc' \in Ended
         \/ pc' = pc
         \/ pc \in {"accepted", "segment", "called"} /\ pc' \in {"segment", "called", "answered"}
  PROVE  LogInv'
BY DEF LogInv, OneEntryEach, Ended

\* What LogCall leaves of the log: at most one entry of the segment, and the old ones.
LEMMA EntryOnce ==
  ASSUME IInv, LogInv, pc = "answered", NEW status \in {"success", "error"},
         \/ call_log' = Append(call_log, Entry(status))
         \/ UNCHANGED call_log
  PROVE  /\ OneEntryEach'
         /\ \A k \in 1..Len(call_log)' :
              IF call_log'[k].segment = n
              THEN call_log'[k].status = status
              ELSE \E j \in 1..Len(call_log) : call_log'[k] = call_log[j]
<1>1. /\ \A k \in 1..Len(call_log) : call_log[k].segment # n
      /\ OneEntryEach
    BY DEF LogInv
<1>2. CASE UNCHANGED call_log
    BY <1>1, <1>2 DEF OneEntryEach
<1>3. CASE call_log' = Append(call_log, Entry(status))
  <2> DEFINE e == Entry(status)
  <2>1. e \in CallRecord /\ e.segment = n /\ e.status = status
      BY Known DEF Entry, CallRecord
  <2> HIDE DEF e
  <2>2. call_log \in Seq(CallRecord) /\ Len(call_log) \in Nat
      BY LenProperties DEF IInv, HistoryInv
  <2>3. /\ Len(call_log)' = Len(call_log) + 1
        /\ \A k \in 1..Len(call_log) : call_log'[k] = call_log[k]
        /\ call_log'[Len(call_log) + 1] = e
      BY <1>3, <2>1, <2>2, AppendProperties DEF e
  <2>4. \A k \in 1..Len(call_log)' : k \in 1..Len(call_log) \/ k = Len(call_log) + 1
      BY <2>2, <2>3
  <2>5. OneEntryEach'
      BY <1>1, <2>1, <2>3, <2>4 DEF OneEntryEach
  <2> QED
      BY <1>1, <2>1, <2>3, <2>4, <2>5
<1> QED
    BY <1>2, <1>3

\* A report that agrees with what the log has of its segment.
LEMMA ReportLogged ==
  ASSUME IInv, LogInv, NEW report \in ReportRecord, NEW frame, Report(report, frame),
         OneEntryEach',
         \A k \in 1..Len(call_log)' :
           IF call_log'[k].segment = n
           THEN Agrees(call_log'[k], report)
           ELSE \E j \in 1..Len(call_log) : call_log'[k] = call_log[j]
  PROVE  LogInv'
<1>1. pc' = "segment" /\ n' = n + 1 /\ results' = Append(results, report)
    BY DEF Report
<1>2. n \in Nat /\ n >= 1 /\ results \in Seq(ReportRecord) /\ Len(results) = n - 1
    BY Known DEF IInv, LoopInv
<1>3. (\A i \in 1..n - 1 : results'[i] = results[i]) /\ results'[n] = report
    BY <1>1, <1>2, AppendProperties
<1>4. \A j \in 1..Len(call_log) : call_log[j].segment \in 1..n
    BY DEF IInv, HistoryInv
<1>5. ASSUME NEW k \in 1..Len(call_log)'
      PROVE  /\ call_log'[k].segment # n + 1
             /\ \A i \in 1..n : call_log'[k].segment = i => Agrees(call_log'[k], results'[i])
  <2>1. CASE call_log'[k].segment = n
      BY <1>2, <1>3, <1>5, <2>1
  <2>2. CASE call_log'[k].segment # n
    <3>1. PICK j \in 1..Len(call_log) : call_log'[k] = call_log[j]
        BY <1>5, <2>2
    <3>2. call_log[j].segment \in 1..n - 1
        BY <1>2, <1>4, <2>2, <3>1
    <3>3. \A i \in 1..n - 1 : call_log[j].segment = i => Agrees(call_log[j], results[i])
        BY DEF LogInv
    <3> QED
        BY <1>2, <1>3, <3>1, <3>2, <3>3
  <2> QED
      BY <2>1, <2>2
<1> QED
    BY <1>1, <1>2, <1>5 DEF LogInv

\* A call that ended in an error, or a segment never called, is reported as such.
LEMMA FailureLogged ==
  ASSUME IInv, LogInv, NEW cause \in Causes, ReportFailure(cause) \/ Raise,
         OneEntryEach',
         \A k \in 1..Len(call_log)' :
           IF call_log'[k].segment = n
           THEN cause # "no_frame" /\ (call_log'[k].status = "success") = (cause = "unsaved")
           ELSE \E j \in 1..Len(call_log) : call_log'[k] = call_log[j]
  PROVE  LogInv'
<1>1. CASE Raise
  <2>1. pc' = "raised" /\ n' = n /\ results' = results
      BY <1>1 DEF Raise
  <2>2. \A k \in 1..Len(call_log)', i \in 1..n - 1 :
          call_log'[k].segment = i => Agrees(call_log'[k], results[i])
    <3>1. \A k \in 1..Len(call_log)' :
            call_log'[k].segment = n \/ \E j \in 1..Len(call_log) : call_log'[k] = call_log[j]
        OBVIOUS
    <3>2. \A j \in 1..Len(call_log), i \in 1..n - 1 :
            call_log[j].segment = i => Agrees(call_log[j], results[i])
        BY DEF LogInv
    <3> QED
        BY <3>1, <3>2, Known
  <2> QED
      BY <2>1, <2>2 DEF LogInv
<1>2. CASE ReportFailure(cause)
  <2> DEFINE report == Failure(cause)
  <2>1. report \in ReportRecord /\ report.cause = cause /\ report.status = "error"
      BY Known DEF Failure, ReportRecord
  <2>2. Report(report, <<>>)
      BY <1>2 DEF ReportFailure
  <2> HIDE DEF report
  <2>3. \A k \in 1..Len(call_log)' :
          call_log'[k].segment = n => Agrees(call_log'[k], report)
      BY <2>1 DEF Agrees, Answered
  <2> QED
      BY <2>1, <2>2, <2>3, ReportLogged
<1> QED
    BY <1>1, <1>2

LEMMA NoFrameLogged == IInv /\ LogInv /\ NoFrame => LogInv'
<1> SUFFICES ASSUME IInv, LogInv, NoFrame
             PROVE  LogInv'
    OBVIOUS
<1>1. pc = "segment" /\ call_log' = call_log /\ "no_frame" \in Causes
    BY DEF NoFrame, InLoop, Effects, Causes
<1>2. \A k \in 1..Len(call_log) : call_log[k].segment # n
    BY <1>1 DEF LogInv
<1>3. OneEntryEach'
    BY <1>1 DEF LogInv, OneEntryEach
<1>4. ReportFailure("no_frame") \/ Raise
    BY DEF NoFrame
<1> QED
    BY <1>1, <1>2, <1>3, <1>4, FailureLogged

LEMMA LogCallLogged == IInv /\ LogInv /\ LogCall => LogInv'
<1> SUFFICES ASSUME IInv, LogInv, LogCall
             PROVE  LogInv'
    OBVIOUS
<1> DEFINE status == IF failure = "none" THEN "success" ELSE "error"
<1>1. /\ pc = "answered" /\ status \in {"success", "error"}
      /\ call_log' = Append(call_log, Entry(status)) \/ UNCHANGED call_log
    BY DEF LogCall
<1>2. status = "success" <=> failure = "none"
    OBVIOUS
<1> HIDE DEF status
<1>3. /\ OneEntryEach'
      /\ \A k \in 1..Len(call_log)' :
           IF call_log'[k].segment = n
           THEN call_log'[k].status = status
           ELSE \E j \in 1..Len(call_log) : call_log'[k] = call_log[j]
    BY <1>1, EntryOnce
<1>4. CASE failure = "none"
  <2>1. pc' = "saving" /\ n' = n /\ results' = results
      BY <1>4 DEF LogCall
  <2>2. \A k \in 1..Len(call_log)', i \in 1..n - 1 :
          call_log'[k].segment = i => Agrees(call_log'[k], results[i])
      BY <1>3, Known DEF LogInv
  <2> QED
      BY <1>2, <1>3, <1>4, <2>1, <2>2 DEF LogInv
<1>5. CASE failure # "none"
  <2>1. failure \in {"rejected", "provider"} /\ (ReportFailure(failure) \/ Raise)
      BY <1>5 DEF LogCall, ServiceErrorIn, IInv, TypeOK
  <2>2. PICK cause \in Causes :
          cause \notin {"no_frame", "unsaved"} /\ (ReportFailure(cause) \/ Raise)
      BY <2>1 DEF Causes
  <2>3. status = "error"
      BY <1>1, <1>2, <1>5
  <2> QED
      BY <1>3, <2>2, <2>3, FailureLogged
<1> QED
    BY <1>4, <1>5

\* From here on the entry, if any, says that the provider answered.
LEMMA SavingLogged ==
  IInv /\ LogInv /\ (RefuseText \/ SaveOutput \/ NothingToSave \/ SaveRaises \/ Deliver)
  => LogInv'
<1> SUFFICES ASSUME IInv, LogInv,
                    RefuseText \/ SaveOutput \/ NothingToSave \/ SaveRaises \/ Deliver
             PROVE  LogInv'
    OBVIOUS
<1>1. pc = "saving" /\ call_log' = call_log /\ OneEntryEach'
    BY DEF RefuseText, SaveOutput, NothingToSave, SaveRaises, Deliver, MoreToSave, Effects,
           LogInv, OneEntryEach
<1>2. \A k \in 1..Len(call_log) : call_log[k].segment = n => call_log[k].status = "success"
    BY <1>1 DEF LogInv
<1>3. CASE RefuseText \/ SaveOutput \/ SaveRaises
  <2>1. UNCHANGED <<call_log, results, n>> /\ (pc' \in Ended \/ pc' = pc)
      BY <1>1, <1>3 DEF RefuseText, SaveOutput, SaveRaises, Raise, Ended
  <2> QED
      BY <2>1, LogUntouched
<1>4. CASE NothingToSave
  <2>1. "unsaved" \in Causes /\ (ReportFailure("unsaved") \/ Raise)
      BY <1>4 DEF NothingToSave, ServiceErrorIn, Causes
  <2> QED
      BY <1>1, <1>2, <2>1, FailureLogged
<1>5. CASE Deliver
  <2> DEFINE report == Success
  <2>1. report \in ReportRecord /\ report.status = "success" /\ report.cause = "none"
    <3>1. n \in Nat /\ {Asset(i) : i \in 1..saved} \subseteq Nat \X Nat
        BY Known DEF Asset
    <3> QED
        BY <3>1 DEF Success, ReportRecord
  <2>2. Report(report, extract_last_frame_material)
      BY <1>5 DEF Deliver
  <2> HIDE DEF report
  <2>3. \A k \in 1..Len(call_log) : call_log[k].segment = n => Agrees(call_log[k], report)
      BY <1>2, <2>1 DEF Agrees, Answered
  <2> QED
      BY <1>1, <2>1, <2>2, <2>3, ReportLogged
<1> QED
    BY <1>3, <1>4, <1>5

LEMMA NextLogInv == IInv /\ LogInv /\ [Next]_vars => LogInv'
<1> SUFFICES ASSUME IInv, LogInv, Next \/ UNCHANGED vars
             PROVE  LogInv'
    OBVIOUS
<1>1. CASE Refuse \/ EnterLoop \/ GatewayRejects \/ CallProvider \/ ProviderFails \/ Return
           \/ Killed \/ \E list \in OutputLists : ProviderAnswers(list)
  <2>1. /\ UNCHANGED <<call_log, results, n>>
        /\ \/ pc' \in Ended
           \/ /\ pc \in {"accepted", "segment", "called"}
              /\ pc' \in {"segment", "called", "answered"}
      BY <1>1 DEF Refuse, EnterLoop, GatewayRejects, CallProvider, ProviderFails, Return,
                  Killed, ProviderAnswers, InLoop, Effects, Ended
  <2> QED
      BY <2>1, LogUntouched
<1>2. CASE UNCHANGED vars
    BY <1>2, LogUntouched DEF vars
<1> QED
    BY <1>1, <1>2, NoFrameLogged, LogCallLogged, SavingLogged DEF Next

LEMMA LogInvariance == Spec => []LogInv
<1>1. Init => LogInv
  <2> SUFFICES ASSUME Init
               PROVE  LogInv
      OBVIOUS
  <2>1. Len(call_log) = 0
      BY DEF Init
  <2> QED
      BY <2>1 DEF LogInv, OneEntryEach
<1> QED
    BY <1>1, NextLogInv, Invariance, PTL DEF Spec

\* create_call_log and the report of a segment: the log never says otherwise than the list,
\* and a log that fails does not turn a success into a failure.
THEOREM LogIsRight == Spec => []LogAgreesWithReports
<1>1. IInv /\ LogInv => LogAgreesWithReports
  <2> SUFFICES ASSUME IInv, LogInv, NEW i \in DOMAIN results,
                      NEW k \in DOMAIN call_log, call_log[k].segment = results[i].segment
               PROVE  /\ results[i].cause # "no_frame"
                      /\ (call_log[k].status = "success") = Answered(results[i])
                      /\ \A j \in DOMAIN call_log :
                           call_log[j].segment = results[i].segment => j = k
      BY DEF LogAgreesWithReports, Answered
  <2>1. k \in 1..Len(call_log) /\ DOMAIN call_log = 1..Len(call_log)
      BY Known
  <2>2. i \in 1..n - 1 /\ call_log[k].segment = i
      BY Known
  <2> QED
      BY <2>1, <2>2 DEF LogInv, OneEntryEach, Agrees
<1> QED
    BY <1>1, Invariance, LogInvariance, PTL

-----------------------------------------------------------------------------
(* The refinement.                                                           *)

\* What a report says to the caller, and the mapping of the whole list.
Told(report) == [segment |-> report.segment, status |-> report.status]
Mapped(list) == [i \in DOMAIN list |-> [segment |-> list[i].segment, status |-> list[i].status]]
ToldRecord == [segment : Nat, status : {"success", "error"}]

LEMMA MappedIsSeq ==
  ASSUME NEW list \in Seq(ReportRecord)
  PROVE  /\ Mapped(list) \in Seq(ToldRecord) /\ Len(Mapped(list)) = Len(list)
         /\ \A i \in 1..Len(list) : Mapped(list)[i] = Told(list[i])
<1>1. DOMAIN list = 1..Len(list) /\ Len(list) \in Nat
    BY LenProperties
<1>2. \A i \in 1..Len(list) : list[i] \in ReportRecord
    BY ElementOfSeq
<1>3. \A i \in 1..Len(list) :
        [segment |-> list[i].segment, status |-> list[i].status] \in ToldRecord
    BY <1>2 DEF ReportRecord, ToldRecord
<1> QED
    BY <1>1, <1>3 DEF Mapped, Told

LEMMA MappedAppend ==
  ASSUME NEW list \in Seq(ReportRecord), NEW report \in ReportRecord
  PROVE  Mapped(Append(list, report)) = Append(Mapped(list), Told(report))
<1> DEFINE longer == Append(list, report)
           left   == Mapped(longer)
           base   == Mapped(list)
           right  == Append(base, Told(report))
<1>1. /\ longer \in Seq(ReportRecord) /\ Len(longer) = Len(list) + 1 /\ Len(list) \in Nat
      /\ \A i \in 1..Len(list) : longer[i] = list[i]
      /\ longer[Len(list) + 1] = report
    BY AppendProperties, LenProperties
<1> HIDE DEF longer
<1>2. Told(report) \in ToldRecord
    BY DEF Told, ToldRecord, ReportRecord
<1>3. /\ left \in Seq(ToldRecord) /\ Len(left) = Len(list) + 1
      /\ \A i \in 1..Len(list) + 1 : left[i] = Told(longer[i])
    BY <1>1, MappedIsSeq
<1>4. /\ base \in Seq(ToldRecord) /\ Len(base) = Len(list)
      /\ \A i \in 1..Len(list) : base[i] = Told(list[i])
    BY MappedIsSeq
<1> HIDE DEF left, base
<1>5. /\ right \in Seq(ToldRecord) /\ Len(right) = Len(list) + 1
      /\ \A i \in 1..Len(list) : right[i] = base[i]
      /\ right[Len(list) + 1] = Told(report)
    BY <1>2, <1>4, AppendProperties
<1> HIDE DEF right
<1>6. \A i \in 1..Len(list) + 1 : left[i] = right[i]
    BY <1>1, <1>3, <1>4, <1>5
<1>7. left = right
    BY <1>3, <1>5, <1>6, SeqEqual
<1> QED
    BY <1>7 DEF left, right, base, longer

\* What a step may do to what the caller sees.
Reports ==
  /\ pc \notin Ended /\ pc' = "segment" /\ n <= Len(request.bridges)
  /\ \E report \in ReportRecord :
       report.segment = n /\ results' = Append(results, report)

GivesUp == pc \notin Ended /\ pc' \in {"raised", "killed"} /\ results' = results

Finishes ==
  /\ pc = "segment" /\ n > Len(request.bridges) /\ pc' = "returned"
  /\ results' = results

Silent == (pc' = pc \/ (pc \notin Ended /\ pc' \notin Ended)) /\ results' = results

LEMMA ServiceErrorKinds ==
  ASSUME IInv, NEW cause \in Causes, ReportFailure(cause) \/ Raise,
         pc \notin Ended, n <= Len(request.bridges)
  PROVE  Reports \/ GivesUp
<1>1. CASE Raise
    BY <1>1 DEF Raise, GivesUp
<1>2. CASE ReportFailure(cause)
  <2>1. Failure(cause) \in ReportRecord /\ Failure(cause).segment = n
      BY Known DEF Failure, ReportRecord
  <2> QED
      BY <1>2, <2>1 DEF ReportFailure, Report, Reports
<1> QED
    BY <1>1, <1>2

LEMMA StepKinds ==
  ASSUME IInv, Next
  PROVE  request' = request /\ (Reports \/ GivesUp \/ Finishes \/ Silent)
<1>1. CASE Refuse \/ Killed
    BY <1>1 DEF Refuse, Killed, GivesUp, Ended
<1>2. CASE EnterLoop \/ GatewayRejects \/ CallProvider \/ ProviderFails \/ SaveOutput
    BY <1>2 DEF EnterLoop, GatewayRejects, CallProvider, ProviderFails, SaveOutput, Silent,
                InLoop, MoreToSave, Ended
<1>3. CASE \E list \in OutputLists : ProviderAnswers(list)
    BY <1>3 DEF ProviderAnswers, Silent, Ended
<1>4. CASE NoFrame
  <2>1. /\ pc = "segment" /\ n <= Len(request.bridges) /\ request' = request
        /\ ReportFailure("no_frame") \/ Raise
      BY <1>4 DEF NoFrame, InLoop
  <2>2. "no_frame" \in Causes /\ pc \notin Ended
      BY <2>1 DEF Causes, Ended
  <2> QED
      BY <2>1, <2>2, ServiceErrorKinds
<1>5. CASE LogCall
  <2>1. pc = "answered" /\ n <= Len(request.bridges) /\ request' = request /\ pc \notin Ended
      BY <1>5 DEF LogCall, IInv, LoopInv, Ended
  <2>2. CASE failure = "none"
      BY <1>5, <2>1, <2>2 DEF LogCall, Silent, Ended
  <2>3. CASE failure # "none"
    <3>1. failure \in Causes
        BY <2>3 DEF IInv, TypeOK, Causes
    <3>2. ReportFailure(failure) \/ Raise
        BY <1>5, <2>3 DEF LogCall, ServiceErrorIn
    <3>3. PICK cause \in Causes : ReportFailure(cause) \/ Raise
        BY <3>1, <3>2
    <3> QED
        BY <2>1, <3>3, ServiceErrorKinds
  <2> QED
      BY <2>2, <2>3
<1>6. CASE NothingToSave
  <2>1. /\ pc = "saving" /\ n <= Len(request.bridges) /\ request' = request
        /\ ReportFailure("unsaved") \/ Raise
      BY <1>6 DEF NothingToSave, MoreToSave, ServiceErrorIn, IInv, LoopInv
  <2>2. "unsaved" \in Causes /\ pc \notin Ended
      BY <2>1 DEF Causes, Ended
  <2> QED
      BY <2>1, <2>2, ServiceErrorKinds
<1>7. CASE RefuseText \/ SaveRaises
    BY <1>7 DEF RefuseText, SaveRaises, MoreToSave, Raise, GivesUp, Ended
<1>8. CASE Deliver
  <2>1. /\ pc = "saving" /\ n <= Len(request.bridges) /\ request' = request
        /\ Report(Success, extract_last_frame_material)
      BY <1>8 DEF Deliver, IInv, LoopInv
  <2>2. n \in Nat /\ saved \in Nat
      BY Known
  <2>3. Success \in ReportRecord /\ Success.segment = n
    <3>1. {Asset(i) : i \in 1..saved} \subseteq Nat \X Nat
        BY <2>2 DEF Asset
    <3> QED
        BY <2>2, <3>1 DEF Success, ReportRecord
  <2> QED
      BY <2>1, <2>3 DEF Report, Reports, Ended
<1>9. CASE Return
    BY <1>9 DEF Return, Finishes
<1> QED
    BY <1>1, <1>2, <1>3, <1>4, <1>5, <1>6, <1>7, <1>8, <1>9 DEF Next

\* What the request has come to, as BatchPromise sees it.
Outcome ==
  CASE pc = "returned"              -> "returned"
    [] pc \in {"raised", "killed"} -> "raised"
    [] OTHER                        -> "pending"

LEMMA OutcomeIs ==
  /\ pc \notin Ended => Outcome = "pending"
  /\ pc = "returned" => Outcome = "returned"
  /\ pc \in {"raised", "killed"} => Outcome = "raised"
BY DEF Outcome, Ended

LEMMA NextOutcomeIs ==
  /\ pc' \notin Ended => Outcome' = "pending"
  /\ pc' = "returned" => Outcome' = "returned"
  /\ pc' \in {"raised", "killed"} => Outcome' = "raised"
BY DEF Outcome, Ended

LEMMA NextKeepsPromise ==
  ASSUME IInv, [Next]_vars
  PROVE  [Promise!Next]_(Promise!vars)
<1>1. results \in Seq(ReportRecord) /\ Len(results) = n - 1
    BY DEF IInv, LoopInv
<1>2. Len(Mapped(results)) = n - 1
    BY <1>1, MappedIsSeq
<1>3. CASE Next /\ Reports
  <2>1. PICK report \in ReportRecord : report.segment = n /\ results' = Append(results, report)
      BY <1>3 DEF Reports
  <2>2. Mapped(results)' = Append(Mapped(results), [segment |-> n, status |-> report.status])
    <3>1. Mapped(results)' = Mapped(Append(results, report))
        BY <2>1 DEF Mapped
    <3>2. Told(report) = [segment |-> n, status |-> report.status]
        BY <2>1 DEF Told
    <3> QED
        BY <1>1, <3>1, <3>2, MappedAppend
  <2>3. report.status \in {"success", "error"}
      BY DEF ReportRecord
  <2>4. Outcome = "pending" /\ Outcome' = "pending"
      BY <1>3, OutcomeIs, NextOutcomeIs DEF Reports, Ended
  <2>5. n <= Len(request.bridges) /\ request' = request /\ n \in Nat
        /\ Len(request.bridges) \in Nat
      BY <1>3, StepKinds, Known, RequestKnown DEF Reports, IInv, TypeOK
  <2>6. Len(Mapped(results)) < Len(request.bridges) /\ n = Len(Mapped(results)) + 1
      BY <1>2, <2>5
  <2>7. Promise!Report
      BY <2>2, <2>3, <2>4, <2>5, <2>6 DEF Promise!Report, Mapped, Outcome
  <2> QED
      BY <2>7 DEF Promise!Next
<1>4. CASE Next /\ GivesUp
  <2>1. Outcome = "pending" /\ Outcome' = "raised"
      BY <1>4, OutcomeIs, NextOutcomeIs DEF GivesUp
  <2>2. results' = results /\ request' = request
      BY <1>4, StepKinds DEF GivesUp
  <2>3. Promise!Raise
      BY <2>1, <2>2 DEF Promise!Raise, Outcome
  <2> QED
      BY <2>3 DEF Promise!Next
<1>5. CASE Next /\ Finishes
  <2>1. Outcome = "pending" /\ Outcome' = "returned"
      BY <1>5, OutcomeIs, NextOutcomeIs DEF Finishes, Ended
  <2>2. results' = results /\ request' = request
      BY <1>5, StepKinds DEF Finishes
  <2>3. Len(Mapped(results)) = Len(request.bridges)
    <3>1. /\ n \in Nat /\ n <= Len(request.bridges) + 1 /\ n > Len(request.bridges)
          /\ Len(request.bridges) \in Nat
        BY <1>5, Known, RequestKnown DEF Finishes, IInv, TypeOK
    <3> QED
        BY <1>2, <3>1
  <2>4. Promise!Return
      BY <2>1, <2>2, <2>3 DEF Promise!Return, Outcome, Mapped
  <2> QED
      BY <2>4 DEF Promise!Next
<1>6. CASE Next /\ Silent
  <2>1. Outcome' = Outcome
    <3>1. CASE pc' = pc
        BY <3>1 DEF Outcome
    <3>2. CASE pc \notin Ended /\ pc' \notin Ended
        BY <3>2, OutcomeIs, NextOutcomeIs
    <3> QED
        BY <1>6, <3>1, <3>2 DEF Silent
  <2>2. results' = results /\ request' = request
      BY <1>6, StepKinds DEF Silent
  <2> QED
      BY <2>1, <2>2 DEF Promise!vars, Outcome
<1>7. CASE UNCHANGED vars
    BY <1>7 DEF vars, Promise!vars
<1> QED
    BY <1>3, <1>4, <1>5, <1>6, <1>7, StepKinds

\* For every plan and every order of failures the caller gets one report per segment, in
\* the order of the plan, or nothing.
THEOREM KeepsPromise == Spec => ImplementsPromise
<1>1. Init => Promise!Init
  <2> SUFFICES ASSUME Init
               PROVE  Promise!Init
      OBVIOUS
  <2>1. Len(request.bridges) \in Nat \ {0} /\ results = <<>> /\ pc = "accepted"
      BY RequestKnown DEF Init
  <2>2. DOMAIN results = {}
      BY <2>1
  <2>3. Mapped(results) = <<>>
      BY <2>2 DEF Mapped
  <2> QED
      BY <2>1, <2>3 DEF Promise!Init, Mapped
<1>2. IInv /\ [Next]_vars => [Promise!Next]_(Promise!vars)
    BY NextKeepsPromise
<1> QED
    BY <1>1, <1>2, Invariance, PTL DEF Spec, Promise!Spec, ImplementsPromise

-----------------------------------------------------------------------------
(* The loop is finite: whatever the provider answers and whatever fails, a   *)
(* step leaves fewer segments, an earlier phase of the same segment, or      *)
(* fewer outputs to save.                                                    *)

SegmentsLeft == Len(request.bridges) + 1 - n

PhasesLeft ==
  CASE pc = "accepted" -> 5
    [] pc = "segment"  -> 4
    [] pc = "called"   -> 3
    [] pc = "answered" -> 2
    [] pc = "saving"   -> 1
    [] pc \in Ended    -> 0

OutputsLeft == Len(outputs) - saved

\* The three are natural numbers, and their lexicographic order decreases.
MovesOn ==
  /\ SegmentsLeft \in Nat /\ PhasesLeft \in Nat /\ OutputsLeft \in Nat
  /\ \/ SegmentsLeft' < SegmentsLeft
     \/ SegmentsLeft' = SegmentsLeft /\ PhasesLeft' < PhasesLeft
     \/ /\ SegmentsLeft' = SegmentsLeft /\ PhasesLeft' = PhasesLeft
        /\ OutputsLeft' < OutputsLeft

LEMMA OutputsCounted == IInv => Len(outputs) \in Nat
<1>1. Len(<<>>) \in Nat
    OBVIOUS
<1>2. \A list \in OutputLists : Len(list) \in Nat
    BY OutputsAssumption, LenProperties
<1> QED
    BY <1>1, <1>2 DEF IInv, TypeOK

LEMMA MeasureTyped ==
  ASSUME IInv
  PROVE  SegmentsLeft \in Nat /\ PhasesLeft \in Nat /\ OutputsLeft \in Nat
<1>1. SegmentsLeft \in Nat
    BY Known, RequestKnown DEF SegmentsLeft, IInv, TypeOK
<1>2. PhasesLeft \in Nat
    BY DEF PhasesLeft, IInv, TypeOK, Ended
<1>3. Len(outputs) \in Nat
    BY OutputsCounted
<1>4. OutputsLeft \in Nat
    BY <1>3 DEF OutputsLeft, IInv, TypeOK
<1> QED
    BY <1>1, <1>2, <1>4

LEMMA ReportMovesOn ==
  ASSUME IInv, request' = request, n' = n + 1
  PROVE  SegmentsLeft' < SegmentsLeft
<1>1. n \in Nat /\ Len(request.bridges) \in Nat
    BY Known, RequestKnown DEF IInv, TypeOK
<1>2. SegmentsLeft' = Len(request.bridges) + 1 - (n + 1)
    BY DEF SegmentsLeft
<1>3. SegmentsLeft = Len(request.bridges) + 1 - n
    BY DEF SegmentsLeft
<1>4. \A length, i \in Nat : length + 1 - (i + 1) < length + 1 - i
    OBVIOUS
<1>5. Len(request.bridges) + 1 - (n + 1) < Len(request.bridges) + 1 - n
    BY <1>1, <1>4
<1> QED
    BY <1>2, <1>3, <1>5

LEMMA PhaseMovesOn ==
  ASSUME IInv, request' = request, n' = n,
         \/ pc = "accepted" /\ pc' = "segment"
         \/ pc = "segment" /\ pc' \in {"called", "answered"}
         \/ pc = "called" /\ pc' = "answered"
         \/ pc = "answered" /\ pc' = "saving"
         \/ pc \notin Ended /\ pc' \in Ended
  PROVE  SegmentsLeft' = SegmentsLeft /\ PhasesLeft' < PhasesLeft
BY DEF SegmentsLeft, PhasesLeft, Ended, IInv, TypeOK

LEMMA NextMovesOn == IInv /\ Next => MovesOn
<1> SUFFICES ASSUME IInv, Next
             PROVE  MovesOn
    OBVIOUS
<1>1. request' = request
    BY StepKinds
<1>2. CASE Refuse \/ EnterLoop \/ GatewayRejects \/ CallProvider \/ ProviderFails \/ Return
           \/ Killed \/ \E list \in OutputLists : ProviderAnswers(list)
  <2>1. /\ n' = n
        /\ \/ pc = "accepted" /\ pc' = "segment"
           \/ pc = "segment" /\ pc' \in {"called", "answered"}
           \/ pc = "called" /\ pc' = "answered"
           \/ pc \notin Ended /\ pc' \in Ended
      BY <1>2 DEF Refuse, EnterLoop, GatewayRejects, CallProvider, ProviderFails, Return,
                  Killed, ProviderAnswers, InLoop, Ended
  <2> QED
      BY <1>1, <2>1, MeasureTyped, PhaseMovesOn DEF MovesOn
<1>3. CASE SaveOutput
  <2>1. saved < Len(outputs) /\ saved' = saved + 1 /\ UNCHANGED <<pc, n, outputs>>
      BY <1>3 DEF SaveOutput, MoreToSave
  <2>2. SegmentsLeft' = SegmentsLeft /\ PhasesLeft' = PhasesLeft
      BY <1>1, <2>1 DEF SegmentsLeft, PhasesLeft
  <2>3. OutputsLeft' < OutputsLeft
    <3>1. Len(outputs) \in Nat /\ Len(outputs') = Len(outputs) /\ saved \in Nat
        BY <2>1, Known, OutputsCounted
    <3> QED
        BY <2>1, <3>1 DEF OutputsLeft
  <2> QED
      BY <2>2, <2>3, MeasureTyped DEF MovesOn
<1>4. CASE NoFrame \/ LogCall \/ RefuseText \/ NothingToSave \/ SaveRaises \/ Deliver
  <2>1. pc \in {"segment", "answered", "saving"}
      BY <1>4 DEF NoFrame, InLoop, LogCall, RefuseText, NothingToSave, SaveRaises, Deliver,
                  MoreToSave
  <2>2. \/ n' = n + 1
        \/ n' = n /\ pc' = "raised"
        \/ n' = n /\ pc = "answered" /\ pc' = "saving"
      BY <1>4 DEF NoFrame, LogCall, RefuseText, NothingToSave, SaveRaises, Deliver,
                  ServiceErrorIn, ReportFailure, Report, Raise
  <2> QED
      BY <1>1, <2>1, <2>2, MeasureTyped, ReportMovesOn, PhaseMovesOn DEF MovesOn, Ended
<1> QED
    BY <1>2, <1>3, <1>4 DEF Next

\* The loop of a batch and the loops over outputs: no request goes round for ever.
THEOREM LoopIsFinite == Spec => [][MovesOn]_vars
<1>1. IInv /\ [Next]_vars => [MovesOn]_vars
    BY NextMovesOn
<1> QED
    BY <1>1, Invariance, PTL DEF Spec

=============================================================================
