-------------------------- MODULE FpFilterAppProofs --------------------------
(***************************************************************************)
(* The filter and the upload together: for every set of bins, every stream *)
(* and every counts of positives the streaming threads of the running      *)
(* application are producers as FrameSave assumes them.                    *)
(*                                                                         *)
(* The proof needs two facts of the filter.  When the end of the stream    *)
(* has arrived the probe has no frame in its hands, so that no frame is    *)
(* queued after the sink reports the end.  And frames are queued once, so  *)
(* that no more are queued than the stream has.                            *)
(*                                                                         *)
(* The program then keeps the invariants of FrameChannel and of FrameSave. *)
(* From both together follows what becomes of the labels of a frame and of *)
(* its image.                                                              *)
(***************************************************************************)
EXTENDS FpFilterApp, FpFilterChannelProofs

\* The probe has a frame in its hands only while the bin is in the pipeline, and
\* none once the end of the stream has arrived.
HandsInv ==
  /\ deciding # <<>> => <<nvvidconv1, nvvidconv2>> \notin links
  /\ Eos \in Delivered => deciding = <<>>

OnlyFrames == Queued \in Seq(FrameItems)

\* The stream ends with its EOS, or with the program.
StreamingInv == ~streaming_on => Eos \in Delivered \/ main_pc = "exited"

\* A frame that has arrived has its labels.
LabelInv ==
  \A i \in DOMAIN delivered :
    Kind(delivered[i].item) = "frame" => delivered[i].item \in labels \cup Unwritable

\* The bus reports the end of the stream when it has arrived.
ReportedInv == bus = "eos" => Eos \in Delivered

FilterInv ==
  /\ IInv /\ OrderInv /\ QueueFollowsDelivery /\ HandsInv /\ OnlyFrames
  /\ IsFiniteSet(created)

AppInv == FilterInv /\ StreamingInv /\ LabelInv /\ ReportedInv

-----------------------------------------------------------------------------
(* The probe's hands.                                                       *)

LEMMA DeliveredGrows ==
  ASSUME IInv, OrderInv, [Next]_vars
  PROVE  Delivered \subseteq Delivered'
<1>1. CASE delivered' = delivered
  BY <1>1 DEF Delivered
<1>2. ASSUME NEW e \in Arrival, delivered' = Append(delivered, e)
      PROVE  Delivered \subseteq Delivered'
  <2>1. delivered \in Seq(Arrival)
    BY DEF IInv, TypeOK, LinkTypeOK, Arrival
  <2>2. /\ DOMAIN delivered = 1..Len(delivered) /\ Len(delivered) \in Nat
        /\ DOMAIN delivered' = 1..(Len(delivered) + 1)
        /\ \A i \in 1..Len(delivered) : delivered'[i] = delivered[i]
    BY <1>2, <2>1, Queue, LenProperties
  <2>3. \A i \in DOMAIN delivered :
          i \in DOMAIN delivered' /\ delivered'[i] = delivered[i]
    BY <2>2
  <2>4. QED
    BY <2>3 DEF Delivered
<1>3. ASSUME NEW b \in Bins, BinOutput(b),
             delivered' = Append(delivered,
                                 [item |-> Head(in_bin[b]), via |-> b])
      PROVE  [item |-> Head(in_bin[b]), via |-> b] \in Arrival
  BY <1>3, OutputMove, ItemTypes, Queue DEF Arrival
<1>4. QED
  BY <1>1, <1>2, <1>3, QueueSteps

\* Behind the end of the stream only an EOS that drains a bin may follow, which
\* does not get out.
LEMMA NothingBehindEos ==
  ASSUME IInv, OrderInv, Eos \in Delivered
  PROVE  StreamOver /\ \A b \in Bins : ~BinOutput(b)
<1>1. PICK k \in DOMAIN delivered : delivered[k].item = Eos
  BY DEF Delivered
<1>2. Eos \in Nat /\ pos \in Nat /\ Eos < pos /\ Eos # DrainEos
  BY <1>1, ItemTypes DEF OrderInv
<1>3. ASSUME NEW b \in Bins, BinOutput(b) PROVE FALSE
  <2>1. in_bin[b] # <<>> /\ Head(in_bin[b]) # DrainEos
    BY <1>3, OutputMove
  <2>2. /\ 1 \in DOMAIN in_bin[b] /\ in_bin[b][1] = Head(in_bin[b])
        /\ in_bin[b][1] \in Items \cup {DrainEos}
    BY <2>1, ItemTypes, Queue, LenProperties, EmptySeq
  <2>3. Eos < in_bin[b][1]
    BY <1>1, <2>1, <2>2 DEF OrderInv, InOrder
  <2>4. QED
    BY <1>2, <2>1, <2>2, <2>3 DEF Items
<1>4. QED
  BY <1>2, <1>3 DEF StreamOver

\* With the bin out of the way the detector links it, and only then.
LEMMA DirectLinked ==
  ASSUME IInv
  PROVE  /\ AddElemProbe => <<nvvidconv1, nvvidconv2>> \in links
         /\ \A b \in Bins :
              BinOutput(b) => <<nvvidconv1, nvvidconv2>> \notin links
<1>1. ASSUME AddElemProbe PROVE DirectPhase
  <2>1. /\ probes \in Seq(Probe) /\ probes # <<>> /\ Head(probes).cb = "add"
        /\ streaming = "pushing"
    BY <1>1, AddMove
  <2>2. ASSUME NEW c \in Bins, ThroughPhase(c) PROVE FALSE
    <3>1. c = NoBin
      BY <2>1, <2>2, ProbesHead DEF ThroughPhase
    <3>2. QED
      BY <3>1, ElementsAssumption
  <2>3. ASSUME NEW c \in Bins, DrainingPhase(c) PROVE FALSE
    BY <2>1, <2>3 DEF DrainingPhase
  <2>4. QED
    BY <2>2, <2>3 DEF IInv, LinkInv
<1>2. ASSUME NEW b \in Bins, BinOutput(b)
      PROVE  <<nvvidconv1, nvvidconv2>> \notin links
  <2>1. b \in playing
    BY <1>2 DEF BinOutput
  <2>2. PICK c \in Bins : Through(c)
    BY <2>1 DEF IInv, LinkInv, DirectPhase, Direct, ThroughPhase, DrainingPhase
  <2>3. QED
    BY <2>2, ElementsAssumption DEF Through
<1>3. QED
  BY <1>1, <1>2 DEF DirectPhase, Direct

LEMMA HandsNext ==
  ASSUME FilterInv, [Next]_vars
  PROVE  HandsInv'
<1> USE DEF FilterInv
<1>0. Eos' = Eos
  BY DEF Eos
<1>1. CASE AddElemProbe /\ AfterFilterBufferProbe
  <2>1. delivered' = delivered
    BY <1>1, AddMove
  <2>2. deciding = <<>> /\ deciding' = <<>>
    BY <1>1, <2>1, DirectLinked DEF HandsInv, AfterFilterBufferProbe
  <2>3. QED
    BY <2>2 DEF HandsInv
<1>2. CASE PadProbe /\ AfterFilterBufferProbe
  BY <1>0, <1>2 DEF PadProbe, AfterFilterBufferProbe, HandsInv, Delivered
<1>3. CASE PassItem /\ AfterFilterBufferProbe
  <2>1. links' = links
    BY <1>3 DEF PassItem
  <2>2. CASE delivered' = delivered
    BY <1>0, <1>3, <2>1, <2>2 DEF AfterFilterBufferProbe, HandsInv, Delivered
  <2>3. CASE delivered' # delivered
    <3>1. /\ <<nvvidconv1, nvvidconv2>> \in links /\ pos \in Items
          /\ delivered' = Append(delivered, [item |-> pos, via |-> NoBin])
      <4>1. pos \in Items
        BY <1>3, ItemTypes DEF PassItem, StreamOver, Items
      <4>2. QED
        BY <1>3, <2>3, <4>1 DEF PassItem
    <3>2. [item |-> pos, via |-> NoBin] \in Arrival /\ delivered \in Seq(Arrival)
      BY <3>1 DEF Arrival, IInv, TypeOK, LinkTypeOK
    <3>3. delivered'[Len(delivered')] = [item |-> pos, via |-> NoBin]
      BY <3>1, <3>2, Queue
    <3>4. deciding' = deciding
      BY <1>3, <3>3 DEF AfterFilterBufferProbe, Selects, FpfilterMetaTaken,
                        UserMeta
    <3>5. deciding' = <<>>
      BY <3>1, <3>4 DEF HandsInv
    <3>6. QED
      BY <3>5 DEF HandsInv
  <2>4. QED
    BY <2>2, <2>3
<1>4. ASSUME NEW b \in Bins, BinOutput(b), deciding = <<>>,
             AfterFilterBufferProbe
      PROVE  HandsInv'
  <2> DEFINE e == [item |-> Head(in_bin[b]), via |-> b]
  <2>1. /\ links' = links /\ delivered' = Append(delivered, e)
        /\ <<nvvidconv1, nvvidconv2>> \notin links
    BY <1>4, DirectLinked DEF BinOutput
  <2>2. e \in Arrival /\ delivered \in Seq(Arrival)
    BY <1>4, OutputMove, ItemTypes, Queue
       DEF Arrival, IInv, TypeOK, LinkTypeOK
  <2>3. /\ Len(delivered) \in Nat /\ Len(delivered') = Len(delivered) + 1
        /\ DOMAIN delivered = 1..Len(delivered)
        /\ DOMAIN delivered' = 1..(Len(delivered) + 1)
        /\ delivered'[Len(delivered) + 1] = e
        /\ \A i \in 1..Len(delivered) : delivered'[i] = delivered[i]
    BY <2>1, <2>2, Queue, LenProperties
  <2>4. Eos \notin Delivered
    BY <1>4, NothingBehindEos
  <2>5. ASSUME Eos \in Delivered' PROVE e.item = Eos
    <3>1. PICK k \in DOMAIN delivered' : delivered'[k].item = Eos
      BY <1>0, <2>5 DEF Delivered
    <3>2. k \notin DOMAIN delivered
      BY <2>3, <2>4, <3>1 DEF Delivered
    <3>3. k = Len(delivered) + 1
      BY <2>3, <3>1, <3>2
    <3>4. QED
      BY <2>3, <3>1, <3>3
  <2>6. ASSUME e.item = Eos PROVE deciding' = <<>>
    <3>1. e.item \notin 1..Len(Stream)
      BY <2>6, ItemTypes
    <3>2. ~Selects(e)
      BY <3>1 DEF Selects
    <3>3. QED
      BY <1>4, <2>3, <3>2 DEF AfterFilterBufferProbe
  <2>7. QED
    BY <1>0, <2>1, <2>5, <2>6 DEF HandsInv
<1>5. ASSUME NEW b \in Bins, RemoveElemProbe(b), deciding = <<>>,
             AfterFilterBufferProbe
      PROVE  HandsInv'
  <2>1. deciding' = <<>>
    BY <1>5 DEF RemoveElemProbe, AfterFilterBufferProbe
  <2>2. QED
    BY <2>1 DEF HandsInv
<1>6. CASE QueueFrame
  BY <1>6 DEF QueueFrame, HandsInv
<1>7. CASE UNCHANGED <<links, delivered, deciding>>
  BY <1>0, <1>7 DEF HandsInv, Delivered
<1>8. CASE PromptServer \/ MainLoop \/ UNCHANGED vars
  BY <1>7, <1>8 DEF PromptServer, MainLoop, SaveStep, EnableFpfilter,
                    DisableFpfilter, vars, linkVars, selectVars
<1>9. CASE Detector
  BY <1>1, <1>2, <1>3, <1>9 DEF Detector
<1>10. QED
  BY <1>4, <1>5, <1>6, <1>8, <1>9 DEF Next, BinThread

-----------------------------------------------------------------------------
(* No more frames are queued than the stream has.                           *)

LEMMA OnlyFramesNext ==
  ASSUME FilterInv, [Next]_vars
  PROVE  OnlyFrames'
<1> USE DEF FilterInv
<1>1. CASE Queued' = Queued
  BY <1>1 DEF OnlyFrames
<1>2. ASSUME NEW b \in Bins, Head(in_bin[b]) \in FrameItems,
             Queued' = Append(Queued, Head(in_bin[b]))
      PROVE  OnlyFrames'
  BY <1>2, Queue DEF OnlyFrames, FrameItems
<1>3. QED
  BY <1>1, <1>2, QueueSteps DEF FrameItems

LEMMA FilterInvNext ==
  ASSUME FilterInv, [Next]_vars
  PROVE  FilterInv'
<1>1. IInv' /\ OrderInv'
  BY InvNext, OrderNext DEF FilterInv
<1>2. QueueFollowsDelivery'
  BY FollowsNext DEF FilterInv
<1>3. HandsInv' /\ OnlyFrames'
  BY HandsNext, OnlyFramesNext
<1>4. IsFiniteSet(created')
  BY CreatedFinite DEF FilterInv
<1>5. QED
  BY <1>1, <1>2, <1>3, <1>4 DEF FilterInv

\* A queue without repetitions is no longer than the stream.
LEMMA QueueFits ==
  ASSUME FilterInv
  PROVE  Len(Queued) <= Len(Stream)
<1> DEFINE q == Queued
<1>1. q \in Seq(1..Len(Stream)) /\ Len(Stream) \in Nat
  <2>1. Queued \in Seq(FrameItems)
    BY DEF FilterInv, OnlyFrames
  <2>2. FrameItems \subseteq 1..Len(Stream)
    BY DEF FrameItems
  <2>3. Queued \in Seq(1..Len(Stream))
    BY <2>1, <2>2, QueueOfMore, Zenon
  <2>4. QED
    BY <2>3, StreamTypes
<1>2. /\ Len(q) \in Nat /\ DOMAIN q = 1..Len(q)
      /\ q \in [1..Len(q) -> 1..Len(Stream)]
  BY <1>1, LenProperties
<1>3. \A i, j \in DOMAIN q : i < j => q[i] < q[j]
  BY DEF FilterInv, QueueFollowsDelivery, Queued
<1> HIDE DEF q
<1>4. ASSUME NEW i \in 1..Len(q), NEW j \in 1..Len(q), q[i] = q[j]
      PROVE  i = j
  <2>1. /\ i \in Int /\ j \in Int /\ q[i] \in Int /\ q[j] \in Int
        /\ ~(i < j) /\ ~(j < i)
    BY <1>1, <1>2, <1>3, <1>4
  <2>2. QED
    BY <2>1
<1>5. q \in Injection(1..Len(q), 1..Len(Stream))
  BY <1>2, <1>4 DEF Injection, IsInjective
<1>6. /\ IsFiniteSet(1..Len(Stream))
      /\ Cardinality(1..Len(Stream)) = Len(Stream)
      /\ Cardinality(1..Len(q)) = Len(q)
  <2>1. 1 \in Int /\ Len(Stream) \in Int /\ Len(q) \in Int
    BY <1>1, <1>2
  <2>2. /\ IsFiniteSet(1..Len(Stream))
        /\ Cardinality(1..Len(Stream))
             = IF 1 > Len(Stream) THEN 0 ELSE Len(Stream) - 1 + 1
        /\ Cardinality(1..Len(q)) = IF 1 > Len(q) THEN 0 ELSE Len(q) - 1 + 1
    BY <2>1, FS_Interval
  <2>3. QED
    BY <1>1, <1>2, <2>2
<1>7. Cardinality(1..Len(q)) <= Cardinality(1..Len(Stream))
  BY <1>5, <1>6, FS_Injection
<1>8. QED
  BY <1>6, <1>7 DEF q

-----------------------------------------------------------------------------
(* The application.                                                         *)

\* Each of its steps is one of the filter, or leaves the filter alone.
LEMMA AppStep ==
  ASSUME [AppNext]_appVars
  PROVE  [Next]_vars
BY DEF AppNext, Requests, Timeouts, Push, Output, SinkPostsEos, PostsError,
       SaveThread, Script, MainThread, Next, appVars

LEMMA AppStart == AppInit => AppInv
<1> SUFFICES ASSUME AppInit PROVE AppInv
  OBVIOUS
<1>1. Init /\ FS!Init
  BY DEF AppInit
<1>2. IInv /\ OrderInv
  BY <1>1, InvStart, OrderStart
<1>3. /\ deciding = <<>> /\ frame_save_queue = <<>> /\ delivered = <<>>
  BY <1>1 DEF Init
<1>4. Queued = <<>>
  BY <1>3 DEF Queued
<1>5. QueueFollowsDelivery /\ HandsInv /\ OnlyFrames
  BY <1>3, <1>4 DEF QueueFollowsDelivery, HandsInv, OnlyFrames, Queued
<1>6. StreamingInv /\ ReportedInv
  BY <1>1 DEF FS!Init, StreamingInv, ReportedInv
<1>7. LabelInv /\ IsFiniteSet(created)
  BY <1>1, <1>3, StartIsChannelStart DEF LabelInv
<1>8. QED
  BY <1>2, <1>5, <1>6, <1>7 DEF AppInv, FilterInv

\* The stream is on until its EOS has arrived or the program ends.
LEMMA StreamingNext ==
  ASSUME AppInv, [AppNext]_appVars
  PROVE  StreamingInv'
<1>1. Delivered \subseteq Delivered' /\ Eos' = Eos
  BY AppStep, DeliveredGrows DEF AppInv, FilterInv, Eos
<1>2. CASE UNCHANGED <<streaming_on, main_pc>>
  BY <1>1, <1>2 DEF AppInv, StreamingInv
<1>3. CASE SinkPostsEos
  BY <1>1, <1>3 DEF SinkPostsEos, StreamingInv
<1>4. CASE MainThread
  <2>1. CASE FS!StopPipeline
    BY <2>1 DEF FS!StopPipeline, StreamingInv
  <2>2. CASE FS!BusCall \/ FS!WaitEmpty \/ FS!SetStop \/ FS!UnrefQueue
    <3>1. streaming_on' = streaming_on /\ main_pc # "exited"
      BY <2>2 DEF FS!BusCall, FS!WaitEmpty, FS!SetStop, FS!UnrefQueue,
                  FS!producerVars
    <3>2. QED
      BY <1>1, <3>1 DEF AppInv, StreamingInv
  <2>3. QED
    BY <1>4, <2>1, <2>2 DEF MainThread, FS!Main
<1>5. CASE SaveThread \/ Script
  <2>1. UNCHANGED <<streaming_on, main_pc>>
    BY <1>5 DEF SaveThread, Script, FS!SaveFrameTask, FS!UploadScript,
       FS!CheckStop, FS!PollQueue, FS!PopFrame, FS!RunScript, FS!SystemReturns,
       FS!Sleep, FS!ListBuckets, FS!CreateBucket, FS!UploadFile,
       FS!producerVars, FS!mainVars, FS!otherVars
  <2>2. QED
    BY <1>2, <2>1
<1>6. CASE PostsError
  BY <1>2, <1>6 DEF PostsError, FS!BusError, FS!mainVars
<1>7. CASE Requests \/ Timeouts \/ Push \/ \E b \in Bins : Output(b)
  BY <1>2, <1>7 DEF Requests, Timeouts, Push, Output, endVars
<1>8. CASE UNCHANGED appVars
  BY <1>2, <1>8 DEF appVars, endVars
<1>9. QED
  BY <1>3, <1>4, <1>5, <1>6, <1>7, <1>8 DEF AppNext

\* What a step of the filter adds to what has been delivered.
LEMMA DeliverySteps ==
  ASSUME FilterInv, [Next]_vars
  PROVE  /\ delivered \in Seq(Arrival)
         /\ \/ delivered' = delivered
            \/ \E e \in Arrival : delivered' = Append(delivered, e)
<1>1. delivered \in Seq(Arrival)
  BY DEF FilterInv, IInv, TypeOK, LinkTypeOK, Arrival
<1>2. ASSUME NEW b \in Bins, Head(in_bin[b]) \in 1..Len(Stream)
      PROVE  [item |-> Head(in_bin[b]), via |-> b] \in Arrival
  BY <1>2, StreamTypes DEF Arrival, Items, Eos
<1>3. QED
  BY <1>1, <1>2, QueueSteps DEF FilterInv

\* The labels are written in the step that delivers the frame.
LEMMA LabelsWritten ==
  ASSUME LabelInv, FilterInv, [Next]_vars, WriteKittiOutput
  PROVE  LabelInv'
<1>1. labels' = labels \cup {d.item : d \in ArrivingFrames}
  BY DEF WriteKittiOutput
<1>2. CASE delivered' = delivered
  BY <1>1, <1>2 DEF LabelInv
<1>3. ASSUME NEW e \in Arrival, delivered' = Append(delivered, e)
      PROVE  LabelInv'
  <2> DEFINE n == Len(delivered)
  <2>1. /\ n \in Nat /\ DOMAIN delivered = 1..n
        /\ DOMAIN delivered' = 1..(n + 1) /\ delivered'[n + 1] = e
        /\ \A i \in 1..n : delivered'[i] = delivered[i]
    BY <1>3, DeliverySteps, Queue, LenProperties
  <2> HIDE DEF n
  <2>2. n + 1 \in DOMAIN delivered' \ DOMAIN delivered
    BY <2>1
  <2>3. Kind(e.item) = "frame" => e.item \in labels' \cup Unwritable
    <3>1. CASE Kind(e.item) = "frame" /\ e.item \notin Unwritable
      <4>1. e \in ArrivingFrames
        BY <2>1, <2>2, <3>1 DEF ArrivingFrames
      <4>2. QED
        BY <1>1, <4>1
    <3>2. QED
      BY <3>1
  <2>4. ASSUME NEW i \in DOMAIN delivered', Kind(delivered'[i].item) = "frame"
        PROVE  delivered'[i].item \in labels' \cup Unwritable
    <3>1. CASE i \in DOMAIN delivered
      BY <1>1, <2>1, <2>4, <3>1 DEF LabelInv
    <3>2. CASE i = n + 1
      BY <2>1, <2>3, <2>4, <3>2
    <3>3. QED
      BY <2>1, <3>1, <3>2
  <2>5. QED
    BY <2>4 DEF LabelInv, Kind
<1>4. QED
  BY <1>2, <1>3, DeliverySteps

LEMMA LabelNext ==
  ASSUME AppInv, [AppNext]_appVars
  PROVE  LabelInv'
<1>1. CASE Push \/ \E b \in Bins : Output(b)
  BY <1>1, AppStep, LabelsWritten DEF AppInv, Push, Output
<1>2. CASE UNCHANGED <<labels, delivered>>
  BY <1>2 DEF AppInv, LabelInv, Kind
<1>3. CASE Requests \/ Timeouts
  BY <1>2, <1>3 DEF Requests, Timeouts, PromptServer, MainLoop, SaveStep,
     EnableFpfilter, DisableFpfilter, linkVars
<1>4. CASE SinkPostsEos \/ PostsError \/ SaveThread \/ Script \/ MainThread
  BY <1>2, <1>4 DEF SinkPostsEos, PostsError, SaveThread, Script, MainThread,
     vars, linkVars
<1>5. CASE UNCHANGED appVars
  BY <1>2, <1>5 DEF appVars, vars, linkVars
<1>6. QED
  BY <1>1, <1>3, <1>4, <1>5 DEF AppNext

\* The bus gets its message of the end from the sink, and of an error first.
LEMMA ReportedNext ==
  ASSUME AppInv, [AppNext]_appVars
  PROVE  ReportedInv'
<1>1. Delivered \subseteq Delivered' /\ Eos' = Eos
  BY AppStep, DeliveredGrows DEF AppInv, FilterInv, Eos
<1>2. CASE bus' = bus
  BY <1>1, <1>2 DEF AppInv, ReportedInv
<1>3. CASE SinkPostsEos
  BY <1>1, <1>3 DEF SinkPostsEos, ReportedInv
<1>4. CASE PostsError
  BY <1>4 DEF PostsError, FS!BusError, ReportedInv
<1>5. CASE SaveThread \/ Script \/ MainThread
  <2>1. bus' = bus
    BY <1>5 DEF SaveThread, Script, MainThread, FS!SaveFrameTask,
       FS!UploadScript, FS!Main, FS!CheckStop, FS!PollQueue, FS!PopFrame,
       FS!RunScript, FS!SystemReturns, FS!Sleep, FS!ListBuckets,
       FS!CreateBucket, FS!UploadFile, FS!BusCall, FS!WaitEmpty, FS!SetStop,
       FS!UnrefQueue, FS!StopPipeline, FS!producerVars, FS!otherVars
  <2>2. QED
    BY <1>2, <2>1
<1>6. CASE Requests \/ Timeouts \/ Push \/ \E b \in Bins : Output(b)
  BY <1>2, <1>6 DEF Requests, Timeouts, Push, Output, endVars
<1>7. CASE UNCHANGED appVars
  BY <1>2, <1>7 DEF appVars, endVars
<1>8. QED
  BY <1>3, <1>4, <1>5, <1>6, <1>7 DEF AppNext

LEMMA AppInvNext == AppInv /\ [AppNext]_appVars => AppInv'
BY AppStep, FilterInvNext, StreamingNext, LabelNext, ReportedNext DEF AppInv

\* Only the step that ends the work of the probe queues anything.
LEMMA OnlyQueueFrameQueues ==
  ASSUME [Next]_vars, ~QueueFrame
  PROVE  frame_save_queue' = frame_save_queue
BY DEF Next, PromptServer, MainLoop, SaveStep, EnableFpfilter, DisableFpfilter,
       Detector, BinThread, AfterFilterBufferProbe, vars, selectVars

\* What FrameSave sees of a step that queues nothing.
LEMMA NothingPushed ==
  ASSUME frame_save_queue' = frame_save_queue,
         UNCHANGED <<frames_queue, used_freed, endVars>>
  PROVE  UNCHANGED FS!vars
BY DEF endVars, FS!vars, FS!producerVars, FS!mainVars, FS!saveThreadVars,
       FS!scriptVars

\* A frame that is queued is a frame pushed while the stream is on.
LEMMA QueuedIsPushed ==
  ASSUME AppInv, FS!Alive, QueueFrame, PushSelected, UNCHANGED endVars
  PROVE  FS!PushFrame
<1> DEFINE n == Len(frame_save_queue)
<1>1. /\ frame_save_queue \in Seq(Items) /\ deciding \in Seq(Items)
      /\ deciding # <<>> /\ Len(deciding) <= 1
      /\ frame_save_queue' = frame_save_queue \o deciding
  BY DEF AppInv, FilterInv, IInv, TypeOK, LateInv, QueueFrame
<1>2. /\ n \in Nat /\ Len(deciding) = 1
      /\ Len(Queued) = n + 1 /\ Len(frame_save_queue') = n + 1
  <2>1. Len(deciding) = 1
    <3>1. /\ Len(deciding) \in Nat /\ Len(deciding) # 0
          /\ Len(deciding) <= 1
      BY <1>1, Queue
    <3>2. \A k \in Nat : k # 0 /\ k <= 1 => k = 1
      OBVIOUS
    <3>3. QED
      BY <3>1, <3>2
  <2>2. QED
    BY <1>1, <2>1, ConcatProperties, LenProperties DEF Queued
<1>3. n < Len(Stream)
  <2>1. n + 1 <= Len(Stream) /\ Len(Stream) \in Nat
    BY <1>2, QueueFits, StreamTypes DEF AppInv
  <2>2. QED
    BY <1>2, <2>1
<1>4. streaming_on
  BY <1>1 DEF AppInv, FilterInv, StreamingInv, HandsInv, FS!Alive
<1>5. frame_save_queue' # frame_save_queue
  BY <1>2
<1>6. frames_queue' = Append(frames_queue, n + 1) /\ FS!UseQueue
  BY <1>2, <1>5 DEF PushSelected
<1>7. QED
  BY <1>2, <1>3, <1>4, <1>6
     DEF FS!PushFrame, endVars, FS!mainVars, FS!saveThreadVars, FS!scriptVars

LEMMA StepIsFrameSaveStep ==
  ASSUME AppInv, [AppNext]_appVars
  PROVE  [FS!Next]_(FS!vars)
<1>1. ASSUME FS!Alive, [Next]_vars, PushSelected, UNCHANGED endVars
      PROVE  [FS!Next]_(FS!vars)
  <2>1. CASE QueueFrame
    BY <1>1, <2>1, QueuedIsPushed DEF FS!Next
  <2>2. CASE ~QueueFrame
    <3>1. frame_save_queue' = frame_save_queue
      BY <1>1, <2>2, OnlyQueueFrameQueues
    <3>2. QED
      BY <1>1, <3>1, NothingPushed DEF PushSelected
  <2>3. QED
    BY <2>1, <2>2
<1>2. CASE Push \/ \E b \in Bins : Output(b)
  BY <1>1, <1>2, AppStep DEF Push, Output
<1>3. CASE Requests \/ Timeouts
  <2>1. frame_save_queue' = frame_save_queue
    BY <1>3 DEF Requests, Timeouts, PromptServer, MainLoop, SaveStep,
                EnableFpfilter, DisableFpfilter
  <2>2. QED
    BY <1>3, <2>1, NothingPushed DEF Requests, Timeouts
<1>4. CASE SinkPostsEos \/ PostsError \/ SaveThread \/ Script \/ MainThread
  BY <1>4 DEF SinkPostsEos, PostsError, SaveThread, Script, MainThread, FS!Next
<1>5. CASE UNCHANGED appVars
  BY <1>5, NothingPushed DEF appVars, vars, selectVars
<1>6. QED
  BY <1>2, <1>3, <1>4, <1>5 DEF AppNext

\* The streaming threads of the running application, with the filter linked and
\* unlinked while they run, are producers as FrameSave assumes them: no frame is
\* pushed behind the end of the stream, frames are pushed one by one and no more
\* than the stream has, and nobody else touches what save thread and main share.
THEOREM ImplementsFrameSave == AppSpec => IsFrameSave
<1>1. AppInit => FS!Init
  BY DEF AppInit
<1>2. AppInv /\ [AppNext]_appVars => [FS!Next]_(FS!vars)
  BY StepIsFrameSaveStep
<1>3. QED
  BY <1>1, <1>2, AppStart, AppInvNext, PTL DEF AppSpec, IsFrameSave

-----------------------------------------------------------------------------
(* The labels at the end of the stream.                                     *)

\* What is in flight is in a bin.
LEMMA FlightIsInBin ==
  ASSUME IInv, OrderInv, NEW i \in DOMAIN Flight
  PROVE  \E b \in Bins : \E k \in DOMAIN in_bin[b] : Flight[i] = in_bin[b][k]
<1>1. \E c \in Bins : in_bin[c] # <<>>
  BY DEF Flight
<1> DEFINE b == CHOOSE c \in Bins : in_bin[c] # <<>>
           s == in_bin[b]
<1>2. b \in Bins /\ s # <<>>
  BY <1>1
<1>3. s \in Seq(Contents)
  BY <1>2, Typed
<1>4. Flight = IF s[Len(s)] = DrainEos THEN SubSeq(s, 1, Len(s) - 1) ELSE s
  BY <1>1 DEF Flight
<1> HIDE DEF b, s
<1>5. i \in DOMAIN s /\ Flight[i] = s[i]
  <2>1. CASE s[Len(s)] = DrainEos
    <3>1. /\ Len(s) \in Nat /\ DOMAIN s = 1..Len(s)
          /\ Flight = SubSeq(s, 1, Len(s) - 1)
      BY <1>3, <1>4, <2>1, LenProperties
    <3>2. DOMAIN Flight = 1..(Len(s) - 1) /\ Flight[i] = s[i]
      BY <1>3, <3>1
    <3>3. QED
      BY <3>1, <3>2
  <2>2. CASE s[Len(s)] # DrainEos
    BY <1>4, <2>2
  <2>3. QED
    BY <2>1, <2>2
<1>6. QED
  BY <1>2, <1>5 DEF s

\* When the end of the stream has arrived no frame is on its way.
LEMMA NoFrameInFlight ==
  ASSUME IInv, OrderInv, Eos \in Delivered, NEW i \in DOMAIN Flight
  PROVE  Flight[i] \notin FrameItems
<1>1. PICK j \in DOMAIN delivered : delivered[j].item = Eos
  BY DEF Delivered
<1>2. PICK b \in Bins : \E k \in DOMAIN in_bin[b] : Flight[i] = in_bin[b][k]
  BY FlightIsInBin
<1>3. PICK k \in DOMAIN in_bin[b] : Flight[i] = in_bin[b][k]
  BY <1>2
<1>4. Flight[i] = DrainEos \/ Eos < Flight[i]
  BY <1>1, <1>3 DEF OrderInv, InOrder
<1>5. \A f \in FrameItems : f \in Nat /\ 0 < f /\ f < Eos
  BY ItemTypes DEF FrameItems
<1>6. Eos \in Nat /\ DrainEos = 0
  BY ItemTypes
<1>7. QED
  BY <1>4, <1>5, <1>6

\* A frame without labels has not arrived, and so it is lost.
LEMMA MissingIsLost ==
  ASSUME AppInv, bus = "eos"
  PROVE  LabelsMissing \subseteq FC!Lost
<1>1. Eos \in Delivered /\ IInv /\ OrderInv
  BY DEF AppInv, FilterInv, ReportedInv
<1>2. SUFFICES ASSUME NEW f \in LabelsMissing PROVE f \in FC!Lost
  OBVIOUS
<1>3. f \in FrameItems /\ f \notin labels \cup Unwritable
  BY DEF LabelsMissing
<1>4. f \in 1..(pos - 1)
  <2>1. /\ pos \in Nat /\ pos > Eos /\ Eos = Len(Stream) + 1
        /\ Len(Stream) \in Nat
    BY <1>1, NothingBehindEos, ItemTypes DEF StreamOver
  <2>2. QED
    BY <1>3, <2>1 DEF FrameItems
<1>5. \A i \in DOMAIN delivered : delivered[i].item # f
  BY <1>3 DEF AppInv, LabelInv, FrameItems
<1>6. \A i \in DOMAIN Flight : Flight[i] # f
  BY <1>1, <1>3, NoFrameInFlight
<1>7. QED
  BY <1>4, <1>5, <1>6 DEF FC!Lost, FC!Range

LEMMA FewMissing ==
  ASSUME AppInv, FC!FewLost
  PROVE  FewLabelsMissing
<1> SUFFICES ASSUME bus = "eos"
             PROVE  Cardinality(LabelsMissing) <= Cardinality(created)
  BY DEF FewLabelsMissing
<1>1. IsFiniteSet(FC!Lost)
  <2>1. pos - 1 \in Int /\ 1 \in Int
    BY ItemTypes DEF AppInv, FilterInv
  <2>2. IsFiniteSet(1..(pos - 1))
    BY <2>1, FS_Interval
  <2>3. FC!Lost \subseteq 1..(pos - 1)
    BY DEF FC!Lost
  <2>4. QED
    BY <2>2, <2>3, FS_Subset
<1>2. /\ Cardinality(LabelsMissing) <= Cardinality(FC!Lost)
      /\ IsFiniteSet(LabelsMissing)
  BY <1>1, MissingIsLost, FS_Subset
<1>3. /\ Cardinality(LabelsMissing) \in Nat /\ Cardinality(FC!Lost) \in Nat
      /\ Cardinality(created) \in Nat
  BY <1>1, <1>2, FS_CardinalityType DEF AppInv, FilterInv
<1>4. Cardinality(FC!Lost) + AddsIn(probes) <= Cardinality(created)
  <2>1. FC!Cardinality(FC!Lost) = Cardinality(FC!Lost)
    BY Zenon DEF FC!Cardinality, Cardinality
  <2>2. QED
    BY <2>1 DEF FC!FewLost, AddsIn
<1>5. AddsIn(probes) \in Nat
  BY OwedFinite, Typed DEF AppInv, FilterInv
<1>6. QED
  BY <1>2, <1>3, <1>4, <1>5

\* The application's stream, too, sees a channel.
THEOREM AppIsFrameChannel == AppSpec => IsFrameChannel
<1>1. AppInv /\ [AppNext]_appVars => [FC!ChannelNext]_(FC!channelVars)
  BY AppStep, StepIsChannelStep DEF AppInv, FilterInv
<1>2. AppInit => FC!ChannelInit
  BY StartIsChannelStart DEF AppInit
<1>3. QED
  BY <1>1, <1>2, AppStart, AppInvNext, PTL
     DEF AppSpec, IsFrameChannel, FC!Channel

\* When the end of the stream is reported, the frames without labels are those
\* whose file could not be opened, and one at most for each request to enable
\* the filter.
THEOREM LabelsComplete == AppSpec => []FewLabelsMissing
<1>1. AppInv /\ FC!FewLost => FewLabelsMissing
  BY FewMissing
<1>2. QED
  BY <1>1, AppIsFrameChannel, ChannelIsProved, AppStart, AppInvNext, PTL
     DEF AppSpec, IsFrameChannel

-----------------------------------------------------------------------------
(* The uploads.                                                             *)

\* FrameSave as its proofs speak of it.
FSP == INSTANCE FrameSaveProofs WITH
         Frames <- Len(Stream),
         pushed <- Len(frame_save_queue),
         streaming <- streaming_on

LEMMA StreamIsFinite == FSP!FramesAssumption
BY StreamTypes DEF FSP!FramesAssumption

LEMMA SaveInitIsProved == FS!Init => FSP!Init
BY DEF FS!Init, FSP!Init

LEMMA SaveStepIsProved == [FS!Next]_(FS!vars) => [FSP!Next]_(FSP!vars)
<1> USE DEF FS!vars, FS!producerVars, FS!mainVars, FS!saveThreadVars,
            FS!scriptVars, FS!otherVars, FSP!vars, FSP!producerVars,
            FSP!mainVars, FSP!saveThreadVars, FSP!scriptVars, FSP!otherVars,
            FS!Alive, FSP!Alive, FS!UseQueue, FSP!UseQueue,
            FS!ScriptRaises, FSP!ScriptRaises
<1>1. FS!PushFrame \/ FS!EndOfStream \/ FS!BusError => FSP!Next
  BY DEF FS!PushFrame, FSP!PushFrame, FS!EndOfStream, FSP!EndOfStream,
         FS!BusError, FSP!BusError, FSP!Next
<1>2. FS!SaveFrameTask => FSP!SaveFrameTask
  BY DEF FS!SaveFrameTask, FSP!SaveFrameTask, FS!CheckStop, FSP!CheckStop,
         FS!PollQueue, FSP!PollQueue, FS!PopFrame, FSP!PopFrame,
         FS!RunScript, FSP!RunScript, FS!SystemReturns, FSP!SystemReturns,
         FS!Sleep, FSP!Sleep
<1>3. FS!UploadScript => FSP!UploadScript
  BY DEF FS!UploadScript, FSP!UploadScript, FS!ListBuckets, FSP!ListBuckets,
         FS!CreateBucket, FSP!CreateBucket, FS!UploadFile, FSP!UploadFile
<1>4. FS!Main => FSP!Main
  BY DEF FS!Main, FSP!Main, FS!BusCall, FSP!BusCall, FS!WaitEmpty,
         FSP!WaitEmpty, FS!SetStop, FSP!SetStop, FS!UnrefQueue,
         FSP!UnrefQueue, FS!StopPipeline, FSP!StopPipeline
<1>5. UNCHANGED FS!vars => UNCHANGED FSP!vars
  OBVIOUS
<1>6. QED
  BY <1>1, <1>2, <1>3, <1>4, <1>5 DEF FS!Next, FSP!Next

\* Main, the save thread and the script keep their invariant.
THEOREM AppKeepsSaveInv == AppSpec => [](AppInv /\ FSP!IInv)
<1>1. AppInit => FSP!IInv
  BY SaveInitIsProved, StreamIsFinite, FSP!InitInv DEF AppInit
<1>2. FSP!IInv /\ AppInv /\ [AppNext]_appVars => FSP!IInv'
  BY StepIsFrameSaveStep, SaveStepIsProved, StreamIsFinite, FSP!NextInv
<1>3. QED
  BY <1>1, <1>2, AppStart, AppInvNext, PTL DEF AppSpec

\* The frame uploaded n-th is the one the probe picked n-th.
LEMMA UploadedIsPicked ==
  ASSUME AppInv, FSP!IInv, NEW n \in DOMAIN uploaded
  PROVE  uploaded[n] = n /\ n \in DOMAIN Queued /\ Image(uploaded[n]) = Queued[n]
<1>1. /\ uploaded \in Seq(1..Len(Stream)) /\ frame_info \in Seq(1..Len(Stream))
      /\ frames_queue \in Seq(1..Len(Stream))
  BY DEF FSP!IInv, FSP!TypeOK
<1>2. /\ Len(uploaded) \in Nat /\ DOMAIN uploaded = 1..Len(uploaded)
      /\ Len(frame_info) \in Nat /\ Len(frames_queue) \in Nat
  BY <1>1, LenProperties
<1>3. /\ Len(frame_save_queue)
           = Len(uploaded) + Len(frame_info) + Len(frames_queue)
      /\ uploaded[n] = n
  BY <1>2 DEF FSP!IInv, FSP!InOrder
<1>4. n \in 1..Len(frame_save_queue)
  BY <1>2, <1>3
<1>5. frame_save_queue \in Seq(Items) /\ deciding \in Seq(Items)
  BY DEF AppInv, FilterInv, IInv, TypeOK
<1>6. n \in 1..Len(Queued) /\ Queued[n] = frame_save_queue[n]
  <2>1. /\ Queued \in Seq(Items)
        /\ Len(Queued) = Len(frame_save_queue) + Len(deciding)
        /\ \A i \in 1..(Len(frame_save_queue) + Len(deciding)) :
             Queued[i] = IF i <= Len(frame_save_queue) THEN frame_save_queue[i]
                         ELSE deciding[i - Len(frame_save_queue)]
    BY <1>5, ConcatProperties DEF Queued
  <2>2. Len(frame_save_queue) \in Nat /\ Len(deciding) \in Nat
    BY <1>5, LenProperties
  <2>3. QED
    BY <1>4, <2>1, <2>2
<1>7. DOMAIN Queued = 1..Len(Queued)
  BY <1>5, ConcatProperties, LenProperties DEF Queued
<1>8. QED
  BY <1>3, <1>6, <1>7 DEF Image

LEMMA SelectedOnly ==
  ASSUME AppInv, FSP!IInv
  PROVE  UploadsAreSelected
<1>1. ASSUME NEW n \in DOMAIN uploaded
      PROVE  /\ \E j \in DOMAIN delivered :
                  /\ delivered[j].item = Image(uploaded[n])
                  /\ delivered[j].via # NoBin
             /\ tp_count[Image(uploaded[n])] <= fp_count[Image(uploaded[n])]
             /\ Image(uploaded[n]) \in labels \cup Unwritable
  <2>1. n \in DOMAIN Queued /\ Image(uploaded[n]) = Queued[n]
    BY UploadedIsPicked
  <2>2. /\ \E j \in DOMAIN delivered :
             delivered[j].item = Queued[n] /\ delivered[j].via # NoBin
        /\ tp_count[Queued[n]] <= fp_count[Queued[n]]
    BY <2>1 DEF AppInv, FilterInv, QueueFollowsDelivery, Queued
  <2>3. Kind(Queued[n]) = "frame"
    <3>1. Queued \in Seq(FrameItems)
      BY DEF AppInv, FilterInv, OnlyFrames
    <3>2. Queued[n] \in FrameItems
      BY <2>1, <3>1, ElementOfSeq, LenProperties
    <3>3. QED
      BY <3>2 DEF FrameItems
  <2>4. Queued[n] \in labels \cup Unwritable
    BY <2>2, <2>3 DEF AppInv, LabelInv
  <2>5. QED
    BY <2>1, <2>2, <2>4
<1>2. ASSUME NEW i \in DOMAIN uploaded, NEW j \in DOMAIN uploaded, i < j
      PROVE  Image(uploaded[i]) < Image(uploaded[j])
  <2>1. /\ i \in DOMAIN Queued /\ Image(uploaded[i]) = Queued[i]
        /\ j \in DOMAIN Queued /\ Image(uploaded[j]) = Queued[j]
    BY UploadedIsPicked
  <2>2. Queued[i] < Queued[j]
    BY <1>2, <2>1 DEF AppInv, FilterInv, QueueFollowsDelivery, Queued
  <2>3. QED
    BY <2>1, <2>2
<1>3. QED
  BY <1>1, <1>2 DEF UploadsAreSelected

\* Only frames that arrived through a bin, with false positives enough and with
\* their labels, are uploaded, once and in the order of the stream, however the
\* save thread lags behind the filter.
THEOREM OnlySelectedUploaded == AppSpec => []UploadsAreSelected
BY SelectedOnly, AppKeepsSaveInv, PTL

\* At the end of the stream the probe's hands are empty, and so the last frame
\* queued is the last one it picked: no other can be without a trace.
THEOREM OnlyLastPickedIsLost == AppSpec => []OnlyLastPickedVanishes
<1>1. AppInv /\ FSP!IInv => OnlyLastPickedVanishes
  <2> SUFFICES ASSUME AppInv, FSP!IInv, main_pc = "exited", bus = "eos"
               PROVE  1..(Len(Queued) - 1) \subseteq FS!Settled
    BY DEF OnlyLastPickedVanishes, Queued
  <2>1. deciding = <<>>
    BY DEF AppInv, FilterInv, ReportedInv, HandsInv
  <2>2. Queued = frame_save_queue
    <3>1. frame_save_queue \in Seq(Items)
      BY DEF AppInv, FilterInv, IInv, TypeOK
    <3>2. QED
      BY <2>1, <3>1, ConcatEmptySeq DEF Queued
  <2>3. 1..(Len(frame_save_queue) - 1) \subseteq FSP!Settled
    BY StreamIsFinite, FSP!LastIsLost DEF FSP!Stopped
  <2>4. QED
    BY <2>2, <2>3 DEF FS!Settled, FSP!Settled
<1>2. QED
  BY <1>1, AppKeepsSaveInv, PTL
=============================================================================
