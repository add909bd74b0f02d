---------------------------- MODULE FpFilterApp ----------------------------
(***************************************************************************)
(* The running application: the filter and its requests (FpFilterControl), *)
(* the upload of the selected frames and the end of main (FrameSave), and  *)
(* the label files, as threads of one process.                             *)
(*                                                                         *)
(*   prompt server --> probes, flags --> streaming threads --> label files *)
(*                                             |                           *)
(*                             frame_save_queue, bus                       *)
(*                                             v                           *)
(*                          save thread and main --> upload script         *)
(*                                                                         *)
(* FrameSave lets the streaming threads push frames as long as the stream  *)
(* has not ended.  Here they push what the filter selects, the end of the  *)
(* stream is reported when the EOS has made its way through the filter,    *)
(* and that this implements FrameSave is a property.                       *)
(***************************************************************************)
EXTENDS FpFilterControl

CONSTANTS
  Unwritable,     \* items whose label file fopen does not open
  CloudWorks      \* the bucket exists, and every upload succeeds

ASSUME UnwritableAssumption == Unwritable \subseteq Items
ASSUME CloudWorksAssumption == CloudWorks \in BOOLEAN

VARIABLES
  labels,         \* frames whose label file is written
  frames_queue,   \* the queue, as places in frame_save_queue
  streaming_on,   \* the sink has not seen the EOS, and the pipeline is not
                  \* stopped
  bus, main_pc, stop, freed, save_pc, frame_info, uploaded, used_freed,
  script_pc, script_frame, bucket, stored, failed    \* of FrameSave

FS == INSTANCE FrameSave WITH
        Frames <- Len(Stream),
        pushed <- Len(frame_save_queue),
        streaming <- streaming_on

endVars == <<streaming_on, bus, main_pc, stop, freed, save_pc, frame_info,
             uploaded, script_pc, script_frame, bucket, stored, failed>>
appVars == <<vars, labels, frames_queue, used_freed, endVars>>

AppInit == Init /\ FS!Init /\ (CloudWorks => bucket) /\ labels = {}

\* What the step delivers to nvvidconv2 of which the label file can be opened.
ArrivingFrames ==
  {d \in {delivered'[i] : i \in DOMAIN delivered' \ DOMAIN delivered} :
     Kind(d.item) = "frame" /\ d.item \notin Unwritable}

-----------------------------------------------------------------------------
(* Variants of the definitions below as a plausible mistake would have      *)
(* written them; the checks of the project substitute them.                 *)

\* The labels of a frame are written if it went through the filter.
WriteLabelsOfFiltered ==
  labels' = labels \cup {d.item : d \in {n \in ArrivingFrames : n.via # NoBin}}

\* The EOS is reported when the detector has pushed it.
SinkPostsEarly == StreamOver /\ UNCHANGED <<vars, labels>> /\ FS!EndOfStream

\* The save thread is told to stop before the queue is found empty.
MainStopsFirst ==
  /\ UNCHANGED <<vars, labels>>
  /\ \/ FS!BusCall \/ FS!StopsBeforeWaiting \/ FS!SetStop \/ FS!UnrefQueue
     \/ FS!StopPipeline

-----------------------------------------------------------------------------
(* The threads that FpFilterControl models.                                 *)

\* g_async_queue_push, if the step queues a frame.
PushSelected ==
  IF frame_save_queue' = frame_save_queue
  THEN UNCHANGED <<frames_queue, used_freed>>
  ELSE /\ frames_queue' = Append(frames_queue, Len(frame_save_queue'))
       /\ FS!UseQueue

\* write_kitti_output, for a frame that has arrived at nvvidconv2.
WriteKittiOutput == labels' = labels \cup {d.item : d \in ArrivingFrames}

\* The prompt server runs until the process ends: nobody waits for it.
Requests ==
  /\ FS!Alive
  /\ PromptServer
  /\ UNCHANGED <<labels, frames_queue, used_freed, endVars>>

\* A timeout needs the main loop.
Timeouts ==
  /\ main_pc = "running"
  /\ MainLoop
  /\ UNCHANGED <<labels, frames_queue, used_freed, endVars>>

\* The streaming threads run on after an error, until the process ends.
Push ==
  /\ FS!Alive
  /\ Detector
  /\ WriteKittiOutput /\ PushSelected
  /\ UNCHANGED endVars

Output(b) ==
  /\ FS!Alive
  /\ BinThread(b)
  /\ WriteKittiOutput /\ PushSelected
  /\ UNCHANGED endVars

-----------------------------------------------------------------------------
(* The threads that FrameSave models, and the sink between the two.         *)

\* The sink posts the EOS some time after it arrived at nvvidconv2.
SinkPostsEos ==
  Eos \in Delivered /\ UNCHANGED <<vars, labels>> /\ FS!EndOfStream

PostsError == UNCHANGED <<vars, labels>> /\ FS!BusError
Failures == CloudWorks => UNCHANGED failed
SaveThread == UNCHANGED <<vars, labels>> /\ FS!SaveFrameTask /\ Failures
Script == UNCHANGED <<vars, labels>> /\ FS!UploadScript /\ Failures
MainThread == UNCHANGED <<vars, labels>> /\ FS!Main

AppNext ==
  \/ Requests \/ Timeouts \/ Push \/ \E b \in Bins : Output(b)
  \/ SinkPostsEos \/ PostsError \/ SaveThread \/ Script \/ MainThread

\* Every thread of the process runs when it can.  No request is owed, no timeout
\* (the main loop may end before it), and no error.
AppFairness ==
  /\ WF_appVars(Push)
  /\ \A b \in Bins : WF_appVars(Output(b))
  /\ WF_appVars(SinkPostsEos)
  /\ WF_appVars(SaveThread) /\ WF_appVars(Script) /\ WF_appVars(MainThread)

AppSpec == AppInit /\ [][AppNext]_appVars /\ AppFairness

-----------------------------------------------------------------------------
(* Properties.                                                              *)

\* The streaming threads, with the filter linked and unlinked while they run,
\* are producers as FrameSave assumes them: no frame is pushed behind the end of
\* the stream, frames are pushed one by one, and the queue is the one that the
\* save thread and main look at.
IsFrameSave == FS!Init /\ [][FS!Next]_FS!vars

FrameItems == {i \in 1..Len(Stream) : Kind(i) = "frame"}

\* "Application also saves kitti labels of the bounding boxes frame by frame":
\* when the end of the stream is reported, the frames without labels are those
\* whose file could not be opened, and one at most for each request to enable
\* the filter.  Disabling it costs none.
LabelsMissing == FrameItems \ (labels \cup Unwritable)
FewLabelsMissing ==
  bus = "eos" => Cardinality(LabelsMissing) <= Cardinality(created)

\* The image of a frame, by its place in the queue.
Image(n) == frame_save_queue[n]

\* What is uploaded are images of frames that arrived through a bin with false
\* positives enough, whose labels are written or could not be; they are uploaded
\* in the order of the stream, each once.  The probe picks the frames, the save
\* thread handles them later, and the bin may be gone by then.
UploadsAreSelected ==
  /\ \A i \in DOMAIN uploaded :
       /\ \E j \in DOMAIN delivered :
            /\ delivered[j].item = Image(uploaded[i])
            /\ delivered[j].via # NoBin
       /\ tp_count[Image(uploaded[i])] <= fp_count[Image(uploaded[i])]
       /\ Image(uploaded[i]) \in labels \cup Unwritable
  /\ \A i, j \in DOMAIN uploaded :
       i < j => Image(uploaded[i]) < Image(uploaded[j])

\* When the program has ended at the end of the stream and no script runs, the
\* probe has no frame in its hands, and every frame that it ever picked, but for
\* the last one, is in the bucket or its upload has failed.
OnlyLastPickedVanishes ==
  (main_pc = "exited" /\ bus = "eos" /\ script_pc = "idle") =>
    LET picked == frame_save_queue \o deciding IN
    1..(Len(picked) - 1) \subseteq FS!Settled

\* The application ends by itself if the filter is never enabled by a request,
\* whatever else is requested, and after any error it reports.
ApplicationEnds ==
  /\ [](created = {}) => <>(main_pc = "exited")
  /\ (bus = "error") ~> (main_pc = "exited")
=============================================================================
