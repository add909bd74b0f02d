----------------------------- MODULE FrameSave -----------------------------
(***************************************************************************)
(* The upload of selected frames and the end of the program                *)
(* (ds_save_frame.c, main from g_main_loop_run on, upload_images_s3.py).   *)
(*                                                                         *)
(* The streaming threads push frames to a GAsyncQueue.  The save thread    *)
(* takes them and runs the upload script for one after the other.  When    *)
(* the bus reports the end of the stream or an error, main leaves its loop *)
(* and cleans up: it waits until the queue is empty, tells the save thread *)
(* to stop, gives up its reference to the queue, the only one there is,    *)
(* and stops the pipeline.  Nobody joins the save thread.                  *)
(*                                                                         *)
(* The script is a process of its own: when the program ends while the     *)
(* save thread waits for it, it goes on.  It looks for the bucket, creates *)
(* it if it is not there, and uploads the image of one frame.  Each of     *)
(* these calls may fail, and may have had its effect when it does.         *)
(***************************************************************************)
EXTENDS Naturals, Sequences, FiniteSets

CONSTANT Frames     \* bound: frames the stream has for upload

ASSUME FramesAssumption == Frames \in Nat

VARIABLES
  frames_queue,     \* g_frames_queue: numbers of frames, oldest first
  freed,            \* the queue's last reference is gone
  pushed,           \* frames pushed so far: 1..pushed
  streaming,        \* the streaming threads run
  bus,              \* what the bus reports: "none", "eos" or "error"
  main_pc,          \* where main is
  stop,             \* g_stop_save_frame_thread
  save_pc,          \* where the save thread is
  frame_info,       \* the frame taken from the queue and not uploaded yet,
                    \* as a sequence
  script_pc,        \* where the upload script is, "idle" if none runs
  script_frame,     \* the frame its arguments name
  bucket,           \* the bucket exists
  stored,           \* the frames whose image is in the bucket
  failed,           \* history: the frames for which a script was not started,
                    \* or reported a failure
  uploaded,         \* history: frames whose script has ended, whatever its
                    \* result, which is not looked at
  used_freed        \* history: a thread used the queue after it was freed

producerVars == <<pushed, streaming, bus>>
mainVars == <<main_pc, stop, freed>>
saveThreadVars == <<save_pc, frame_info, uploaded>>
scriptVars == <<script_pc, script_frame, bucket, stored, failed>>
vars == <<frames_queue, used_freed, producerVars, mainVars, saveThreadVars,
          scriptVars>>

MainPc == {"running", "wait_empty", "set_stop", "unref", "stop_pipeline",
           "exited"}
SavePc == {"check", "poll", "pop", "run", "system", "sleep", "ended"}
ScriptPc == {"idle", "list_buckets", "create_bucket", "upload_file"}

\* Every variable keeps its type, the save thread has a frame in its hands just
\* while it uploads, and a script that runs is about that frame.
TypeOK ==
  /\ frames_queue \in Seq(1..Frames)
  /\ freed \in BOOLEAN
  /\ pushed \in 0..Frames
  /\ streaming \in BOOLEAN
  /\ bus \in {"none", "eos", "error"}
  /\ main_pc \in MainPc
  /\ stop \in BOOLEAN
  /\ save_pc \in SavePc
  /\ frame_info \in Seq(1..Frames)
  /\ Len(frame_info) = IF save_pc \in {"run", "system"} THEN 1 ELSE 0
  /\ script_pc \in ScriptPc
  /\ script_frame \in 0..Frames
  /\ script_pc # "idle" => save_pc = "system" /\ frame_info = <<script_frame>>
  /\ bucket \in BOOLEAN
  /\ stored \in SUBSET (1..Frames)
  /\ failed \in SUBSET (1..Frames)
  /\ uploaded \in Seq(1..Frames)
  /\ used_freed \in BOOLEAN

\* start_save_frame_task has returned and the pipeline is set to PLAYING.
Init ==
  /\ frames_queue = <<>>
  /\ freed = FALSE
  /\ pushed = 0
  /\ streaming = TRUE
  /\ bus = "none"
  /\ main_pc = "running"
  /\ stop = FALSE
  /\ save_pc = "check"
  /\ frame_info = <<>>
  /\ script_pc = "idle"
  /\ script_frame = 0
  /\ bucket \in BOOLEAN
  /\ stored = {}
  /\ failed = {}
  /\ uploaded = <<>>
  /\ used_freed = FALSE

\* When main returns the process ends, and all threads with it.
Alive == main_pc # "exited"

\* The queue is used.  After it was freed anything may come of that; here the
\* use is noted and the queue still found as it was.
UseQueue == used_freed' = (used_freed \/ freed)

-----------------------------------------------------------------------------
(* Variants of the definitions below as a plausible mistake would have      *)
(* written them; the checks of the project substitute them.                 *)

\* The newest frame is taken instead of the oldest.
PopNewest ==
  /\ Alive /\ save_pc = "pop"
  /\ frames_queue # <<>>
  /\ frame_info' = <<frames_queue[Len(frames_queue)]>>
  /\ frames_queue' = SubSeq(frames_queue, 1, Len(frames_queue) - 1)
  /\ save_pc' = "run"
  /\ UseQueue
  /\ UNCHANGED <<uploaded, producerVars, mainVars, scriptVars>>

\* The thread is told to stop before the queue is found empty.
StopsBeforeWaiting ==
  /\ main_pc = "wait_empty"
  /\ stop' = TRUE
  /\ main_pc' = IF frames_queue = <<>> THEN "set_stop" ELSE "wait_empty"
  /\ UseQueue
  /\ UNCHANGED <<frames_queue, freed, producerVars, saveThreadVars, scriptVars>>

\* The queue is not waited for.
StopsWithoutWaiting ==
  /\ main_pc = "wait_empty"
  /\ main_pc' = "set_stop"
  /\ UNCHANGED <<frames_queue, used_freed, freed, stop, producerVars,
                 saveThreadVars, scriptVars>>

\* The thread does not wait for the script (a "&" behind the command).
RunInBackground ==
  /\ Alive /\ save_pc = "run"
  /\ script_pc' = "list_buckets"
  /\ script_frame' = Head(frame_info)
  /\ uploaded' = uploaded \o frame_info
  /\ frame_info' = <<>>
  /\ save_pc' = "poll"
  /\ UNCHANGED <<bucket, stored, failed, frames_queue, used_freed, producerVars,
                 mainVars>>

\* The thread ends when an upload has failed.
SystemGivesUp ==
  /\ Alive /\ save_pc = "system" /\ script_pc = "idle"
  /\ uploaded' = uploaded \o frame_info
  /\ frame_info' = <<>>
  /\ save_pc' = IF Head(frame_info) \in failed THEN "ended" ELSE "poll"
  /\ UNCHANGED <<frames_queue, used_freed, producerVars, mainVars, scriptVars>>

-----------------------------------------------------------------------------
(* The streaming threads and the bus.                                       *)

\* The push of save_frames_for_processing.
PushFrame ==
  /\ Alive /\ streaming /\ pushed < Frames
  /\ pushed' = pushed + 1
  /\ frames_queue' = Append(frames_queue, pushed + 1)
  /\ UseQueue
  /\ UNCHANGED <<streaming, bus, mainVars, saveThreadVars, scriptVars>>

\* The EOS is at the sink, behind the last frame.
EndOfStream ==
  /\ Alive /\ streaming
  /\ streaming' = FALSE
  /\ bus' = IF bus = "none" THEN "eos" ELSE bus
  /\ UNCHANGED <<frames_queue, used_freed, pushed, mainVars, saveThreadVars,
                 scriptVars>>

\* Some element reports an error.  The other threads go on.
BusError ==
  /\ Alive /\ streaming /\ bus = "none"
  /\ bus' = "error"
  /\ UNCHANGED <<frames_queue, used_freed, pushed, streaming, mainVars,
                 saveThreadVars, scriptVars>>

-----------------------------------------------------------------------------
(* The save thread: _save_frame_task.                                       *)

\* while(!g_stop_save_frame_thread), under the mutex.
CheckStop ==
  /\ Alive /\ save_pc = "check"
  /\ save_pc' = IF stop THEN "ended" ELSE "poll"
  /\ UNCHANGED <<frames_queue, used_freed, frame_info, uploaded, producerVars,
                 mainVars, scriptVars>>

\* while (g_async_queue_length (g_frames_queue) != 0)
PollQueue ==
  /\ Alive /\ save_pc = "poll"
  /\ save_pc' = IF frames_queue # <<>> THEN "pop" ELSE "sleep"
  /\ UseQueue
  /\ UNCHANGED <<frames_queue, frame_info, uploaded, producerVars, mainVars,
                 scriptVars>>

\* g_async_queue_pop, which blocks on an empty queue.
PopFrame ==
  /\ Alive /\ save_pc = "pop"
  /\ frames_queue # <<>>
  /\ frame_info' = <<Head(frames_queue)>>
  /\ frames_queue' = Tail(frames_queue)
  /\ save_pc' = "run"
  /\ UseQueue
  /\ UNCHANGED <<uploaded, producerVars, mainVars, scriptVars>>

\* system(cmd) starts the script, or fails to.
RunScript ==
  /\ Alive /\ save_pc = "run"
  /\ save_pc' = "system"
  /\ \/ /\ script_pc' = "list_buckets"
        /\ script_frame' = Head(frame_info)
        /\ UNCHANGED failed
     \/ /\ failed' = failed \cup {Head(frame_info)}
        /\ UNCHANGED <<script_pc, script_frame>>
  /\ UNCHANGED <<frame_info, uploaded, bucket, stored, frames_queue, used_freed,
                 producerVars, mainVars>>

\* system(cmd) returns when the script has ended, and the frame is given up.
SystemReturns ==
  /\ Alive /\ save_pc = "system" /\ script_pc = "idle"
  /\ uploaded' = uploaded \o frame_info
  /\ frame_info' = <<>>
  /\ save_pc' = "poll"
  /\ UNCHANGED <<frames_queue, used_freed, producerVars, mainVars, scriptVars>>

\* usleep(1000)
Sleep ==
  /\ Alive /\ save_pc = "sleep"
  /\ save_pc' = "check"
  /\ UNCHANGED <<frames_queue, used_freed, frame_info, uploaded, producerVars,
                 mainVars, scriptVars>>

SaveFrameTask ==
  \/ CheckStop \/ PollQueue \/ PopFrame \/ RunScript \/ SystemReturns \/ Sleep

-----------------------------------------------------------------------------
(* The upload script.  No step of it asks whether the program is alive.     *)

otherVars == <<frames_queue, used_freed, producerVars, mainVars, saveThreadVars,
               script_frame>>

\* An exception that is not caught ends the script.
ScriptRaises ==
  /\ script_pc' = "idle"
  /\ failed' = failed \cup {script_frame}

\* create_bucket: list_buckets.
ListBuckets ==
  /\ script_pc = "list_buckets"
  /\ \/ /\ script_pc' = IF bucket THEN "upload_file" ELSE "create_bucket"
        /\ UNCHANGED failed
     \/ ScriptRaises
  /\ UNCHANGED <<bucket, stored, otherVars>>

\* create_bucket: the rest of it.  A ClientError makes it return False, which
\* the script does not look at.
CreateBucket ==
  /\ script_pc = "create_bucket"
  /\ bucket' \in {bucket, TRUE}
  /\ \/ script_pc' = "upload_file" /\ UNCHANGED failed
     \/ ScriptRaises
  /\ UNCHANGED <<stored, otherVars>>

\* upload_file_to_bucket, whether it returns False or raises.
UploadFile ==
  /\ script_pc = "upload_file"
  /\ script_pc' = "idle"
  /\ \/ /\ bucket
        /\ stored' = stored \cup {script_frame}
        /\ failed' \in {failed, failed \cup {script_frame}}
     \/ failed' = failed \cup {script_frame} /\ UNCHANGED stored
  /\ UNCHANGED <<bucket, otherVars>>

UploadScript == ListBuckets \/ CreateBucket \/ UploadFile

-----------------------------------------------------------------------------
(* main.                                                                    *)

\* bus_call quits the main loop, for the end of the stream and for an error.
BusCall ==
  /\ main_pc = "running" /\ bus # "none"
  /\ main_pc' = "wait_empty"
  /\ UNCHANGED <<frames_queue, used_freed, freed, stop, producerVars,
                 saveThreadVars, scriptVars>>

\* stop_save_frame_task: one look at the length of the queue.
WaitEmpty ==
  /\ main_pc = "wait_empty"
  /\ main_pc' = IF frames_queue = <<>> THEN "set_stop" ELSE "wait_empty"
  /\ UseQueue
  /\ UNCHANGED <<frames_queue, freed, stop, producerVars, saveThreadVars,
                 scriptVars>>

\* The rest of stop_save_frame_task.
SetStop ==
  /\ main_pc = "set_stop"
  /\ stop' = TRUE
  /\ main_pc' = "unref"
  /\ UNCHANGED <<frames_queue, used_freed, freed, producerVars,
                 saveThreadVars, scriptVars>>

\* g_async_queue_unref(frame_save_queue): nobody else took a reference.
UnrefQueue ==
  /\ main_pc = "unref"
  /\ freed' = TRUE
  /\ main_pc' = "stop_pipeline"
  /\ UNCHANGED <<frames_queue, used_freed, stop, producerVars,
                 saveThreadVars, scriptVars>>

\* gst_element_set_state (pipeline, GST_STATE_NULL) ends the streaming threads.
StopPipeline ==
  /\ main_pc = "stop_pipeline"
  /\ streaming' = FALSE
  /\ main_pc' = "exited"
  /\ UNCHANGED <<frames_queue, used_freed, pushed, bus, freed, stop,
                 saveThreadVars, scriptVars>>

Main == BusCall \/ WaitEmpty \/ SetStop \/ UnrefQueue \/ StopPipeline

-----------------------------------------------------------------------------
Next ==
  \/ PushFrame \/ EndOfStream \/ BusError
  \/ SaveFrameTask \/ UploadScript \/ Main

\* Main, the save thread and the script run whenever they can.  The stream need
\* not end.
Fairness ==
  WF_vars(SaveFrameTask) /\ WF_vars(UploadScript) /\ WF_vars(Main)

Spec == Init /\ [][Next]_vars /\ Fairness

-----------------------------------------------------------------------------
(* Safety.                                                                  *)

\* Frames are uploaded in the order they were pushed, each once, and a frame
\* that was pushed is in the queue, in the save thread's hands, or dealt with,
\* whatever main and the streaming threads do meanwhile.
UploadsFollowPushes ==
  uploaded \o frame_info \o frames_queue = [i \in 1..pushed |-> i]

\* stop_save_frame_task has returned.
Stopped == main_pc \in {"unref", "stop_pipeline", "exited"}

\* After the end of the stream, stop_save_frame_task returns with one frame at
\* most not dealt with.
StopLeavesAtMostOne ==
  (Stopped /\ bus = "eos") => pushed - Len(uploaded) <= 1

\* After the end of the stream, stop_save_frame_task returns when all frames
\* that were queued are uploaded.
StopWaitsForUploads ==
  (Stopped /\ bus = "eos") => Len(uploaded) = pushed

\* Every frame whose script has ended, or could not be started, is in the bucket
\* or counts as failed, and no other is, but for the one the script is at.
Settled == stored \cup failed

AttemptsAreSettled ==
  LET attempted == {uploaded[i] : i \in DOMAIN uploaded}
      inHand == {frame_info[i] : i \in DOMAIN frame_info}
  IN attempted \subseteq Settled /\ Settled \subseteq attempted \cup inHand

\* After the end of the stream the only frame of which there may be no trace
\* when everything is over is the last one that was queued: all others are in
\* the bucket or have failed, whatever failed before them, and the script the
\* program leaves behind still does its work.
OnlyLastVanishes ==
  (main_pc = "exited" /\ script_pc = "idle" /\ bus = "eos") =>
    1..(pushed - 1) \subseteq Settled

\* The inductive invariant.  Frames wait, are in hand and are done in the order
\* they were pushed, which is their number.
InOrder ==
  LET done == Len(uploaded)
      taken == done + Len(frame_info)
  IN /\ pushed = taken + Len(frames_queue)
     /\ \A i \in 1..Len(uploaded) : uploaded[i] = i
     /\ \A i \in 1..Len(frame_info) : frame_info[i] = done + i
     /\ \A i \in 1..Len(frames_queue) : frames_queue[i] = taken + i

\* What has been tried is settled, with the frame in hand once its script has
\* ended; nothing else is.
SettledInv ==
  /\ 1..Len(uploaded) \subseteq Settled
  /\ save_pc = "system" /\ script_pc = "idle" => frame_info[1] \in Settled
  /\ Settled \subseteq 1..(Len(uploaded) + Len(frame_info))

\* main leaves its loop for a reason, and an empty queue at the end of the
\* stream stays empty.
EndInv ==
  /\ main_pc # "running" => bus # "none"
  /\ bus = "eos" => ~streaming
  /\ (main_pc = "set_stop" \/ Stopped) /\ bus = "eos" => frames_queue = <<>>

IInv == TypeOK /\ InOrder /\ SettledInv /\ EndInv

\* When the stream ends as it should, no thread uses the queue after main gave
\* it up.
NoUseAfterUnref == bus = "eos" => ~used_freed

-----------------------------------------------------------------------------
(* Liveness.                                                                *)

\* Once the bus has something to report, main gets through its clean-up: the
\* save thread is alive and empties the queue main waits for.
MainReturns == (bus # "none") ~> (main_pc = "exited")

\* A frame pushed before main starts to wait is uploaded or its upload fails, or
\* the process ends: a script that fails does not keep the next from running.
PushedIsSettled ==
  \A i \in 1..Frames : (pushed >= i) ~> (i \in Settled \/ ~Alive)
=============================================================================
