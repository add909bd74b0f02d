-------------------------- MODULE FrameSaveProofs --------------------------
(***************************************************************************)
(* The invariant IInv of FrameSave is inductive, for every number of       *)
(* frames.  The order of uploads, what a failed upload means for the       *)
(* others, and what is left when main stops the save thread follow.        *)
(***************************************************************************)
EXTENDS FrameSave, QueueLemmas

\* The frame in the save thread's hands.
LEMMA InHand ==
  ASSUME TypeOK, save_pc \in {"run", "system"}
  PROVE  /\ Len(frame_info) = 1 /\ Head(frame_info) = frame_info[1]
         /\ frame_info[1] \in 1..Frames /\ frame_info = <<frame_info[1]>>
<1>1. frame_info \in Seq(1..Frames) /\ Len(frame_info) = 1
  BY DEF TypeOK
<1>2. frame_info # <<>> /\ frame_info[1] \in 1..Frames
  <2>1. frame_info # <<>>
    BY <1>1, EmptySeq
  <2>2. 1 \in 1..Len(frame_info)
    BY <1>1
  <2>3. QED
    BY <1>1, <2>1, <2>2, ElementOfSeq
<1>3. Head(frame_info) = frame_info[1]
  BY <1>1, <1>2, Queue
<1>4. frame_info = <<frame_info[1]>>
  BY <1>1
<1>5. QED
  BY <1>1, <1>2, <1>3, <1>4

\* Its number is the next.
LEMMA NumberInHand ==
  ASSUME TypeOK, InOrder, Len(frame_info) = 1
  PROVE  /\ Len(uploaded) \in Nat
         /\ frame_info[1] \in 1..(Len(uploaded) + Len(frame_info))
BY Queue DEF TypeOK, InOrder

\* The script is about that frame.
LEMMA AtScript ==
  ASSUME TypeOK, script_pc # "idle"
  PROVE  /\ save_pc = "system" /\ Len(frame_info) = 1
         /\ script_frame = frame_info[1] /\ script_frame \in 1..Frames
<1>1. save_pc = "system" /\ frame_info = <<script_frame>>
  BY DEF TypeOK
<1>2. QED
  BY <1>1, InHand

LEMMA InitInv == Init => IInv
<1> SUFFICES ASSUME Init PROVE IInv
  OBVIOUS
<1>1. <<>> \in Seq(1..Frames) /\ Len(<<>>) = 0
  BY EmptySeq
<1>2. TypeOK
  <2>1. Len(frame_info) = 0 /\ save_pc = "check" /\ script_pc = "idle"
    BY <1>1 DEF Init
  <2>2. /\ frames_queue \in Seq(1..Frames)
        /\ frame_info \in Seq(1..Frames)
        /\ uploaded \in Seq(1..Frames)
    BY <1>1 DEF Init
  <2>3. /\ freed \in BOOLEAN /\ streaming \in BOOLEAN /\ stop \in BOOLEAN
        /\ bucket \in BOOLEAN /\ used_freed \in BOOLEAN
    BY Zenon DEF Init
  <2>4. /\ pushed \in 0..Frames /\ script_frame \in 0..Frames
        /\ stored = {} /\ failed = {}
    BY FramesAssumption DEF Init
  <2>5. bus = "none" /\ main_pc = "running"
    BY DEF Init
  <2>6. QED
    BY <2>1, <2>2, <2>3, <2>4, <2>5 DEF TypeOK, MainPc, SavePc, ScriptPc
<1>3. InOrder
  <2>1. Len(uploaded) = 0 /\ Len(frame_info) = 0 /\ Len(frames_queue) = 0
    BY <1>1 DEF Init
  <2>2. QED
    BY <2>1 DEF Init, InOrder
<1>4. SettledInv
  <2>1. Len(uploaded) = 0 /\ Len(frame_info) = 0
    BY <1>1 DEF Init
  <2>2. QED
    BY <2>1 DEF Init, SettledInv, Settled
<1>5. EndInv
  BY DEF Init, EndInv, Stopped
<1>6. QED
  BY <1>2, <1>3, <1>4, <1>5 DEF IInv

-----------------------------------------------------------------------------
(* The streaming threads.                                                   *)

LEMMA PushFrameInv == IInv /\ PushFrame => IInv'
<1> SUFFICES ASSUME IInv, PushFrame PROVE IInv'
  OBVIOUS
<1> USE FramesAssumption DEF IInv
<1>1. pushed + 1 \in 1..Frames
  BY DEF PushFrame, TypeOK
<1>2. /\ Len(frames_queue) \in Nat
      /\ frames_queue' \in Seq(1..Frames)
      /\ Len(frames_queue') = Len(frames_queue) + 1
      /\ frames_queue'[Len(frames_queue) + 1] = pushed + 1
      /\ \A i \in 1..Len(frames_queue) : frames_queue'[i] = frames_queue[i]
  BY <1>1, Queue DEF PushFrame, TypeOK
<1>3. TypeOK'
  BY <1>1, <1>2 DEF PushFrame, TypeOK, UseQueue, producerVars, mainVars,
                    saveThreadVars, scriptVars
<1>4. InOrder'
  <2>1. /\ pushed' = pushed + 1
        /\ uploaded' = uploaded /\ frame_info' = frame_info
    BY DEF PushFrame, saveThreadVars
  <2>2. Len(uploaded) \in Nat /\ Len(frame_info) \in Nat /\ pushed \in Nat
    BY Queue DEF TypeOK
  <2>3. pushed = Len(uploaded) + Len(frame_info) + Len(frames_queue)
    BY DEF InOrder
  <2>4. ASSUME NEW i \in 1..Len(frames_queue')
        PROVE  frames_queue'[i] = Len(uploaded) + Len(frame_info) + i
    <3>1. CASE i \in 1..Len(frames_queue)
      BY <1>2, <3>1 DEF InOrder
    <3>2. CASE i = Len(frames_queue) + 1
      BY <1>2, <2>2, <2>3, <3>2
    <3>3. QED
      BY <1>2, <2>4, <3>1, <3>2
  <2>5. QED
    BY <1>2, <2>1, <2>2, <2>3, <2>4 DEF InOrder
<1>5. SettledInv'
  BY DEF PushFrame, SettledInv, Settled, saveThreadVars, scriptVars
<1>6. EndInv'
  BY DEF PushFrame, EndInv, Stopped, mainVars
<1>7. QED
  BY <1>3, <1>4, <1>5, <1>6

-----------------------------------------------------------------------------
(* Steps that leave every frame where it is.                                *)

frameVars == <<pushed, frames_queue, frame_info, uploaded>>

LEMMA InOrderKept == InOrder /\ UNCHANGED frameVars => InOrder'
BY DEF InOrder, frameVars

\* The end of the stream, and an error.
LEMMA StreamStepInv == IInv /\ (EndOfStream \/ BusError) => IInv'
<1> SUFFICES ASSUME IInv, EndOfStream \/ BusError PROVE IInv'
  OBVIOUS
<1> USE DEF IInv
<1>1. CASE EndOfStream
  <2>1. UNCHANGED frameVars
    BY <1>1 DEF EndOfStream, frameVars, mainVars, saveThreadVars, scriptVars
  <2>2. TypeOK'
    <3>1. streaming' \in BOOLEAN
      BY <1>1, Zenon DEF EndOfStream
    <3>2. bus' \in {"none", "eos", "error"}
      BY <1>1 DEF EndOfStream, TypeOK
    <3>3. UNCHANGED <<frames_queue, used_freed, pushed, mainVars, saveThreadVars,
                      scriptVars>>
      BY <1>1 DEF EndOfStream
    <3>4. QED
      BY <3>1, <3>2, <3>3 DEF TypeOK, mainVars, saveThreadVars, scriptVars
  <2>3. SettledInv'
    BY <1>1, <2>1 DEF EndOfStream, SettledInv, Settled, frameVars, mainVars,
       saveThreadVars, scriptVars
  <2>4. EndInv'
    BY <1>1, <2>1 DEF EndOfStream, EndInv, Stopped, frameVars, mainVars,
       saveThreadVars, scriptVars
  <2>5. QED
    BY <2>1, <2>2, <2>3, <2>4, InOrderKept
<1>2. CASE BusError
  <2>1. UNCHANGED frameVars
    BY <1>2 DEF BusError, frameVars, mainVars, saveThreadVars, scriptVars
  <2>2. TypeOK'
    BY <1>2 DEF BusError, TypeOK, mainVars, saveThreadVars, scriptVars
  <2>3. SettledInv'
    BY <1>2, <2>1 DEF BusError, SettledInv, Settled, frameVars, mainVars,
       saveThreadVars, scriptVars
  <2>4. EndInv'
    BY <1>2, <2>1 DEF BusError, EndInv, Stopped, frameVars, mainVars,
       saveThreadVars, scriptVars
  <2>5. QED
    BY <2>1, <2>2, <2>3, <2>4, InOrderKept
<1>3. QED
  BY <1>1, <1>2

\* The save thread.
LEMMA SaveThreadStepInv ==
  IInv /\ (CheckStop \/ PollQueue \/ RunScript \/ Sleep) => IInv'
<1> SUFFICES ASSUME IInv, CheckStop \/ PollQueue \/ RunScript \/ Sleep
             PROVE  IInv'
  OBVIOUS
<1> USE DEF IInv
<1>1. CASE CheckStop
  <2>1. UNCHANGED frameVars
    BY <1>1 DEF CheckStop, frameVars, producerVars, mainVars, scriptVars
  <2>2. TypeOK'
    BY <1>1 DEF CheckStop, TypeOK, SavePc, producerVars, mainVars, scriptVars
  <2>3. SettledInv'
    BY <1>1, <2>1 DEF CheckStop, SettledInv, Settled, frameVars, producerVars,
       mainVars, scriptVars
  <2>4. EndInv'
    BY <1>1, <2>1 DEF CheckStop, EndInv, Stopped, frameVars, producerVars,
       mainVars, scriptVars
  <2>5. QED
    BY <2>1, <2>2, <2>3, <2>4, InOrderKept
<1>2. CASE PollQueue
  <2>1. UNCHANGED frameVars
    BY <1>2 DEF PollQueue, frameVars, producerVars, mainVars, scriptVars
  <2>2. TypeOK'
    BY <1>2 DEF PollQueue, TypeOK, UseQueue, SavePc, producerVars, mainVars,
       scriptVars
  <2>3. SettledInv'
    BY <1>2, <2>1 DEF PollQueue, SettledInv, Settled, frameVars, producerVars,
       mainVars, scriptVars
  <2>4. EndInv'
    BY <1>2, <2>1 DEF PollQueue, EndInv, Stopped, frameVars, producerVars,
       mainVars, scriptVars
  <2>5. QED
    BY <2>1, <2>2, <2>3, <2>4, InOrderKept
<1>3. CASE RunScript
  <2>1. UNCHANGED frameVars
    BY <1>3 DEF RunScript, frameVars, producerVars, mainVars
  <2>2. TypeOK'
    BY <1>3, InHand DEF RunScript, TypeOK, SavePc, ScriptPc, producerVars,
       mainVars
  <2>3. SettledInv'
    BY <1>3, <2>1, InHand, NumberInHand DEF RunScript, SettledInv, Settled,
       frameVars, producerVars, mainVars
  <2>4. EndInv'
    BY <1>3, <2>1 DEF RunScript, EndInv, Stopped, frameVars, producerVars,
       mainVars
  <2>5. QED
    BY <2>1, <2>2, <2>3, <2>4, InOrderKept
<1>4. CASE Sleep
  <2>1. UNCHANGED frameVars
    BY <1>4 DEF Sleep, frameVars, producerVars, mainVars, scriptVars
  <2>2. TypeOK'
    BY <1>4 DEF Sleep, TypeOK, SavePc, producerVars, mainVars, scriptVars
  <2>3. SettledInv'
    BY <1>4, <2>1 DEF Sleep, SettledInv, Settled, frameVars, producerVars,
       mainVars, scriptVars
  <2>4. EndInv'
    BY <1>4, <2>1 DEF Sleep, EndInv, Stopped, frameVars, producerVars, mainVars,
       scriptVars
  <2>5. QED
    BY <2>1, <2>2, <2>3, <2>4, InOrderKept
<1>5. QED
  BY <1>1, <1>2, <1>3, <1>4

\* The upload script.
LEMMA ScriptStepInv ==
  IInv /\ (ListBuckets \/ CreateBucket \/ UploadFile) => IInv'
<1> SUFFICES ASSUME IInv, ListBuckets \/ CreateBucket \/ UploadFile PROVE IInv'
  OBVIOUS
<1> USE DEF IInv
<1>1. CASE ListBuckets
  <2>1. UNCHANGED frameVars
    BY <1>1 DEF ListBuckets, frameVars, producerVars, mainVars, saveThreadVars,
       otherVars
  <2>2. TypeOK'
    BY <1>1, AtScript DEF ListBuckets, TypeOK, ScriptRaises, ScriptPc,
       producerVars, mainVars, saveThreadVars, otherVars
  <2>3. SettledInv'
    BY <1>1, <2>1, AtScript, NumberInHand DEF ListBuckets, SettledInv, Settled,
       ScriptRaises, frameVars, producerVars, mainVars, saveThreadVars,
       otherVars
  <2>4. EndInv'
    BY <1>1, <2>1 DEF ListBuckets, EndInv, Stopped, frameVars, producerVars,
       mainVars, saveThreadVars, otherVars
  <2>5. QED
    BY <2>1, <2>2, <2>3, <2>4, InOrderKept
<1>2. CASE CreateBucket
  <2>1. UNCHANGED frameVars
    BY <1>2 DEF CreateBucket, frameVars, producerVars, mainVars, saveThreadVars,
       otherVars
  <2>2. TypeOK'
    BY <1>2, AtScript DEF CreateBucket, TypeOK, ScriptRaises, ScriptPc,
       producerVars, mainVars, saveThreadVars, otherVars
  <2>3. SettledInv'
    BY <1>2, <2>1, AtScript, NumberInHand DEF CreateBucket, SettledInv, Settled,
       ScriptRaises, frameVars, producerVars, mainVars, saveThreadVars,
       otherVars
  <2>4. EndInv'
    BY <1>2, <2>1 DEF CreateBucket, EndInv, Stopped, frameVars, producerVars,
       mainVars, saveThreadVars, otherVars
  <2>5. QED
    BY <2>1, <2>2, <2>3, <2>4, InOrderKept
<1>3. CASE UploadFile
  <2>1. UNCHANGED frameVars
    BY <1>3 DEF UploadFile, frameVars, producerVars, mainVars, saveThreadVars,
       otherVars
  <2>2. TypeOK'
    BY <1>3, AtScript DEF UploadFile, TypeOK, ScriptPc, producerVars, mainVars,
       saveThreadVars, otherVars
  <2>3. SettledInv'
    BY <1>3, <2>1, AtScript, NumberInHand DEF UploadFile, SettledInv, Settled,
       frameVars, producerVars, mainVars, saveThreadVars, otherVars
  <2>4. EndInv'
    BY <1>3, <2>1 DEF UploadFile, EndInv, Stopped, frameVars, producerVars,
       mainVars, saveThreadVars, otherVars
  <2>5. QED
    BY <2>1, <2>2, <2>3, <2>4, InOrderKept
<1>4. QED
  BY <1>1, <1>2, <1>3

\* main.
LEMMA MainStepInv ==
  IInv /\ (BusCall \/ WaitEmpty \/ SetStop \/ UnrefQueue \/ StopPipeline)
    => IInv'
<1> SUFFICES ASSUME IInv,
                    BusCall \/ WaitEmpty \/ SetStop \/ UnrefQueue \/ StopPipeline
             PROVE  IInv'
  OBVIOUS
<1> USE DEF IInv
<1>1. CASE BusCall
  <2>1. UNCHANGED frameVars
    BY <1>1 DEF BusCall, frameVars, producerVars, saveThreadVars, scriptVars
  <2>2. TypeOK'
    BY <1>1 DEF BusCall, TypeOK, MainPc, producerVars, saveThreadVars,
       scriptVars
  <2>3. SettledInv'
    BY <1>1, <2>1 DEF BusCall, SettledInv, Settled, frameVars, producerVars,
       saveThreadVars, scriptVars
  <2>4. EndInv'
    BY <1>1, <2>1 DEF BusCall, EndInv, Stopped, frameVars, producerVars,
       saveThreadVars, scriptVars
  <2>5. QED
    BY <2>1, <2>2, <2>3, <2>4, InOrderKept
<1>2. CASE WaitEmpty
  <2>1. UNCHANGED frameVars
    BY <1>2 DEF WaitEmpty, frameVars, producerVars, saveThreadVars, scriptVars
  <2>2. TypeOK'
    BY <1>2 DEF WaitEmpty, TypeOK, UseQueue, MainPc, producerVars,
       saveThreadVars, scriptVars
  <2>3. SettledInv'
    BY <1>2, <2>1 DEF WaitEmpty, SettledInv, Settled, frameVars, producerVars,
       saveThreadVars, scriptVars
  <2>4. EndInv'
    BY <1>2, <2>1 DEF WaitEmpty, EndInv, Stopped, frameVars, producerVars,
       saveThreadVars, scriptVars
  <2>5. QED
    BY <2>1, <2>2, <2>3, <2>4, InOrderKept
<1>3. CASE SetStop
  <2>1. UNCHANGED frameVars
    BY <1>3 DEF SetStop, frameVars, producerVars, saveThreadVars, scriptVars
  <2>2. TypeOK'
    BY <1>3 DEF SetStop, TypeOK, MainPc, producerVars, saveThreadVars,
       scriptVars
  <2>3. SettledInv'
    BY <1>3, <2>1 DEF SetStop, SettledInv, Settled, frameVars, producerVars,
       saveThreadVars, scriptVars
  <2>4. EndInv'
    BY <1>3, <2>1 DEF SetStop, EndInv, Stopped, frameVars, producerVars,
       saveThreadVars, scriptVars
  <2>5. QED
    BY <2>1, <2>2, <2>3, <2>4, InOrderKept
<1>4. CASE UnrefQueue
  <2>1. UNCHANGED frameVars
    BY <1>4 DEF UnrefQueue, frameVars, producerVars, saveThreadVars, scriptVars
  <2>2. TypeOK'
    BY <1>4 DEF UnrefQueue, TypeOK, MainPc, producerVars, saveThreadVars,
       scriptVars
  <2>3. SettledInv'
    BY <1>4, <2>1 DEF UnrefQueue, SettledInv, Settled, frameVars, producerVars,
       saveThreadVars, scriptVars
  <2>4. EndInv'
    BY <1>4, <2>1 DEF UnrefQueue, EndInv, Stopped, frameVars, producerVars,
       saveThreadVars, scriptVars
  <2>5. QED
    BY <2>1, <2>2, <2>3, <2>4, InOrderKept
<1>5. CASE StopPipeline
  <2>1. UNCHANGED frameVars
    BY <1>5 DEF StopPipeline, frameVars, saveThreadVars, scriptVars
  <2>2. TypeOK'
    BY <1>5 DEF StopPipeline, TypeOK, MainPc, saveThreadVars, scriptVars
  <2>3. SettledInv'
    BY <1>5, <2>1 DEF StopPipeline, SettledInv, Settled, frameVars,
       saveThreadVars, scriptVars
  <2>4. EndInv'
    BY <1>5, <2>1 DEF StopPipeline, EndInv, Stopped, frameVars, saveThreadVars,
       scriptVars
  <2>5. QED
    BY <2>1, <2>2, <2>3, <2>4, InOrderKept
<1>6. QED
  BY <1>1, <1>2, <1>3, <1>4, <1>5

-----------------------------------------------------------------------------
(* Steps that move a frame.                                                 *)

\* A frame goes from the queue into the save thread's hands.
LEMMA PopFrameInv == IInv /\ PopFrame => IInv'
<1> SUFFICES ASSUME IInv, PopFrame PROVE IInv'
  OBVIOUS
<1> USE DEF IInv
<1>1. /\ frames_queue # <<>> /\ save_pc = "pop" /\ save_pc' = "run"
      /\ frames_queue' = Tail(frames_queue)
      /\ frame_info' = <<Head(frames_queue)>>
      /\ uploaded' = uploaded /\ pushed' = pushed
  BY DEF PopFrame, producerVars
<1>2. /\ Head(frames_queue) \in 1..Frames /\ Head(frames_queue) = frames_queue[1]
      /\ frames_queue' \in Seq(1..Frames)
      /\ Len(frames_queue) \in Nat /\ Len(frames_queue) # 0
      /\ Len(frames_queue') = Len(frames_queue) - 1
      /\ \A i \in 1..Len(frames_queue') : frames_queue'[i] = frames_queue[i + 1]
  <2>1. frames_queue \in Seq(1..Frames)
    BY DEF TypeOK
  <2>2. Len(frames_queue) \in Nat /\ Len(frames_queue) # 0
    BY <1>1, <2>1, Queue
  <2>3. /\ Head(frames_queue) \in 1..Frames
        /\ Head(frames_queue) = frames_queue[1]
        /\ Tail(frames_queue) \in Seq(1..Frames)
        /\ Len(Tail(frames_queue)) = Len(frames_queue) - 1
        /\ \A i \in 1..Len(Tail(frames_queue)) :
             Tail(frames_queue)[i] = frames_queue[i + 1]
    BY <1>1, <2>1, Queue
  <2>4. QED
    BY <1>1, <2>2, <2>3
<1>3. /\ frame_info' \in Seq(1..Frames) /\ Len(frame_info') = 1
      /\ frame_info'[1] = frames_queue[1]
  BY <1>1, <1>2
<1>4. Len(frame_info) = 0 /\ Len(uploaded) \in Nat
  BY <1>1, Queue DEF TypeOK
<1>5. TypeOK'
  BY <1>1, <1>2, <1>3 DEF PopFrame, TypeOK, UseQueue, SavePc, producerVars,
                          mainVars, scriptVars
<1>6. InOrder'
  <2>1. /\ pushed = Len(uploaded) + Len(frames_queue)
        /\ \A i \in 1..Len(uploaded) : uploaded[i] = i
        /\ \A i \in 1..Len(frames_queue) : frames_queue[i] = Len(uploaded) + i
    BY <1>4 DEF InOrder
  <2>2. frame_info'[1] = Len(uploaded) + 1
    BY <1>2, <1>3, <2>1
  <2>3. ASSUME NEW i \in 1..Len(frames_queue')
        PROVE  frames_queue'[i] = Len(uploaded) + 1 + i
    <3>1. i + 1 \in 1..Len(frames_queue)
      BY <1>2
    <3>2. QED
      BY <1>2, <1>4, <2>1, <3>1
  <2>4. QED
    BY <1>1, <1>2, <1>3, <1>4, <2>1, <2>2, <2>3 DEF InOrder
<1>7. SettledInv'
  BY <1>1, <1>3, <1>4 DEF PopFrame, SettledInv, Settled, scriptVars
<1>8. EndInv'
  BY <1>1 DEF PopFrame, EndInv, Stopped, producerVars, mainVars
<1>9. QED
  BY <1>5, <1>6, <1>7, <1>8

\* The frame in hand is done with.
LEMMA SystemReturnsInv == IInv /\ SystemReturns => IInv'
<1> SUFFICES ASSUME IInv, SystemReturns PROVE IInv'
  OBVIOUS
<1> USE DEF IInv
<1>1. /\ save_pc = "system" /\ script_pc = "idle" /\ save_pc' = "poll"
      /\ uploaded' = uploaded \o frame_info
      /\ frame_info' = <<>>
      /\ frames_queue' = frames_queue /\ pushed' = pushed
  BY DEF SystemReturns, producerVars
<1>2. /\ Len(frame_info) = 1 /\ frame_info \in Seq(1..Frames)
      /\ uploaded \in Seq(1..Frames) /\ Len(uploaded) \in Nat
      /\ frame_info' \in Seq(1..Frames) /\ Len(frame_info') = 0
  BY <1>1, InHand, Queue DEF TypeOK
<1>3. /\ uploaded' \in Seq(1..Frames)
      /\ Len(uploaded') = Len(uploaded) + 1
      /\ \A i \in 1..(Len(uploaded) + 1) :
           uploaded'[i] = IF i <= Len(uploaded) THEN uploaded[i]
                          ELSE frame_info[i - Len(uploaded)]
  <2> DEFINE done == uploaded \o frame_info
  <2>1. /\ done \in Seq(1..Frames)
        /\ Len(done) = Len(uploaded) + Len(frame_info)
        /\ \A i \in 1..(Len(uploaded) + Len(frame_info)) :
             done[i] = IF i <= Len(uploaded) THEN uploaded[i]
                       ELSE frame_info[i - Len(uploaded)]
    BY <1>2, ConcatProperties
  <2> HIDE DEF done
  <2>2. uploaded' = done
    BY <1>1 DEF done
  <2>3. QED
    BY <1>2, <2>1, <2>2
<1>4. frame_info[1] = Len(uploaded) + 1
  BY <1>2 DEF InOrder
<1>5. TypeOK'
  BY <1>1, <1>2, <1>3 DEF SystemReturns, TypeOK, SavePc, producerVars, mainVars,
                          scriptVars
<1>6. InOrder'
  <2>1. ASSUME NEW i \in 1..Len(uploaded') PROVE uploaded'[i] = i
    <3>1. CASE i \in 1..Len(uploaded)
      BY <1>2, <1>3, <3>1 DEF InOrder
    <3>2. CASE i = Len(uploaded) + 1
      BY <1>2, <1>3, <1>4, <3>2, SMTT(30)
    <3>3. QED
      BY <1>2, <1>3, <3>1, <3>2
  <2>2. QED
    BY <1>1, <1>2, <1>3, <2>1 DEF InOrder
<1>7. SettledInv'
  BY <1>1, <1>2, <1>3, <1>4 DEF SystemReturns, SettledInv, Settled, scriptVars
<1>8. EndInv'
  BY <1>1 DEF SystemReturns, EndInv, Stopped, producerVars, mainVars
<1>9. QED
  BY <1>5, <1>6, <1>7, <1>8

-----------------------------------------------------------------------------
LEMMA NextInv == IInv /\ [Next]_vars => IInv'
<1> SUFFICES ASSUME IInv, [Next]_vars PROVE IInv'
  OBVIOUS
<1>1. CASE PushFrame
  BY <1>1, PushFrameInv
<1>2. CASE EndOfStream \/ BusError
  BY <1>2, StreamStepInv
<1>3. CASE SaveFrameTask
  BY <1>3, SaveThreadStepInv, PopFrameInv, SystemReturnsInv DEF SaveFrameTask
<1>4. CASE UploadScript
  BY <1>4, ScriptStepInv DEF UploadScript
<1>5. CASE Main
  BY <1>5, MainStepInv DEF Main
<1>6. CASE UNCHANGED vars
  <2>1. UNCHANGED <<frames_queue, used_freed, producerVars, mainVars,
                    saveThreadVars, scriptVars>>
    BY <1>6 DEF vars
  <2>2. TypeOK'
    BY <2>1 DEF IInv, TypeOK, producerVars, mainVars, saveThreadVars, scriptVars
  <2>3. InOrder'
    BY <2>1 DEF IInv, InOrder, producerVars, saveThreadVars
  <2>4. SettledInv' /\ EndInv'
    BY <2>1 DEF IInv, SettledInv, EndInv, Settled, Stopped, producerVars,
       mainVars, saveThreadVars, scriptVars
  <2>5. QED
    BY <2>2, <2>3, <2>4 DEF IInv
<1>7. QED
  BY <1>1, <1>2, <1>3, <1>4, <1>5, <1>6 DEF Next

\* Types, the order of the frames, what is settled, and the empty queue at the
\* end are kept together by every step of main, of the save thread, of the script
\* and of the stream, for every number of frames.
THEOREM InductiveInvariant == Spec => []IInv
<1>1. Init => IInv
  BY InitInv
<1>2. IInv /\ [Next]_vars => IInv'
  BY NextInv
<1>3. QED
  BY <1>1, <1>2, PTL DEF Spec

\* Every variable of FrameSave keeps its type.
THEOREM TypeCorrect == Spec => []TypeOK
<1>1. IInv => TypeOK
  BY DEF IInv
<1>2. QED
  BY <1>1, InductiveInvariant, PTL

\* Frames are uploaded in the order they were pushed, each once, and none gets
\* lost on the way.
THEOREM UploadsInOrder == Spec => []UploadsFollowPushes
<1>1. IInv => UploadsFollowPushes
  <2> SUFFICES ASSUME IInv PROVE UploadsFollowPushes
    OBVIOUS
  <2> DEFINE taken == uploaded \o frame_info
             all == taken \o frames_queue
  <2>1. /\ uploaded \in Seq(1..Frames) /\ frame_info \in Seq(1..Frames)
        /\ frames_queue \in Seq(1..Frames)
        /\ Len(uploaded) \in Nat /\ Len(frame_info) \in Nat
        /\ Len(frames_queue) \in Nat
    BY Queue DEF IInv, TypeOK
  <2>2. /\ taken \in Seq(1..Frames)
        /\ Len(taken) = Len(uploaded) + Len(frame_info)
        /\ \A i \in 1..(Len(uploaded) + Len(frame_info)) :
             taken[i] = IF i <= Len(uploaded) THEN uploaded[i]
                        ELSE frame_info[i - Len(uploaded)]
    BY <2>1, ConcatProperties
  <2> HIDE DEF taken
  <2>3. /\ all \in Seq(1..Frames)
        /\ Len(all) = Len(taken) + Len(frames_queue)
        /\ \A i \in 1..(Len(taken) + Len(frames_queue)) :
             all[i] = IF i <= Len(taken) THEN taken[i]
                      ELSE frames_queue[i - Len(taken)]
    <3>1. taken \in Seq(1..Frames) /\ frames_queue \in Seq(1..Frames)
      BY <2>1, <2>2
    <3>2. QED
      BY <3>1, ConcatProperties
  <2> HIDE DEF all
  <2>4. Len(all) = pushed
    BY <2>2, <2>3 DEF IInv, InOrder
  <2>5. ASSUME NEW i \in 1..pushed PROVE all[i] = i
    <3>1. CASE i \in 1..Len(uploaded)
      <4>1. all[i] = uploaded[i]
        BY <2>1, <2>2, <2>3, <3>1
      <4>2. QED
        BY <3>1, <4>1 DEF IInv, InOrder
    <3>2. CASE i \in (Len(uploaded) + 1)..Len(taken)
      <4>1. i - Len(uploaded) \in 1..Len(frame_info)
        BY <2>1, <2>2, <3>2
      <4>2. all[i] = frame_info[i - Len(uploaded)]
        BY <2>1, <2>2, <2>3, <3>2
      <4>3. QED
        BY <2>1, <3>2, <4>1, <4>2 DEF IInv, InOrder
    <3>3. CASE i \in (Len(taken) + 1)..Len(all)
      <4>1. i - Len(taken) \in 1..Len(frames_queue)
        BY <2>1, <2>2, <2>3, <3>3
      <4>2. all[i] = frames_queue[i - Len(taken)]
        BY <2>1, <2>2, <2>3, <3>3
      <4>3. QED
        BY <2>1, <2>2, <3>3, <4>1, <4>2 DEF IInv, InOrder
    <3>4. QED
      BY <2>1, <2>2, <2>3, <2>4, <3>1, <3>2, <3>3
  <2>6. all = [i \in 1..pushed |-> i]
    <3>1. all \in [1..pushed -> 1..Frames]
      BY <2>3, <2>4, LenProperties
    <3>2. QED
      BY <2>5, <3>1
  <2>7. QED
    BY <2>6 DEF UploadsFollowPushes, taken, all
<1>2. QED
  BY <1>1, InductiveInvariant, PTL

\* After the end of the stream, stop_save_frame_task returns with one frame at
\* most not dealt with: the queue is empty, and the save thread holds one.
THEOREM StopLeavesOne == Spec => []StopLeavesAtMostOne
<1>1. IInv => StopLeavesAtMostOne
  <2> SUFFICES ASSUME IInv, Stopped, bus = "eos"
               PROVE  pushed - Len(uploaded) <= 1
    BY DEF StopLeavesAtMostOne
  <2>1. Len(frames_queue) = 0
    BY EmptySeq DEF IInv, EndInv
  <2>2. Len(frame_info) \in {0, 1} /\ Len(uploaded) \in Nat
    BY Queue DEF IInv, TypeOK
  <2>3. QED
    BY <2>1, <2>2 DEF IInv, InOrder
<1>2. QED
  BY <1>1, InductiveInvariant, PTL

LEMMA LastIsLost ==
  ASSUME IInv, Stopped, bus = "eos"
  PROVE  1..(pushed - 1) \subseteq Settled
<1>1. Len(frames_queue) = 0
  BY EmptySeq DEF IInv, EndInv
<1>2. Len(frame_info) \in {0, 1} /\ Len(uploaded) \in Nat
  BY Queue DEF IInv, TypeOK
<1>3. pushed - 1 <= Len(uploaded) /\ pushed \in Nat
  BY <1>1, <1>2 DEF IInv, InOrder
<1>4. 1..(pushed - 1) \subseteq 1..Len(uploaded)
  BY <1>2, <1>3
<1>5. QED
  BY <1>4 DEF IInv, SettledInv

\* After the end of the stream, whatever failed, the last frame is the only one
\* of which there may be no trace.
THEOREM OnlyLastIsLost == Spec => []OnlyLastVanishes
<1>1. IInv => OnlyLastVanishes
  BY LastIsLost DEF OnlyLastVanishes, Stopped
<1>2. QED
  BY <1>1, InductiveInvariant, PTL

\* Every frame tried is in the bucket or counts as failed, and no other is but
\* the one in hand.
THEOREM AttemptsSettle == Spec => []AttemptsAreSettled
<1>1. IInv => AttemptsAreSettled
  <2> SUFFICES ASSUME IInv PROVE AttemptsAreSettled
    OBVIOUS
  <2> DEFINE attempted == {uploaded[i] : i \in DOMAIN uploaded}
             inHand == {frame_info[i] : i \in DOMAIN frame_info}
  <2>1. /\ DOMAIN uploaded = 1..Len(uploaded) /\ Len(uploaded) \in Nat
        /\ DOMAIN frame_info = 1..Len(frame_info) /\ Len(frame_info) \in {0, 1}
    <3>1. uploaded \in Seq(1..Frames) /\ frame_info \in Seq(1..Frames)
      BY DEF IInv, TypeOK
    <3>2. Len(frame_info) \in {0, 1}
      BY DEF IInv, TypeOK
    <3>3. QED
      BY <3>1, <3>2, LenProperties
  <2>2. attempted = 1..Len(uploaded)
    BY <2>1 DEF IInv, InOrder
  <2>3. inHand = (Len(uploaded) + 1)..(Len(uploaded) + Len(frame_info))
    BY <2>1 DEF IInv, InOrder
  <2>4. 1..(Len(uploaded) + Len(frame_info)) \subseteq attempted \cup inHand
    BY <2>1, <2>2, <2>3
  <2>5. QED
    BY <2>2, <2>4 DEF AttemptsAreSettled, IInv, SettledInv
<1>2. QED
  BY <1>1, InductiveInvariant, PTL
=============================================================================
