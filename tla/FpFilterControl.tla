-------------------------- MODULE FpFilterControl --------------------------
(***************************************************************************)
(* The false-positive filter of deepstream_fpfilter_app.c while the        *)
(* pipeline runs: the requests that enable and disable it and the saving   *)
(* of frames, the dynamic link and unlink of its bin, and the probe on     *)
(* nvvidconv2 that picks the frames to upload.                             *)
(*                                                                         *)
(* Threads and what they do here:                                          *)
(*   prompt server   the requests of handle_usr_prompt, one at a time      *)
(*   main loop       the timeouts of "save-fp-enable" with a duration      *)
(*   detector        pushes items, runs the blocking probes                *)
(*   filter bin      outputs what it holds                                 *)
(*                                                                         *)
(* The bin's thread asks for the saving flag and queues the frame later,   *)
(* and a request may come in between, so these are two steps.  A request   *)
(* to enable or disable the filter is one step: the flag and the pointer   *)
(* it sets are used by the server only, and a behaviour in which other     *)
(* threads run between its clearing of the saving flag and its installing  *)
(* of the probe is one with a request "save-fp-disable" in front of it.    *)
(***************************************************************************)
EXTENDS DynamicLink, SaveWindow

CONSTANTS
  FirstBin,     \* the bin main creates if the configuration enables the filter
  tp_count,     \* true positives the filter finds in each item of Stream
  fp_count      \* false positives

ASSUME FirstBinAssumption == FirstBin \in Bins

ASSUME CountsAssumption ==
  /\ tp_count \in [1..Len(Stream) -> Nat]
  /\ fp_count \in [1..Len(Stream) -> Nat]

VARIABLES
  is_fpfilter_enabled,
  created,            \* the bins that enable_fpfilter has made
  deciding,           \* the frame after_filter_buffer_probe found the flag
                      \* set for and has not queued yet, as a sequence
  frame_save_queue,   \* the frames queued for upload (nothing takes them here)
  late                \* history: frames queued behind a cleared flag, since
                      \* it was last set

filterVars == <<is_fpfilter_enabled, created>>
selectVars == <<deciding, frame_save_queue, late>>
vars == <<linkVars, saveVars, filterVars, selectVars>>

\* Every variable keeps its type.  The pipeline is told to remove bins only,
\* never the NULL that main_element is while no bin is in use.
TypeOK ==
  /\ LinkTypeOK
  /\ SaveTypeOK
  /\ is_fpfilter_enabled \in BOOLEAN
  /\ created \in SUBSET Bins
  /\ deciding \in Seq(Items)
  /\ frame_save_queue \in Seq(Items)
  /\ late \in Nat

\* The pipeline as main links it: without the filter bin, or with it, as the
\* key enable-fp-filter of the configuration file says.
Init ==
  /\ probes = <<>>
  /\ eos_probe = {}
  /\ in_bin = [b \in Bins |-> <<>>]
  /\ pos = 1
  /\ streaming = "pushing"
  /\ delivered = <<>>
  /\ SaveInit
  /\ deciding = <<>>
  /\ frame_save_queue = <<>>
  /\ late = 0
  /\ created = {}
  /\ \/ /\ is_fpfilter_enabled = FALSE
        /\ main_element = NoBin
        /\ children = {}
        /\ playing = {}
        /\ links = {<<nvvidconv1, nvvidconv2>>}
     \/ /\ is_fpfilter_enabled = TRUE
        /\ main_element = FirstBin
        /\ children = {FirstBin}
        /\ playing = {FirstBin}
        /\ links = {<<nvvidconv1, FirstBin>>, <<FirstBin, nvvidconv2>>}

-----------------------------------------------------------------------------
(* Variants of the definitions below as a plausible mistake would have      *)
(* written them; the checks of the project substitute them.                 *)

\* enable_fpfilter does not look at is_fpfilter_enabled.
EnableFpfilterTwice(b) ==
  /\ b \notin created \cup {FirstBin}
  /\ created' = created \cup {b}
  /\ main_element' = b
  /\ SaveFpDisable
  /\ AddElementToPipeline(b)
  /\ is_fpfilter_enabled' = TRUE
  /\ UNCHANGED <<eos_probe, children, links, playing, in_bin, pos, streaming,
                 delivered, deciding, frame_save_queue>>

\* enable_fpfilter returns without setting is_fpfilter_enabled.
EnableFpfilterForgets(b) ==
  /\ ~is_fpfilter_enabled
  /\ b \notin created \cup {FirstBin}
  /\ created' = created \cup {b}
  /\ main_element' = b
  /\ SaveFpDisable
  /\ AddElementToPipeline(b)
  /\ UNCHANGED <<is_fpfilter_enabled, eos_probe, children, links, playing,
                 in_bin, pos, streaming, delivered, deciding, frame_save_queue>>

\* The flag is not asked for.
SelectsAlways(d) ==
  /\ d.item \in 1..Len(Stream) /\ Kind(d.item) = "frame" /\ d.via # NoBin
  /\ tp_count[d.item] + fp_count[d.item] > 1
  /\ 2 * fp_count[d.item] >= tp_count[d.item] + fp_count[d.item]

\* The threshold is asked of the true positives.
ManyTruePositives(item) ==
  LET total_objects == tp_count[item] + fp_count[item] IN
  total_objects > 1 /\ 2 * tp_count[item] >= total_objects

-----------------------------------------------------------------------------
(* The requests.                                                            *)

\* create_filter_elements_bin makes a new bin: the tracker, the second detector
\* and the filter in a row, behind two ghost pads.
CreateFilterElementsBin(b) ==
  /\ b \notin created \cup {FirstBin}
  /\ created' = created \cup {b}

\* enable_fpfilter.  It returns early if the filter is enabled, or if the bin
\* cannot be created, and changes nothing then.
EnableFpfilter(b) ==
  /\ ~is_fpfilter_enabled
  /\ CreateFilterElementsBin(b)
  /\ main_element' = b
  /\ SaveFpDisable
  /\ AddElementToPipeline(b)
  /\ is_fpfilter_enabled' = TRUE
  /\ UNCHANGED <<eos_probe, children, links, playing, in_bin, pos, streaming,
                 delivered, deciding, frame_save_queue>>

\* disable_fpfilter.  It returns early if the filter is disabled.
DisableFpfilter ==
  /\ is_fpfilter_enabled
  /\ is_fpfilter_enabled' = FALSE
  /\ SaveFpDisable
  /\ RemoveElementFromPipeline(main_element)
  /\ main_element' = NoBin
  /\ UNCHANGED <<created, eos_probe, children, links, playing, in_bin, pos,
                 streaming, delivered, deciding, frame_save_queue>>

\* The requests about saving.  handle_usr_prompt passes them on whether or not
\* the filter is enabled.
SaveRequest == SaveFpEnable \/ SaveFpEnableFor \/ SaveFpDisable

-----------------------------------------------------------------------------
(* The probe on the sink pad of nvvidconv2.                                 *)

\* The user metadata of a frame, in the order of the list: none if the frame
\* did not go through the bin.
UserMeta(via) == IF via = NoBin THEN <<>> ELSE <<"segmentation", "fpfilter">>

\* save_frames_for_processing looks at the last one in the list, whatever its
\* type is.
FpfilterMetaTaken(via) ==
  UserMeta(via) # <<>> /\ UserMeta(via)[Len(UserMeta(via))] = "fpfilter"

\* More than one object, half of them or more false positives
\* (FALSE_POSITIVE_PERCENTAGE_THRESHOLD).
ManyFalsePositives(item) ==
  LET total_objects == tp_count[item] + fp_count[item] IN
  total_objects > 1 /\ 2 * fp_count[item] >= total_objects

\* The frame in d is to be queued, by the flag as it is now.
Selects(d) ==
  /\ d.item \in 1..Len(Stream) /\ Kind(d.item) = "frame"
  /\ FpfilterMetaTaken(d.via)
  /\ save_fpfilter_images
  /\ ManyFalsePositives(d.item)

\* after_filter_buffer_probe up to the question for the flag, in the step that
\* delivers a frame.
AfterFilterBufferProbe ==
  LET d == delivered'[Len(delivered')] IN
  /\ deciding' = IF delivered' # delivered /\ Selects(d)
                 THEN <<d.item>> ELSE deciding
  /\ UNCHANGED frame_save_queue

\* The rest of it: the frame is queued for upload.
QueueFrame ==
  /\ deciding # <<>>
  /\ frame_save_queue' = frame_save_queue \o deciding
  /\ deciding' = <<>>
  /\ UNCHANGED <<linkVars, saveVars, filterVars>>

-----------------------------------------------------------------------------
(* The threads.                                                             *)

\* history
CountLate ==
  late' = IF save_fpfilter_images' THEN 0
          ELSE IF frame_save_queue' # frame_save_queue THEN late + 1 ELSE late

\* A request about saving, or a timeout, touches the flag and its timers only.
SaveStep(A) ==
  /\ A
  /\ UNCHANGED <<linkVars, filterVars, deciding, frame_save_queue>>
  /\ CountLate

PromptServer ==
  \/ \E b \in Bins : EnableFpfilter(b) /\ CountLate
  \/ DisableFpfilter /\ CountLate
  \/ SaveStep(SaveRequest)

MainLoop == \E k \in 1..MaxTimers : SaveStep(SaveTimeout(k))

Detector ==
  /\ AddElemProbe \/ PadProbe \/ PassItem
  /\ AfterFilterBufferProbe
  /\ UNCHANGED <<saveVars, filterVars>>
  /\ CountLate

\* Downstream of the bin a frame is handled to the end before the next one.
BinThread(b) ==
  \/ /\ deciding = <<>>
     /\ BinOutput(b) \/ RemoveElemProbe(b)
     /\ AfterFilterBufferProbe
     /\ UNCHANGED <<saveVars, filterVars>>
     /\ CountLate
  \/ QueueFrame /\ CountLate

Next ==
  \/ PromptServer
  \/ MainLoop
  \/ Detector
  \/ \E b \in Bins : BinThread(b)

\* The streaming threads keep running.  No request is ever owed.
Fairness ==
  /\ WF_vars(Detector)
  /\ \A b \in Bins : WF_vars(BinThread(b))

Spec == Init /\ [][Next]_vars /\ Fairness

-----------------------------------------------------------------------------
(* Safety.                                                                  *)

Direct ==
  /\ children = {} /\ playing = {}
  /\ links = {<<nvvidconv1, nvvidconv2>>}

Through(b) ==
  /\ children = {b} /\ playing = {b}
  /\ links = {<<nvvidconv1, b>>, <<b, nvvidconv2>>}

\* The pipeline is whole at every moment: nvvidconv1 is linked to nvvidconv2,
\* or to the one bin that is a running child of the pipeline and leads there,
\* and no other bin holds an item.  A second bin, a gap or a bin taken out
\* with frames still in it would need a request to overtake another one.
PipelineShape ==
  /\ Direct \/ \E b \in Bins : Through(b)
  /\ \A b \in Bins : in_bin[b] # <<>> => Through(b)

\* Once no request is pending, the flag that decides about the next request
\* says what the pipeline is, and the information for it names the bin in the
\* pipeline.  The flag is the server's, the pipeline changes in the detector's
\* and the bin's thread.
FlagAgreesWithPipeline ==
  (probes = <<>> /\ streaming = "pushing") =>
    IF is_fpfilter_enabled THEN Through(main_element)
                           ELSE Direct /\ main_element = NoBin

\* The bin in use once probe p has done its work.
InUseAfter(p) == IF p.cb = "add" THEN p.elem ELSE NoBin

\* The pending probes lead from the bin now in use to the one the requests
\* left: each starts from what the one before it leaves, the oldest from b.
ProbesLeadFrom(b) ==
  /\ \A i \in DOMAIN probes :
       LET inUse == IF i = 1 THEN b ELSE InUseAfter(probes[i - 1]) IN
       inUse = (IF probes[i].cb = "add" THEN NoBin ELSE probes[i].elem)
  /\ main_element = IF probes = <<>> THEN b ELSE InUseAfter(probes[Len(probes)])
  /\ is_fpfilter_enabled <=> (main_element # NoBin)

\* The three phases of the pipeline: without a bin, through one, and through
\* one that is being drained, which holds the EOS behind everything else.
DirectPhase ==
  /\ Direct /\ streaming = "pushing" /\ eos_probe = {}
  /\ \A b \in Bins : in_bin[b] = <<>>
  /\ ProbesLeadFrom(NoBin)

ThroughPhase(b) ==
  /\ Through(b) /\ streaming = "pushing" /\ eos_probe = {}
  /\ \A c \in Bins \ {b} : in_bin[c] = <<>>
  /\ ProbesLeadFrom(b)

DrainingPhase(b) ==
  /\ Through(b) /\ streaming = "draining" /\ eos_probe = {b}
  /\ \A c \in Bins \ {b} : in_bin[c] = <<>>
  /\ in_bin[b] # <<>> /\ in_bin[b][Len(in_bin[b])] = DrainEos
  /\ ProbesLeadFrom(NoBin)

LinkInv ==
  \/ DirectPhase
  \/ \E b \in Bins : ThroughPhase(b) \/ DrainingPhase(b)

\* While the flag is clear, the frame in the probe's hands and the one queued
\* since are one at most.
LateInv ==
  /\ Len(deciding) <= 1
  /\ IF save_fpfilter_images THEN late = 0 ELSE late + Len(deciding) <= 1

\* The inductive invariant: the types, the phase of the pipeline with the chain
\* of pending probes, the window for saving, and the late frame.
IInv == TypeOK /\ LinkInv /\ SaveInv /\ LateInv

Delivered == {delivered[i].item : i \in DOMAIN delivered}

\* Nothing overtakes: frames sent past the removed bin arrive behind the frames
\* that were inside it, nothing arrives twice, and the EOS that drains a bin
\* does not get out.
DeliveredInOrder ==
  /\ \A i \in DOMAIN delivered : delivered[i].item # DrainEos
  /\ \A i, j \in DOMAIN delivered :
       i < j => delivered[i].item < delivered[j].item

\* The invariant behind the order: a bin holds, behind all that was delivered,
\* in order what the detector has pushed into it, and behind that at most the
\* EOS that drains it.  No bin is drained once the stream is over.
InOrder(s) ==
  \A i \in DOMAIN s :
    /\ s[i] = DrainEos => i = Len(s) /\ streaming = "draining"
    /\ s[i] < pos
    /\ \A j \in DOMAIN s : i < j => s[j] = DrainEos \/ s[i] < s[j]
    /\ \A j \in DOMAIN delivered : s[i] = DrainEos \/ delivered[j].item < s[i]

OrderInv ==
  /\ DeliveredInOrder
  /\ \A i \in DOMAIN delivered : delivered[i].item < pos
  /\ \A b \in Bins : InOrder(in_bin[b])
  /\ streaming = "draining" => ~StreamOver

\* An item that the detector passes on takes the way that was last requested:
\* into the bin of the last request to enable the filter, past it after a
\* request to disable it.  None slips through while a request is pending, and
\* none goes the way an earlier request left behind.
ItemsGoAsRequested ==
  [][(pos' = pos + 1 /\ probes' = probes) =>
       IF main_element = NoBin
       THEN delivered' = Append(delivered, [item |-> pos, via |-> NoBin])
       ELSE in_bin' = [in_bin EXCEPT ![main_element] = Append(@, pos)]]_vars

\* Once saving is disabled, by a request, by a timeout, or because the filter
\* is enabled or disabled, at most the one frame whose flag was already read
\* is queued, until saving is enabled again.
AtMostOneLateFrame == late <= 1

\* Every frame queued for upload was delivered through a bin, in that order
\* and once, and at least half of its objects, of two or more, are false
\* positives.
QueueFollowsDelivery ==
  LET q == frame_save_queue \o deciding IN
  /\ \A i \in DOMAIN q :
       /\ \E j \in DOMAIN delivered :
            delivered[j].item = q[i] /\ delivered[j].via # NoBin
       /\ tp_count[q[i]] <= fp_count[q[i]] /\ fp_count[q[i]] > 0
       /\ tp_count[q[i]] + fp_count[q[i]] # 1
  /\ \A i, j \in DOMAIN q : i < j => q[i] < q[j]

-----------------------------------------------------------------------------
(* The abstract channel.                                                    *)

\* The items inside the bin in the pipeline, without the EOS that drains it.
Flight ==
  IF \A b \in Bins : in_bin[b] = <<>> THEN <<>>
  ELSE LET b == CHOOSE c \in Bins : in_bin[c] # <<>>
           n == Len(in_bin[b])
       IN IF in_bin[b][n] = DrainEos THEN SubSeq(in_bin[b], 1, n - 1)
                                     ELSE in_bin[b]

FC == INSTANCE FrameChannel WITH
        Last    <- Eos,
        next    <- pos,
        flight  <- Flight,
        arrived <- [i \in DOMAIN delivered |-> delivered[i].item],
        owed    <- Cardinality({i \in DOMAIN probes : probes[i].cb = "add"}),
        asked   <- Cardinality(created)

\* The detector, the bins and the probes implement the channel: whatever is
\* requested, and whenever, items keep their order, none is repeated, none is
\* lost when the filter is disabled, and each request to enable it costs one
\* item at most, the one that fires its probe.
IsFrameChannel == FC!Channel

\* Of what the detector has pushed, all has arrived at nvvidconv2 or is in a bin
\* but for one item at most for each request to enable the filter that is not
\* pending any more.  Draining and removing a bin loses nothing.
FewItemsLost == FC!FewLost

-----------------------------------------------------------------------------
(* Liveness.                                                                *)

\* A request to enable the filter that has become the oldest one puts its bin
\* into the pipeline, with the item the detector is at, be it the EOS.
EnableTakesEffect ==
  \A b \in Bins :
    (probes # <<>> /\ Head(probes) = [cb |-> "add", elem |-> b] /\ ~StreamOver)
      ~> (b \in children)

\* A request to disable the filter takes the bin out of the pipeline, if it is
\* made before the EOS has left the detector, whatever is requested next.
DisableTakesEffect ==
  \A b \in Bins :
    (b \in children /\ main_element # b /\ ~StreamOver) ~> (b \notin children)

\* Whatever is requested, the detector gets rid of the whole stream and every
\* bin is empty in the end: nobody waits for an EOS that does not come.
StreamRunsDry == <>(StreamOver /\ \A b \in Bins : in_bin[b] = <<>>)

\* The end of the stream arrives at nvvidconv2, and so at the sink, which makes
\* bus_call end the main loop.
EndOfStreamArrives == <>(Eos \in Delivered)

\* It arrives if the filter is not enabled while the stream runs; disabling the
\* filter at any time does not keep it from arriving.
EndArrivesUnlessEnabling == [](created = {}) => EndOfStreamArrives
=============================================================================
