------------------------------ MODULE Startup ------------------------------
(***************************************************************************)
(* The start of the application: main of deepstream_fpfilter_app.c up to   *)
(* g_main_loop_run, with the source and sink bins it may be built with and *)
(* the configuration it reads.                                             *)
(*                                                                         *)
(* An element that cannot be made is a NULL pointer.  gst_bin_add_many and *)
(* gst_element_link_many take a list that ends with NULL, so a NULL nobody *)
(* looked for ends the list for the elements behind it.                    *)
(*                                                                         *)
(* A bin is linked through the element its ghost pad stands for (SrcEnd,   *)
(* SinkEnd).  Assumed of GStreamer: two elements the code links and whose  *)
(* linking it does not check can be linked.                                *)
(***************************************************************************)
EXTENDS Naturals, Sequences, FiniteSets, Functions

CONSTANT MaxMissing   \* bound: elements that cannot be made

ASSUME MaxMissingAssumption == MaxMissing \in Nat

VARIABLES
  src, snk,             \* the build flags: which source and which sink
  missing,              \* elements gst_element_factory_make does not make
  main_pc,              \* the step main is at; "failed" when it returned -1
  null,                 \* bins whose creation failed
  links,                \* pairs <<element, element>> of linked pads
  children,             \* pairs <<bin, element>>
  config,               \* history: what the configuration file was like
  tracker_config,       \* history: what the one of the tracker was like
  is_fpfilter_enabled,
  main_element,         \* of fp_filter_dynamic_link_info
  probed,               \* after_filter_buffer_probe is on nvvidconv2
  threads,              \* threads main has started
  playing,              \* the pipeline is set to PLAYING
  pads                  \* pads qtdemux has added

buildVars == <<src, snk, missing>>
graphVars == <<null, links, children>>
filterVars == <<config, tracker_config, is_fpfilter_enabled, main_element>>
runVars == <<probed, threads, playing, pads>>
vars == <<buildVars, main_pc, graphVars, filterVars, runVars>>

-----------------------------------------------------------------------------
(* The builds.  A bin has its elements in the order of gst_bin_add_many, one *)
(* chain for each gst_element_link_many, and the elements it is checked for. *)

Bin(elements, chains, checked) ==
  [elements |-> elements, chains |-> chains, checked |-> checked]

Row(elements) == Bin(elements, {elements}, Range(elements))

\* The decoder is not looked at either.
Mp4SourceUnchecked ==
  Bin(<<"filesrc", "qtdemux", "h264parse", "decoder">>,
      {<<"filesrc", "qtdemux">>, <<"h264parse", "decoder">>},
      {"filesrc", "h264parse"})

\* The demuxer is not looked at.  Its video pad appears later.
Mp4Source ==
  Bin(<<"filesrc", "qtdemux", "h264parse", "decoder">>,
      {<<"filesrc", "qtdemux">>, <<"h264parse", "decoder">>},
      {"filesrc", "h264parse", "decoder"})
H264Source == Row(<<"filesrc", "h264parse", "decoder">>)
MultiFileSource == Row(<<"multifilesrc", "jpegparse", "decoder">>)

RenderSink == Row(<<"eglglessink">>)
TegraSink == Row(<<"egltransform", "eglglessink">>)
FileSink ==
  Row(<<"capsfilter", "h264enc", "h264parse_sink", "qtmux", "filesink">>)

FilterBin == Row(<<"nvtracker", "nvinfer2", "nvfpfilter">>)

Sources == [MP4_SRC |-> Mp4Source, H264_ELEMENTARY_SRC |-> H264Source,
            MULTI_FILE_SRC |-> MultiFileSource]
Sinks == [VIDEO_RENDER_SINK |-> RenderSink, PLATFORM_TEGRA |-> TegraSink,
          FILE_SINK |-> FileSink]

Parts(bin) == CASE bin = "source_bin" -> Sources[src].elements
                [] bin = "sink_bin" -> Sinks[snk].elements
                [] bin = "fp-filter-bin" -> FilterBin.elements
                [] OTHER -> <<bin>>
SinkEnd(bin) == Head(Parts(bin))
SrcEnd(bin) == Parts(bin)[Len(Parts(bin))]

\* The elements main makes itself, and looks at.
MainElements ==
  {"streammux", "nvinfer1", "nvvidconv1", "nvvidconv2", "nvvidconv3", "nvosd"}

\* What main adds to the pipeline, sink last.
Added == <<"source_bin", "streammux", "nvinfer1", "nvosd", "nvvidconv1",
           "nvvidconv2", "nvvidconv3", "sink_bin">>

\* What main links, without the filter and with it.
Chain(enabled) ==
  <<"streammux", "nvinfer1", "nvvidconv1">>
    \o (IF enabled THEN <<"fp-filter-bin">> ELSE <<>>)
    \o <<"nvvidconv2", "nvosd", "nvvidconv3", "sink_bin">>

-----------------------------------------------------------------------------
(* Lists that end with NULL.                                                *)

IsNull(e) == e \in missing \cup null

Given(es) ==
  LET nulls == {i \in DOMAIN es : IsNull(es[i])} IN
  IF nulls = {} THEN es
  ELSE SubSeq(es, 1, (CHOOSE i \in nulls : \A j \in nulls : i <= j) - 1)

AddMany(bin, es) == {<<bin, e>> : e \in Range(Given(es))}

LinkMany(es) ==
  {<<SrcEnd(Given(es)[i]), SinkEnd(Given(es)[i + 1])>> :
     i \in 1..(Len(Given(es)) - 1)}

\* The bin is made, with its elements linked as far as their lists go.
BinMade(name, bin) ==
  /\ bin.checked \cap missing = {}
  /\ children' = children \cup AddMany(name, bin.elements)
  /\ links' = links \cup UNION {LinkMany(es) : es \in bin.chains}
  /\ UNCHANGED null

\* It is not: an element that is looked at is missing, or there is no pad, or
\* no ghost pad, or a link that is looked at fails.  The pointer is NULL.
BinFails(name) ==
  /\ null' = null \cup {name}
  /\ UNCHANGED <<links, children>>

-----------------------------------------------------------------------------
Needed ==
  MainElements \cup Range(Sources[src].elements) \cup Range(Sinks[snk].elements)
    \cup Range(FilterBin.elements)

\* What the file, the group and the key may be like.  "bad" is not a boolean.
Configs == {"no_file", "no_group", "no_key", "1", "0", "bad"}
TrackerConfigs == {"no_file", "no_group", "bad_value", "unknown_key", "good"}

Init ==
  /\ src \in DOMAIN Sources
  /\ snk \in DOMAIN Sinks
  /\ missing \in {m \in SUBSET Needed : Cardinality(m) <= MaxMissing}
  /\ main_pc = "source"
  /\ null = {} /\ links = {} /\ children = {}
  /\ config = "not_read" /\ tracker_config = "not_read"
  /\ is_fpfilter_enabled = FALSE
  /\ main_element = "NULL"
  /\ probed = FALSE
  /\ threads = {}
  /\ playing = FALSE
  /\ pads = {}

At(here, next) == main_pc = here /\ main_pc' = next

-----------------------------------------------------------------------------
(* Variants of definitions as a plausible mistake would have written them;  *)
(* the checks of the project substitute them.                               *)

\* A key that is not there counts as 0.
DefaultIsOff(file) ==
  CASE file \in {"no_file", "no_group"} -> BOOLEAN
    [] file = "1" -> {TRUE}
    [] OTHER -> {FALSE}

\* main links the pipeline in the same way, with the filter or without it.
LinkForgetsFilter ==
  /\ At("link", "start_save")
  /\ links' = links \cup LinkMany(Chain(FALSE))
  /\ UNCHANGED <<buildVars, null, children, filterVars, runVars>>

\* The pipeline starts before the save thread and its queue are there.
PlaysFirst ==
  /\ At("start_save", "play")
  /\ probed' = TRUE
  /\ playing' = TRUE
  /\ UNCHANGED <<buildVars, graphVars, filterVars, threads, pads>>

\* main starts the save thread before it has linked the pipeline.
StartsThreadsEarly ==
  /\ At("add", "link_source")
  /\ main_element' = IF is_fpfilter_enabled THEN "fp-filter-bin" ELSE "NULL"
  /\ children' = children \cup AddMany("pipeline", Added)
                   \cup (IF is_fpfilter_enabled
                         THEN {<<"pipeline", "fp-filter-bin">>} ELSE {})
  /\ threads' = {"save"}
  /\ UNCHANGED <<buildVars, null, links, config, tracker_config,
                 is_fpfilter_enabled, probed, playing, pads>>

-----------------------------------------------------------------------------
(* main, step by step.                                                      *)

\* main returns -1.  Nothing that was made is given back.
Failed(here) ==
  /\ At(here, "failed")
  /\ UNCHANGED <<buildVars, graphVars, filterVars, runVars>>

\* Too few arguments are one way to fail here.
CreateSourceBin ==
  \/ /\ At("source", "elements")
     /\ BinMade("source_bin", Sources[src]) \/ BinFails("source_bin")
     /\ UNCHANGED <<buildVars, filterVars, runVars>>
  \/ Failed("source")

CreateElements ==
  IF MainElements \cap missing # {} \/ IsNull("source_bin")
  THEN Failed("elements")
  ELSE /\ At("elements", "sink")
       /\ UNCHANGED <<buildVars, graphVars, filterVars, runVars>>

\* The pointer is not looked at, here or later.
CreateSinkBin ==
  /\ At("sink", "config")
  /\ BinMade("sink_bin", Sinks[snk]) \/ BinFails("sink_bin")
  /\ UNCHANGED <<buildVars, filterVars, runVars>>

\* get_fpfilter_status_from_cfg_file jumps past the initialisation of its
\* result if the file or the group is not there.
FpfilterStatus(file) ==
  CASE file \in {"no_file", "no_group"} -> BOOLEAN
    [] file \in {"no_key", "1"} -> {TRUE}
    [] file \in {"0", "bad"} -> {FALSE}

ReadConfig ==
  /\ At("config", "filter")
  /\ config' \in Configs
  /\ is_fpfilter_enabled' \in FpfilterStatus(config')
  /\ UNCHANGED <<buildVars, graphVars, tracker_config, main_element, runVars>>

\* set_tracker_properties: the file, its group, and the value of each key it
\* knows must be there; a key it does not know is reported and passed over.
SetTrackerProperties(file) == file \in {"good", "unknown_key"}

CreateFilterElementsBin ==
  \/ /\ ~is_fpfilter_enabled
     /\ At("filter", "add")
     /\ UNCHANGED <<buildVars, graphVars, filterVars, runVars>>
  \/ /\ is_fpfilter_enabled
     /\ tracker_config' \in TrackerConfigs
     /\ \/ /\ At("filter", "add")
           /\ SetTrackerProperties(tracker_config')
           /\ BinMade("fp-filter-bin", FilterBin)
        \/ At("filter", "failed") /\ BinFails("fp-filter-bin")
     /\ UNCHANGED <<buildVars, config, is_fpfilter_enabled, main_element,
                    runVars>>

\* The information for later requests, and gst_bin_add_many.
AddElements ==
  /\ At("add", "link_source")
  /\ main_element' = IF is_fpfilter_enabled THEN "fp-filter-bin" ELSE "NULL"
  /\ children' = children \cup AddMany("pipeline", Added)
                   \cup (IF is_fpfilter_enabled
                         THEN {<<"pipeline", "fp-filter-bin">>} ELSE {})
  /\ UNCHANGED <<buildVars, null, links, config, tracker_config,
                 is_fpfilter_enabled, runVars>>

\* The pads of source_bin and streammux, each of which may fail.
LinkSource ==
  \/ /\ At("link_source", "link")
     /\ links' = links \cup LinkMany(<<"source_bin", "streammux">>)
     /\ UNCHANGED <<buildVars, null, children, filterVars, runVars>>
  \/ Failed("link_source")

LinkElements ==
  \/ /\ At("link", "start_save")
     /\ links' = links \cup LinkMany(Chain(is_fpfilter_enabled))
     /\ UNCHANGED <<buildVars, null, children, filterVars, runVars>>
  \/ Failed("link")

\* The probe, the queue and start_save_frame_task.
StartSaving ==
  \/ /\ At("start_save", "play")
     /\ probed' = TRUE
     /\ threads' = {"save"}
     /\ UNCHANGED <<buildVars, graphVars, filterVars, playing, pads>>
  \/ Failed("start_save")

Play ==
  /\ At("play", "start_server")
  /\ playing' = TRUE
  /\ UNCHANGED <<buildVars, graphVars, filterVars, probed, threads, pads>>

StartUsrPromptMonitor ==
  /\ At("start_server", "running")
  /\ threads' = threads \cup {"prompt"}
  /\ UNCHANGED <<buildVars, graphVars, filterVars, probed, playing, pads>>

-----------------------------------------------------------------------------
(* The source's streaming thread.                                           *)

\* qtdemux_new_pad_cb: the first video stream goes to the parser.  If the pads
\* cannot be linked, that is reported and no more.
QtdemuxNewPadCb(pad) ==
  /\ playing /\ pad \notin pads
  /\ <<"source_bin", "qtdemux">> \in children
  /\ pads' = pads \cup {pad}
  /\ \/ UNCHANGED links
     \/ pad = "video_0" /\ links' = links \cup {<<"qtdemux", "h264parse">>}
  /\ UNCHANGED <<buildVars, main_pc, null, children, filterVars, probed,
                 threads, playing>>

Next ==
  \/ CreateSourceBin \/ CreateElements \/ CreateSinkBin \/ ReadConfig
  \/ CreateFilterElementsBin \/ AddElements \/ LinkSource \/ LinkElements
  \/ StartSaving \/ Play \/ StartUsrPromptMonitor
  \/ \E pad \in {"video_0", "audio_0"} : QtdemuxNewPadCb(pad)

Spec == Init /\ [][Next]_vars

-----------------------------------------------------------------------------
(* Properties.                                                              *)

\* A start that fails leaves no thread behind and nothing that plays: all that
\* can fail is done before the first thread is started.
FailureLeavesNothingRunning ==
  main_pc = "failed" => threads = {} /\ ~playing

\* The elements a frame passes from the file to the sink.
Route ==
  Parts("source_bin") \o <<"streammux", "nvinfer1", "nvvidconv1">>
    \o (IF main_element = "NULL" THEN <<>> ELSE Parts(main_element))
    \o <<"nvvidconv2", "nvosd", "nvvidconv3">> \o Parts("sink_bin")

\* e is in the pipeline, or in a bin that is.
InPipeline(e) ==
  \/ <<"pipeline", e>> \in children
  \/ \E c \in children : c[2] = e /\ <<"pipeline", c[1]>> \in children

Whole ==
  /\ \A i \in 1..(Len(Route) - 1) : <<Route[i], Route[i + 1]>> \in links
  /\ \A e \in Range(Route) : InPipeline(e)

\* A pipeline that main leaves running is whole, from the file to the sink and
\* through the filter if requests are to find it enabled, whatever could not be
\* made, with two exceptions: the sink bin is missing and nobody noticed, or the
\* demuxer is, or has linked no video stream.
RunningIsWhole ==
  main_pc = "running" =>
    \/ Whole
    \/ IsNull("sink_bin")
    \/ src = "MP4_SRC" /\ <<"qtdemux", "h264parse">> \notin links

\* Frames go through the filter if the configuration says so or does not say,
\* and past it if it says so or cannot be read as a boolean.  Only without the
\* file or the group it may be either.  They go through it only if the tracker
\* in front of it could be configured.
FilterAsConfigured ==
  LET through == /\ <<"nvvidconv1", "nvtracker">> \in links
                 /\ <<"nvfpfilter", "nvvidconv2">> \in links
                 /\ tracker_config \in {"good", "unknown_key"}
      past == <<"nvvidconv1", "nvvidconv2">> \in links
  IN playing => CASE config \in {"no_key", "1"} -> through
                  [] config \in {"0", "bad"} -> past
                  [] OTHER -> through \/ past

\* The first frame may arrive as soon as the pipeline plays: its probe, the
\* queue and the save thread are there.
ReadyBeforePlaying == playing => probed /\ "save" \in threads

\* The converters and the filter bin, as FpFilterControl speaks of them.
ControlBins == {"fp-filter-bin"}
Links ==
  {l \in ({"nvvidconv1"} \cup ControlBins) \X ({"nvvidconv2"} \cup ControlBins) :
     <<SrcEnd(l[1]), SinkEnd(l[2])>> \in links}
Children == {b \in ControlBins : <<"pipeline", b>> \in children}

Control == INSTANCE FpFilterControl WITH
  Bins <- ControlBins, FirstBin <- "fp-filter-bin", NoBin <- "NULL",
  nvvidconv1 <- "nvvidconv1", nvvidconv2 <- "nvvidconv2",
  Stream <- <<>>, BinCapacity <- 1, MaxTimers <- 0,
  tp_count <- <<>>, fp_count <- <<>>,
  links <- Links, children <- Children, playing <- Children,
  probes <- <<>>, eos_probe <- {}, in_bin <- [b \in ControlBins |-> <<>>],
  pos <- 1, streaming <- "pushing", delivered <- <<>>, created <- {},
  save_fpfilter_images <- FALSE, timers <- {}, armed <- 0, window <- 0,
  arming <- FALSE, deciding <- <<>>, frame_save_queue <- <<>>, late <- 0

\* What main leaves to the requests and to the streaming threads is what
\* FpFilterControl starts from, and its inductive invariant holds of it.
HandsOver == playing => Control!Init /\ Control!IInv

-----------------------------------------------------------------------------
(* The inductive invariant: what each step of main leaves to the next ones. *)

\* Where main is once a step has succeeded.
AfterPlay == {"start_server", "running"}
AfterSave == AfterPlay \cup {"play"}
AfterLink == AfterSave \cup {"start_save"}
AfterLinkSource == AfterLink \cup {"link"}
AfterAdd == AfterLinkSource \cup {"link_source"}
AfterFilter == AfterAdd \cup {"add"}
AfterConfig == AfterFilter \cup {"filter"}
AfterSink == AfterConfig \cup {"config"}
AfterElements == AfterSink \cup {"sink"}
AfterSource == AfterElements \cup {"elements"}

\* The bins are no elements of the factory, so that each is NULL for a reason
\* of its own.
TypeOK ==
  /\ src \in DOMAIN Sources
  /\ snk \in DOMAIN Sinks
  /\ missing \subseteq Needed
  /\ main_pc \in AfterSource \cup {"source", "failed"}
  /\ null \subseteq {"source_bin", "sink_bin", "fp-filter-bin"}
  /\ "fp-filter-bin" \in null => main_pc = "failed"
  /\ is_fpfilter_enabled \in BOOLEAN
  /\ main_element \in {"NULL", "fp-filter-bin"}
  /\ probed \in BOOLEAN
  /\ playing \in BOOLEAN

RunInv ==
  /\ main_pc \notin AfterSave => threads = {}
  /\ main_pc \in AfterSave => probed /\ "save" \in threads
  /\ playing <=> main_pc \in AfterPlay

Contains(bin, es) == \A e \in Range(es) : <<bin, e>> \in children

Linked(es) == \A i \in 1..(Len(es) - 1) : <<es[i], es[i + 1]>> \in links

\* A source bin that main goes on with is complete, but for a demuxer that is
\* missing, which then links nothing.
SourceInv ==
  /\ main_pc = "source" => children = {}
  /\ main_pc \in AfterElements => ~IsNull("source_bin")
  /\ (main_pc \in AfterSource /\ ~IsNull("source_bin")) =>
       \/ /\ Contains("source_bin", Sources[src].elements)
          /\ \A es \in Sources[src].chains : Linked(es)
       \/ (src = "MP4_SRC" /\ <<"source_bin", "qtdemux">> \notin children)
  /\ <<"qtdemux", "h264parse">> \in links
       => <<"source_bin", "qtdemux">> \in children

SinkInv ==
  (main_pc \in AfterSink /\ ~IsNull("sink_bin")) =>
    Contains("sink_bin", Parts("sink_bin")) /\ Linked(Parts("sink_bin"))

FilterInv ==
  /\ main_pc \in AfterElements => MainElements \cap missing = {}
  /\ main_pc \in AfterConfig =>
       config \in Configs /\ is_fpfilter_enabled \in FpfilterStatus(config)
  /\ (main_pc \in AfterFilter /\ is_fpfilter_enabled) =>
       /\ SetTrackerProperties(tracker_config)
       /\ Contains("fp-filter-bin", FilterBin.elements)
       /\ Linked(FilterBin.elements)

\* What is in the pipeline.
AddInv ==
  /\ main_pc \in AfterAdd =>
       /\ main_element = IF is_fpfilter_enabled THEN "fp-filter-bin" ELSE "NULL"
       /\ \A e \in Range(Added) :
            <<"pipeline", e>> \in children \/ (e = "sink_bin" /\ IsNull(e))
       /\ <<"pipeline", "fp-filter-bin">> \in children <=> is_fpfilter_enabled
  /\ <<"pipeline", "fp-filter-bin">> \in children
       => main_pc \in AfterAdd \cup {"failed"}

\* The links between the converters and the filter.
Crossing ==
  {<<"nvvidconv1", "nvvidconv2">>, <<"nvvidconv1", "nvtracker">>,
   <<"nvfpfilter", "nvvidconv2">>, <<"nvfpfilter", "nvtracker">>}

CrossingFor(enabled) ==
  IF enabled
  THEN {<<"nvvidconv1", "nvtracker">>, <<"nvfpfilter", "nvvidconv2">>}
  ELSE {<<"nvvidconv1", "nvvidconv2">>}

LinkInv ==
  /\ main_pc \in AfterLinkSource =>
       <<SrcEnd("source_bin"), "streammux">> \in links
  /\ main_pc \in AfterLink =>
       /\ Linked(<<"streammux", "nvinfer1", "nvvidconv1">>)
       /\ Linked(<<"nvvidconv2", "nvosd", "nvvidconv3">>)
       /\ \/ <<"nvvidconv3", SinkEnd("sink_bin")>> \in links
          \/ IsNull("sink_bin")
       /\ links \cap Crossing = CrossingFor(is_fpfilter_enabled)
  /\ main_pc \notin AfterLink \cup {"failed"} => links \cap Crossing = {}

IInv ==
  TypeOK /\ RunInv /\ SourceInv /\ SinkInv /\ FilterInv /\ AddInv /\ LinkInv
=============================================================================
