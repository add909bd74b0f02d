# A TLA+ model of deepstream-fpfilter

The repository is a DeepStream application that runs NVIDIA's false-positive
filter (`nvfpfilter`) behind an object detector. The filter can be enabled and
disabled while the pipeline runs, and frames with many false positives can be
uploaded to a cloud bucket. This directory models what of it is hard to test:
the dynamic link and unlink of the filter, the requests that drive it, the
selection and the upload of frames, the server that takes the requests, the
start and the end of the program, and the program as a whole. Paths below are
those of the repository (`src/...`).

## Inventory

### The components

| component | code | state | operations | model |
|---|---|---|---|---|
| dynamic link and unlink | `src/ds_dynamic_link_unlink_element.c` | probes on two pads, links, children and states of the pipeline | `add_element_to_pipeline`, `remove_element_from_pipeline`; callbacks `add_elem_probe_cb`, `pad_probe_cb`, `remove_elem_probe_cb` | `DynamicLink` |
| filter control | `src/deepstream_fpfilter_app.c`, 280-362, 948-982 | `is_fpfilter_enabled`, `fp_filter_dynamic_link_info`, `save_fpfilter_images`, pending `g_timeout_add`s | `enable_fpfilter`, `disable_fpfilter`, `enable_fpfilter_images_save(_duration)`, `disable_fpfilter_images_save(_duration)` | `FpFilterControl`, `SaveWindow` |
| frame selection | the same, 390-459 | `frame_save_queue` | `after_filter_buffer_probe`, `save_frames_for_processing` | `FpFilterControl` |
| upload queue, end of the program | `src/ds_save_frame.c`; `bus_call`; `main`, 1216-1239 | `g_frames_queue`, `g_stop_save_frame_thread`, the reference to the queue | `_save_frame_task`, `stop_save_frame_task`, the clean-up of `main` | `FrameSave`, `FpFilterApp` |
| prompt server | `src/ds_usr_prompt_handler.c`; `handle_usr_prompt` | listening socket, one connection, `g_stop_server` | `_server_task`, `_read_message`, `_read_bytes`, `stop_usr_prompt_monitor` | `PromptServer` |
| manager | `src/ds_fpfilter_manager.c` | a buffer and a connection | `_send_buf_to_ds_app` | the clients of `PromptServer` |
| start and configuration | `main` up to PLAYING, `get_fpfilter_status_from_cfg_file`, `set_tracker_properties`, `create_filter_elements_bin` | the elements, their links, two key files | reading, creating, linking, with a return at each failure | `Startup` |
| source and sink bins | `create_source_bin`, `create_sink_bin`, `qtdemux_new_pad_cb` | elements and links of two bins | creating, adding, linking; a pad that appears later | `Startup` |
| KITTI labels | `write_kitti_output` | one file for each frame | open, format, write | which files: `FpFilterApp` |
| upload script | `src/upload_images_s3.py`, `src/save_image.sh` | the bucket | `create_bucket`, `upload_file_to_bucket` | `FrameSave` |
| plugin, models, build | `bin`, `config`, `Makefile` | - | - | no |

### How they interact

```
 manager --TCP--> prompt server thread --calls--> handle_usr_prompt
                                                    |  flags, link info
                    installs blocking probes        |  g_timeout_add
                                                    v
 detector thread: runs probe callbacks, pushes   main loop thread: timeouts,
 items -> nvvidconv1 -> [bin] -> nvvidconv2      bus_call, clean-up
                          |         |
                    bin's threads   after_filter_buffer_probe --GAsyncQueue-->
                                    save thread --system()--> upload script
```

Five kinds of threads share state: the prompt server, the GLib main loop
(`main`), the detector's streaming thread, the threads inside the bin, and the
save thread. Two mutexes guard one flag each (`save_fpfilter_images`, the stop
flags); everything else is ordered by GStreamer's pad probes or not at all.

### What is hard, and what makes it correct

* *Dynamic link and unlink.* A request installs a probe and returns; the work is
  done at the detector's next item, by the detector's thread, and finished by
  the bin's thread when a draining EOS comes out. Any number of requests may be
  made in between. Correct means: the pipeline is never left with a gap, with a
  second bin or with a bin taken out full; frames keep their order; disabling
  loses nothing; what was requested last is what the pipeline becomes; no
  thread waits for an EOS that never comes.
* *Filter control.* `is_fpfilter_enabled` says what was requested, not what the
  pipeline is, and each request decides by it. Timeouts of earlier requests are
  never removed. Correct means: the flag agrees with the pipeline once nothing
  is pending; a window for saving ends with its timeout.
* *Frame selection.* The flag is read under the mutex and the frame queued
  after it is released. Correct means: at most one frame is late, and only
  frames with at least half false positives, that went through the filter, are
  queued, in order and once.
* *Upload queue and end.* `stop_save_frame_task` looks at the length of a queue
  that another thread empties *before* it uploads, and nobody joins that
  thread. Correct means: order, no frame twice, `main` gets to its end.
* *Prompt server.* TCP splits a message anywhere, one server thread serves one
  connection at a time, and it is told to stop without being waited for.
  Reads may fail, and their -1 is added to an unsigned counter. Correct means:
  messages are read whole or not at all, and run in order and once; the server
  stops.
* *Upload script.* Each call to the cloud may fail or have its effect and fail,
  and the program does not look at the result. Correct means: a failed upload
  does not keep the next frame from being tried, and what was tried is in the
  bucket or reported.
* *Start.* An element that cannot be made is a NULL pointer, and a NULL ends the
  argument lists of `gst_bin_add_many` and `gst_element_link_many`; some
  pointers are looked at and some are not. Correct means: a start that fails
  leaves nothing running; a pipeline that runs is whole, goes through the filter
  if the configuration says so, and is what the requests take it for.
* *The program as a whole.* The end of the stream passes through whatever is
  linked at the time, and everything that waits for it is in other threads.
  Correct means: no frame is queued behind the end, few frames are without
  labels, the program ends.

`PROJECT.json` lists the hazards one by one, at their lines, with the
properties that cover them.

## The modules

### DynamicLink

One filter bin between `nvvidconv1` and `nvvidconv2`; a `Stream` of frames and
sticky events followed by an EOS. `probes` is the list of blocking probes on
the detector's source pad, `eos_probe` the bins with `remove_elem_probe_cb` on
their source pad, `links`, `children` and `playing` the GStreamer state,
`in_bin` what each bin holds.

* `AddElementToPipeline` and `RemoveElementFromPipeline` are the two requests:
  they append a probe with a copy of the bin's pointer.
* `AddElemProbe` is `add_elem_probe_cb`. `gst_bin_add` refuses a second child of
  the same name (all filter bins have one name) and its result is ignored;
  `gst_pad_unlink` fails if the two converters are not linked, and the callback
  returns early then. Both returns drop the item.
* `PadProbe` is `pad_probe_cb`: the EOS is sent synchronously, so the detector's
  thread is `"draining"` until the EOS has come out of the bin.
* `RemoveElemProbe` is the EOS branch of `remove_elem_probe_cb`; `BinOutput` is
  its other branch, which lets the item pass.
* `PassItem` is the detector pushing an item when no probe is left.

`gst_element_link`, `gst_element_link_many`, `gst_bin_remove` are modelled by
what the code relies on: a pad has at most one peer, linking stops at the first
pair that cannot be linked, removing an element unlinks it.

### SaveWindow

The flag `save_fpfilter_images` and the timeouts that clear it. A request with a
duration is two steps (set the flag, arm the timeout), since the main loop may
run between them. A timeout has no time: any pending one may expire at any
moment, in any order.

### FpFilterControl

Composes the two: `EnableFpfilter`, `DisableFpfilter`, the requests about saving,
and the probe on `nvvidconv2`. A request to enable or disable the filter is one
step although the code makes several assignments. `is_fpfilter_enabled` and
`main_element` are used by the prompt server's thread only, so when in a request
they are set is seen by nobody, and the properties about them speak of the
moments between two requests, which is what the next request finds. The
saving flag is cleared before the probe is installed, and other threads may run
in between; such a behaviour is one with a request "save-fp-disable" in front
of the whole request, since the server alone sets the flag. The selection of a
frame is two steps, `AfterFilterBufferProbe` (in the step that delivers the
frame) and `QueueFrame`, because the flag is read under the mutex and the frame
pushed after it is released. A frame delivered past the bin has no metadata of the filter, and
`save_frames_for_processing` returns early for it.

`UserMeta` carries a detail of the code: the `continue` for metadata of another
type has no effect, so the *last* element of the list is taken for the filter's.
In this pipeline the filter is the last to append one.

### FrameChannel

What the dynamic link and unlink promises, without probes, pads or bins: a
channel that keeps order, repeats nothing, and may lose one item for each
request to enable the filter. `FpFilterControl!IsFrameChannel` is the statement
that the detailed model implements it, with the refinement mapping `FC`:
what is in flight is what the bin holds, less the EOS that drains it, and what
may still be lost is one item for each adding probe that is pending. Each bin is
created for one request to enable the filter, so `created` counts the requests
(`asked`). `FewLost` says that of what was sent nothing is missing but for one
item for each request that has been served; `FewItemsLost` is that statement
about the pipeline.

### FrameSave

`_save_frame_task` step by step (look at the stop flag, look at the length, pop,
start the script, wait for it, sleep), `bus_call`, and `main` from the end of its
loop: wait for an empty queue, set the flag, give up the queue, stop the
pipeline, return. The bus may report the end of the stream, behind the last
frame, or an error, after which the other threads may go on pushing frames.

The upload script is a process of its own: it runs while the save thread waits in
`system`, and goes on when the program has ended. `ListBuckets`, `CreateBucket`
and `UploadFile` are its three calls to the cloud; each may raise an exception,
which ends the script, and the two that change something may have done it
before they fail. `create_bucket` returns `False` for a bucket that cannot be
created, which nobody looks at. `stored` is what is in the bucket, `failed` a
history of the frames whose script failed or was not started.

### PromptServer

Clients write the bytes of one message in pieces, the server thread reads them
in pieces; only numbers of bytes matter. `handle_usr_prompt` is one step per
element of the message. `main` stops the server, releases the pipeline and
returns, without waiting for the thread.

A client may die before it has written everything ("crash"), and its connection
may be reset ("reset"). After a reset what arrived can still be read; then
`read` returns -1 once and 0 from then on. `ReadFails` adds the -1 to the
counter of `_read_bytes`, of width `CounterMax`: at 0 the counter wraps,
the loop ends, and the callback is given a buffer of zeros; elsewhere it counts
one byte less, and the server waits for a byte that does not come.

### Startup

`main` up to `g_main_loop_run`, for each of the three sources and three sinks it
can be built with. `missing` is the set of elements that cannot be made. A bin is
described by its elements in the order of `gst_bin_add_many`, its chains of
`gst_element_link_many` and the elements whose pointers are looked at, which the
definitions `Mp4Source` to `FilterBin` take from the code; `Given` cuts a list
at its first NULL. Each step of `main` that is checked may fail. The
configuration files may be absent, lack their group or their key, or hold what
does not parse: `FpfilterStatus` keeps the uninitialised result of `get_fpfilter_status_from_cfg_file` as a choice, and a
key that is missing counts as enabled.

`HandsOver` composes it with `FpFilterControl`: when `main` sets the pipeline to
PLAYING, the links and children it has made, read through `SrcEnd` and
`SinkEnd` (the elements the ghost pads stand for), satisfy the `Init` of
`FpFilterControl`, and its inductive invariant.

`IInv` says what each step of `main` leaves to the next ones: which bins are
complete (`SourceInv`, `SinkInv`, `FilterInv`), what is in the pipeline
(`AddInv`), what is linked (`LinkInv`), which threads run (`RunInv`).

### FpFilterApp

The running program: `FpFilterControl` and an instance of `FrameSave`, whose
producers are replaced by the streaming threads of the former. `Push` and
`Output` push a frame to the queue in the step in which the probe queues it,
`SinkPostsEos` reports the end of the stream once the EOS has arrived at
`nvvidconv2`, `Timeouts` need the main loop to run, and every thread ends with
the process. `WriteKittiOutput` keeps of the label files which frames one was
opened for; `Unwritable` are those for which `fopen` fails.

`IsFrameSave` states that this implements `FrameSave`. What crosses the parts is
there too: a late frame pushed while `main` waits, a request during the
clean-up, and an EOS that was dropped. `FrameSave` knows a frame by its place in
the queue; `Image` leads from there to the stream, and `UploadsAreSelected` and
`OnlyLastPickedVanishes` follow a frame all the way, from the probe that picks it
to the bucket.

The prompt server is not composed with it: its messages become the requests of
`FpFilterControl`, which may be made in any order and at any time, so a behaviour
with the server is one without it.

### Configurations

`MCFpFilterControl`, `MCFpFilterApp` and `MCPromptServer` give the sequences and
functions that a `.cfg` cannot write down, and the symmetry set. `FrameSave` and
`Startup` need no such module.

The operators under "Variants" in a module are plausible mistakes in the code
next to them. Each property has one that breaks it; `PROJECT.json` pairs them.

## The runs

| run | configuration | what it shows |
|---|---|---|
| `filter_safety` | three bins (one of the start, two to be created), four frames and a sticky event, bin capacity 2, two timeouts | the inductive invariant, the pipeline's shape, the flag's agreement, items go the way last requested, order of delivery, the order inside the bins, at most one late frame, only right frames queued, windows end, the channel is implemented, no more items are lost than bins were asked for |
| `filter_liveness` | the same bins, two frames and an event, one timeout | a request takes effect with the item the detector is at, even the EOS; the stream runs dry; the end arrives unless the filter is enabled |
| `eos_lost` | one bin to be created | *violated*: the end of the stream need not arrive |
| `stale_timeout` | two timeouts | *violated*: a timeout ends a later window |
| `frame_save` | four frames, a script whose every call may fail | the inductive invariant, order, at most one frame left at a normal end, attempts are settled, only the last frame may vanish, `main` returns, pushed frames are uploaded or have failed |
| `stop_leaves_one` | four frames | *violated*: all frames are uploaded when `stop_save_frame_task` returns |
| `use_after_unref` | four frames | *violated*: nobody uses the queue after it was freed |
| `prompt_server` | three clients that may die or be reset, messages of two commands with an unknown one, of one, of none; backlog 1 | the inductive invariant, messages intact, run in order and once, only a message that was cut holds the server, a message that was written is run, the server stops, every client returns |
| `server_held` | two clients that may die | *violated*: the server gets away from every client |
| `late_command` | two clients | *violated*: no command is run on a released pipeline |
| `startup` | nine builds, every state of both configuration files, up to three elements that cannot be made | the inductive invariant, a failed start leaves nothing running, a running pipeline is whole but for two omissions of the code, the filter is used as configured, everything is ready before the first frame, what is handed over is what `FpFilterControl` starts from |
| `app` | the bin of the start and one to be created, two frames, one timeout, one label file that cannot be opened | `FrameSave` is implemented, few labels are missing, the bucket has only frames that were picked, only the last one picked may vanish, the program ends |

Each inductive invariant has the type invariant of its module, `TypeOK`, as its
first conjunct.

The larger runs have 160,000 (`filter_safety`), 105,000 (`prompt_server`), 85,000
(`startup`) and 345,000 (`app`) distinct states.

Two properties name their exceptions. `RunningIsWhole`: the result of
`create_sink_bin` is not looked at, nor is the demuxer of the MP4 source, so a
pipeline without a sink, or with a source that leads nowhere, may be left
running. `OnlyCutMessagesHold`: a client that dies, or whose connection is
reset, in the middle of its message (see `server_held`).

### Bounds, and why they are enough

* *Bins.* A bin is used once. Three bins allow the chains disable-enable-disable-
  enable and enable-disable-enable, all pending at once, or with any of them
  done: every phase of the pipeline meets every kind of pending probe, and an
  adding probe meets a removing one in front of and behind it.
* *Stream.* Four frames, an event and the EOS: items before, inside and past a
  bin at once, a probe fired by each kind of item. `tp_count` and `fp_count`
  make frames with one object, with more than half, exactly half and less than
  half false positives.
* *BinCapacity* 2: one item behind another in the bin, and a full bin.
* *MaxTimers* 2: one timeout pending while another is armed.
* *Frames* 4: one in the save thread's hands, others queued, more to come. That
  they are finite hides one thing: after an error, threads that push for ever
  faster than frames are uploaded would keep `main` waiting for an empty queue.
* *Backlog* 1 with three clients: one served, one waiting and writing already,
  one refused (2 in the two smaller runs). Bodies of 0, 1 and 2 bytes: every
  split of length and body, and every place for a failing read. *CounterMax* 3
  is larger than every length, as `UINT_MAX` is.
* *MaxMissing* 3: two elements of a list and one that is looked at, or one of
  each bin. `main` fails at the first one it looks at.
* `FpFilterApp` has two frames and two bins: a frame inside a bin that is being
  taken out and one behind it, or one for each way through. `Unwritable` is the
  second one; `CloudWorks` is `TRUE` as the failures of the script are the
  matter of `FrameSave`, and they would multiply the states by nothing new.

### Fairness, and why the code justifies it

* The detector's thread and each bin's thread run when they can: they are
  threads of a pipeline that is PLAYING.
* No request is ever owed: a user may stop making them. The main loop need not
  run a timeout either: it ends with the stream, and what is pending is lost.
* In `FrameSave`, `main` and the save thread run when they can, and the upload
  script ends. The stream need not end, and an error need not occur.
* In `PromptServer`, the server thread runs when it can, and a client that has
  connected goes on writing; it may die, and its connection may be reset, where
  `Faults` says so, and neither need happen. `main` need not end.
* In `FpFilterApp` each streaming thread, the save thread, the script, `main` and
  the sink run when they can. No request, no timeout and no error is owed.

Deadlock is not checked: in every module the system may come to its end
(the stream is over, the process has ended, the server has stopped, `main` has
returned), and that a
thread does not wait for ever is stated as a liveness property instead.

## Findings

Each is the violated property of a run; `PROJECT.json` quotes the lines.

* **The end of the stream can be lost** (`eos_lost`). `add_elem_probe_cb` drops
  the item that fires it. If the filter is enabled between the last frame and
  the EOS, that item is the EOS, and `main` waits for ever. Disabling the filter
  does not have this effect (`EndArrivesUnlessEnabling`).
* **A stale timeout ends a later window** (`stale_timeout`). No request removes
  the timeout of an earlier one.
* **The last frame may not be uploaded** (`stop_leaves_one`): an empty queue is
  taken for "all uploaded". At most one frame is left (`StopLeavesAtMostOne`).
* **The queue is used after it was freed** (`use_after_unref`) at the end of any
  run, by the save thread, which is not joined and holds no reference.
* **A client that dies holds the server** (`server_held`): `read` returns 0 and
  `_read_bytes` tries again for ever.
* **A command may be run on a released pipeline** (`late_command`): the server
  thread is not waited for.

## Proofs

Everything listed here is proved with TLAPS for every value of the constants
that satisfies the assumptions of the modules. Each was first checked as an
invariant or a property of a run, the inductive invariants included.

| module | theorem | statement |
|---|---|---|
| `FpFilterControlProofs` | `InductiveInvariant` | `Spec => []IInv` |
| | `TypeCorrect` | `Spec => []TypeOK` |
| | `PipelineIsWhole` | `Spec => []PipelineShape` |
| | `FlagIsRight` | `Spec => []FlagAgreesWithPipeline` |
| | `ItemsGoRight` | `Spec => ItemsGoAsRequested` |
| | `WindowIsOver` | `Spec => []WindowEndsWithItsTimer` |
| | `OneLateFrame` | `Spec => []AtMostOneLateFrame` |
| `FpFilterChannelProofs` | `OrderInductive` | `Spec => [](IInv /\ OrderInv)` |
| | `DeliveryInOrder` | `Spec => []DeliveredInOrder` |
| | `QueueIsDelivered` | `Spec => []QueueFollowsDelivery` |
| | `ImplementsChannel` | `Spec => IsFrameChannel` |
| | `LosesFew` | `Spec => []FewItemsLost` |
| `FrameChannelProofs` | `ChannelOrder` | `Channel => []ArrivedInOrder` |
| | `ChannelLosesFew` | `Channel => []FewLost` |
| `FrameSaveProofs` | `InductiveInvariant` | `Spec => []IInv` |
| | `TypeCorrect` | `Spec => []TypeOK` |
| | `UploadsInOrder` | `Spec => []UploadsFollowPushes` |
| | `StopLeavesOne` | `Spec => []StopLeavesAtMostOne` |
| | `OnlyLastIsLost` | `Spec => []OnlyLastVanishes` |
| | `AttemptsSettle` | `Spec => []AttemptsAreSettled` |
| `PromptServerProofs` | `InductiveInvariant` | `Spec => []IInv` |
| | `TypeCorrect` | `Spec => []TypeOK` |
| | `MessagesAreIntact` | `Spec => []MessageIntact` |
| | `CommandsRunInOrder` | `Spec => []CommandsInOrder` |
| `FpFilterAppProofs` | `ImplementsFrameSave` | `AppSpec => IsFrameSave` |
| | `AppIsFrameChannel` | `AppSpec => IsFrameChannel` |
| | `AppKeepsSaveInv` | `AppSpec => [](AppInv /\ FSP!IInv)` |
| | `LabelsComplete` | `AppSpec => []FewLabelsMissing` |
| | `OnlySelectedUploaded` | `AppSpec => []UploadsAreSelected` |
| | `OnlyLastPickedIsLost` | `AppSpec => []OnlyLastPickedVanishes` |
| `StartupProofs` | `InductiveInvariant` | `Spec => []IInv` |
| | `NothingLeftRunning` | `Spec => []FailureLeavesNothingRunning` |
| | `ReadyFirst` | `Spec => []ReadyBeforePlaying` |
| | `FilterIsConfigured` | `Spec => []FilterAsConfigured` |
| | `WholeIfRunning` | `Spec => []RunningIsWhole` |
| | `HandsOverInit` | `Spec => []HandsOver` |

The assumptions are those the modules name: the NULL pointer and the two
converters are not bins and differ from each other (`ElementsAssumption`), the
stream is a sequence of frames and events, counts, capacities and bounds are
numbers, the first bin is a bin, no client is `NoClient`, and no message is
longer than the counter can count. Finiteness is not assumed: that finitely many
bins were created, labels written and items lost is part of the invariants.

### The pipeline

None of the properties is inductive. The pipeline's shape after the next
callback depends on which probe is the oldest, and that on what the requests
found when they were made, so `IInv` says of each state which of three phases
the pipeline is in (`DirectPhase`, `ThroughPhase(b)`, `DrainingPhase(b)`) and
that the pending probes form a chain, `ProbesLeadFrom`: each probe starts from
what the one before it leaves, the first from the phase, and `main_element` is
what the last one leaves. The lemmas `ProbesAppend` and `ProbesTail` say that a
request extends the chain and that a callback shortens it; with them each action
takes one phase to another:

```
             AddElemProbe                    PadProbe
   Direct ----------------> Through(b) ----------------> Draining(b)
     ^                                                       |
     +---------------------- RemoveElemProbe ----------------+
```

A draining bin holds the EOS behind everything else, which is why it is empty
of frames when it is taken out. `SaveInv` adds that a server between the two
steps of a request owns the newest timeout, and `LateInv` that the frame in the
probe's hands and the late ones are one at most while the flag is clear.
The proof has a lemma per action for each part, a lemma per thread
(`InvPromptServer`, `InvMainLoop`, `InvDetector`, `InvBinThread`), and `InvNext`
combines them.

### The items

The order of delivery needs a second invariant, `OrderInv`, on top of the
phases: a bin holds what was pushed into it in order, behind all that was
delivered, and behind that at most the draining EOS. Each step of a streaming
thread is first reduced to what it does to the items (`AddMove`, `PadMove`,
`PassMove`, `OutputMove`, `RemoveMove`), which is where the phases are used: only
one bin holds items, nothing is delivered past it, and what is thrown away with a
bin is the draining EOS alone. `QueueFollowsDelivery` follows step by step from
the order, as a frame is queued when it is the newest one delivered.

`ImplementsChannel` takes the same moves and shows for each which step of
`FrameChannel` it is: a request to enable the filter is `Request`, its callback
`Serve`, an item that passes `SendThrough` or `Send`, an item that leaves a bin
`Arrive`, and everything else changes nothing that the channel sees. Its lemmas
say what appending and taking do to the three functions of the mapping:
the items in flight, the items that arrived, the number of adding probes.

`LosesFew` is then a theorem about the channel alone. `FewLostNext` counts its
steps: only `Serve` can lose an item, and it pays for it with one of `owed`, which
only `Request` raises. The instance `FCP` of its proofs carries the invariant over
to the pipeline, so that no counting is done among probes and pads.

### The upload

`FrameSave!IInv` numbers the frames: those done, the one in hand and those that
wait are 1, 2, 3 and so on (`InOrder`). `SettledInv` adds that the frame in hand
counts as tried once its script has ended, and `EndInv` that the queue found
empty after the end of the stream stays empty, which is what limits the loss to
the frame in hand.

### The server

`PromptServer!IInv` relates the counter of `_read_bytes` to the bytes read so far
(`ReadInv`), with the held server as the one exception: its counter may be off,
but nothing will arrive. `AcceptedOnce` says that a client is at one place
only, and `RunInv` that what was run last is the part of the current message that
lies behind `idx`; both are needed for the order of the commands.

### The program

`ImplementsFrameSave` rests on two facts about the filter that `FrameSave` takes
for granted. No frame is pushed once the end of the stream is reported:
`HandsInv` says that the probe has no frame in its hands when the EOS has
arrived, and the order of the items that none can follow. And no more frames are
pushed than the stream has: they are queued in order and once
(`QueueFollowsDelivery`), so their places are an injection into the stream
(`QueueFits`).

A theorem about a part needs its initial states and steps only, and both
refinements give those. So the program is a channel (`AppIsFrameChannel`) and
keeps the invariants of the channel and of the upload (`AppKeepsSaveInv`, with
the instance `FSP` of the proofs about `FrameSave`). What crosses the parts
follows from them together:

* `LabelsComplete`. When the end is reported the EOS has arrived (`ReportedInv`),
  so no frame is in flight (`NoFrameInFlight`); every frame that arrived has its
  labels (`LabelInv`); so one without labels is one the channel lost
  (`MissingIsLost`), and `FewLost` counts those.
* `OnlySelectedUploaded`. What is uploaded is a place in the queue, in order
  (`FSP!IInv`); the queue has delivered frames in order (`QueueFollowsDelivery`).
* `OnlyLastPickedIsLost`. At the end the probe has nothing in its hands
  (`HandsInv`), so what was picked is what was pushed, and `OnlyLastVanishes` of
  `FrameSave` speaks of all of it.

### The start

`Startup` has no loop, but its pipeline is computed from lists, and what a list
leaves depends on where its first NULL is. `Smallest`, that a set of numbers that
is not empty has a least one, follows from the well-foundedness of `<`; with it
`GivenIs` says what `Given` keeps, and `AddManyIs` and `LinkManyIs` what the two
variadic calls do. From then on a bin that was added or linked with nothing
missing is complete (`BinMadeAdds`, `ChainLinks`), and the invariant speaks of
complete bins only, with the demuxer that nobody looks at as the one exception.

Each step has a lemma (`CreateSourceBinInv` to `QtdemuxNewPadCbInv`), most of
which only say that the new links and children do not disturb the parts that are
done already. `Crossing` names the four links that could join the converters
another way than the flag says; that none but `CrossingFor` is made makes
`FilterAsConfigured` and `HandsOver` true. `RunningIsWhole` speaks of a row from
the file to the sink which depends on the build: `Join` puts two linked rows
together, `SourceInARow` and `MainLinked` are the parts.

`HandsOverInit` shows that the constants of the pipeline satisfy the assumptions
of `FpFilterControl` (`ControlAssumptions`), so that the theorems about it, taken
through the instance `CP` of their module, hold from the state that `main`
hands over (`ControlIsProved`). With `PlayingIsInit` the two proofs are one: what
`main` builds is what the requests assume.

### What is only model-checked

All liveness properties: `EnableTakesEffect` and the others of `filter_liveness`,
the ends of `FrameSave`, `PromptServer` and `FpFilterApp`. They rest on fairness,
which is out of the prover's reach. Every invariant and every refinement that a
run checks is also a theorem.

## What is assumed of code outside the repository

* A probe callback list runs oldest first; `DROP` ends the handling of the item;
  a dropped sticky event stays on the pad and goes out in front of the next
  item, and behind an EOS there is none.
* `nvvidconv1` and `nvvidconv2` convert in the pushing thread, so nothing is
  between them while a blocking probe runs.
* The bin keeps the order of what it is given and lets an EOS out behind it, and
  sending the EOS returns when it is out.
* `GAsyncQueue` is a FIFO; GLib runs a timeout once if its callback returns
  `FALSE`; `system` returns when the script has ended, and each call of the
  script to the cloud returns or raises.
* TCP keeps the order of bytes and nothing else. After a reset, `read` returns
  what has arrived, -1 once, and 0 from then on.
* `gst_bin_add_many` and `gst_element_link_many` take their list up to the first
  NULL. Two elements that are linked without a look at the result can be linked.

## What is not modelled, and why

* `main`, 1025-1059, which looks up the unique id of the detector,
  `get_absolute_file_path`, `seek_query_drop_prob`, and the properties set on
  elements: values handed to NVIDIA's elements, without control of their own.
* The manager's buffer of 4096 bytes and the reading of its file: only the
  number of bytes on the connection is modelled.
* Durations: a timeout may expire at any time. How `duration` is cut to 32 bits
  is not shown.
* The text of labels, messages and JSON: formatting without state. An unparsable
  body is a message without commands.
* The removal of the image file by the script, and its arguments: nothing in the
  program reads them again.
* Frames pushed without end after an error, which would keep `main` waiting: the
  number of frames is bounded.
* NVIDIA's elements and the plugin, which come without source; models, plugin
  configuration and `Makefile`, which are data.

## Plan

The modules were written in the order `DynamicLink`, `SaveWindow`,
`FpFilterControl`, `FrameChannel`, `FrameSave`, `PromptServer`, `Startup`,
`FpFilterApp`, each with its runs, and its proofs after them. What is left:

1. An abstract specification of the prompt server, a queue of whole messages
   whose commands run one by one, and the proof that `PromptServer` implements it.
2. The safety half of `OnlyCutMessagesHold` and `MessageIsRun`: as long as no
   message was cut, what the server waits for is still to be written.
3. The manager's buffer, with its size, next to the bytes of `PromptServer`.
