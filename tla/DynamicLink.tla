---------------------------- MODULE DynamicLink ----------------------------
(***************************************************************************)
(* Adding an element to a running GStreamer pipeline and removing it again *)
(* (ds_dynamic_link_unlink_element.c), for the one element the application *)
(* uses it for, the false-positive filter bin.                             *)
(*                                                                         *)
(*    primary_detector --> nvvidconv1 --> [ filter bin ] --> nvvidconv2    *)
(*                                                                         *)
(* A request installs a blocking probe on the detector's source pad and    *)
(* returns.  The work is done later, by the streaming thread that pushes   *)
(* the next item through that pad: the callbacks of the installed probes   *)
(* run one after the other, oldest first, before the item goes on.         *)
(*                                                                         *)
(* Assumed of GStreamer and of the DeepStream elements, which are not part *)
(* of the repository:                                                      *)
(*  - nvvidconv1 and nvvidconv2 convert an item in the thread that pushes  *)
(*    it, so no item is between them while a probe callback runs;          *)
(*  - the bin works on several items at once in threads of its own, keeps  *)
(*    their order, and lets an EOS through only behind them, while the     *)
(*    thread that sent the EOS waits;                                      *)
(*  - a probe that returns DROP ends the handling of the item.  A sticky   *)
(*    event that is dropped stays on the pad and goes out in front of the  *)
(*    next item.  Behind an EOS there is no next item.                     *)
(***************************************************************************)
EXTENDS Naturals, Sequences, FiniteSets

CONSTANTS
  Bins,         \* the filter bins the application may create, each used once
  NoBin,        \* the NULL pointer
  nvvidconv1,   \* main_prev_element of fp_filter_dynamic_link_info
  nvvidconv2,   \* main_next_element
  Stream,       \* what the detector pushes, "frame" or (sticky) "event"; an
                \* EOS follows
  BinCapacity   \* bound: items the bin holds before it blocks its input

ASSUME ElementsAssumption ==
  /\ NoBin \notin Bins
  /\ nvvidconv1 \notin Bins
  /\ nvvidconv2 \notin Bins
  /\ nvvidconv1 # nvvidconv2

ASSUME StreamAssumption == Stream \in Seq({"frame", "event"})

ASSUME CapacityAssumption == BinCapacity \in Nat \ {0}

VARIABLES
  main_element, \* of fp_filter_dynamic_link_info: the bin in use, or NoBin
  probes,       \* blocking probes on the detector's source pad, oldest first
  eos_probe,    \* the bins whose source pad has remove_elem_probe_cb on it
  children,     \* the filter bins that are children of the pipeline
  links,        \* pairs <<element, element>> of linked source and sink pads
  playing,      \* the bins in state PLAYING
  in_bin,       \* for each bin the items inside it, oldest first
  pos,          \* the item the detector is pushing
  streaming,    \* the detector's thread: "pushing", or "draining" while the
                \* EOS it sent into a bin has not come out
  delivered     \* history: what arrived at nvvidconv2, and through which bin

linkVars == <<main_element, probes, eos_probe, children, links, playing,
              in_bin, pos, streaming, delivered>>

\* Items are numbered in the order the detector pushes them.  The EOS sent
\* into a bin to drain it is not one of them.
Eos == Len(Stream) + 1
DrainEos == 0
Items == 1..Eos
Kind(item) == IF item \in 1..Len(Stream) THEN Stream[item] ELSE "eos"

Probe == [cb : {"add", "remove"}, elem : Bins]

StreamOver == pos > Eos

LinkTypeOK ==
  /\ main_element \in Bins \cup {NoBin}
  /\ probes \in Seq(Probe)
  /\ eos_probe \in SUBSET Bins
  /\ children \in SUBSET Bins
  /\ links \in SUBSET ((Bins \cup {nvvidconv1}) \X (Bins \cup {nvvidconv2}))
  /\ playing \in SUBSET Bins
  /\ in_bin \in [Bins -> Seq(Items \cup {DrainEos})]
  /\ pos \in 1..(Eos + 1)
  /\ streaming \in {"pushing", "draining"}
  /\ delivered \in Seq([item : Items \cup {DrainEos}, via : Bins \cup {NoBin}])

-----------------------------------------------------------------------------
(* Variants of the definitions below as a plausible mistake would have      *)
(* written them; the checks of the project substitute them.                 *)

\* pad_probe_cb sends the EOS without the probe that waits for it.
PadProbeForgetsEosProbe ==
  LET b == Head(probes).elem IN
  /\ streaming = "pushing" /\ ~StreamOver
  /\ probes # <<>> /\ Head(probes).cb = "remove"
  /\ probes' = Tail(probes)
  /\ streaming' = "draining"
  /\ in_bin' = [in_bin EXCEPT ![b] = Append(@, DrainEos)]
  /\ UNCHANGED <<main_element, eos_probe, children, links, playing, pos,
                 delivered>>

\* remove_elem_probe_cb takes whatever leaves the bin for the EOS.
RemoveElemProbeOnAnyItem(b) ==
  /\ b \in eos_probe /\ b \in playing
  /\ in_bin[b] # <<>>
  /\ eos_probe' = eos_probe \ {b}
  /\ playing' = playing \ {b}
  /\ children' = children \ {b}
  /\ links' = {<<nvvidconv1, nvvidconv2>>}
  /\ in_bin' = [in_bin EXCEPT ![b] = <<>>]
  /\ streaming' = "pushing"
  /\ UNCHANGED <<main_element, probes, pos, delivered>>

\* remove_elem_probe_cb does not link the neighbours again.
RemoveElemProbeLeavesGap(b) ==
  /\ b \in eos_probe /\ b \in playing
  /\ in_bin[b] # <<>> /\ Kind(Head(in_bin[b])) = "eos"
  /\ eos_probe' = eos_probe \ {b}
  /\ playing' = playing \ {b}
  /\ children' = children \ {b}
  /\ links' = {}
  /\ in_bin' = [in_bin EXCEPT ![b] = <<>>]
  /\ streaming' = "pushing"
  /\ UNCHANGED <<main_element, probes, pos, delivered>>

\* add_elem_probe_cb is removed without having done its work.
AddElemProbeDoesNothing ==
  /\ streaming = "pushing" /\ ~StreamOver
  /\ probes # <<>> /\ Head(probes).cb = "add"
  /\ probes' = Tail(probes)
  /\ pos' = IF Kind(pos) = "event" THEN pos ELSE pos + 1
  /\ UNCHANGED <<main_element, eos_probe, children, links, playing, in_bin,
                 streaming, delivered>>

-----------------------------------------------------------------------------
(* Pads.                                                                    *)

\* gst_element_link: the source pad of a and the sink pad of b must be free.
Link(L, a, b) ==
  IF \E l \in L : l[1] = a \/ l[2] = b THEN L ELSE L \cup {<<a, b>>}

\* gst_element_link_many stops at the first pair it cannot link.
LinkThrough(L, a, b, c) ==
  IF <<a, b>> \in Link(L, a, b) THEN Link(Link(L, a, b), b, c) ELSE L

\* gst_bin_remove unlinks all pads of the element.
WithoutLinksOf(L, b) == {l \in L : l[1] # b /\ l[2] # b}

-----------------------------------------------------------------------------
(* The requests, called by the prompt server thread.  Each installs its     *)
(* probe with a copy of the information it was given.                       *)

AddElementToPipeline(b) ==
  probes' = Append(probes, [cb |-> "add", elem |-> b])

RemoveElementFromPipeline(b) ==
  probes' = Append(probes, [cb |-> "remove", elem |-> b])

-----------------------------------------------------------------------------
(* The detector's streaming thread.                                         *)

\* add_elem_probe_cb.  All filter bins have one name, and gst_bin_add refuses
\* a second child of a name; its result is not looked at.  The item that fired
\* the probe is dropped.
AddElemProbe ==
  LET b == Head(probes).elem
      direct == <<nvvidconv1, nvvidconv2>>
  IN
  /\ streaming = "pushing" /\ ~StreamOver
  /\ probes # <<>> /\ Head(probes).cb = "add"
  /\ probes' = Tail(probes)
  /\ children' = IF children = {} THEN {b} ELSE children
  /\ IF direct \in links
     THEN /\ links' = LinkThrough(links \ {direct}, nvvidconv1, b, nvvidconv2)
          /\ playing' = playing \cup {b}
     ELSE UNCHANGED <<links, playing>>
  /\ pos' = IF Kind(pos) = "event" THEN pos ELSE pos + 1
  /\ UNCHANGED <<main_element, eos_probe, in_bin, streaming, delivered>>

\* pad_probe_cb: install the probe for the EOS behind the bin, send an EOS
\* into the bin, and wait until the bin let it out.
PadProbe ==
  LET b == Head(probes).elem IN
  /\ streaming = "pushing" /\ ~StreamOver
  /\ probes # <<>> /\ Head(probes).cb = "remove"
  /\ probes' = Tail(probes)
  /\ eos_probe' = eos_probe \cup {b}
  /\ in_bin' = [in_bin EXCEPT ![b] = Append(@, DrainEos)]
  /\ streaming' = "draining"
  /\ UNCHANGED <<main_element, children, links, playing, pos, delivered>>

\* No probe is left on the pad: the item goes on, to nvvidconv2 or into the
\* bin, whichever is linked behind nvvidconv1.
PassItem ==
  /\ streaming = "pushing" /\ ~StreamOver
  /\ probes = <<>>
  /\ \/ /\ <<nvvidconv1, nvvidconv2>> \in links
        /\ delivered' = Append(delivered, [item |-> pos, via |-> NoBin])
        /\ UNCHANGED in_bin
     \/ \E b \in playing :
          /\ <<nvvidconv1, b>> \in links
          /\ Len(in_bin[b]) < BinCapacity
          /\ in_bin' = [in_bin EXCEPT ![b] = Append(@, pos)]
          /\ UNCHANGED delivered
  /\ pos' = pos + 1
  /\ UNCHANGED <<main_element, probes, eos_probe, children, links, playing,
                 streaming>>

-----------------------------------------------------------------------------
(* The output side of a bin.                                                *)

\* The probe behind the bin lets everything pass that is not an EOS.
BinOutput(b) ==
  /\ b \in playing /\ <<b, nvvidconv2>> \in links
  /\ in_bin[b] # <<>>
  /\ b \in eos_probe => Kind(Head(in_bin[b])) # "eos"
  /\ delivered' = Append(delivered, [item |-> Head(in_bin[b]), via |-> b])
  /\ in_bin' = [in_bin EXCEPT ![b] = Tail(@)]
  /\ UNCHANGED <<main_element, probes, eos_probe, children, links, playing,
                 pos, streaming>>

\* remove_elem_probe_cb on an EOS: stop the bin and take it out, link its
\* neighbours, drop the EOS.  What was still in the bin is gone with it.  The
\* detector's thread returns from sending the EOS.
RemoveElemProbe(b) ==
  /\ b \in eos_probe /\ b \in playing
  /\ in_bin[b] # <<>> /\ Kind(Head(in_bin[b])) = "eos"
  /\ eos_probe' = eos_probe \ {b}
  /\ playing' = playing \ {b}
  /\ children' = children \ {b}
  /\ links' = Link(WithoutLinksOf(links, b), nvvidconv1, nvvidconv2)
  /\ in_bin' = [in_bin EXCEPT ![b] = <<>>]
  /\ streaming' = "pushing"
  /\ UNCHANGED <<main_element, probes, pos, delivered>>
=============================================================================
