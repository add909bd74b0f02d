----------------------- MODULE FpFilterControlProofs -----------------------
(***************************************************************************)
(* The invariant IInv of FpFilterControl is inductive, for every set of    *)
(* bins, every stream and every number of timeouts.  Type correctness, the *)
(* shape of the pipeline, the agreement of the flag with it and the bound  *)
(* on late frames follow.                                                  *)
(***************************************************************************)
EXTENDS FpFilterControl, SequenceTheorems, TLAPS

-----------------------------------------------------------------------------
(* Facts about the pending probes.                                          *)

\* A request that starts from the bin in use extends the chain of probes.
LEMMA ProbesAppend ==
  ASSUME probes \in Seq(Probe),
         NEW c, ProbesLeadFrom(c),
         NEW p \in Probe,
         probes' = Append(probes, p),
         main_element = (IF p.cb = "add" THEN NoBin ELSE p.elem),
         main_element' = InUseAfter(p),
         is_fpfilter_enabled' <=> (main_element' # NoBin)
  PROVE  ProbesLeadFrom(c)'
<1>1. /\ Len(probes') = Len(probes) + 1
      /\ DOMAIN probes' = 1..(Len(probes) + 1)
      /\ DOMAIN probes = 1..Len(probes)
      /\ Len(probes) \in Nat
      /\ probes' # <<>>
      /\ probes'[Len(probes) + 1] = p
      /\ \A i \in 1..Len(probes) : probes'[i] = probes[i]
  OBVIOUS
<1>2. ASSUME NEW i \in 1..Len(probes)
      PROVE  (IF i = 1 THEN c ELSE InUseAfter(probes'[i - 1]))
               = (IF probes'[i].cb = "add" THEN NoBin ELSE probes'[i].elem)
  <2>1. (IF i = 1 THEN c ELSE InUseAfter(probes[i - 1]))
          = (IF probes[i].cb = "add" THEN NoBin ELSE probes[i].elem)
    BY <1>1 DEF ProbesLeadFrom
  <2>2. i # 1 => probes'[i - 1] = probes[i - 1]
    BY <1>1
  <2>3. QED
    BY <1>1, <2>1, <2>2
<1>3. (IF Len(probes) + 1 = 1 THEN c ELSE InUseAfter(probes'[Len(probes)]))
        = (IF p.cb = "add" THEN NoBin ELSE p.elem)
  <2>1. CASE probes = <<>>
    <3>1. Len(probes) = 0 /\ main_element = c
      BY <2>1 DEF ProbesLeadFrom
    <3>2. QED
      BY <3>1
  <2>2. CASE probes # <<>>
    <3>1. Len(probes) # 0 /\ Len(probes) \in DOMAIN probes
      BY <2>2
    <3>2. main_element = InUseAfter(probes[Len(probes)])
      BY <2>2 DEF ProbesLeadFrom
    <3>3. probes'[Len(probes)] = probes[Len(probes)]
      BY <1>1, <3>1
    <3>4. QED
      BY <1>1, <3>1, <3>2, <3>3
  <2>3. QED
    BY <2>1, <2>2
<1>4. ASSUME NEW i \in DOMAIN probes'
      PROVE  (IF i = 1 THEN c ELSE InUseAfter(probes'[i - 1]))
               = (IF probes'[i].cb = "add" THEN NoBin ELSE probes'[i].elem)
  <2>1. CASE i \in 1..Len(probes)
    BY <1>2, <2>1
  <2>2. CASE i = Len(probes) + 1
    <3>1. i - 1 = Len(probes)
      BY <1>1, <2>2
    <3>2. QED
      BY <1>1, <1>3, <2>2, <3>1
  <2>3. QED
    BY <1>1, <2>1, <2>2
<1>5. main_element' = InUseAfter(probes'[Len(probes')])
  BY <1>1
<1>6. QED
  BY <1>1, <1>4, <1>5 DEF ProbesLeadFrom, InUseAfter

\* The oldest probe starts from the bin now in use.
LEMMA ProbesHead ==
  ASSUME probes \in Seq(Probe), probes # <<>>,
         NEW c, ProbesLeadFrom(c)
  PROVE  /\ Head(probes) \in Probe
         /\ c = IF Head(probes).cb = "add" THEN NoBin ELSE Head(probes).elem
<1>1. 1 \in DOMAIN probes /\ probes[1] = Head(probes) /\ Head(probes) \in Probe
  OBVIOUS
<1>2. QED
  BY <1>1 DEF ProbesLeadFrom

\* Once it has done its work the others lead on from what it leaves.
LEMMA ProbesTail ==
  ASSUME probes \in Seq(Probe), probes # <<>>,
         NEW c, ProbesLeadFrom(c),
         NEW d, d = InUseAfter(Head(probes)),
         probes' = Tail(probes),
         UNCHANGED <<main_element, is_fpfilter_enabled>>
  PROVE  ProbesLeadFrom(d)'
<1>1. /\ Len(probes) \in Nat \ {0}
      /\ DOMAIN probes = 1..Len(probes)
      /\ probes' \in Seq(Probe)
      /\ Len(probes') = Len(probes) - 1
      /\ DOMAIN probes' = 1..(Len(probes) - 1)
      /\ probes[1] = Head(probes)
      /\ \A i \in 1..(Len(probes) - 1) : probes'[i] = probes[i + 1]
      /\ probes' = <<>> <=> Len(probes) = 1
  <2>1. /\ Len(probes) \in Nat \ {0}
        /\ DOMAIN probes = 1..Len(probes)
        /\ probes[1] = Head(probes)
    OBVIOUS
  <2>2. /\ probes' \in Seq(Probe)
        /\ Len(probes') = Len(probes) - 1
    OBVIOUS
  <2>3. DOMAIN probes' = 1..(Len(probes) - 1)
    BY <2>2
  <2>4. \A i \in 1..(Len(probes) - 1) : probes'[i] = probes[i + 1]
    BY <2>1
  <2>5. probes' = <<>> <=> Len(probes') = 0
    BY <2>2, EmptySeq
  <2>6. QED
    BY <2>1, <2>2, <2>3, <2>4, <2>5
<1>2. ASSUME NEW i \in DOMAIN probes'
      PROVE  (IF i = 1 THEN d ELSE InUseAfter(probes'[i - 1]))
               = (IF probes'[i].cb = "add" THEN NoBin ELSE probes'[i].elem)
  <2>1. i + 1 \in DOMAIN probes /\ i + 1 # 1 /\ probes'[i] = probes[i + 1]
        /\ (i + 1) - 1 = i
    BY <1>1
  <2>2. InUseAfter(probes[i])
          = (IF probes[i + 1].cb = "add" THEN NoBin ELSE probes[i + 1].elem)
    BY <2>1 DEF ProbesLeadFrom
  <2>3. CASE i = 1
    BY <1>1, <2>1, <2>2, <2>3
  <2>4. CASE i # 1
    <3>1. probes'[i - 1] = probes[i]
      BY <1>1, <2>4
    <3>2. QED
      BY <2>1, <2>2, <2>4, <3>1
  <2>5. QED
    BY <2>3, <2>4
<1>3. main_element' = IF probes' = <<>> THEN d
                      ELSE InUseAfter(probes'[Len(probes')])
  <2>1. main_element = InUseAfter(probes[Len(probes)])
    BY <1>1 DEF ProbesLeadFrom
  <2>2. CASE probes' = <<>>
    BY <1>1, <2>1, <2>2
  <2>3. CASE probes' # <<>>
    <3>1. probes'[Len(probes')] = probes[Len(probes)]
      BY <1>1, <2>3
    <3>2. QED
      BY <2>1, <2>3, <3>1
  <2>4. QED
    BY <2>2, <2>3
<1>4. QED
  BY <1>2, <1>3 DEF ProbesLeadFrom, InUseAfter

\* The chain says nothing of the rest of the state.
LEMMA ProbesUnchanged ==
  ASSUME NEW c, ProbesLeadFrom(c),
         UNCHANGED <<probes, main_element, is_fpfilter_enabled>>
  PROVE  ProbesLeadFrom(c)'
BY DEF ProbesLeadFrom, InUseAfter

-----------------------------------------------------------------------------
(* The links after the three callbacks.                                     *)

\* Between the two converters, with no link left, the bin is linked to both.
LEMMA LinkThroughBin ==
  ASSUME NEW b \in Bins
  PROVE  LinkThrough({}, nvvidconv1, b, nvvidconv2)
           = {<<nvvidconv1, b>>, <<b, nvvidconv2>>}
<1>1. Link({}, nvvidconv1, b) = {<<nvvidconv1, b>>}
  BY DEF Link
<1>2. Link({<<nvvidconv1, b>>}, b, nvvidconv2)
        = {<<nvvidconv1, b>>, <<b, nvvidconv2>>}
  <2>1. nvvidconv1 # b /\ b # nvvidconv2
    BY ElementsAssumption
  <2>2. ~ \E l \in {<<nvvidconv1, b>>} : l[1] = b \/ l[2] = nvvidconv2
    BY <2>1
  <2>3. QED
    BY <2>2 DEF Link
<1>3. QED
  BY <1>1, <1>2 DEF LinkThrough

\* Without the links of the bin nothing is linked, and the neighbours can be.
LEMMA LinkNeighbours ==
  ASSUME NEW b \in Bins
  PROVE  Link(WithoutLinksOf({<<nvvidconv1, b>>, <<b, nvvidconv2>>}, b),
              nvvidconv1, nvvidconv2) = {<<nvvidconv1, nvvidconv2>>}
<1>1. WithoutLinksOf({<<nvvidconv1, b>>, <<b, nvvidconv2>>}, b) = {}
  BY DEF WithoutLinksOf
<1>2. QED
  BY <1>1 DEF Link

-----------------------------------------------------------------------------
(* The phases of the pipeline, action by action.                            *)

LEMMA LinkUnchanged ==
  ASSUME LinkInv, UNCHANGED <<linkVars, is_fpfilter_enabled>>
  PROVE  LinkInv'
<1>1. CASE DirectPhase
  <2>1. ProbesLeadFrom(NoBin)'
    BY <1>1, ProbesUnchanged DEF DirectPhase, linkVars
  <2>2. DirectPhase'
    BY <1>1, <2>1 DEF DirectPhase, Direct, linkVars
  <2>3. QED
    BY <2>2 DEF LinkInv
<1>2. ASSUME NEW b \in Bins, ThroughPhase(b)
      PROVE  LinkInv'
  <2>1. ProbesLeadFrom(b)'
    BY <1>2, ProbesUnchanged DEF ThroughPhase, linkVars
  <2>2. ThroughPhase(b)'
    BY <1>2, <2>1 DEF ThroughPhase, Through, linkVars
  <2>3. QED
    BY <2>2 DEF LinkInv
<1>3. ASSUME NEW b \in Bins, DrainingPhase(b)
      PROVE  LinkInv'
  <2>1. ProbesLeadFrom(NoBin)'
    BY <1>3, ProbesUnchanged DEF DrainingPhase, linkVars
  <2>2. DrainingPhase(b)'
    BY <1>3, <2>1 DEF DrainingPhase, Through, linkVars
  <2>3. QED
    BY <2>2 DEF LinkInv
<1>4. QED
  BY <1>1, <1>2, <1>3 DEF LinkInv

\* A request changes the chain of probes only, whatever the phase.
LEMMA LinkRequest ==
  ASSUME TypeOK, LinkInv,
         NEW p \in Probe,
         probes' = Append(probes, p),
         main_element = (IF p.cb = "add" THEN NoBin ELSE p.elem),
         main_element' = InUseAfter(p),
         is_fpfilter_enabled' <=> (main_element' # NoBin),
         UNCHANGED <<eos_probe, children, links, playing, in_bin, streaming>>
  PROVE  LinkInv'
<1>0. probes \in Seq(Probe)
  BY DEF TypeOK, LinkTypeOK
<1>1. CASE DirectPhase
  <2>1. ProbesLeadFrom(NoBin)'
    BY <1>0, <1>1, ProbesAppend DEF DirectPhase
  <2>2. DirectPhase'
    BY <1>1, <2>1 DEF DirectPhase, Direct
  <2>3. QED
    BY <2>2 DEF LinkInv
<1>2. ASSUME NEW b \in Bins, ThroughPhase(b)
      PROVE  LinkInv'
  <2>1. ProbesLeadFrom(b)'
    BY <1>0, <1>2, ProbesAppend DEF ThroughPhase
  <2>2. ThroughPhase(b)'
    BY <1>2, <2>1 DEF ThroughPhase, Through
  <2>3. QED
    BY <2>2 DEF LinkInv
<1>3. ASSUME NEW b \in Bins, DrainingPhase(b)
      PROVE  LinkInv'
  <2>1. ProbesLeadFrom(NoBin)'
    BY <1>0, <1>3, ProbesAppend DEF DrainingPhase
  <2>2. DrainingPhase(b)'
    BY <1>3, <2>1 DEF DrainingPhase, Through
  <2>3. QED
    BY <2>2 DEF LinkInv
<1>4. QED
  BY <1>1, <1>2, <1>3 DEF LinkInv

\* In every phase the flag says whether there is a bin in use.
LEMMA FlagIsMainElement ==
  ASSUME LinkInv
  PROVE  is_fpfilter_enabled <=> (main_element # NoBin)
BY DEF LinkInv, DirectPhase, ThroughPhase, DrainingPhase, ProbesLeadFrom

LEMMA LinkEnable ==
  ASSUME TypeOK, LinkInv, NEW b \in Bins, EnableFpfilter(b)
  PROVE  LinkInv'
<1> DEFINE p == [cb |-> "add", elem |-> b]
<1>1. p \in Probe /\ p.cb = "add" /\ p.elem = b /\ b # NoBin
  BY ElementsAssumption DEF Probe
<1>2. main_element = NoBin
  BY FlagIsMainElement DEF EnableFpfilter
<1>3. /\ probes' = Append(probes, p) /\ main_element' = InUseAfter(p)
      /\ is_fpfilter_enabled' = TRUE
      /\ UNCHANGED <<eos_probe, children, links, playing, in_bin, streaming>>
  BY <1>1 DEF EnableFpfilter, AddElementToPipeline, InUseAfter
<1>4. is_fpfilter_enabled' <=> (main_element' # NoBin)
  BY <1>1, <1>3 DEF InUseAfter
<1> HIDE DEF p
<1>5. QED
  BY <1>1, <1>2, <1>3, <1>4, LinkRequest

LEMMA LinkDisable ==
  ASSUME TypeOK, LinkInv, DisableFpfilter
  PROVE  LinkInv'
<1> DEFINE p == [cb |-> "remove", elem |-> main_element]
<1>1. main_element \in Bins
  BY FlagIsMainElement DEF DisableFpfilter, TypeOK, LinkTypeOK
<1>2. p \in Probe /\ p.cb = "remove" /\ p.elem = main_element
  BY <1>1 DEF Probe
<1>3. /\ probes' = Append(probes, p) /\ main_element' = InUseAfter(p)
      /\ is_fpfilter_enabled' = FALSE
      /\ UNCHANGED <<eos_probe, children, links, playing, in_bin, streaming>>
  BY <1>2 DEF DisableFpfilter, RemoveElementFromPipeline, InUseAfter
<1>4. is_fpfilter_enabled' <=> (main_element' # NoBin)
  BY <1>2, <1>3 DEF InUseAfter
<1> HIDE DEF p
<1>5. QED
  BY <1>2, <1>3, <1>4, LinkRequest

LEMMA LinkAdd ==
  ASSUME TypeOK, LinkInv, AddElemProbe, UNCHANGED is_fpfilter_enabled
  PROVE  LinkInv'
<1>0. probes \in Seq(Probe) /\ probes # <<>> /\ probes' = Tail(probes)
      /\ Head(probes).cb = "add" /\ streaming = "pushing"
      /\ UNCHANGED <<main_element, is_fpfilter_enabled>>
  BY DEF TypeOK, LinkTypeOK, AddElemProbe
<1>1. Head(probes) \in Probe
  BY <1>0, HeadTailProperties
<1>2. PICK b \in Bins : b = Head(probes).elem /\ b = InUseAfter(Head(probes))
  BY <1>0, <1>1 DEF Probe, InUseAfter
<1>3. DirectPhase
  <2>1. ASSUME NEW c \in Bins, ThroughPhase(c)
        PROVE  FALSE
    <3>1. c = NoBin
      BY <1>0, <2>1, ProbesHead DEF ThroughPhase
    <3>2. QED
      BY <3>1, ElementsAssumption
  <2>2. ASSUME NEW c \in Bins, DrainingPhase(c)
        PROVE  FALSE
    BY <1>0, <2>2 DEF DrainingPhase
  <2>3. QED
    BY <2>1, <2>2 DEF LinkInv
<1>4. ProbesLeadFrom(b)'
  BY <1>0, <1>2, <1>3, ProbesTail DEF DirectPhase
<1>5. /\ children' = {b} /\ playing' = {b}
      /\ links' = LinkThrough({}, nvvidconv1, b, nvvidconv2)
      /\ UNCHANGED <<eos_probe, in_bin, streaming>>
  BY <1>2, <1>3 DEF AddElemProbe, DirectPhase, Direct
<1>6. Through(b)'
  BY <1>5, LinkThroughBin DEF Through
<1>7. ThroughPhase(b)'
  BY <1>3, <1>4, <1>5, <1>6 DEF ThroughPhase, DirectPhase
<1>8. QED
  BY <1>7 DEF LinkInv

LEMMA LinkPad ==
  ASSUME TypeOK, LinkInv, PadProbe, UNCHANGED is_fpfilter_enabled
  PROVE  LinkInv'
<1>0. probes \in Seq(Probe) /\ probes # <<>> /\ probes' = Tail(probes)
      /\ Head(probes).cb = "remove" /\ streaming = "pushing"
      /\ UNCHANGED <<main_element, is_fpfilter_enabled>>
  BY DEF TypeOK, LinkTypeOK, PadProbe
<1>1. Head(probes) \in Probe
  BY <1>0, HeadTailProperties
<1>2. PICK b \in Bins : b = Head(probes).elem /\ NoBin = InUseAfter(Head(probes))
  BY <1>0, <1>1 DEF Probe, InUseAfter
<1>3. ThroughPhase(b)
  <2>1. ~DirectPhase
    <3>1. SUFFICES ASSUME DirectPhase PROVE FALSE
      OBVIOUS
    <3>2. NoBin = b
      BY <1>0, <1>2, <3>1, ProbesHead DEF DirectPhase
    <3>3. QED
      BY <3>2, ElementsAssumption
  <2>2. ASSUME NEW c \in Bins, ThroughPhase(c)
        PROVE  c = b
    BY <1>0, <1>2, <2>2, ProbesHead DEF ThroughPhase
  <2>3. ASSUME NEW c \in Bins, DrainingPhase(c)
        PROVE  FALSE
    BY <1>0, <2>3 DEF DrainingPhase
  <2>4. QED
    BY <2>1, <2>2, <2>3 DEF LinkInv
<1>4. ProbesLeadFrom(NoBin)'
  BY <1>0, <1>2, <1>3, ProbesTail DEF ThroughPhase
<1>5. /\ in_bin' = [in_bin EXCEPT ![b] = Append(@, DrainEos)]
      /\ eos_probe' = {b} /\ streaming' = "draining"
      /\ UNCHANGED <<children, links, playing>>
  BY <1>2, <1>3 DEF PadProbe, ThroughPhase
<1>6. /\ in_bin'[b] # <<>> /\ in_bin'[b][Len(in_bin'[b])] = DrainEos
      /\ \A c \in Bins \ {b} : in_bin'[c] = in_bin[c]
  <2>1. in_bin \in [Bins -> Seq(Items \cup {DrainEos})]
    BY DEF TypeOK, LinkTypeOK
  <2>2. in_bin'[b] = Append(in_bin[b], DrainEos)
    BY <1>5, <2>1
  <2>3. in_bin[b] \in Seq(Items \cup {DrainEos})
    BY <2>1
  <2>4. QED
    BY <1>5, <2>1, <2>2, <2>3
<1>7. DrainingPhase(b)'
  BY <1>3, <1>4, <1>5, <1>6 DEF DrainingPhase, ThroughPhase, Through
<1>8. QED
  BY <1>7 DEF LinkInv

LEMMA LinkPass ==
  ASSUME TypeOK, LinkInv, PassItem, UNCHANGED is_fpfilter_enabled
  PROVE  LinkInv'
<1>0. UNCHANGED <<main_element, probes, eos_probe, children, links, playing,
                  streaming, is_fpfilter_enabled>>
      /\ streaming = "pushing"
  BY DEF PassItem
<1>1. CASE DirectPhase
  <2>1. UNCHANGED in_bin
    BY <1>1 DEF PassItem, DirectPhase, Direct
  <2>2. QED
    <3>1. ProbesLeadFrom(NoBin)'
      BY <1>0, <1>1, ProbesUnchanged DEF DirectPhase
    <3>2. DirectPhase'
      BY <1>0, <1>1, <2>1, <3>1 DEF DirectPhase, Direct
    <3>3. QED
      BY <3>2 DEF LinkInv
<1>2. ASSUME NEW b \in Bins, ThroughPhase(b)
      PROVE  LinkInv'
  <2>1. \A c \in Bins \ {b} : in_bin'[c] = in_bin[c]
    <3>1. in_bin' = in_bin \/ in_bin' = [in_bin EXCEPT ![b] = Append(@, pos)]
      BY <1>2 DEF PassItem, ThroughPhase, Through
    <3>2. QED
      BY <3>1 DEF TypeOK, LinkTypeOK
  <2>2. ProbesLeadFrom(b)'
    BY <1>0, <1>2, ProbesUnchanged DEF ThroughPhase
  <2>3. ThroughPhase(b)'
    BY <1>0, <1>2, <2>1, <2>2 DEF ThroughPhase, Through
  <2>4. QED
    BY <2>3 DEF LinkInv
<1>3. ASSUME NEW b \in Bins, DrainingPhase(b)
      PROVE  LinkInv'
  BY <1>0, <1>3 DEF DrainingPhase
<1>4. QED
  BY <1>1, <1>2, <1>3 DEF LinkInv

LEMMA LinkOutput ==
  ASSUME TypeOK, LinkInv, NEW b \in Bins, BinOutput(b),
         UNCHANGED is_fpfilter_enabled
  PROVE  LinkInv'
<1>0. /\ UNCHANGED <<main_element, probes, eos_probe, children, links, playing,
                     streaming, is_fpfilter_enabled>>
      /\ b \in playing /\ in_bin[b] # <<>>
      /\ b \in eos_probe => Kind(Head(in_bin[b])) # "eos"
      /\ in_bin' = [in_bin EXCEPT ![b] = Tail(@)]
      /\ in_bin \in [Bins -> Seq(Items \cup {DrainEos})]
  BY DEF BinOutput, TypeOK, LinkTypeOK
<1>1. ~DirectPhase
  BY <1>0 DEF DirectPhase, Direct
<1>2. \A c \in Bins \ {b} : in_bin'[c] = in_bin[c]
  BY <1>0
<1>3. ASSUME NEW c \in Bins, ThroughPhase(c)
      PROVE  LinkInv'
  <2>1. c = b
    BY <1>0, <1>3 DEF ThroughPhase, Through
  <2>2. ProbesLeadFrom(c)'
    BY <1>0, <1>3, ProbesUnchanged DEF ThroughPhase
  <2>3. ThroughPhase(c)'
    BY <1>0, <1>2, <1>3, <2>1, <2>2 DEF ThroughPhase, Through
  <2>4. QED
    BY <2>3 DEF LinkInv
<1>4. ASSUME NEW c \in Bins, DrainingPhase(c)
      PROVE  LinkInv'
  <2>1. c = b
    BY <1>0, <1>4 DEF DrainingPhase, Through
  <2>2. ProbesLeadFrom(NoBin)'
    BY <1>0, <1>4, ProbesUnchanged DEF DrainingPhase
  <2>3. /\ in_bin'[b] # <<>> /\ in_bin'[b][Len(in_bin'[b])] = DrainEos
    <3> DEFINE q == in_bin[b]
    <3>1. q \in Seq(Items \cup {DrainEos}) /\ q # <<>> /\ in_bin'[b] = Tail(q)
      BY <1>0
    <3>2. Head(q) # DrainEos
      <4>1. Kind(Head(q)) # "eos"
        BY <1>0, <1>4, <2>1 DEF DrainingPhase
      <4>2. Kind(DrainEos) = "eos"
        BY DEF Kind, DrainEos
      <4>3. QED
        BY <4>1, <4>2
    <3>3. q[Len(q)] = DrainEos
      BY <1>4, <2>1 DEF DrainingPhase
    <3>4. Len(q) \in Nat /\ Len(q) > 1
      BY <3>1, <3>2, <3>3, EmptySeq
    <3> HIDE DEF q
    <3>5. /\ Tail(q) \in Seq(Items \cup {DrainEos})
          /\ Len(Tail(q)) = Len(q) - 1
          /\ \A i \in 1..Len(Tail(q)) : Tail(q)[i] = q[i + 1]
      BY <3>1, HeadTailProperties
    <3>6. Len(q) - 1 \in 1..Len(Tail(q)) /\ (Len(q) - 1) + 1 = Len(q)
      BY <3>4, <3>5
    <3>7. Tail(q)[Len(q) - 1] = q[Len(q)]
      BY <3>5, <3>6
    <3>8. Tail(q) # <<>>
      <4>1. Len(Tail(q)) # 0
        BY <3>4, <3>5
      <4>2. QED
        BY <4>1
    <3>9. QED
      BY <3>1, <3>3, <3>5, <3>7, <3>8
  <2>4. DrainingPhase(c)'
    BY <1>0, <1>2, <1>4, <2>1, <2>2, <2>3 DEF DrainingPhase, Through
  <2>5. QED
    BY <2>4 DEF LinkInv
<1>5. QED
  BY <1>1, <1>3, <1>4 DEF LinkInv

LEMMA LinkRemove ==
  ASSUME TypeOK, LinkInv, NEW b \in Bins, RemoveElemProbe(b),
         UNCHANGED is_fpfilter_enabled
  PROVE  LinkInv'
<1>0. /\ UNCHANGED <<main_element, probes, is_fpfilter_enabled>>
      /\ b \in eos_probe
      /\ eos_probe' = eos_probe \ {b} /\ playing' = playing \ {b}
      /\ children' = children \ {b}
      /\ links' = Link(WithoutLinksOf(links, b), nvvidconv1, nvvidconv2)
      /\ in_bin' = [in_bin EXCEPT ![b] = <<>>]
      /\ streaming' = "pushing"
      /\ in_bin \in [Bins -> Seq(Items \cup {DrainEos})]
  BY DEF RemoveElemProbe, TypeOK, LinkTypeOK
<1>1. DrainingPhase(b)
  BY <1>0 DEF LinkInv, DirectPhase, ThroughPhase, DrainingPhase
<1>2. links' = {<<nvvidconv1, nvvidconv2>>}
  BY <1>0, <1>1, LinkNeighbours DEF DrainingPhase, Through
<1>3. \A c \in Bins : in_bin'[c] = <<>>
  BY <1>0, <1>1 DEF DrainingPhase
<1>4. ProbesLeadFrom(NoBin)'
  BY <1>0, <1>1, ProbesUnchanged DEF DrainingPhase
<1>5. DirectPhase'
  BY <1>0, <1>1, <1>2, <1>3, <1>4 DEF DirectPhase, Direct, DrainingPhase, Through
<1>6. QED
  BY <1>5 DEF LinkInv

-----------------------------------------------------------------------------
(* Types, action by action.                                                 *)

LEMMA StreamTypes ==
  /\ Eos \in Nat \ {0} /\ Items = 1..Eos
  /\ 1..Len(Stream) \subseteq Items
BY StreamAssumption DEF Eos, Items

\* The requests about saving and the timeouts keep the types and the window.
SaveOK == SaveTypeOK /\ SaveInv

LEMMA SaveStart ==
  ASSUME SaveInit
  PROVE  SaveOK
<1>1. 0 \in 0..MaxTimers
  BY MaxTimersAssumption
<1>2. SaveTypeOK
  BY <1>1 DEF SaveInit, SaveTypeOK
<1>3. SaveInv
  BY DEF SaveInit, SaveInv, WindowEndsWithItsTimer
<1>4. QED
  BY <1>2, <1>3 DEF SaveOK

LEMMA SaveUnchanged ==
  ASSUME SaveOK, UNCHANGED saveVars
  PROVE  SaveOK'
BY DEF SaveOK, SaveTypeOK, SaveInv, WindowEndsWithItsTimer, saveVars

LEMMA SaveEnable ==
  ASSUME SaveOK, SaveFpEnable
  PROVE  SaveOK'
BY MaxTimersAssumption
   DEF SaveOK, SaveTypeOK, SaveInv, WindowEndsWithItsTimer, SaveFpEnable

LEMMA SaveEnableFor ==
  ASSUME SaveOK, SaveFpEnableFor
  PROVE  SaveOK'
<1> USE MaxTimersAssumption
    DEF SaveOK, SaveTypeOK, SaveInv, WindowEndsWithItsTimer
<1>1. CASE arming
  <2>1. /\ timers' = timers \cup {armed} /\ arming' = FALSE
        /\ UNCHANGED <<save_fpfilter_images, armed, window>>
    BY <1>1 DEF SaveFpEnableFor
  <2>2. armed \in 1..MaxTimers /\ window = armed
    BY <1>1
  <2>3. QED
    BY <2>1, <2>2
<1>2. CASE ~arming
  <2>1. /\ armed < MaxTimers
        /\ save_fpfilter_images' = TRUE /\ armed' = armed + 1
        /\ window' = armed + 1 /\ arming' = TRUE /\ UNCHANGED timers
    BY <1>2 DEF SaveFpEnableFor
  <2>2. armed + 1 \in 1..MaxTimers
    BY <2>1
  <2>3. QED
    BY <2>1, <2>2
<1>3. QED
  BY <1>1, <1>2

LEMMA SaveDisable ==
  ASSUME SaveOK, SaveFpDisable
  PROVE  SaveOK'
BY DEF SaveOK, SaveTypeOK, SaveInv, WindowEndsWithItsTimer, SaveFpDisable

LEMMA SaveExpires ==
  ASSUME SaveOK, NEW k \in 1..MaxTimers, SaveTimeout(k)
  PROVE  SaveOK'
BY DEF SaveOK, SaveTypeOK, SaveInv, WindowEndsWithItsTimer, SaveTimeout

LEMMA TypeLinkRequest ==
  ASSUME LinkTypeOK, NEW p \in Probe,
         probes' = Append(probes, p),
         main_element' \in Bins \cup {NoBin},
         UNCHANGED <<eos_probe, children, links, playing, in_bin, pos,
                     streaming, delivered>>
  PROVE  LinkTypeOK'
<1>1. probes' \in Seq(Probe)
  BY DEF LinkTypeOK
<1>2. QED
  BY <1>1 DEF LinkTypeOK

LEMMA TypeAdd ==
  ASSUME LinkTypeOK, AddElemProbe
  PROVE  LinkTypeOK'
<1>1. Head(probes) \in Probe /\ Tail(probes) \in Seq(Probe)
  BY HeadTailProperties DEF LinkTypeOK, AddElemProbe
<1> DEFINE b == Head(probes).elem
<1>2. b \in Bins
  BY <1>1 DEF Probe
<1> HIDE DEF b
<1>3. links' \in SUBSET ((Bins \cup {nvvidconv1}) \X (Bins \cup {nvvidconv2}))
  <2> DEFINE P == (Bins \cup {nvvidconv1}) \X (Bins \cup {nvvidconv2})
  <2>1. <<nvvidconv1, b>> \in P /\ <<b, nvvidconv2>> \in P
    BY <1>2
  <2> HIDE DEF P
  <2>2. ASSUME NEW L \in SUBSET P
        PROVE  LinkThrough(L, nvvidconv1, b, nvvidconv2) \in SUBSET P
    BY <2>1 DEF LinkThrough, Link
  <2>3. links \in SUBSET P
    BY DEF LinkTypeOK, P
  <2>4. \/ links' = links
        \/ links' = LinkThrough(links \ {<<nvvidconv1, nvvidconv2>>},
                                nvvidconv1, b, nvvidconv2)
    BY DEF AddElemProbe, b
  <2>5. links' \in SUBSET P
    BY <2>2, <2>3, <2>4
  <2>6. QED
    BY <2>5 DEF P
<1>4. children' \in SUBSET Bins /\ playing' \in SUBSET Bins
  BY <1>2 DEF LinkTypeOK, AddElemProbe, b
<1>5. pos' \in 1..(Eos + 1)
  BY StreamTypes DEF LinkTypeOK, AddElemProbe, StreamOver
<1>6. /\ probes' \in Seq(Probe)
      /\ UNCHANGED <<main_element, eos_probe, in_bin, streaming, delivered>>
  BY <1>1 DEF AddElemProbe
<1>7. QED
  BY <1>3, <1>4, <1>5, <1>6 DEF LinkTypeOK

LEMMA TypePad ==
  ASSUME LinkTypeOK, PadProbe
  PROVE  LinkTypeOK'
<1>1. Head(probes) \in Probe /\ Tail(probes) \in Seq(Probe)
  BY HeadTailProperties DEF LinkTypeOK, PadProbe
<1>2. PICK b \in Bins : b = Head(probes).elem
  BY <1>1 DEF Probe
<1>3. in_bin' \in [Bins -> Seq(Items \cup {DrainEos})]
  <2>1. in_bin' = [in_bin EXCEPT ![b] = Append(@, DrainEos)]
    BY <1>2 DEF PadProbe
  <2>2. in_bin[b] \in Seq(Items \cup {DrainEos})
    BY DEF LinkTypeOK
  <2>3. Append(in_bin[b], DrainEos) \in Seq(Items \cup {DrainEos})
    BY <2>2
  <2>4. QED
    BY <2>1, <2>3 DEF LinkTypeOK
<1>4. /\ probes' \in Seq(Probe) /\ eos_probe' \in SUBSET Bins
      /\ streaming' = "draining"
      /\ UNCHANGED <<main_element, children, links, playing, pos, delivered>>
  BY <1>1, <1>2 DEF PadProbe, LinkTypeOK
<1>5. QED
  BY <1>3, <1>4 DEF LinkTypeOK

LEMMA TypePass ==
  ASSUME LinkTypeOK, PassItem
  PROVE  LinkTypeOK'
<1>1. pos \in Items /\ pos' \in 1..(Eos + 1)
  BY StreamTypes DEF LinkTypeOK, PassItem, StreamOver
<1>2. delivered' \in Seq([item : Items \cup {DrainEos}, via : Bins \cup {NoBin}])
  <2> DEFINE R == [item : Items \cup {DrainEos}, via : Bins \cup {NoBin}]
             r == [item |-> pos, via |-> NoBin]
  <2>1. r \in R
    BY <1>1
  <2>2. delivered' = delivered \/ delivered' = Append(delivered, r)
    BY DEF PassItem
  <2>3. delivered \in Seq(R)
    BY DEF LinkTypeOK
  <2> HIDE DEF R, r
  <2>4. delivered' \in Seq(R)
    BY <2>1, <2>2, <2>3
  <2>5. QED
    BY <2>4 DEF R
<1>3. in_bin' \in [Bins -> Seq(Items \cup {DrainEos})]
  <2>1. CASE UNCHANGED in_bin
    BY <2>1 DEF LinkTypeOK
  <2>2. ASSUME NEW b \in Bins, in_bin' = [in_bin EXCEPT ![b] = Append(@, pos)]
        PROVE  in_bin' \in [Bins -> Seq(Items \cup {DrainEos})]
    <3>1. in_bin[b] \in Seq(Items \cup {DrainEos})
      BY DEF LinkTypeOK
    <3>2. Append(in_bin[b], pos) \in Seq(Items \cup {DrainEos})
      BY <1>1, <3>1
    <3>3. QED
      BY <2>2, <3>2 DEF LinkTypeOK
  <2>3. QED
    BY <2>1, <2>2 DEF LinkTypeOK, PassItem
<1>4. QED
  BY <1>1, <1>2, <1>3 DEF LinkTypeOK, PassItem

LEMMA TypeOutput ==
  ASSUME LinkTypeOK, NEW b \in Bins, BinOutput(b)
  PROVE  LinkTypeOK'
<1>1. /\ Head(in_bin[b]) \in Items \cup {DrainEos}
      /\ Tail(in_bin[b]) \in Seq(Items \cup {DrainEos})
  <2>1. in_bin[b] \in Seq(Items \cup {DrainEos}) /\ in_bin[b] # <<>>
    BY DEF LinkTypeOK, BinOutput
  <2>2. QED
    BY <2>1, HeadTailProperties
<1>2. delivered' \in Seq([item : Items \cup {DrainEos}, via : Bins \cup {NoBin}])
  BY <1>1 DEF LinkTypeOK, BinOutput
<1>3. in_bin' \in [Bins -> Seq(Items \cup {DrainEos})]
  BY <1>1 DEF LinkTypeOK, BinOutput
<1>4. QED
  BY <1>2, <1>3 DEF LinkTypeOK, BinOutput

LEMMA TypeRemove ==
  ASSUME LinkTypeOK, NEW b \in Bins, RemoveElemProbe(b)
  PROVE  LinkTypeOK'
<1>1. in_bin' \in [Bins -> Seq(Items \cup {DrainEos})]
  BY DEF LinkTypeOK, RemoveElemProbe
<1>2. links' \in SUBSET ((Bins \cup {nvvidconv1}) \X (Bins \cup {nvvidconv2}))
  BY DEF LinkTypeOK, RemoveElemProbe, Link, WithoutLinksOf
<1>3. QED
  BY <1>1, <1>2 DEF LinkTypeOK, RemoveElemProbe

\* The probe on nvvidconv2 picks frames of the stream only.
LEMMA TypeDeciding ==
  ASSUME deciding \in Seq(Items), AfterFilterBufferProbe
  PROVE  deciding' \in Seq(Items)
<1>1. CASE deciding' = deciding
  BY <1>1
<1>2. CASE deciding' # deciding
  <2>1. PICK d : deciding' = <<d.item>> /\ Selects(d)
    BY <1>2 DEF AfterFilterBufferProbe
  <2>2. d.item \in Items
    BY <2>1, StreamTypes DEF Selects
  <2>3. QED
    BY <2>1, <2>2
<1>3. QED
  BY <1>1, <1>2

LEMMA TypeLate ==
  ASSUME late \in Nat, CountLate
  PROVE  late' \in Nat
BY DEF CountLate

-----------------------------------------------------------------------------
(* The late frame, action by action.                                        *)

\* A step that queues nothing and picks nothing.
LEMMA LateQuiet ==
  ASSUME TypeOK, LateInv, CountLate, UNCHANGED <<deciding, frame_save_queue>>
  PROVE  LateInv'
BY DEF TypeOK, LateInv, CountLate

\* A frame that did not go through a bin is not picked.
LEMMA LateDetector ==
  ASSUME TypeOK, LateInv, Detector
  PROVE  LateInv'
<1>1. deciding' = deciding
  <2>1. CASE delivered' = delivered
    BY <2>1 DEF Detector, AfterFilterBufferProbe
  <2>2. CASE delivered' # delivered
    <3> DEFINE r == [item |-> pos, via |-> NoBin]
    <3>1. delivered' = Append(delivered, r)
      BY <2>2 DEF Detector, AddElemProbe, PadProbe, PassItem
    <3>2. r.via = NoBin
      OBVIOUS
    <3> DEFINE R == [item : Items \cup {DrainEos}, via : Bins \cup {NoBin}]
    <3>3. delivered \in Seq(R)
      BY DEF TypeOK, LinkTypeOK
    <3> HIDE DEF r, R
    <3>4. delivered'[Len(delivered')] = r
      BY <3>1, <3>3
    <3>5. ~Selects(r)
      BY <3>2 DEF Selects, FpfilterMetaTaken, UserMeta
    <3>6. QED
      BY <3>4, <3>5 DEF Detector, AfterFilterBufferProbe
  <2>3. QED
    BY <2>1, <2>2
<1>2. CountLate /\ UNCHANGED frame_save_queue
  BY DEF Detector, AfterFilterBufferProbe
<1>3. QED
  BY <1>1, <1>2, LateQuiet

\* A frame is picked while the flag is set only, and none while another one
\* is in the probe's hands.
LEMMA LatePick ==
  ASSUME TypeOK, LateInv, deciding = <<>>, AfterFilterBufferProbe, CountLate,
         UNCHANGED save_fpfilter_images
  PROVE  LateInv'
<1>1. late' = IF save_fpfilter_images THEN 0 ELSE late
  BY DEF AfterFilterBufferProbe, CountLate
<1>2. CASE deciding' = deciding
  BY <1>1, <1>2 DEF LateInv, TypeOK
<1>3. CASE deciding' # deciding
  <2>1. PICK d : deciding' = <<d.item>> /\ Selects(d)
    BY <1>3 DEF AfterFilterBufferProbe
  <2>2. save_fpfilter_images /\ Len(deciding') = 1
    BY <2>1 DEF Selects
  <2>3. QED
    BY <1>1, <2>2 DEF LateInv
<1>4. QED
  BY <1>2, <1>3

\* The frame that is queued is the one that was in the probe's hands.
LEMMA LateQueue ==
  ASSUME TypeOK, LateInv, QueueFrame, CountLate
  PROVE  LateInv'
<1>1. Len(deciding') = 0 /\ Len(deciding) = 1
  <2>1. deciding \in Seq(Items) /\ deciding # <<>> /\ deciding' = <<>>
    BY DEF QueueFrame, TypeOK
  <2> DEFINE n == Len(deciding)
  <2>2. n \in Nat \ {0}
    BY <2>1, EmptySeq
  <2>3. n <= 1
    BY DEF LateInv
  <2> HIDE DEF n
  <2>4. n = 1
    BY <2>2, <2>3
  <2>5. Len(deciding') = 0
    BY <2>1
  <2>6. QED
    BY <2>4, <2>5 DEF n
<1>2. UNCHANGED save_fpfilter_images
  BY DEF QueueFrame, saveVars
<1>3. CASE save_fpfilter_images
  BY <1>1, <1>2, <1>3 DEF CountLate, LateInv
<1>4. CASE ~save_fpfilter_images
  <2>1. late = 0
    BY <1>1, <1>4 DEF LateInv, TypeOK
  <2>2. late' = 0 \/ late' = 1
    BY <1>2, <1>4, <2>1 DEF CountLate
  <2>3. late' + Len(deciding') <= 1
    BY <1>1, <2>2
  <2>4. QED
    BY <1>1, <1>2, <1>4, <2>3 DEF LateInv
<1>5. QED
  BY <1>3, <1>4

-----------------------------------------------------------------------------
(* The invariant.                                                           *)

\* The start: the pipeline as main links it, without the bin or with it.
LEMMA InvStart ==
  ASSUME Init
  PROVE  IInv
<1>1. FirstBin \in Bins /\ FirstBin # NoBin /\ NoBin \notin Bins
  BY FirstBinAssumption, ElementsAssumption
<1>2. SaveOK
  BY SaveStart DEF Init
<1>3. LinkTypeOK
  <2>1. /\ probes = <<>> /\ eos_probe = {} /\ pos = 1 /\ delivered = <<>>
        /\ streaming = "pushing" /\ in_bin = [b \in Bins |-> <<>>]
    BY DEF Init
  <2>2. /\ main_element \in Bins \cup {NoBin}
        /\ children \in SUBSET Bins /\ playing \in SUBSET Bins
    BY <1>1 DEF Init
  <2>3. links \in SUBSET ((Bins \cup {nvvidconv1}) \X (Bins \cup {nvvidconv2}))
    BY <1>1 DEF Init
  <2>4. pos \in 1..(Eos + 1)
    BY <2>1, StreamTypes
  <2>5. in_bin \in [Bins -> Seq(Items \cup {DrainEos})]
    BY <2>1
  <2>6. QED
    BY <2>1, <2>2, <2>3, <2>4, <2>5 DEF LinkTypeOK
<1>4. TypeOK
  <2>1. /\ is_fpfilter_enabled \in BOOLEAN /\ created \in SUBSET Bins
        /\ late \in Nat
    BY DEF Init
  <2>2. deciding \in Seq(Items) /\ frame_save_queue \in Seq(Items)
    BY DEF Init
  <2>3. QED
    BY <1>2, <1>3, <2>1, <2>2 DEF TypeOK, SaveOK
<1>5. LinkInv
  <2>1. probes = <<>> /\ DOMAIN probes = {} /\ eos_probe = {}
        /\ streaming = "pushing" /\ \A b \in Bins : in_bin[b] = <<>>
    BY DEF Init
  <2>2. CASE is_fpfilter_enabled = FALSE
    <3>1. Direct /\ main_element = NoBin
      BY <2>2 DEF Init, Direct
    <3>2. ProbesLeadFrom(NoBin)
      BY <2>1, <2>2, <3>1 DEF ProbesLeadFrom
    <3>3. QED
      BY <2>1, <3>1, <3>2 DEF LinkInv, DirectPhase
  <2>3. CASE is_fpfilter_enabled = TRUE
    <3>1. Through(FirstBin) /\ main_element = FirstBin
      BY <2>3 DEF Init, Through
    <3>2. ProbesLeadFrom(FirstBin)
      BY <1>1, <2>1, <2>3, <3>1 DEF ProbesLeadFrom
    <3>3. ThroughPhase(FirstBin)
      BY <2>1, <3>1, <3>2 DEF ThroughPhase
    <3>4. QED
      BY <1>1, <3>3 DEF LinkInv
  <2>4. QED
    BY <2>2, <2>3 DEF Init
<1>6. SaveInv /\ LateInv
  BY <1>2 DEF SaveOK, Init, LateInv
<1>7. QED
  BY <1>4, <1>5, <1>6 DEF IInv

\* A step that touches the flag for saving and its timeouts only.
LEMMA InvSaveStep ==
  ASSUME IInv, SaveOK', CountLate,
         UNCHANGED <<linkVars, filterVars, deciding, frame_save_queue>>
  PROVE  IInv'
<1>1. LinkTypeOK'
  BY DEF IInv, TypeOK, LinkTypeOK, linkVars
<1>2. TypeOK'
  BY <1>1, TypeLate DEF IInv, TypeOK, SaveOK, filterVars
<1>3. LinkInv'
  BY LinkUnchanged DEF IInv, filterVars
<1>4. LateInv'
  BY LateQuiet DEF IInv
<1>5. QED
  BY <1>2, <1>3, <1>4 DEF IInv, SaveOK

\* Every request.
LEMMA InvPromptServer ==
  ASSUME IInv, PromptServer
  PROVE  IInv'
<1> USE DEF IInv
<1>0. SaveOK /\ LinkTypeOK
  BY DEF SaveOK, TypeOK
<1>1. ASSUME NEW b \in Bins, EnableFpfilter(b), CountLate
      PROVE  IInv'
  <2>1. SaveOK'
    BY <1>0, <1>1, SaveDisable DEF EnableFpfilter
  <2>2. LinkTypeOK'
    <3> DEFINE p == [cb |-> "add", elem |-> b]
    <3>1. p \in Probe
      BY DEF Probe
    <3>2. probes' = Append(probes, p) /\ main_element' = b
      BY <1>1 DEF EnableFpfilter, AddElementToPipeline
    <3> HIDE DEF p
    <3>3. QED
      BY <1>0, <1>1, <3>1, <3>2, TypeLinkRequest DEF EnableFpfilter
  <2>3. TypeOK'
    BY <1>0, <1>1, <2>1, <2>2, TypeLate
    DEF TypeOK, SaveOK, EnableFpfilter, CreateFilterElementsBin
  <2>4. LinkInv'
    BY <1>1, LinkEnable
  <2>5. LateInv'
    BY <1>1, LateQuiet DEF EnableFpfilter
  <2>6. QED
    BY <2>1, <2>3, <2>4, <2>5 DEF SaveOK
<1>2. ASSUME DisableFpfilter, CountLate
      PROVE  IInv'
  <2>1. SaveOK'
    BY <1>0, <1>2, SaveDisable DEF DisableFpfilter
  <2>2. LinkTypeOK'
    <3> DEFINE p == [cb |-> "remove", elem |-> main_element]
    <3>1. main_element \in Bins
      BY <1>0, <1>2, FlagIsMainElement DEF DisableFpfilter, LinkTypeOK
    <3>2. p \in Probe
      BY <3>1 DEF Probe
    <3>3. probes' = Append(probes, p) /\ main_element' = NoBin
      BY <1>2 DEF DisableFpfilter, RemoveElementFromPipeline
    <3> HIDE DEF p
    <3>4. QED
      BY <1>0, <1>2, <3>2, <3>3, TypeLinkRequest DEF DisableFpfilter
  <2>3. TypeOK'
    BY <1>0, <1>2, <2>1, <2>2, TypeLate DEF TypeOK, SaveOK, DisableFpfilter
  <2>4. LinkInv'
    BY <1>2, LinkDisable
  <2>5. LateInv'
    BY <1>2, LateQuiet DEF DisableFpfilter
  <2>6. QED
    BY <2>1, <2>3, <2>4, <2>5 DEF SaveOK
<1>3. ASSUME SaveStep(SaveRequest)
      PROVE  IInv'
  <2>1. SaveOK'
    BY <1>0, <1>3, SaveEnable, SaveEnableFor, SaveDisable
    DEF SaveStep, SaveRequest
  <2>2. /\ CountLate
        /\ UNCHANGED <<linkVars, filterVars, deciding, frame_save_queue>>
    BY <1>3 DEF SaveStep
  <2>3. QED
    BY <2>1, <2>2, InvSaveStep
<1>4. QED
  BY <1>1, <1>2, <1>3 DEF PromptServer

LEMMA InvMainLoop ==
  ASSUME IInv, MainLoop
  PROVE  IInv'
<1>1. PICK k \in 1..MaxTimers : SaveStep(SaveTimeout(k))
  BY DEF MainLoop
<1>2. SaveOK'
  BY <1>1, SaveExpires DEF SaveStep, IInv, TypeOK, SaveOK
<1>3. QED
  BY <1>1, <1>2, InvSaveStep DEF SaveStep

\* What a step of a streaming thread leaves to show, once the links are done.
LEMMA InvStreaming ==
  ASSUME IInv, LinkTypeOK', LinkInv', LateInv', CountLate,
         deciding' \in Seq(Items), frame_save_queue' \in Seq(Items),
         UNCHANGED <<saveVars, filterVars>>
  PROVE  IInv'
<1>1. SaveOK'
  BY SaveUnchanged DEF IInv, TypeOK, SaveOK
<1>2. TypeOK'
  BY <1>1, TypeLate DEF IInv, TypeOK, SaveOK, filterVars
<1>3. QED
  BY <1>1, <1>2 DEF IInv, SaveOK

LEMMA InvDetector ==
  ASSUME IInv, Detector
  PROVE  IInv'
<1>1. /\ CountLate /\ UNCHANGED <<saveVars, filterVars>>
      /\ AfterFilterBufferProbe
  BY DEF Detector
<1>2. LinkTypeOK'
  BY TypeAdd, TypePad, TypePass DEF Detector, IInv, TypeOK
<1>3. LinkInv'
  BY <1>1, LinkAdd, LinkPad, LinkPass DEF Detector, IInv, filterVars
<1>4. LateInv'
  BY LateDetector DEF IInv
<1>5. deciding' \in Seq(Items) /\ frame_save_queue' \in Seq(Items)
  BY <1>1, TypeDeciding DEF AfterFilterBufferProbe, IInv, TypeOK
<1>6. QED
  BY <1>1, <1>2, <1>3, <1>4, <1>5, InvStreaming

LEMMA InvBinThread ==
  ASSUME IInv, NEW b \in Bins, BinThread(b)
  PROVE  IInv'
<1>1. CASE QueueFrame /\ CountLate
  <2>1. LinkTypeOK'
    BY <1>1 DEF QueueFrame, linkVars, IInv, TypeOK, LinkTypeOK
  <2>2. LinkInv'
    BY <1>1, LinkUnchanged DEF QueueFrame, filterVars, IInv
  <2>3. LateInv'
    BY <1>1, LateQueue DEF IInv
  <2>4. deciding' \in Seq(Items) /\ frame_save_queue' \in Seq(Items)
    BY <1>1 DEF QueueFrame, IInv, TypeOK
  <2>5. QED
    BY <1>1, <2>1, <2>2, <2>3, <2>4, InvStreaming DEF QueueFrame
<1>2. CASE ~(QueueFrame /\ CountLate)
  <2>1. /\ deciding = <<>> /\ (BinOutput(b) \/ RemoveElemProbe(b))
        /\ AfterFilterBufferProbe /\ UNCHANGED <<saveVars, filterVars>>
        /\ CountLate
    BY <1>2 DEF BinThread
  <2>2. LinkTypeOK'
    BY <2>1, TypeOutput, TypeRemove DEF IInv, TypeOK
  <2>3. LinkInv'
    BY <2>1, LinkOutput, LinkRemove DEF IInv, filterVars
  <2>4. LateInv'
    BY <2>1, LatePick DEF IInv, saveVars
  <2>5. deciding' \in Seq(Items) /\ frame_save_queue' \in Seq(Items)
    BY <2>1, TypeDeciding DEF AfterFilterBufferProbe, IInv, TypeOK
  <2>6. QED
    BY <2>1, <2>2, <2>3, <2>4, <2>5, InvStreaming
<1>3. QED
  BY <1>1, <1>2

LEMMA InvStutter ==
  ASSUME IInv, UNCHANGED vars
  PROVE  IInv'
<1>1. /\ UNCHANGED <<linkVars, saveVars, filterVars>>
      /\ UNCHANGED <<deciding, frame_save_queue, late>>
  BY DEF vars, selectVars
<1>2. LinkTypeOK'
  BY <1>1 DEF IInv, TypeOK, LinkTypeOK, linkVars
<1>3. LinkInv'
  BY <1>1, LinkUnchanged DEF IInv, filterVars
<1>4. SaveOK'
  BY <1>1, SaveUnchanged DEF IInv, TypeOK, SaveOK
<1>5. TypeOK'
  BY <1>1, <1>2, <1>4 DEF IInv, TypeOK, SaveOK, filterVars
<1>6. LateInv'
  BY <1>1 DEF IInv, LateInv, saveVars
<1>7. QED
  BY <1>3, <1>4, <1>5, <1>6 DEF IInv, SaveOK

LEMMA InvNext ==
  ASSUME IInv, [Next]_vars
  PROVE  IInv'
<1>1. CASE Next
  BY <1>1, InvPromptServer, InvMainLoop, InvDetector, InvBinThread DEF Next
<1>2. CASE UNCHANGED vars
  BY <1>2, InvStutter
<1>3. QED
  BY <1>1, <1>2

\* The invariant of the control is inductive: whatever requests are made, in
\* whatever order the threads run, the pipeline is in one of its three phases,
\* the pending probes lead from it to what the requests left, and so on.
THEOREM InductiveInvariant == Spec => []IInv
<1>1. IInv /\ [Next]_vars => IInv'
  BY InvNext
<1>2. QED
  BY <1>1, InvStart, PTL DEF Spec

-----------------------------------------------------------------------------
(* What follows from it.                                                    *)

\* Every variable keeps its type; in particular the pipeline is never told to
\* remove the NULL that main_element is while no bin is in use.
THEOREM TypeCorrect == Spec => []TypeOK
<1>1. IInv => TypeOK
  BY DEF IInv
<1>2. QED
  BY <1>1, InductiveInvariant, PTL

\* The pipeline is whole at every moment, however requests and streaming
\* threads interleave: nvvidconv1 leads to nvvidconv2, past or through the one
\* bin that is a running child of the pipeline, and no other bin holds an item.
THEOREM PipelineIsWhole == Spec => []PipelineShape
<1>1. IInv => PipelineShape
  BY DEF IInv, LinkInv, DirectPhase, ThroughPhase, DrainingPhase, PipelineShape
<1>2. QED
  BY <1>1, InductiveInvariant, PTL

LEMMA FlagAgrees ==
  ASSUME IInv
  PROVE  FlagAgreesWithPipeline
<1>1. SUFFICES ASSUME probes = <<>>, streaming = "pushing"
               PROVE  IF is_fpfilter_enabled
                      THEN Through(main_element)
                      ELSE Direct /\ main_element = NoBin
  BY DEF FlagAgreesWithPipeline
<1>2. CASE DirectPhase
  BY <1>1, <1>2 DEF DirectPhase, ProbesLeadFrom
<1>3. ASSUME NEW b \in Bins, ThroughPhase(b)
      PROVE  is_fpfilter_enabled /\ Through(main_element)
  <2>1. main_element = b /\ b # NoBin
    BY <1>1, <1>3, ElementsAssumption DEF ThroughPhase, ProbesLeadFrom
  <2>2. QED
    BY <1>3, <2>1 DEF ThroughPhase, ProbesLeadFrom
<1>4. ASSUME NEW b \in Bins, DrainingPhase(b)
      PROVE  FALSE
  BY <1>1, <1>4 DEF DrainingPhase
<1>5. QED
  BY <1>1, <1>2, <1>3, <1>4 DEF IInv, LinkInv

\* Once the callbacks have done what the requests asked for, the flag by which
\* enable_fpfilter and disable_fpfilter decide says what the pipeline is.
THEOREM FlagIsRight == Spec => []FlagAgreesWithPipeline
BY FlagAgrees, InductiveInvariant, PTL

\* An item goes the way last requested: in the step that passes it on, into the
\* bin main_element names, or past it if main_element is NULL.
THEOREM ItemsGoRight == Spec => ItemsGoAsRequested
<1> DEFINE Right == (pos' = pos + 1 /\ probes' = probes) =>
         IF main_element = NoBin
         THEN delivered' = Append(delivered, [item |-> pos, via |-> NoBin])
         ELSE in_bin' = [in_bin EXCEPT ![main_element] = Append(@, pos)]
<1>1. IInv /\ [Next]_vars => [Right]_vars
  <2>1. SUFFICES ASSUME IInv, Next, pos' = pos + 1, probes' = probes
                 PROVE  Right
    OBVIOUS
  <2>2. PassItem
    <3>1. pos \in Nat /\ probes \in Seq(Probe)
      BY <2>1, StreamTypes DEF IInv, TypeOK, LinkTypeOK
    <3>2. pos' # pos
      BY <2>1, <3>1
    <3>3. ~AddElemProbe
      BY <2>1, <3>1, HeadTailProperties DEF AddElemProbe
    <3>4. QED
      BY <2>1, <3>2, <3>3
      DEF Next, PromptServer, EnableFpfilter, DisableFpfilter, SaveStep,
          MainLoop, Detector, BinThread, QueueFrame, PadProbe, BinOutput,
          RemoveElemProbe, linkVars
  <2>3. probes = <<>> /\ streaming = "pushing"
    BY <2>2 DEF PassItem
  <2>4. IF is_fpfilter_enabled THEN Through(main_element)
                               ELSE Direct /\ main_element = NoBin
    BY <2>1, <2>3, FlagAgrees DEF FlagAgreesWithPipeline
  <2>5. is_fpfilter_enabled <=> main_element # NoBin
    BY <2>1, FlagIsMainElement DEF IInv
  <2>6. CASE main_element = NoBin
    BY <2>2, <2>4, <2>5, <2>6 DEF PassItem, Direct
  <2>7. CASE main_element # NoBin
    <3>1. Through(main_element)
      BY <2>4, <2>5, <2>7
    <3>2. main_element \in Bins
      BY <2>1, <2>7 DEF IInv, TypeOK, LinkTypeOK
    <3>3. <<nvvidconv1, nvvidconv2>> \notin links
      BY <3>1, <3>2, ElementsAssumption DEF Through
    <3>4. QED
      BY <2>2, <2>7, <3>1, <3>3 DEF PassItem, Through
  <2>8. QED
    BY <2>6, <2>7
<1>2. QED
  BY <1>1, InductiveInvariant, PTL DEF Spec, ItemsGoAsRequested

\* A window for saving that was opened for a duration is over once its timeout
\* has run, however the two steps of enable_fpfilter_images_save_duration and
\* the main loop interleave.
THEOREM WindowIsOver == Spec => []WindowEndsWithItsTimer
<1>1. IInv => WindowEndsWithItsTimer
  BY DEF IInv, SaveInv
<1>2. QED
  BY <1>1, InductiveInvariant, PTL

\* After saving is disabled, by whatever thread, at most one more frame is
\* queued for upload: the one for which the flag had been read.
THEOREM OneLateFrame == Spec => []AtMostOneLateFrame
<1>1. IInv => AtMostOneLateFrame
  BY DEF IInv, TypeOK, LateInv, AtMostOneLateFrame
<1>2. QED
  BY <1>1, InductiveInvariant, PTL
=============================================================================
