----------------------- MODULE FpFilterChannelProofs -----------------------
(***************************************************************************)
(* What the stream sees of the dynamic link and unlink, for every set of   *)
(* bins and every stream: frames arrive in order and once, only frames     *)
(* that arrived through a bin are queued for upload, and FpFilterControl   *)
(* implements FrameChannel.                                                *)
(*                                                                         *)
(* The proofs rest on IInv of FpFilterControl, which says in which phases  *)
(* the pipeline and its probes are.  From it each step of a streaming      *)
(* thread is first reduced to what it does to the items (the lemmas called *)
(* moves), and that is all that is used of it afterwards.                  *)
(*                                                                         *)
(* In the last part each move is a step of the channel or changes nothing  *)
(* the channel sees.  The refinement mapping is made of three functions of *)
(* the state, the items in flight, the items that arrived and the requests *)
(* still owed.  They are written there as operators of the variables they  *)
(* read, so that one lemma serves the state before a step and the one      *)
(* after it.                                                               *)
(***************************************************************************)
EXTENDS FpFilterControlProofs, QueueLemmas, FiniteSetTheorems

-----------------------------------------------------------------------------
(* The moves.                                                               *)

\* No bin but b holds an item.
OnlyBin(b) == \A c \in Bins \ {b} : in_bin[c] = <<>>
NoBinHolds == \A c \in Bins : in_bin[c] = <<>>

LEMMA ItemTypes ==
  ASSUME IInv
  PROVE  /\ Len(Stream) \in Nat /\ Eos = Len(Stream) + 1 /\ DrainEos = 0
         /\ pos \in 1..(Eos + 1)
         /\ in_bin \in [Bins -> Seq(Items \cup {DrainEos})]
         /\ \A b \in Bins : in_bin[b] \in Seq(Items \cup {DrainEos})
         /\ delivered \in Seq([item : Items \cup {DrainEos},
                               via : Bins \cup {NoBin}])
         /\ \A i \in DOMAIN delivered :
              /\ delivered[i].item \in Items \cup {DrainEos}
              /\ delivered[i].via \in Bins \cup {NoBin}
         /\ DOMAIN delivered = 1..Len(delivered) /\ Len(delivered) \in Nat
<1>1. Len(Stream) \in Nat /\ Eos = Len(Stream) + 1 /\ DrainEos = 0
  BY StreamAssumption DEF Eos, DrainEos
<1>2. /\ pos \in 1..(Eos + 1)
      /\ in_bin \in [Bins -> Seq(Items \cup {DrainEos})]
      /\ delivered \in Seq([item : Items \cup {DrainEos},
                            via : Bins \cup {NoBin}])
  BY DEF IInv, TypeOK, LinkTypeOK
<1>3. \A i \in DOMAIN delivered :
        delivered[i] \in [item : Items \cup {DrainEos}, via : Bins \cup {NoBin}]
  BY <1>2, ElementOfSeq, LenProperties
<1>4. DOMAIN delivered = 1..Len(delivered) /\ Len(delivered) \in Nat
  BY <1>2, LenProperties
<1>5. QED
  BY <1>1, <1>2, <1>3, <1>4

\* Linking finds the pipeline without a bin.
LEMMA AddMove ==
  ASSUME IInv, AddElemProbe
  PROVE  /\ NoBinHolds /\ streaming = "pushing" /\ ~StreamOver
         /\ UNCHANGED <<in_bin, delivered, streaming>>
         /\ pos' \in {pos, pos + 1}
         /\ probes \in Seq(Probe) /\ probes # <<>>
         /\ Head(probes).cb = "add" /\ probes' = Tail(probes)
<1>1. /\ probes \in Seq(Probe) /\ probes # <<>> /\ Head(probes).cb = "add"
      /\ streaming = "pushing"
  BY DEF IInv, TypeOK, LinkTypeOK, AddElemProbe
<1>2. NoBinHolds
  <2>1. ASSUME NEW c \in Bins, ThroughPhase(c) PROVE FALSE
    <3>1. c = NoBin
      BY <1>1, <2>1, ProbesHead DEF ThroughPhase
    <3>2. QED
      BY <3>1, ElementsAssumption
  <2>2. ASSUME NEW c \in Bins, DrainingPhase(c) PROVE FALSE
    BY <1>1, <2>2 DEF DrainingPhase
  <2>3. DirectPhase
    BY <2>1, <2>2 DEF IInv, LinkInv
  <2>4. QED
    BY <2>3 DEF DirectPhase, NoBinHolds
<1>3. QED
  BY <1>1, <1>2 DEF AddElemProbe

\* Unlinking sends the EOS into the only bin that holds items, and no bin is
\* being drained already.
LEMMA PadMove ==
  ASSUME IInv, PadProbe
  PROVE  /\ streaming = "pushing" /\ streaming' = "draining" /\ ~StreamOver
         /\ UNCHANGED <<pos, delivered>>
         /\ probes \in Seq(Probe) /\ probes # <<>>
         /\ Head(probes).cb = "remove" /\ probes' = Tail(probes)
         /\ \E b \in Bins :
              /\ OnlyBin(b)
              /\ in_bin' = [in_bin EXCEPT ![b] = Append(@, DrainEos)]
<1>1. /\ probes \in Seq(Probe) /\ probes # <<>> /\ Head(probes).cb = "remove"
      /\ streaming = "pushing"
  BY DEF IInv, TypeOK, LinkTypeOK, PadProbe
<1>2. PICK b \in Bins : b = Head(probes).elem
  <2>1. Head(probes) \in Probe
    BY <1>1, HeadTailProperties
  <2>2. QED
    BY <2>1 DEF Probe
<1>3. OnlyBin(b)
  <2>1. CASE DirectPhase
    BY <2>1 DEF DirectPhase, OnlyBin
  <2>2. ASSUME NEW c \in Bins, ThroughPhase(c) PROVE OnlyBin(b)
    <3>1. c = b
      BY <1>1, <1>2, <2>2, ProbesHead DEF ThroughPhase
    <3>2. QED
      BY <2>2, <3>1 DEF ThroughPhase, OnlyBin
  <2>3. ASSUME NEW c \in Bins, DrainingPhase(c) PROVE FALSE
    BY <1>1, <2>3 DEF DrainingPhase
  <2>4. QED
    BY <2>1, <2>2, <2>3 DEF IInv, LinkInv
<1>4. QED
  BY <1>1, <1>2, <1>3 DEF PadProbe

\* An item goes past all bins when they are empty, or into the only one that is
\* not.
LEMMA PassMove ==
  ASSUME IInv, PassItem
  PROVE  /\ streaming = "pushing" /\ ~StreamOver /\ pos' = pos + 1
         /\ UNCHANGED <<streaming, probes>>
         /\ \/ /\ NoBinHolds /\ UNCHANGED in_bin
               /\ delivered' = Append(delivered, [item |-> pos, via |-> NoBin])
            \/ \E b \in Bins :
                 /\ OnlyBin(b) /\ UNCHANGED delivered
                 /\ in_bin' = [in_bin EXCEPT ![b] = Append(@, pos)]
<1>1. /\ streaming = "pushing" /\ ~StreamOver /\ pos' = pos + 1
      /\ UNCHANGED <<streaming, probes>>
  BY DEF PassItem
<1>2. CASE DirectPhase
  BY <1>1, <1>2 DEF PassItem, DirectPhase, Direct, NoBinHolds
<1>3. ASSUME NEW c \in Bins, ThroughPhase(c)
      PROVE  /\ OnlyBin(c) /\ UNCHANGED delivered
             /\ in_bin' = [in_bin EXCEPT ![c] = Append(@, pos)]
  <2>1. <<nvvidconv1, nvvidconv2>> \notin links /\ playing = {c}
    BY <1>3, ElementsAssumption DEF ThroughPhase, Through
  <2>2. QED
    BY <1>3, <2>1 DEF PassItem, ThroughPhase, OnlyBin
<1>4. ASSUME NEW c \in Bins, DrainingPhase(c) PROVE FALSE
  BY <1>1, <1>4 DEF DrainingPhase
<1>5. QED
  BY <1>1, <1>2, <1>3, <1>4 DEF IInv, LinkInv

\* What leaves a bin is not the EOS that drains it.
LEMMA OutputMove ==
  ASSUME IInv, OrderInv, NEW b \in Bins, BinOutput(b)
  PROVE  /\ OnlyBin(b) /\ in_bin[b] # <<>> /\ Head(in_bin[b]) # DrainEos
         /\ in_bin' = [in_bin EXCEPT ![b] = Tail(@)]
         /\ delivered' = Append(delivered, [item |-> Head(in_bin[b]), via |-> b])
         /\ UNCHANGED <<pos, streaming, probes>>
<1>1. /\ b \in playing /\ in_bin[b] # <<>>
      /\ b \in eos_probe => Kind(Head(in_bin[b])) # "eos"
  BY DEF BinOutput
<1>2. OnlyBin(b)
  BY <1>1 DEF IInv, LinkInv, DirectPhase, Direct, ThroughPhase, DrainingPhase,
              Through, OnlyBin
<1>3. ASSUME Head(in_bin[b]) = DrainEos PROVE FALSE
  <2>1. Head(in_bin[b]) = in_bin[b][1] /\ 1 \in DOMAIN in_bin[b]
    BY <1>1, ItemTypes, EmptySeq, LenProperties
  <2>2. streaming = "draining"
    BY <1>3, <2>1 DEF OrderInv, InOrder
  <2>3. PICK c \in Bins : DrainingPhase(c)
    BY <2>2 DEF IInv, LinkInv, DirectPhase, ThroughPhase
  <2>4. b \in eos_probe
    BY <1>1, <2>3 DEF DrainingPhase, Through
  <2>5. Kind(DrainEos) = "eos"
    BY DEF Kind, DrainEos
  <2>6. QED
    BY <1>1, <1>3, <2>4, <2>5
<1>4. QED
  BY <1>1, <1>2, <1>3 DEF BinOutput

\* A bin that is taken out holds nothing but the EOS that drained it.
LEMMA RemoveMove ==
  ASSUME IInv, OrderInv, NEW b \in Bins, RemoveElemProbe(b)
  PROVE  /\ OnlyBin(b) /\ streaming' = "pushing" /\ streaming = "draining"
         /\ Len(in_bin[b]) = 1 /\ in_bin[b][1] = DrainEos
         /\ in_bin' = [in_bin EXCEPT ![b] = <<>>]
         /\ UNCHANGED <<pos, delivered, probes>>
<1>1. /\ b \in eos_probe /\ in_bin[b] # <<>> /\ Kind(Head(in_bin[b])) = "eos"
  BY DEF RemoveElemProbe
<1>2. DrainingPhase(b)
  BY <1>1 DEF IInv, LinkInv, DirectPhase, ThroughPhase, DrainingPhase
<1>3. /\ Head(in_bin[b]) = in_bin[b][1] /\ 1 \in DOMAIN in_bin[b]
      /\ in_bin[b][1] \in Items \cup {DrainEos}
  BY <1>1, ItemTypes, EmptySeq, LenProperties, ElementOfSeq
<1>4. in_bin[b][1] = DrainEos
  <2>1. SUFFICES ASSUME in_bin[b][1] # DrainEos PROVE FALSE
    OBVIOUS
  <2>2. in_bin[b][1] < pos /\ ~StreamOver
    BY <1>2, <1>3 DEF OrderInv, InOrder, DrainingPhase
  <2>3. in_bin[b][1] \in 1..Len(Stream)
    BY <1>3, <2>1, <2>2, ItemTypes DEF StreamOver, Items
  <2>4. Stream[in_bin[b][1]] # "eos"
    BY <2>3, StreamAssumption, ElementOfSeq
  <2>5. QED
    BY <1>1, <1>3, <2>3, <2>4 DEF Kind
<1>5. Len(in_bin[b]) = 1
  BY <1>3, <1>4 DEF OrderInv, InOrder
<1>6. QED
  BY <1>2, <1>4, <1>5 DEF RemoveElemProbe, DrainingPhase, OnlyBin

-----------------------------------------------------------------------------
(* The order of the items.                                                  *)

LEMMA OrderStart == Init => OrderInv
<1> SUFFICES ASSUME Init PROVE OrderInv
  OBVIOUS
<1>1. DOMAIN <<>> = {} /\ Eos \in Nat \ {0}
  BY StreamTypes
<1>2. \A b \in Bins : in_bin[b] = <<>>
  BY DEF Init
<1>3. QED
  BY <1>1, <1>2 DEF Init, OrderInv, InOrder, DeliveredInOrder

\* A step that changes no bin and delivers nothing, and does not end a draining.
LEMMA OrderKept ==
  ASSUME IInv, OrderInv, UNCHANGED <<in_bin, delivered, streaming>>,
         pos' \in {pos, pos + 1}, streaming = "draining" => pos' = pos
  PROVE  OrderInv'
<1>1. pos \in Nat /\ pos' \in Nat /\ pos <= pos'
  BY ItemTypes
<1>2. \A i \in DOMAIN delivered : delivered[i].item \in Nat
  BY ItemTypes DEF Items
<1>3. \A i \in DOMAIN delivered : delivered[i].item < pos'
  BY <1>1, <1>2 DEF OrderInv
<1>4. ASSUME NEW b \in Bins PROVE InOrder(in_bin[b])'
  <2>1. in_bin[b] \in Seq(Items \cup {DrainEos})
    BY ItemTypes
  <2>2. \A i \in DOMAIN in_bin[b] : in_bin[b][i] \in Nat
    BY <2>1, ItemTypes, ElementOfSeq, LenProperties DEF Items
  <2>3. \A i \in DOMAIN in_bin[b] : in_bin[b][i] < pos'
    BY <1>1, <2>2 DEF OrderInv, InOrder
  <2>4. QED
    BY <2>3 DEF OrderInv, InOrder, DrainEos
<1>5. QED
  BY <1>3, <1>4 DEF OrderInv, DeliveredInOrder, StreamOver, Eos, DrainEos

\* The detector sends the EOS that drains the bin.
LEMMA OrderPad ==
  ASSUME IInv, OrderInv, PadProbe
  PROVE  OrderInv'
<1>1. PICK b \in Bins :
        OnlyBin(b) /\ in_bin' = [in_bin EXCEPT ![b] = Append(@, DrainEos)]
  BY PadMove
<1>2. /\ streaming = "pushing" /\ streaming' = "draining" /\ ~StreamOver
      /\ pos' = pos /\ delivered' = delivered
  BY PadMove
<1> DEFINE s == in_bin[b]
           t == in_bin'[b]
<1>3. /\ s \in Seq(Items \cup {DrainEos}) /\ t = Append(s, DrainEos)
      /\ \A c \in Bins \ {b} : in_bin'[c] = <<>>
  BY <1>1, ItemTypes DEF OnlyBin
<1>4. InOrder(s)
  BY DEF OrderInv
<1> HIDE DEF s, t
<1>5. /\ Len(s) \in Nat /\ Len(t) = Len(s) + 1 /\ t[Len(s) + 1] = DrainEos
      /\ DOMAIN s = 1..Len(s) /\ DOMAIN t = 1..(Len(s) + 1)
      /\ \A i \in 1..Len(s) : t[i] = s[i]
  BY <1>3
<1>6. \A i \in DOMAIN s : s[i] # DrainEos
  BY <1>2, <1>4 DEF InOrder
<1>7. DrainEos < pos /\ DrainEos' = DrainEos
  BY ItemTypes DEF DrainEos
<1>8. InOrder(in_bin[b])'
  <2> SUFFICES ASSUME NEW i \in DOMAIN t
               PROVE  /\ t[i] = DrainEos => i = Len(t)
                      /\ t[i] < pos
                      /\ \A j \in DOMAIN t :
                           i < j => t[j] = DrainEos \/ t[i] < t[j]
                      /\ \A j \in DOMAIN delivered :
                           t[i] = DrainEos \/ delivered[j].item < t[i]
    BY <1>2, <1>7 DEF InOrder, t
  <2>1. CASE i \in DOMAIN s
    BY <1>4, <1>5, <1>6, <2>1 DEF InOrder
  <2>2. CASE i = Len(s) + 1
    BY <1>5, <1>7, <2>2
  <2>3. QED
    BY <1>5, <2>1, <2>2
<1>9. ASSUME NEW c \in Bins PROVE InOrder(in_bin[c])'
  <2>1. CASE c = b
    BY <1>8, <2>1
  <2>2. CASE c # b
    <3>1. in_bin'[c] = <<>>
      BY <1>3, <2>2
    <3>2. DOMAIN in_bin'[c] = {}
      BY <3>1
    <3>3. QED
      BY <3>2 DEF InOrder
  <2>3. QED
    BY <2>1, <2>2
<1>10. QED
  BY <1>2, <1>9 DEF OrderInv, DeliveredInOrder, StreamOver, Eos, DrainEos

\* An item arrives behind all others and in front of what the bins hold.
LEMMA OrderArrival ==
  ASSUME IInv, OrderInv, NEW item \in Items, NEW via,
         delivered' = Append(delivered, [item |-> item, via |-> via]),
         \A i \in DOMAIN delivered : delivered[i].item < item,
         pos' \in Nat, pos <= pos', item < pos'
  PROVE  /\ DeliveredInOrder'
         /\ \A i \in DOMAIN delivered' : delivered'[i].item < pos'
         /\ DOMAIN delivered' = DOMAIN delivered \cup {Len(delivered) + 1}
         /\ delivered'[Len(delivered) + 1].item = item
         /\ \A i \in DOMAIN delivered : delivered'[i] = delivered[i]
<1> DEFINE n == Len(delivered)
<1>1. /\ n \in Nat /\ DOMAIN delivered = 1..n
      /\ DOMAIN delivered' = 1..(n + 1)
      /\ delivered'[n + 1].item = item
      /\ \A i \in 1..n : delivered'[i] = delivered[i]
  BY ItemTypes
<1>2. item \in Nat /\ item # DrainEos /\ DrainEos' = DrainEos /\ pos \in Nat
  BY ItemTypes DEF Items, DrainEos
<1>3. \A i \in 1..n : /\ delivered[i].item \in Nat
                      /\ delivered[i].item # DrainEos
                      /\ delivered[i].item < pos
  BY <1>1, ItemTypes DEF OrderInv, DeliveredInOrder, Items
<1> HIDE DEF n
<1>4. ASSUME NEW i \in 1..(n + 1)
      PROVE  delivered'[i].item # DrainEos /\ delivered'[i].item < pos'
  <2>1. CASE i \in 1..n
    BY <1>1, <1>2, <1>3, <2>1
  <2>2. CASE i = n + 1
    BY <1>1, <1>2, <2>2
  <2>3. QED
    BY <1>1, <2>1, <2>2
<1>5. ASSUME NEW i \in 1..(n + 1), NEW j \in 1..(n + 1), i < j
      PROVE  delivered'[i].item < delivered'[j].item
  <2>1. i \in 1..n
    BY <1>1, <1>5
  <2>2. CASE j \in 1..n
    BY <1>1, <1>5, <2>1, <2>2 DEF OrderInv, DeliveredInOrder
  <2>3. CASE j = n + 1
    BY <1>1, <2>1, <2>3
  <2>4. QED
    BY <1>1, <2>2, <2>3
<1>6. DeliveredInOrder'
  BY <1>1, <1>2, <1>4, <1>5 DEF DeliveredInOrder
<1>7. QED
  BY <1>1, <1>4, <1>6 DEF n

\* The detector pushes an item, past the bins or into one.
LEMMA OrderPass ==
  ASSUME IInv, OrderInv, PassItem
  PROVE  OrderInv'
<1>1. /\ streaming = "pushing" /\ streaming' = "pushing" /\ ~StreamOver
      /\ pos' = pos + 1
  BY PassMove
<1>2. pos \in Items /\ pos \in Nat /\ DrainEos' = DrainEos /\ pos # DrainEos
  BY <1>1, ItemTypes DEF StreamOver, Items, DrainEos
<1>3. \A i \in DOMAIN delivered : /\ delivered[i].item < pos
                                  /\ delivered[i].item \in Nat
  BY ItemTypes DEF OrderInv, Items
<1>4. CASE /\ NoBinHolds /\ UNCHANGED in_bin
           /\ delivered' = Append(delivered, [item |-> pos, via |-> NoBin])
  <2>1. /\ DeliveredInOrder'
        /\ \A i \in DOMAIN delivered' : delivered'[i].item < pos'
    BY <1>1, <1>2, <1>3, <1>4, OrderArrival
  <2>2. \A c \in Bins : InOrder(in_bin[c])'
    BY <1>4 DEF NoBinHolds, InOrder
  <2>3. QED
    BY <1>1, <2>1, <2>2 DEF OrderInv
<1>5. ASSUME NEW b \in Bins, OnlyBin(b), UNCHANGED delivered,
             in_bin' = [in_bin EXCEPT ![b] = Append(@, pos)]
      PROVE  OrderInv'
  <2> DEFINE s == in_bin[b]
             t == in_bin'[b]
  <2>1. /\ s \in Seq(Items \cup {DrainEos}) /\ t = Append(s, pos)
        /\ \A c \in Bins \ {b} : in_bin'[c] = <<>>
    BY <1>5, ItemTypes DEF OnlyBin
  <2>2. InOrder(s)
    BY DEF OrderInv
  <2> HIDE DEF s, t
  <2>3. /\ Len(s) \in Nat /\ Len(t) = Len(s) + 1 /\ t[Len(s) + 1] = pos
        /\ DOMAIN s = 1..Len(s) /\ DOMAIN t = 1..(Len(s) + 1)
        /\ \A i \in 1..Len(s) : t[i] = s[i] /\ s[i] \in Items \cup {DrainEos}
    BY <2>1
  <2>4. \A i \in 1..Len(s) : s[i] # DrainEos /\ s[i] < pos /\ s[i] \in Nat
    BY <1>1, <2>2, <2>3, ItemTypes DEF InOrder, Items
  <2>5. InOrder(in_bin[b])'
    <3> SUFFICES ASSUME NEW i \in DOMAIN t
                 PROVE  /\ t[i] # DrainEos
                        /\ t[i] < pos'
                        /\ \A j \in DOMAIN t : i < j => t[i] < t[j]
                        /\ \A j \in DOMAIN delivered : delivered[j].item < t[i]
      BY <1>2, <1>5 DEF InOrder, t
    <3>1. CASE i \in 1..Len(s)
      <4>1. ASSUME NEW j \in DOMAIN t, i < j PROVE t[i] < t[j]
        <5>1. CASE j \in 1..Len(s)
          BY <2>2, <2>3, <2>4, <3>1, <4>1, <5>1 DEF InOrder
        <5>2. CASE j = Len(s) + 1
          BY <2>3, <2>4, <3>1, <5>2
        <5>3. QED
          BY <2>3, <5>1, <5>2
      <4>2. \A j \in DOMAIN delivered : delivered[j].item < t[i]
        BY <2>2, <2>3, <2>4, <3>1 DEF InOrder
      <4>3. QED
        BY <1>1, <1>2, <2>3, <2>4, <3>1, <4>1, <4>2
    <3>2. CASE i = Len(s) + 1
      BY <1>1, <1>2, <1>3, <2>3, <3>2
    <3>3. QED
      BY <2>3, <3>1, <3>2
  <2>6. ASSUME NEW c \in Bins PROVE InOrder(in_bin[c])'
    <3>1. CASE c = b
      BY <2>5, <3>1
    <3>2. CASE c # b
      <4>1. in_bin'[c] = <<>>
        BY <2>1, <3>2
      <4>2. DOMAIN in_bin'[c] = {}
        BY <4>1
      <4>3. QED
        BY <4>2 DEF InOrder
    <3>3. QED
      BY <3>1, <3>2
  <2>7. \A i \in DOMAIN delivered' : delivered'[i].item < pos'
    BY <1>1, <1>2, <1>3, <1>5
  <2>8. DeliveredInOrder'
    BY <1>2, <1>5 DEF OrderInv, DeliveredInOrder
  <2>9. QED
    BY <1>1, <2>6, <2>7, <2>8 DEF OrderInv
<1>6. QED
  BY <1>4, <1>5, PassMove

\* The oldest item of a bin arrives.
LEMMA OrderOutput ==
  ASSUME IInv, OrderInv, NEW b \in Bins, BinOutput(b)
  PROVE  OrderInv'
<1> DEFINE s == in_bin[b]
           h == Head(in_bin[b])
<1>1. /\ OnlyBin(b) /\ s # <<>> /\ h # DrainEos
      /\ in_bin' = [in_bin EXCEPT ![b] = Tail(@)]
      /\ delivered' = Append(delivered, [item |-> h, via |-> b])
      /\ UNCHANGED <<pos, streaming>>
  BY OutputMove
<1>2. /\ s \in Seq(Items \cup {DrainEos}) /\ in_bin'[b] = Tail(s)
      /\ \A c \in Bins \ {b} : in_bin'[c] = <<>>
  BY <1>1, ItemTypes DEF OnlyBin
<1>3. InOrder(s) /\ h = Head(s)
  BY DEF OrderInv
<1> HIDE DEF s, h
<1>4. /\ Len(s) \in Nat \ {0} /\ DOMAIN s = 1..Len(s) /\ s[1] = h
      /\ DOMAIN Tail(s) = 1..(Len(s) - 1) /\ Len(Tail(s)) = Len(s) - 1
      /\ \A i \in 1..(Len(s) - 1) : Tail(s)[i] = s[i + 1]
      /\ \A i \in 1..Len(s) : s[i] \in Items \cup {DrainEos}
  BY <1>1, <1>2, <1>3, Queue, HeadTailProperties, LenProperties
<1>5. h \in Items /\ h \in Nat /\ pos \in Nat /\ h < pos /\ DrainEos' = DrainEos
  <2>1. 1 \in DOMAIN s /\ s[1] \in Items \cup {DrainEos}
    BY <1>4
  <2>2. s[1] < pos
    BY <1>3, <2>1 DEF InOrder
  <2>3. h # DrainEos
    BY <1>1 DEF h
  <2>4. h \in Items /\ h < pos
    BY <1>4, <2>1, <2>2, <2>3
  <2>5. QED
    BY <2>4, ItemTypes DEF Items, DrainEos
<1>6. \A i \in DOMAIN delivered : delivered[i].item < h
  BY <1>1, <1>3, <1>4 DEF InOrder
<1>7. /\ DeliveredInOrder'
      /\ \A i \in DOMAIN delivered' : delivered'[i].item < pos'
      /\ DOMAIN delivered' = DOMAIN delivered \cup {Len(delivered) + 1}
      /\ delivered'[Len(delivered) + 1].item = h
      /\ \A i \in DOMAIN delivered : delivered'[i] = delivered[i]
  BY <1>1, <1>5, <1>6, OrderArrival
<1>8. InOrder(in_bin[b])'
  <2> SUFFICES ASSUME NEW i \in 1..(Len(s) - 1)
               PROVE  /\ s[i + 1] = DrainEos => i = Len(s) - 1
                                               /\ streaming = "draining"
                      /\ s[i + 1] < pos
                      /\ \A j \in 1..(Len(s) - 1) :
                           i < j => s[j + 1] = DrainEos \/ s[i + 1] < s[j + 1]
                      /\ \A j \in DOMAIN delivered' :
                           \/ s[i + 1] = DrainEos
                           \/ delivered'[j].item < s[i + 1]
    <3>1. /\ DOMAIN in_bin'[b] = 1..(Len(s) - 1) /\ Len(in_bin'[b]) = Len(s) - 1
          /\ \A i \in 1..(Len(s) - 1) : in_bin'[b][i] = s[i + 1]
      BY <1>2, <1>4
    <3>2. pos' = pos /\ streaming' = streaming /\ DrainEos' = DrainEos
      BY <1>1, <1>5
    <3>3. QED
      BY <3>1, <3>2 DEF InOrder
  <2>1. i + 1 \in 1..Len(s) /\ 1 < i + 1 /\ 1 \in 1..Len(s)
    BY <1>4
  <2>2. ASSUME NEW j \in 1..(Len(s) - 1), i < j
        PROVE  s[j + 1] = DrainEos \/ s[i + 1] < s[j + 1]
    <3>1. j + 1 \in 1..Len(s) /\ i + 1 < j + 1
      BY <1>4, <2>2
    <3>2. QED
      BY <1>3, <1>4, <2>1, <3>1 DEF InOrder
  <2>3. ASSUME NEW j \in DOMAIN delivered'
        PROVE  s[i + 1] = DrainEos \/ delivered'[j].item < s[i + 1]
    <3>1. CASE j \in DOMAIN delivered
      BY <1>3, <1>4, <1>7, <2>1, <3>1 DEF InOrder
    <3>2. CASE j = Len(delivered) + 1
      BY <1>3, <1>4, <1>7, <2>1, <3>2 DEF InOrder
    <3>3. QED
      BY <1>7, <3>1, <3>2
  <2>4. /\ s[i + 1] = DrainEos => i = Len(s) - 1 /\ streaming = "draining"
        /\ s[i + 1] < pos
    <3>1. /\ s[i + 1] = DrainEos => i + 1 = Len(s) /\ streaming = "draining"
          /\ s[i + 1] < pos
      BY <1>3, <1>4, <2>1 DEF InOrder
    <3>2. i + 1 = Len(s) => i = Len(s) - 1
      <4>1. Len(s) \in Int /\ i \in Int
        BY <1>4
      <4>2. \A k, n \in Int : k + 1 = n => k = n - 1
        OBVIOUS
      <4>3. QED
        BY <4>1, <4>2
    <3>3. QED
      BY <3>1, <3>2
  <2>5. QED
    BY <2>2, <2>3, <2>4
<1>9. \A c \in Bins : InOrder(in_bin[c])'
  <2>1. ASSUME NEW c \in Bins \ {b} PROVE InOrder(in_bin[c])'
    BY <1>2 DEF InOrder
  <2>2. QED
    BY <1>8, <2>1
<1>10. QED
  BY <1>1, <1>7, <1>9 DEF OrderInv, StreamOver, Eos

\* The bin is taken out.
LEMMA OrderRemove ==
  ASSUME IInv, OrderInv, NEW b \in Bins, RemoveElemProbe(b)
  PROVE  OrderInv'
<1>1. /\ OnlyBin(b) /\ streaming' = "pushing"
      /\ in_bin' = [in_bin EXCEPT ![b] = <<>>]
      /\ UNCHANGED <<pos, delivered>>
  BY RemoveMove
<1>2. \A c \in Bins : in_bin'[c] = <<>>
  BY <1>1, ItemTypes DEF OnlyBin
<1>3. \A c \in Bins : InOrder(in_bin[c])'
  BY <1>2 DEF InOrder
<1>4. QED
  BY <1>1, <1>3 DEF OrderInv, DeliveredInOrder, DrainEos

\* What the other steps leave alone.
LEMMA QuietSteps ==
  ASSUME Next, ~Detector,
         \A b \in Bins : ~(/\ deciding = <<>>
                           /\ BinOutput(b) \/ RemoveElemProbe(b)
                           /\ AfterFilterBufferProbe)
  PROVE  UNCHANGED <<in_bin, delivered, streaming, pos>>
BY DEF Next, PromptServer, MainLoop, SaveStep, EnableFpfilter, DisableFpfilter,
       BinThread, QueueFrame, linkVars

LEMMA OrderNext ==
  ASSUME IInv, OrderInv, [Next]_vars
  PROVE  OrderInv'
<1>1. CASE AddElemProbe
  <2>1. UNCHANGED <<in_bin, delivered, streaming>> /\ pos' \in {pos, pos + 1}
        /\ streaming = "pushing"
    BY <1>1, AddMove
  <2>2. QED
    BY <2>1, OrderKept
<1>2. CASE PadProbe
  BY <1>2, OrderPad
<1>3. CASE PassItem
  BY <1>3, OrderPass
<1>4. ASSUME NEW b \in Bins, BinOutput(b) \/ RemoveElemProbe(b)
      PROVE  OrderInv'
  BY <1>4, OrderOutput, OrderRemove
<1>5. CASE UNCHANGED <<in_bin, delivered, streaming, pos>>
  BY <1>5, OrderKept
<1>6. QED
  BY <1>1, <1>2, <1>3, <1>4, <1>5, QuietSteps DEF Detector, vars, linkVars

\* Together with the phases of the pipeline the order is inductive.
THEOREM OrderInductive == Spec => [](IInv /\ OrderInv)
<1>1. OrderInv /\ IInv /\ [Next]_vars => OrderInv'
  BY OrderNext
<1>2. QED
  BY <1>1, OrderStart, InductiveInvariant, PTL DEF Spec

\* Frames arrive at nvvidconv2 in the order of the stream and once, and no EOS
\* that drains a bin gets out, whatever is linked and unlinked meanwhile.
THEOREM DeliveryInOrder == Spec => []DeliveredInOrder
<1>1. OrderInv => DeliveredInOrder
  BY DEF OrderInv
<1>2. QED
  BY <1>1, OrderInductive, PTL

-----------------------------------------------------------------------------
(* The frames queued for upload.                                            *)

\* The frames queued, and behind them the one the probe is about to queue.
Queued == frame_save_queue \o deciding

\* What QueueFollowsDelivery says of a queue q and of what was delivered, d.
Follows(q, d) ==
  /\ \A i \in DOMAIN q :
       /\ \E j \in DOMAIN d : d[j].item = q[i] /\ d[j].via # NoBin
       /\ tp_count[q[i]] <= fp_count[q[i]] /\ fp_count[q[i]] > 0
       /\ tp_count[q[i]] + fp_count[q[i]] # 1
  /\ \A i, j \in DOMAIN q : i < j => q[i] < q[j]

Arrival == [item : Items \cup {DrainEos}, via : Bins \cup {NoBin}]

\* A delivery changes nothing for the frames queued before it.
LEMMA FollowsLonger ==
  ASSUME NEW q, NEW d \in Seq(Arrival), NEW e \in Arrival, Follows(q, d)
  PROVE  Follows(q, Append(d, e))
<1>1. /\ DOMAIN d = 1..Len(d) /\ Len(d) \in Nat
      /\ DOMAIN Append(d, e) = 1..(Len(d) + 1)
      /\ \A j \in 1..Len(d) : Append(d, e)[j] = d[j]
  BY Queue, LenProperties
<1>2. \A j \in DOMAIN d : j \in DOMAIN Append(d, e) /\ Append(d, e)[j] = d[j]
  BY <1>1
<1>3. QED
  BY <1>2 DEF Follows

\* A frame with many false positives that is queued when it comes out of a bin.
LEMMA FollowsFrame ==
  ASSUME NEW q \in Seq(Items), NEW d \in Seq(Arrival),
         NEW h \in 1..Len(Stream), NEW b \in Bins,
         Follows(q, d), ManyFalsePositives(h),
         \A i \in DOMAIN d : d[i].item < h
  PROVE  Follows(Append(q, h), Append(d, [item |-> h, via |-> b]))
<1> DEFINE r == Append(q, h)
           e == [item |-> h, via |-> b]
           f == Append(d, e)
<1>1. /\ Len(Stream) \in Nat /\ h \in Items /\ h \in Nat /\ b # NoBin
      /\ e \in Arrival /\ e.item = h /\ e.via = b
  BY StreamTypes, ElementsAssumption DEF Items, Arrival, Eos
<1>2. /\ Len(q) \in Nat /\ DOMAIN q = 1..Len(q)
      /\ DOMAIN r = 1..(Len(q) + 1) /\ r[Len(q) + 1] = h
      /\ \A i \in 1..Len(q) : r[i] = q[i] /\ q[i] \in Items
  BY <1>1, Queue, LenProperties
<1>3. /\ Len(d) \in Nat /\ Len(d) + 1 \in DOMAIN f /\ f[Len(d) + 1] = e
  BY <1>1, Queue, LenProperties
<1>4. Follows(q, f)
  BY <1>1, FollowsLonger
<1>5. \A i \in 1..Len(q) : q[i] < h
  BY <1>2 DEF Follows
<1>6. /\ tp_count[h] <= fp_count[h] /\ fp_count[h] > 0
      /\ tp_count[h] + fp_count[h] # 1
  <2>1. tp_count[h] \in Nat /\ fp_count[h] \in Nat
    BY CountsAssumption
  <2>2. /\ tp_count[h] + fp_count[h] > 1
        /\ 2 * fp_count[h] >= tp_count[h] + fp_count[h]
    BY DEF ManyFalsePositives
  <2>3. QED
    BY <2>1, <2>2
<1> HIDE DEF r, f, e
<1>7. ASSUME NEW i \in 1..(Len(q) + 1)
      PROVE  /\ \E j \in DOMAIN f : f[j].item = r[i] /\ f[j].via # NoBin
             /\ tp_count[r[i]] <= fp_count[r[i]] /\ fp_count[r[i]] > 0
             /\ tp_count[r[i]] + fp_count[r[i]] # 1
  <2>1. CASE i \in 1..Len(q)
    BY <1>2, <1>4, <2>1 DEF Follows
  <2>2. CASE i = Len(q) + 1
    BY <1>1, <1>2, <1>3, <1>6, <2>2
  <2>3. QED
    BY <1>2, <2>1, <2>2
<1>8. ASSUME NEW i \in 1..(Len(q) + 1), NEW j \in 1..(Len(q) + 1), i < j
      PROVE  r[i] < r[j]
  <2>1. i \in 1..Len(q)
    BY <1>2, <1>8
  <2>2. CASE j \in 1..Len(q)
    BY <1>2, <1>4, <1>8, <2>1, <2>2 DEF Follows
  <2>3. CASE j = Len(q) + 1
    BY <1>2, <1>5, <2>1, <2>3
  <2>4. QED
    BY <1>2, <2>2, <2>3
<1>9. Follows(r, f)
  BY <1>2, <1>7, <1>8 DEF Follows
<1>10. QED
  BY <1>9 DEF r, f, e

\* The only step that changes what is queued is one that lets a frame out of a
\* bin; the probe has nothing in its hands then.
LEMMA QueueSteps ==
  ASSUME IInv, OrderInv, [Next]_vars
  PROVE  \/ /\ Queued' = Queued
            /\ \/ delivered' = delivered
               \/ \E e \in Arrival : delivered' = Append(delivered, e)
         \/ \E b \in Bins :
              LET h == Head(in_bin[b]) IN
              /\ BinOutput(b)
              /\ delivered' = Append(delivered, [item |-> h, via |-> b])
              /\ h \in 1..Len(Stream) /\ Kind(h) = "frame"
              /\ ManyFalsePositives(h)
              /\ Queued' = Append(Queued, h)
<1>0. /\ frame_save_queue \in Seq(Items) /\ deciding \in Seq(Items)
      /\ delivered \in Seq(Arrival)
  BY DEF IInv, TypeOK, LinkTypeOK, Arrival
<1>1. CASE Detector
  <2>1. UNCHANGED frame_save_queue
    BY <1>1 DEF Detector, AfterFilterBufferProbe
  <2>2. CASE UNCHANGED delivered
    BY <1>1, <2>1, <2>2 DEF Detector, AfterFilterBufferProbe, Queued
  <2>3. CASE PassItem /\ delivered' # delivered
    <3>1. /\ pos \in Items
          /\ delivered' = Append(delivered, [item |-> pos, via |-> NoBin])
      BY <2>3, PassMove, ItemTypes DEF StreamOver, Items
    <3>2. [item |-> pos, via |-> NoBin] \in Arrival
      BY <3>1 DEF Arrival
    <3>3. delivered'[Len(delivered')] = [item |-> pos, via |-> NoBin]
      BY <1>0, <3>1, <3>2, Queue
    <3>4. ~Selects(delivered'[Len(delivered')])
      BY <3>3 DEF Selects, FpfilterMetaTaken, UserMeta
    <3>5. deciding' = deciding
      BY <1>1, <3>4 DEF Detector, AfterFilterBufferProbe
    <3>6. QED
      BY <2>1, <3>1, <3>2, <3>5 DEF Queued
  <2>4. QED
    BY <1>1, <2>2, <2>3, AddMove, PadMove DEF Detector
<1>2. ASSUME NEW b \in Bins, deciding = <<>>, BinOutput(b),
             AfterFilterBufferProbe
      PROVE  \/ /\ Queued' = Queued
                /\ \E e \in Arrival : delivered' = Append(delivered, e)
             \/ LET h == Head(in_bin[b]) IN
                /\ h \in 1..Len(Stream) /\ Kind(h) = "frame"
                /\ ManyFalsePositives(h)
                /\ delivered' = Append(delivered, [item |-> h, via |-> b])
                /\ Queued' = Append(Queued, h)
  <2> DEFINE h == Head(in_bin[b])
             e == [item |-> h, via |-> b]
  <2>1. /\ in_bin[b] # <<>> /\ in_bin[b] \in Seq(Items \cup {DrainEos})
        /\ delivered' = Append(delivered, e)
    BY <1>2, OutputMove, ItemTypes
  <2>2. h \in Items \cup {DrainEos} /\ e \in Arrival
    BY <2>1, Queue DEF Arrival
  <2>3. /\ delivered'[Len(delivered')] = e /\ delivered' # delivered
    <3>1. /\ Len(delivered') = Len(delivered) + 1 /\ Len(delivered) \in Nat
          /\ delivered'[Len(delivered) + 1] = e
      BY <1>0, <2>1, <2>2, Queue
    <3>2. QED
      BY <3>1
  <2>4. /\ deciding' = IF Selects(e) THEN <<e.item>> ELSE <<>>
        /\ frame_save_queue' = frame_save_queue
    BY <1>2, <2>3 DEF AfterFilterBufferProbe
  <2>5. CASE Selects(e)
    <3>1. /\ h \in 1..Len(Stream) /\ Kind(h) = "frame" /\ ManyFalsePositives(h)
          /\ deciding' = <<h>>
      BY <2>4, <2>5 DEF Selects
    <3>2. h \in Items
      BY <3>1, StreamTypes DEF Items, Eos
    <3>3. Queued' = Append(Queued, h)
      BY <1>0, <1>2, <2>4, <3>1, <3>2, AppendIsConcat, ConcatEmptySeq DEF Queued
    <3>4. QED
      BY <2>1, <3>1, <3>3
  <2>6. CASE ~Selects(e)
    BY <1>2, <2>1, <2>2, <2>4, <2>6 DEF Queued
  <2>7. QED
    BY <2>5, <2>6
<1>3. ASSUME NEW b \in Bins, RemoveElemProbe(b), AfterFilterBufferProbe
      PROVE  Queued' = Queued /\ delivered' = delivered
  BY <1>3 DEF RemoveElemProbe, AfterFilterBufferProbe, Queued
<1>4. CASE QueueFrame
  <2>1. /\ frame_save_queue' = frame_save_queue \o deciding /\ deciding' = <<>>
        /\ delivered' = delivered
    BY <1>4 DEF QueueFrame, linkVars
  <2>2. frame_save_queue \o deciding \in Seq(Items)
    BY <1>0, ConcatProperties
  <2>3. QED
    BY <2>1, <2>2, ConcatEmptySeq DEF Queued
<1>5. CASE PromptServer \/ MainLoop \/ UNCHANGED vars
  BY <1>5 DEF PromptServer, MainLoop, SaveStep, EnableFpfilter, DisableFpfilter,
              Queued, vars, linkVars, selectVars
<1>6. QED
  BY <1>1, <1>2, <1>3, <1>4, <1>5 DEF Next, BinThread

LEMMA FollowsNext ==
  ASSUME IInv, OrderInv, QueueFollowsDelivery, [Next]_vars
  PROVE  QueueFollowsDelivery'
<1>1. /\ frame_save_queue \in Seq(Items) /\ deciding \in Seq(Items)
      /\ delivered \in Seq(Arrival)
  BY DEF IInv, TypeOK, LinkTypeOK, Arrival
<1>2. Queued \in Seq(Items)
  BY <1>1, ConcatProperties DEF Queued
<1>3. Follows(Queued, delivered)
  BY DEF QueueFollowsDelivery, Follows, Queued
<1>4. CASE Queued' = Queued /\ delivered' = delivered
  <2>1. Follows(Queued', delivered')
    BY <1>3, <1>4
  <2>2. QED
    BY <2>1 DEF QueueFollowsDelivery, Follows, Queued
<1>5. ASSUME NEW e \in Arrival, Queued' = Queued,
             delivered' = Append(delivered, e)
      PROVE  QueueFollowsDelivery'
  <2>1. Follows(Queued', delivered')
    BY <1>1, <1>3, <1>5, FollowsLonger
  <2>2. QED
    BY <2>1 DEF QueueFollowsDelivery, Follows, Queued
<1>6. ASSUME NEW b \in Bins, BinOutput(b),
             Head(in_bin[b]) \in 1..Len(Stream),
             ManyFalsePositives(Head(in_bin[b])),
             delivered' = Append(delivered,
                                 [item |-> Head(in_bin[b]), via |-> b]),
             Queued' = Append(Queued, Head(in_bin[b]))
      PROVE  QueueFollowsDelivery'
  <2> DEFINE h == Head(in_bin[b])
  <2>1. in_bin[b] # <<>> /\ h # DrainEos
    BY <1>6, OutputMove
  <2>2. 1 \in DOMAIN in_bin[b] /\ in_bin[b][1] = h
    BY <2>1, ItemTypes, Queue, LenProperties
  <2>3. \A i \in DOMAIN delivered : delivered[i].item < h
    BY <2>1, <2>2 DEF OrderInv, InOrder
  <2> HIDE DEF h
  <2>4. Follows(Queued', delivered')
    BY <1>1, <1>2, <1>3, <1>6, <2>3, FollowsFrame DEF h
  <2>5. QED
    BY <2>4 DEF QueueFollowsDelivery, Follows, Queued
<1>7. QED
  BY <1>4, <1>5, <1>6, QueueSteps

\* Whatever is requested and whenever, only a frame that arrived through a bin,
\* with as many false positives as true ones or more, is queued for upload, once
\* and in the order of the stream.
THEOREM QueueIsDelivered == Spec => []QueueFollowsDelivery
<1>1. Init => QueueFollowsDelivery
  BY DEF Init, QueueFollowsDelivery
<1>2. IInv /\ OrderInv /\ QueueFollowsDelivery /\ [Next]_vars
        => QueueFollowsDelivery'
  BY FollowsNext
<1>3. QED
  BY <1>1, <1>2, OrderInductive, PTL DEF Spec

-----------------------------------------------------------------------------
(* The refinement mapping.                                                  *)

\* What is in a bin that holds s, without the EOS that drains it.
InFlight(s) ==
  IF s[Len(s)] = DrainEos THEN SubSeq(s, 1, Len(s) - 1) ELSE s

FlightOf(f) ==
  IF \A b \in Bins : f[b] = <<>> THEN <<>>
  ELSE InFlight(f[CHOOSE c \in Bins : f[c] # <<>>])

ItemsOf(d) == [i \in DOMAIN d |-> d[i].item]

AddsIn(p) == Cardinality({i \in DOMAIN p : p[i].cb = "add"})

Contents == Items \cup {DrainEos}

LEMMA MappingIs ==
  /\ Flight = FlightOf(in_bin)
  /\ Flight' = FlightOf(in_bin')
BY DEF Flight, FlightOf, InFlight, DrainEos

-----------------------------------------------------------------------------
(* The items in flight.                                                     *)

\* They are those of the only bin that holds any.
LEMMA FlightOfBin ==
  ASSUME NEW f, NEW b \in Bins, \A c \in Bins \ {b} : f[c] = <<>>
  PROVE  FlightOf(f) = IF f[b] = <<>> THEN <<>> ELSE InFlight(f[b])
<1>1. CASE f[b] = <<>>
  BY <1>1 DEF FlightOf
<1>2. CASE f[b] # <<>>
  <2> DEFINE c == CHOOSE c \in Bins : f[c] # <<>>
  <2>1. c \in Bins /\ f[c] # <<>>
    BY <1>2
  <2>2. c = b
    BY <2>1
  <2>3. FlightOf(f) = InFlight(f[c])
    BY <1>2 DEF FlightOf
  <2>4. QED
    BY <1>2, <2>2, <2>3
<1>3. QED
  BY <1>1, <1>2

\* An item sent into a bin flies behind the others.
LEMMA FlightSend ==
  ASSUME NEW s \in Seq(Contents), NEW e \in Items, e # DrainEos,
         \A i \in DOMAIN s : s[i] # DrainEos
  PROVE  /\ InFlight(Append(s, e)) = Append(s, e)
         /\ s # <<>> => InFlight(s) = s
<1>1. /\ Len(s) \in Nat /\ DOMAIN s = 1..Len(s)
      /\ Len(Append(s, e)) = Len(s) + 1 /\ Append(s, e)[Len(s) + 1] = e
  BY Queue, LenProperties DEF Contents
<1>2. s # <<>> => Len(s) \in DOMAIN s
  BY <1>1, EmptySeq
<1>3. QED
  BY <1>1, <1>2 DEF InFlight

\* The EOS that drains a bin does not.
LEMMA FlightDrain ==
  ASSUME NEW s \in Seq(Contents), \A i \in DOMAIN s : s[i] # DrainEos
  PROVE  /\ Append(s, DrainEos) # <<>>
         /\ InFlight(Append(s, DrainEos)) = s
         /\ s # <<>> => InFlight(s) = s
<1> DEFINE t == Append(s, DrainEos)
<1>1. /\ Len(s) \in Nat /\ DOMAIN s = 1..Len(s) /\ t \in Seq(Contents)
      /\ Len(t) = Len(s) + 1 /\ t[Len(s) + 1] = DrainEos
      /\ \A i \in 1..Len(s) : t[i] = s[i] /\ s[i] \in Contents
  BY Queue, LenProperties DEF Contents
<1>2. s # <<>> => Len(s) \in DOMAIN s
  BY <1>1, EmptySeq
<1> HIDE DEF t
<1>3. t # <<>> /\ InFlight(t) = SubSeq(t, 1, Len(s))
  <2>1. Len(t) # 0 /\ Len(t) - 1 = Len(s)
    BY <1>1
  <2>2. QED
    BY <1>1, <2>1, EmptySeq DEF InFlight
<1>4. SubSeq(t, 1, Len(s)) = s
  <2>1. \A i \in 1..Len(s) : t[i] \in Contents
    BY <1>1
  <2>2. 1 \in Int /\ Len(s) \in Int
    BY <1>1
  <2>3. /\ SubSeq(t, 1, Len(s)) \in Seq(Contents)
        /\ Len(SubSeq(t, 1, Len(s))) = IF 1 <= Len(s) THEN Len(s) - 1 + 1 ELSE 0
        /\ \A i \in 1..(Len(s) - 1 + 1) : SubSeq(t, 1, Len(s))[i] = t[1 + i - 1]
    BY <2>1, <2>2, SubSeqProperties
  <2>4. /\ Len(SubSeq(t, 1, Len(s))) = Len(s)
        /\ \A i \in 1..Len(s) : SubSeq(t, 1, Len(s))[i] = t[i]
    BY <1>1, <2>3
  <2>5. QED
    BY <1>1, <2>3, <2>4, SeqEqual
<1>5. QED
  BY <1>2, <1>3, <1>4 DEF InFlight, t

\* The oldest item of a bin is the one that flies in front.
LEMMA FlightArrive ==
  ASSUME NEW s \in Seq(Contents), s # <<>>, Head(s) # DrainEos
  PROVE  /\ InFlight(s) # <<>> /\ Head(InFlight(s)) = Head(s)
         /\ Tail(InFlight(s)) = IF Tail(s) = <<>> THEN <<>>
                                ELSE InFlight(Tail(s))
<1> DEFINE n == Len(s)
<1>1. /\ n \in Nat \ {0} /\ s[1] = Head(s)
      /\ Tail(s) \in Seq(Contents) /\ Len(Tail(s)) = n - 1
      /\ \A i \in 1..(n - 1) : Tail(s)[i] = s[i + 1]
      /\ \A i \in 1..n : s[i] \in Contents
  BY Queue, EmptySeq
<1>2. Tail(s) = <<>> <=> n = 1
  <2>1. Tail(s) = <<>> <=> Len(Tail(s)) = 0
    BY <1>1, Queue
  <2>2. QED
    BY <1>1, <2>1
<1>3. n # 1 => /\ Tail(s)[Len(Tail(s))] = s[n]
               /\ n - 1 \in 1..n /\ 1 \in 1..n
  BY <1>1
<1>4. CASE s[n] # DrainEos
  <2>1. InFlight(s) = s
    BY <1>4 DEF InFlight
  <2>2. Tail(s) # <<>> => InFlight(Tail(s)) = Tail(s)
    BY <1>2, <1>3, <1>4 DEF InFlight
  <2>3. QED
    BY <2>1, <2>2
<1>5. CASE s[n] = DrainEos
  <2>1. n # 1
    BY <1>1, <1>5
  <2>2. n - 1 \in 1..n /\ 1 \in 1..n /\ n - 1 \in 1..(n - 1)
    BY <1>1, <2>1
  <2>3. InFlight(s) = SubSeq(s, 1, n - 1)
    BY <1>5 DEF InFlight
  <2>4. /\ Head(InFlight(s)) = s[1]
        /\ Tail(InFlight(s)) = SubSeq(s, 2, n - 1)
    BY <2>2, <2>3, HeadTailOfSubSeq
  <2>5. InFlight(s) # <<>>
    <3>1. \A i \in 1..(n - 1) : s[i] \in Contents
      BY <1>1
    <3>2. n - 1 \in Int /\ 1 \in Int
      BY <1>1
    <3>3. Len(SubSeq(s, 1, n - 1)) # 0
      BY <2>2, <3>1, <3>2, SubSeqProperties
    <3>4. QED
      BY <2>3, <3>3, EmptySeq
  <2>6. /\ Tail(s) # <<>>
        /\ InFlight(Tail(s)) = SubSeq(Tail(s), 1, n - 2)
    <3>1. Tail(s)[Len(Tail(s))] = DrainEos
      BY <1>3, <1>5, <2>1
    <3>2. Len(Tail(s)) - 1 = n - 2
      BY <1>1
    <3>3. QED
      BY <1>2, <2>1, <3>1, <3>2 DEF InFlight
  <2>7. SubSeq(Tail(s), 1, n - 2) = SubSeq(s, 2, n - 1)
    <3> DEFINE u == SubSeq(Tail(s), 1, n - 2)
               v == SubSeq(s, 2, n - 1)
    <3>1. /\ n - 2 \in Int /\ n - 1 \in Int /\ 1 \in Int /\ 2 \in Int
          /\ \A i \in 1..(n - 2) : Tail(s)[i] \in Contents
          /\ \A i \in 2..(n - 1) : s[i] \in Contents
      BY <1>1
    <3>2. /\ u \in Seq(Contents)
          /\ Len(u) = IF 1 <= n - 2 THEN n - 2 - 1 + 1 ELSE 0
          /\ \A i \in 1..(n - 2 - 1 + 1) : u[i] = Tail(s)[1 + i - 1]
      BY <3>1, SubSeqProperties
    <3>3. /\ v \in Seq(Contents)
          /\ Len(v) = IF 2 <= n - 1 THEN n - 1 - 2 + 1 ELSE 0
          /\ \A i \in 1..(n - 1 - 2 + 1) : v[i] = s[2 + i - 1]
      BY <3>1, SubSeqProperties
    <3> HIDE DEF u, v
    <3>4. Len(u) = n - 2 /\ Len(v) = n - 2
      <4>1. n \in Nat /\ 2 <= n
        BY <1>1, <2>1
      <4>2. CASE n = 2
        BY <3>2, <3>3, <4>2
      <4>3. CASE n > 2
        BY <3>2, <3>3, <4>1, <4>3
      <4>4. QED
        BY <4>1, <4>2, <4>3
    <3>5. ASSUME NEW i \in 1..(n - 2) PROVE u[i] = v[i]
      <4>1. u[i] = Tail(s)[i] /\ v[i] = s[i + 1] /\ Tail(s)[i] = s[i + 1]
        <5>1. /\ i \in 1..(n - 2 - 1 + 1) /\ i \in 1..(n - 1 - 2 + 1)
              /\ i \in 1..(n - 1) /\ 1 + i - 1 = i /\ 2 + i - 1 = i + 1
          BY <1>1
        <5>2. QED
          BY <1>1, <3>2, <3>3, <5>1
      <4>2. QED
        BY <4>1
    <3>6. QED
      BY <3>2, <3>3, <3>4, <3>5, SeqEqual DEF u, v
  <2>8. QED
    BY <1>1, <2>4, <2>5, <2>6, <2>7
<1>6. QED
  BY <1>4, <1>5

\* Nothing flies in a bin that holds only the EOS that drains it.
LEMMA FlightRemove ==
  ASSUME NEW s, Len(s) = 1, s[1] = DrainEos
  PROVE  InFlight(s) = <<>>
<1>1. InFlight(s) = SubSeq(s, 1, 0)
  BY DEF InFlight
<1>2. QED
  BY <1>1, SubSeqEmpty

-----------------------------------------------------------------------------
(* The items that arrived.                                                  *)

LEMMA ArrivedAppend ==
  ASSUME NEW d \in Seq(Arrival), NEW e \in Arrival
  PROVE  ItemsOf(Append(d, e)) = Append(ItemsOf(d), e.item)
<1> DEFINE f == Append(d, e)
           s == ItemsOf(f)
           t == Append(ItemsOf(d), e.item)
<1>1. /\ Len(d) \in Nat /\ DOMAIN d = 1..Len(d)
      /\ DOMAIN f = 1..(Len(d) + 1) /\ f[Len(d) + 1] = e
      /\ \A i \in 1..Len(d) : f[i] = d[i] /\ d[i] \in Arrival
  BY Queue, LenProperties
<1>2. \A i \in 1..(Len(d) + 1) : f[i] \in Arrival
  <2>1. ASSUME NEW i \in 1..(Len(d) + 1) PROVE f[i] \in Arrival
    <3>1. CASE i \in 1..Len(d)
      BY <1>1, <3>1
    <3>2. CASE i = Len(d) + 1
      BY <1>1, <3>2
    <3>3. QED
      BY <1>1, <3>1, <3>2
  <2>2. QED
    BY <2>1
<1>3. ItemsOf(d) \in Seq(Contents) /\ Len(ItemsOf(d)) = Len(d)
  <2>1. ItemsOf(d) = [i \in 1..Len(d) |-> d[i].item]
    BY <1>1 DEF ItemsOf
  <2>2. \A i \in 1..Len(d) : d[i].item \in Contents
    BY <1>1 DEF Arrival, Contents
  <2>3. QED
    BY <1>1, <2>1, <2>2
<1>4. s \in Seq(Contents) /\ Len(s) = Len(d) + 1
  <2>1. s = [i \in 1..(Len(d) + 1) |-> f[i].item]
    BY <1>1 DEF ItemsOf
  <2>2. \A i \in 1..(Len(d) + 1) : f[i].item \in Contents
    BY <1>2 DEF Arrival, Contents
  <2>3. Len(d) + 1 \in Nat
    BY <1>1
  <2>4. QED
    BY <2>1, <2>2, <2>3
<1>5. e.item \in Contents
  BY DEF Arrival, Contents
<1>6. /\ t \in Seq(Contents) /\ Len(t) = Len(d) + 1 /\ t[Len(d) + 1] = e.item
      /\ \A i \in 1..Len(d) : t[i] = ItemsOf(d)[i]
  BY <1>3, <1>5, Queue
<1>7. /\ \A i \in 1..(Len(d) + 1) : s[i] = f[i].item
      /\ \A i \in 1..Len(d) : ItemsOf(d)[i] = d[i].item
  BY <1>1 DEF ItemsOf
<1> HIDE DEF s, t, f
<1>8. ASSUME NEW i \in 1..(Len(d) + 1) PROVE s[i] = t[i]
  <2>1. CASE i \in 1..Len(d)
    BY <1>1, <1>6, <1>7, <2>1
  <2>2. CASE i = Len(d) + 1
    BY <1>1, <1>6, <1>7, <2>2
  <2>3. QED
    BY <1>1, <2>1, <2>2
<1>9. s = t
  BY <1>4, <1>6, <1>8, SeqEqual
<1>10. QED
  BY <1>9 DEF s, t, f

-----------------------------------------------------------------------------
(* The requests still owed.                                                 *)

LEMMA OwedFinite ==
  ASSUME NEW p \in Seq(Probe)
  PROVE  /\ IsFiniteSet({i \in DOMAIN p : p[i].cb = "add"})
         /\ AddsIn(p) \in Nat
<1>1. Len(p) \in Nat /\ DOMAIN p = 1..Len(p)
  BY LenProperties
<1>2. IsFiniteSet(1..Len(p))
  BY <1>1, FS_Interval
<1>3. IsFiniteSet({i \in DOMAIN p : p[i].cb = "add"})
  BY <1>1, <1>2, FS_Subset
<1>4. QED
  BY <1>3, FS_CardinalityType DEF AddsIn

LEMMA OwedAppend ==
  ASSUME NEW p \in Seq(Probe), NEW e \in Probe
  PROVE  AddsIn(Append(p, e)) = IF e.cb = "add" THEN AddsIn(p) + 1
                                ELSE AddsIn(p)
<1> DEFINE q == Append(p, e)
           A == {i \in DOMAIN p : p[i].cb = "add"}
           B == {i \in DOMAIN q : q[i].cb = "add"}
<1>1. /\ Len(p) \in Nat /\ DOMAIN p = 1..Len(p)
      /\ DOMAIN q = 1..(Len(p) + 1) /\ q[Len(p) + 1] = e
      /\ \A i \in 1..Len(p) : q[i] = p[i]
  BY Queue, LenProperties
<1> HIDE DEF q
<1>2. B = IF e.cb = "add" THEN A \cup {Len(p) + 1} ELSE A
  <2>1. \A i \in 1..(Len(p) + 1) : i \in 1..Len(p) \/ i = Len(p) + 1
    BY <1>1
  <2>2. \A i \in 1..Len(p) : i \in 1..(Len(p) + 1) /\ i # Len(p) + 1
    BY <1>1
  <2>3. Len(p) + 1 \in 1..(Len(p) + 1)
    BY <1>1
  <2>4. QED
    BY <1>1, <2>1, <2>2, <2>3
<1>3. Len(p) + 1 \notin A
  BY <1>1
<1>4. IsFiniteSet(A)
  BY OwedFinite
<1>5. Cardinality(B) = IF e.cb = "add" THEN Cardinality(A) + 1
                       ELSE Cardinality(A)
  BY <1>2, <1>3, <1>4, FS_AddElement
<1>6. QED
  BY <1>5 DEF AddsIn, q

LEMMA OwedTail ==
  ASSUME NEW p \in Seq(Probe), p # <<>>
  PROVE  /\ AddsIn(Tail(p)) = IF Head(p).cb = "add" THEN AddsIn(p) - 1
                              ELSE AddsIn(p)
         /\ Head(p).cb = "add" => AddsIn(p) > 0
<1> DEFINE q == Tail(p)
           A == {i \in DOMAIN p : p[i].cb = "add"}
           B == {i \in DOMAIN q : q[i].cb = "add"}
           f == [i \in A \ {1} |-> i - 1]
<1>1. /\ Len(p) \in Nat \ {0} /\ DOMAIN p = 1..Len(p)
      /\ DOMAIN q = 1..(Len(p) - 1) /\ Head(p) = p[1] /\ 1 \in 1..Len(p)
      /\ \A i \in 1..(Len(p) - 1) : q[i] = p[i + 1]
  BY Queue, EmptySeq, LenProperties
<1> HIDE DEF q
<1>2. f \in Bijection(A \ {1}, B)
  <2>1. ASSUME NEW i \in A \ {1}
        PROVE  i - 1 \in B /\ f[i] = i - 1 /\ i \in Int
    <3>1. i \in 1..Len(p) /\ i # 1 /\ p[i].cb = "add"
      BY <1>1
    <3>2. i - 1 \in 1..(Len(p) - 1) /\ (i - 1) + 1 = i
      BY <1>1, <3>1
    <3>3. QED
      BY <1>1, <3>1, <3>2
  <2>2. ASSUME NEW j \in B PROVE j + 1 \in A \ {1} /\ (j + 1) - 1 = j
    <3>1. j \in 1..(Len(p) - 1) /\ q[j].cb = "add"
      BY <1>1
    <3>2. j + 1 \in 1..Len(p) /\ j + 1 # 1 /\ (j + 1) - 1 = j
      BY <1>1, <3>1
    <3>3. QED
      BY <1>1, <3>1, <3>2
  <2>3. f \in [A \ {1} -> B]
    BY <2>1
  <2>4. \A i, j \in A \ {1} : f[i] = f[j] => i = j
    BY <2>1
  <2>5. \A j \in B : \E i \in A \ {1} : f[i] = j
    BY <2>1, <2>2
  <2>6. QED
    BY <2>3, <2>4, <2>5 DEF Bijection, Injection, Surjection, IsInjective
<1>3. IsFiniteSet(A) /\ Cardinality(A) \in Nat
  BY OwedFinite, FS_CardinalityType
<1>4. /\ IsFiniteSet(A \ {1})
      /\ Cardinality(A \ {1}) = IF 1 \in A THEN Cardinality(A) - 1
                                ELSE Cardinality(A)
  BY <1>3, FS_RemoveElement
<1>5. Cardinality(B) = Cardinality(A \ {1})
  BY <1>2, <1>4, FS_Bijection DEF ExistsBijection
<1>6. 1 \in A <=> Head(p).cb = "add"
  BY <1>1
<1>7. 1 \in A => Cardinality(A) > 0
  <2>1. 1 \in A => Cardinality(A) # 0
    BY <1>3, FS_EmptySet
  <2>2. QED
    BY <1>3, <2>1
<1>8. QED
  BY <1>4, <1>5, <1>6, <1>7 DEF AddsIn, q

-----------------------------------------------------------------------------
(* The steps.  Each of these lemmas names the step of the channel that the  *)
(* refinement mapping makes of a step of FpFilterControl.                   *)

LEMMA NoStep ==
  ASSUME pos' = pos, FlightOf(in_bin') = FlightOf(in_bin),
         delivered' = delivered, created' = created,
         AddsIn(probes') = AddsIn(probes)
  PROVE  [FC!ChannelNext]_(FC!channelVars)
BY MappingIs DEF FC!channelVars, AddsIn

LEMMA RequestStep ==
  ASSUME pos' = pos, in_bin' = in_bin, delivered' = delivered,
         AddsIn(probes') = AddsIn(probes) + 1,
         Cardinality(created') = Cardinality(created) + 1
  PROVE  FC!Request
BY MappingIs DEF FC!Request, AddsIn

LEMMA ServeStep ==
  ASSUME pos <= Eos, pos' \in {pos, pos + 1}, in_bin' = in_bin,
         delivered' = delivered, created' = created, AddsIn(probes) > 0,
         AddsIn(probes') = AddsIn(probes) - 1
  PROVE  FC!Serve
BY MappingIs DEF FC!Serve, AddsIn

LEMMA SendStep ==
  ASSUME pos <= Eos, pos' = pos + 1, probes' = probes, delivered' = delivered,
         created' = created,
         FlightOf(in_bin') = Append(FlightOf(in_bin), pos)
  PROVE  FC!Send
BY MappingIs DEF FC!Send

LEMMA SendThroughStep ==
  ASSUME pos <= Eos, pos' = pos + 1, probes' = probes, in_bin' = in_bin,
         created' = created,
         FlightOf(in_bin) = <<>>,
         ItemsOf(delivered') = Append(ItemsOf(delivered), pos)
  PROVE  FC!SendThrough
BY MappingIs DEF FC!SendThrough, ItemsOf

LEMMA ArriveStep ==
  ASSUME pos' = pos, probes' = probes, created' = created,
         FlightOf(in_bin) # <<>>,
         ItemsOf(delivered')
           = Append(ItemsOf(delivered), Head(FlightOf(in_bin))),
         FlightOf(in_bin') = Tail(FlightOf(in_bin))
  PROVE  FC!Arrive
BY MappingIs DEF FC!Arrive, ItemsOf

-----------------------------------------------------------------------------
(* The streaming threads.                                                   *)

LEMMA Typed ==
  ASSUME IInv
  PROVE  /\ probes \in Seq(Probe) /\ delivered \in Seq(Arrival)
         /\ in_bin \in [Bins -> Seq(Contents)]
         /\ \A b \in Bins : in_bin[b] \in Seq(Contents)
BY DEF IInv, TypeOK, LinkTypeOK, Arrival, Contents

LEMMA AddServes ==
  ASSUME IInv, AddElemProbe, created' = created
  PROVE  FC!Serve
<1>1. /\ ~StreamOver /\ pos' \in {pos, pos + 1}
      /\ UNCHANGED <<in_bin, delivered>>
      /\ probes \in Seq(Probe) /\ probes # <<>>
      /\ Head(probes).cb = "add" /\ probes' = Tail(probes)
  BY AddMove
<1>2. AddsIn(probes) > 0 /\ AddsIn(probes') = AddsIn(probes) - 1
  BY <1>1, OwedTail
<1>3. pos <= Eos
  BY <1>1, ItemTypes DEF StreamOver
<1>4. QED
  BY <1>1, <1>2, <1>3, ServeStep

LEMMA PadStutters ==
  ASSUME IInv, OrderInv, PadProbe, created' = created
  PROVE  [FC!ChannelNext]_(FC!channelVars)
<1>1. /\ streaming = "pushing" /\ pos' = pos /\ delivered' = delivered
      /\ probes \in Seq(Probe) /\ probes # <<>>
      /\ Head(probes).cb = "remove" /\ probes' = Tail(probes)
  BY PadMove
<1>2. PICK b \in Bins :
        OnlyBin(b) /\ in_bin' = [in_bin EXCEPT ![b] = Append(@, DrainEos)]
  BY PadMove
<1> DEFINE s == in_bin[b]
<1>3. /\ s \in Seq(Contents) /\ in_bin'[b] = Append(s, DrainEos)
      /\ \A c \in Bins \ {b} : in_bin[c] = <<>> /\ in_bin'[c] = <<>>
  BY <1>2, Typed DEF OnlyBin
<1>4. \A i \in DOMAIN s : s[i] # DrainEos
  BY <1>1 DEF OrderInv, InOrder
<1> HIDE DEF s
<1>5. FlightOf(in_bin') = s
  BY <1>3, <1>4, FlightOfBin, FlightDrain
<1>6. FlightOf(in_bin) = s
  <2>1. FlightOf(in_bin) = IF s = <<>> THEN <<>> ELSE InFlight(s)
    BY <1>3, FlightOfBin DEF s
  <2>2. QED
    BY <1>3, <1>4, <2>1, FlightDrain
<1>7. AddsIn(probes') = AddsIn(probes)
  BY <1>1, OwedTail
<1>8. QED
  BY <1>1, <1>5, <1>6, <1>7, NoStep

LEMMA PassSends ==
  ASSUME IInv, OrderInv, PassItem, created' = created
  PROVE  FC!Send \/ FC!SendThrough
<1>1. /\ streaming = "pushing" /\ pos <= Eos /\ pos' = pos + 1
      /\ probes' = probes /\ pos \in Items /\ pos # DrainEos
  BY PassMove, ItemTypes DEF StreamOver, Items
<1>2. CASE /\ NoBinHolds /\ UNCHANGED in_bin
           /\ delivered' = Append(delivered, [item |-> pos, via |-> NoBin])
  <2>1. FlightOf(in_bin) = <<>>
    BY <1>2 DEF NoBinHolds, FlightOf
  <2>2. [item |-> pos, via |-> NoBin] \in Arrival
    BY <1>1 DEF Arrival
  <2>3. ItemsOf(delivered') = Append(ItemsOf(delivered), pos)
    BY <1>2, <2>2, ArrivedAppend, Typed
  <2>4. QED
    BY <1>1, <1>2, <2>1, <2>3, SendThroughStep
<1>3. ASSUME NEW b \in Bins, OnlyBin(b), UNCHANGED delivered,
             in_bin' = [in_bin EXCEPT ![b] = Append(@, pos)]
      PROVE  FC!Send
  <2> DEFINE s == in_bin[b]
  <2>1. /\ s \in Seq(Contents) /\ in_bin'[b] = Append(s, pos)
        /\ \A c \in Bins \ {b} : in_bin[c] = <<>> /\ in_bin'[c] = <<>>
    BY <1>3, Typed DEF OnlyBin
  <2>2. \A i \in DOMAIN s : s[i] # DrainEos
    BY <1>1 DEF OrderInv, InOrder
  <2> HIDE DEF s
  <2>3. FlightOf(in_bin) = s
    <3>1. FlightOf(in_bin) = IF s = <<>> THEN <<>> ELSE InFlight(s)
      BY <2>1, FlightOfBin DEF s
    <3>2. QED
      BY <1>1, <2>1, <2>2, <3>1, FlightSend
  <2>4. FlightOf(in_bin') = Append(s, pos)
    <3>1. pos \in Contents
      BY <1>1 DEF Contents
    <3>2. Append(s, pos) # <<>>
      BY <2>1, <3>1, AppendProperties
    <3>3. FlightOf(in_bin') = InFlight(Append(s, pos))
      BY <2>1, <3>2, FlightOfBin
    <3>4. QED
      BY <1>1, <2>1, <2>2, <3>3, FlightSend
  <2>5. QED
    BY <1>1, <1>3, <2>3, <2>4, SendStep
<1>4. QED
  BY <1>2, <1>3, PassMove

LEMMA OutputArrives ==
  ASSUME IInv, OrderInv, NEW b \in Bins, BinOutput(b), created' = created
  PROVE  FC!Arrive
<1> DEFINE s == in_bin[b]
           h == Head(in_bin[b])
<1>1. /\ OnlyBin(b) /\ s # <<>> /\ h # DrainEos /\ h = Head(s)
      /\ in_bin' = [in_bin EXCEPT ![b] = Tail(@)]
      /\ delivered' = Append(delivered, [item |-> h, via |-> b])
      /\ pos' = pos /\ probes' = probes
  BY OutputMove
<1>2. /\ s \in Seq(Contents) /\ in_bin'[b] = Tail(s)
      /\ \A c \in Bins \ {b} : in_bin[c] = <<>> /\ in_bin'[c] = <<>>
  BY <1>1, Typed DEF OnlyBin
<1>3. h \in Contents
  BY <1>1, <1>2, Queue
<1>4. FlightOf(in_bin) = InFlight(s)
  BY <1>1, <1>2, FlightOfBin
<1>5. FlightOf(in_bin') = IF Tail(s) = <<>> THEN <<>> ELSE InFlight(Tail(s))
  BY <1>2, FlightOfBin
<1> HIDE DEF s, h
<1>6. /\ FlightOf(in_bin) # <<>> /\ Head(FlightOf(in_bin)) = h
      /\ FlightOf(in_bin') = Tail(FlightOf(in_bin))
  BY <1>1, <1>2, <1>4, <1>5, FlightArrive
<1>7. ItemsOf(delivered') = Append(ItemsOf(delivered), h)
  <2>1. [item |-> h, via |-> b] \in Arrival
    BY <1>3 DEF Arrival, Contents
  <2>2. QED
    BY <1>1, <2>1, ArrivedAppend, Typed
<1>8. QED
  BY <1>1, <1>6, <1>7, ArriveStep

LEMMA RemoveStutters ==
  ASSUME IInv, OrderInv, NEW b \in Bins, RemoveElemProbe(b),
         created' = created
  PROVE  [FC!ChannelNext]_(FC!channelVars)
<1>1. /\ OnlyBin(b) /\ Len(in_bin[b]) = 1 /\ in_bin[b][1] = DrainEos
      /\ in_bin' = [in_bin EXCEPT ![b] = <<>>]
      /\ pos' = pos /\ delivered' = delivered /\ probes' = probes
  BY RemoveMove
<1>2. /\ in_bin'[b] = <<>>
      /\ \A c \in Bins \ {b} : in_bin[c] = <<>> /\ in_bin'[c] = <<>>
  BY <1>1, Typed DEF OnlyBin
<1>3. FlightOf(in_bin) = <<>>
  BY <1>1, <1>2, FlightOfBin, FlightRemove
<1>4. FlightOf(in_bin') = <<>>
  BY <1>2, FlightOfBin
<1>5. QED
  BY <1>1, <1>3, <1>4, NoStep

-----------------------------------------------------------------------------
(* The requests.                                                            *)

LEMMA EnableRequests ==
  ASSUME IInv, IsFiniteSet(created), NEW b \in Bins, EnableFpfilter(b)
  PROVE  FC!Request
<1>1. /\ UNCHANGED <<pos, in_bin, delivered>>
      /\ probes' = Append(probes, [cb |-> "add", elem |-> b])
  BY DEF EnableFpfilter, AddElementToPipeline
<1>2. [cb |-> "add", elem |-> b] \in Probe
  BY DEF Probe
<1>3. AddsIn(probes') = AddsIn(probes) + 1
  BY <1>1, <1>2, OwedAppend, Typed
<1>4. Cardinality(created') = Cardinality(created) + 1
  <2>1. created' = created \cup {b} /\ b \notin created
    BY DEF EnableFpfilter, CreateFilterElementsBin
  <2>2. QED
    BY <2>1, FS_AddElement
<1>5. QED
  BY <1>1, <1>3, <1>4, RequestStep

LEMMA DisableStutters ==
  ASSUME IInv, DisableFpfilter
  PROVE  [FC!ChannelNext]_(FC!channelVars)
<1>1. /\ UNCHANGED <<pos, in_bin, delivered, created>> /\ is_fpfilter_enabled
      /\ probes' = Append(probes, [cb |-> "remove", elem |-> main_element])
  BY DEF DisableFpfilter, RemoveElementFromPipeline
<1>2. main_element \in Bins
  BY <1>1, FlagIsMainElement DEF IInv, TypeOK, LinkTypeOK
<1>3. [cb |-> "remove", elem |-> main_element] \in Probe
  BY <1>2 DEF Probe
<1>4. AddsIn(probes') = AddsIn(probes)
  BY <1>1, <1>3, OwedAppend, Typed
<1>5. QED
  BY <1>1, <1>4, NoStep

\* Bins are made one by one.
LEMMA CreatedFinite ==
  ASSUME IsFiniteSet(created), [Next]_vars
  PROVE  IsFiniteSet(created')
<1>1. CASE created' = created
  BY <1>1
<1>2. ASSUME NEW b \in Bins, EnableFpfilter(b) PROVE IsFiniteSet(created')
  BY <1>2, FS_AddElement DEF EnableFpfilter, CreateFilterElementsBin
<1>3. QED
  BY <1>1, <1>2
     DEF Next, PromptServer, DisableFpfilter, MainLoop, SaveStep, Detector,
         BinThread, QueueFrame, vars, filterVars

LEMMA StepIsChannelStep ==
  ASSUME IInv, OrderInv, IsFiniteSet(created), [Next]_vars
  PROVE  [FC!ChannelNext]_(FC!channelVars)
<1>1. CASE Detector
  BY <1>1, AddServes, PadStutters, PassSends
     DEF Detector, filterVars, FC!ChannelNext
<1>2. ASSUME NEW b \in Bins, BinOutput(b) \/ RemoveElemProbe(b),
             UNCHANGED filterVars
      PROVE  [FC!ChannelNext]_(FC!channelVars)
  BY <1>2, OutputArrives, RemoveStutters DEF filterVars, FC!ChannelNext
<1>3. ASSUME NEW b \in Bins, EnableFpfilter(b)
      PROVE  [FC!ChannelNext]_(FC!channelVars)
  BY <1>3, EnableRequests DEF FC!ChannelNext
<1>4. CASE DisableFpfilter
  BY <1>4, DisableStutters
<1>5. CASE UNCHANGED <<pos, in_bin, delivered, probes, created>>
  BY <1>5, NoStep
<1>6. QED
  BY <1>1, <1>2, <1>3, <1>4, <1>5
     DEF Next, PromptServer, MainLoop, SaveStep, BinThread, QueueFrame, vars,
         linkVars, filterVars

LEMMA StartIsChannelStart == Init => FC!ChannelInit /\ IsFiniteSet(created)
<1> SUFFICES ASSUME Init PROVE FC!ChannelInit /\ IsFiniteSet(created)
  OBVIOUS
<1>1. pos = 1 /\ probes = <<>> /\ delivered = <<>>
  BY DEF Init
<1>2. \A b \in Bins : in_bin[b] = <<>>
  BY DEF Init
<1>3. FlightOf(in_bin) = <<>>
  BY <1>2 DEF FlightOf
<1>4. ItemsOf(delivered) = <<>>
  BY <1>1 DEF ItemsOf
<1>5. AddsIn(probes) = 0
  <2>1. {i \in DOMAIN probes : probes[i].cb = "add"} = {}
    BY <1>1
  <2>2. QED
    BY <2>1, FS_EmptySet DEF AddsIn
<1>6. IsFiniteSet(created) /\ Cardinality(created) = 0
  BY FS_EmptySet DEF Init
<1>7. QED
  BY <1>1, <1>3, <1>4, <1>5, <1>6, MappingIs
     DEF FC!ChannelInit, ItemsOf, AddsIn

\* What FpFilterControl keeps so that its steps are those of a channel.
ChannelKept == IInv /\ OrderInv /\ IsFiniteSet(created)

\* Whatever is requested of the filter, and whenever, the stream sees a channel:
\* items keep their order, none is repeated, and one item at most is lost for
\* each request to enable the filter.
THEOREM ImplementsChannel == Spec => IsFrameChannel
<1>1. ChannelKept /\ [Next]_vars => [FC!ChannelNext]_(FC!channelVars)
  BY StepIsChannelStep DEF ChannelKept
<1>2. Init => ChannelKept
  BY InvStart, OrderStart, StartIsChannelStart DEF ChannelKept
<1>3. ChannelKept /\ [Next]_vars => ChannelKept'
  BY InvNext, OrderNext, CreatedFinite DEF ChannelKept
<1>4. QED
  BY <1>1, <1>2, <1>3, StartIsChannelStart, PTL
     DEF Spec, IsFrameChannel, FC!Channel

\* The channel as its proofs speak of it.
FCP == INSTANCE FrameChannelProofs WITH
         Last    <- Eos,
         next    <- pos,
         flight  <- Flight,
         arrived <- [i \in DOMAIN delivered |-> delivered[i].item],
         owed    <- Cardinality({i \in DOMAIN probes : probes[i].cb = "add"}),
         asked   <- Cardinality(created)

LEMMA ChannelIsProved == FC!Channel => []FC!FewLost
<1>1. FC!ChannelInit => FCP!ChannelInit
  BY DEF FC!ChannelInit, FCP!ChannelInit
<1>2. [FC!ChannelNext]_(FC!channelVars) => [FCP!ChannelNext]_(FCP!channelVars)
  BY DEF FC!ChannelNext, FCP!ChannelNext, FC!channelVars, FCP!channelVars,
         FC!Request, FCP!Request, FC!Send, FCP!Send, FC!SendThrough,
         FCP!SendThrough, FC!Serve, FCP!Serve, FC!Arrive, FCP!Arrive
<1>3. FCP!FewLost => FC!FewLost
  <2>1. \A S : FCP!Cardinality(S) = FC!Cardinality(S)
    BY Zenon DEF FCP!Cardinality, FC!Cardinality
  <2>2. FCP!Lost = FC!Lost
    BY DEF FCP!Lost, FC!Lost, FCP!Range, FC!Range
  <2>3. QED
    BY <2>1, <2>2 DEF FCP!FewLost, FC!FewLost
<1>4. FCP!Channel => []FCP!FewLost
  BY FCP!ChannelLosesFew
<1>5. QED
  BY <1>1, <1>2, <1>3, <1>4, PTL DEF FC!Channel, FCP!Channel

\* Of what the detector has pushed, all has arrived at nvvidconv2 or is in the
\* bin, but for one item at most for each request to enable the filter.
THEOREM LosesFew == Spec => []FewItemsLost
BY ImplementsChannel, ChannelIsProved, PTL DEF IsFrameChannel, FewItemsLost
=============================================================================
