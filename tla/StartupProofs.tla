--------------------------- MODULE StartupProofs ---------------------------
(***************************************************************************)
(* What main leaves running is whole, whatever the build, the two files of *)
(* the configuration and the elements that cannot be made, however many.   *)
(*                                                                         *)
(* The first part says what the lists that end with NULL do: which links   *)
(* and children come of them.  The second shows that every step of main    *)
(* keeps IInv, and the third what follows for a pipeline that plays.       *)
(***************************************************************************)
EXTENDS Startup, QueueLemmas, WellFoundedInduction

BinNames == {"source_bin", "sink_bin", "fp-filter-bin"}

-----------------------------------------------------------------------------
(* Lists that end with NULL.                                                *)

LEMMA Smallest ==
  ASSUME NEW T, T \subseteq Nat, T # {}
  PROVE  \E x \in T : \A y \in T : x <= y
<1> DEFINE R == OpToRel(<, Nat)
<1>1. \A x, y \in Nat : <<x, y>> \in R <=> x < y
  BY DEF OpToRel
<1>2. IsWellFoundedOn(R, Nat)
  BY NatLessThanWellFounded
<1> HIDE DEF R
<1>3. PICK x \in T : \A y \in T : <<y, x>> \notin R
  BY <1>2, WFMin
<1>4. \A y \in T : ~(y < x)
  BY <1>1, <1>3
<1>5. QED
  BY <1>3, <1>4

\* A list is taken up to the first NULL in it.
LEMMA GivenIs ==
  ASSUME NEW S, NEW es \in Seq(S)
  PROVE  \E n \in 0..Len(es) :
           /\ Len(Given(es)) = n /\ DOMAIN Given(es) = 1..n
           /\ \A i \in 1..n : Given(es)[i] = es[i] /\ ~IsNull(es[i])
           /\ n < Len(es) => IsNull(es[n + 1])
<1> DEFINE nulls == {i \in DOMAIN es : IsNull(es[i])}
<1>1. /\ Len(es) \in Nat /\ DOMAIN es = 1..Len(es)
      /\ \A i \in 1..Len(es) : es[i] \in S
  BY Queue, LenProperties
<1>2. CASE nulls = {}
  <2>1. Given(es) = es
    BY <1>2 DEF Given
  <2>2. \A i \in 1..Len(es) : ~IsNull(es[i])
    BY <1>1, <1>2
  <2>3. Len(es) \in 0..Len(es) /\ ~(Len(es) < Len(es))
    BY <1>1
  <2> HIDE DEF nulls
  <2>4. QED
    BY <1>1, <2>1, <2>2, <2>3
<1>3. CASE nulls # {}
  <2> DEFINE m == CHOOSE i \in nulls : \A j \in nulls : i <= j
  <2>0. nulls \subseteq Nat
    BY <1>1
  <2>1. m \in nulls /\ \A j \in nulls : m <= j
    <3> HIDE DEF nulls
    <3>1. \E i \in nulls : \A j \in nulls : i <= j
      BY <1>3, <2>0, Smallest
    <3>2. QED
      BY <3>1
  <2>2. Given(es) = SubSeq(es, 1, m - 1)
    BY <1>3 DEF Given
  <2>3. m \in 1..Len(es) /\ IsNull(es[m])
    BY <1>1, <2>1
  <2>4. \A i \in 1..Len(es) : IsNull(es[i]) => m <= i
    BY <1>1, <2>1
  <2> HIDE DEF m, nulls
  <2>5. ASSUME NEW i \in 1..(m - 1) PROVE ~IsNull(es[i]) /\ es[i] \in S
    <3>1. i \in 1..Len(es) /\ ~(m <= i)
      BY <1>1, <2>3
    <3>2. QED
      BY <1>1, <2>4, <3>1
  <2>6. /\ Len(SubSeq(es, 1, m - 1)) = m - 1
        /\ DOMAIN SubSeq(es, 1, m - 1) = 1..(m - 1)
        /\ \A i \in 1..(m - 1) : SubSeq(es, 1, m - 1)[i] = es[i]
    <3>1. m - 1 \in Int /\ 1 \in Int /\ m \in Nat /\ 1 <= m
      BY <1>1, <2>3
    <3>2. /\ SubSeq(es, 1, m - 1) \in Seq(S)
          /\ Len(SubSeq(es, 1, m - 1)) = IF 1 <= m - 1 THEN m - 1 - 1 + 1 ELSE 0
          /\ \A i \in 1..(m - 1 - 1 + 1) :
               SubSeq(es, 1, m - 1)[i] = es[1 + i - 1]
      BY <2>5, <3>1, SubSeqProperties
    <3>3. Len(SubSeq(es, 1, m - 1)) = m - 1
      BY <3>1, <3>2
    <3>4. \A i \in 1..(m - 1) : i \in 1..(m - 1 - 1 + 1) /\ 1 + i - 1 = i
      BY <3>1
    <3>5. QED
      BY <3>2, <3>3, <3>4, LenProperties
  <2>7. m - 1 \in 0..Len(es) /\ (m - 1) + 1 = m
    BY <1>1, <2>3
  <2>8. QED
    BY <2>2, <2>3, <2>5, <2>6, <2>7
<1>4. QED
  BY <1>2, <1>3

\* Elements are linked, and added, if no NULL is in front of them.
LEMMA LinkManyIs ==
  ASSUME NEW S, NEW es \in Seq(S), NEW l
  PROVE  l \in LinkMany(es) <=>
           \E i \in 1..(Len(es) - 1) :
             /\ \A k \in 1..(i + 1) : ~IsNull(es[k])
             /\ l = <<SrcEnd(es[i]), SinkEnd(es[i + 1])>>
<1>1. PICK n \in 0..Len(es) :
        /\ Len(Given(es)) = n /\ DOMAIN Given(es) = 1..n
        /\ \A i \in 1..n : Given(es)[i] = es[i] /\ ~IsNull(es[i])
        /\ n < Len(es) => IsNull(es[n + 1])
  BY GivenIs
<1>2. Len(es) \in Nat
  BY LenProperties
<1>3. l \in LinkMany(es) <=>
        \E i \in 1..(n - 1) : l = <<SrcEnd(es[i]), SinkEnd(es[i + 1])>>
  <2>1. l \in LinkMany(es) <=>
          \E i \in 1..(n - 1) :
            l = <<SrcEnd(Given(es)[i]), SinkEnd(Given(es)[i + 1])>>
    BY <1>1 DEF LinkMany
  <2>2. \A i \in 1..(n - 1) :
          Given(es)[i] = es[i] /\ Given(es)[i + 1] = es[i + 1]
    BY <1>1, <1>2
  <2>3. QED
    BY <2>1, <2>2
<1>4. ASSUME NEW i \in 1..(Len(es) - 1)
      PROVE  i \in 1..(n - 1) <=> \A k \in 1..(i + 1) : ~IsNull(es[k])
  <2>1. CASE i \in 1..(n - 1)
    <3>1. \A k \in 1..(i + 1) : k \in 1..n
      BY <1>2, <2>1
    <3>2. QED
      BY <1>1, <2>1, <3>1
  <2>2. CASE i \notin 1..(n - 1)
    <3>1. n + 1 \in 1..(i + 1) /\ n < Len(es)
      BY <1>2, <2>2
    <3>2. QED
      BY <1>1, <2>2, <3>1
  <2>3. QED
    BY <2>1, <2>2
<1>5. 1..(n - 1) \subseteq 1..(Len(es) - 1)
  BY <1>2
<1>6. QED
  BY <1>3, <1>4, <1>5

LEMMA AddManyIs ==
  ASSUME NEW S, NEW es \in Seq(S), NEW bin, NEW c
  PROVE  c \in AddMany(bin, es) <=>
           \E i \in 1..Len(es) :
             (\A k \in 1..i : ~IsNull(es[k])) /\ c = <<bin, es[i]>>
<1>1. PICK n \in 0..Len(es) :
        /\ Len(Given(es)) = n /\ DOMAIN Given(es) = 1..n
        /\ \A i \in 1..n : Given(es)[i] = es[i] /\ ~IsNull(es[i])
        /\ n < Len(es) => IsNull(es[n + 1])
  BY GivenIs
<1>2. Len(es) \in Nat
  BY LenProperties
<1>3. \A e : e \in Range(Given(es)) <=> \E i \in 1..n : e = es[i]
  BY <1>1 DEF Range
<1>4. c \in AddMany(bin, es) <=> \E i \in 1..n : c = <<bin, es[i]>>
  BY <1>3 DEF AddMany
<1>5. ASSUME NEW i \in 1..Len(es)
      PROVE  i \in 1..n <=> \A k \in 1..i : ~IsNull(es[k])
  <2>1. CASE i \in 1..n
    <3>1. \A k \in 1..i : k \in 1..n
      BY <1>2, <2>1
    <3>2. QED
      BY <1>1, <2>1, <3>1
  <2>2. CASE i \notin 1..n
    <3>1. n + 1 \in 1..i /\ n < Len(es)
      BY <1>2, <2>2
    <3>2. QED
      BY <1>1, <2>2, <3>1
  <2>3. QED
    BY <2>1, <2>2
<1>6. 1..n \subseteq 1..Len(es)
  BY <1>2
<1>7. QED
  BY <1>4, <1>5, <1>6

-----------------------------------------------------------------------------
(* The bins of the builds.                                                  *)

\* A bin whose elements are all there is linked in a row.
LEMMA AllGiven ==
  ASSUME NEW S, NEW es \in Seq(S), NEW name,
         \A e \in Range(es) : ~IsNull(e) /\ e \notin BinNames
  PROVE  /\ \A e \in Range(es) : <<name, e>> \in AddMany(name, es)
         /\ \A i \in 1..(Len(es) - 1) : <<es[i], es[i + 1]>> \in LinkMany(es)
<1>1. /\ Len(es) \in Nat /\ DOMAIN es = 1..Len(es)
      /\ \A i \in 1..Len(es) : ~IsNull(es[i]) /\ es[i] \notin BinNames
  BY LenProperties DEF Range
<1>2. ASSUME NEW i \in 1..Len(es)
      PROVE  SrcEnd(es[i]) = es[i] /\ SinkEnd(es[i]) = es[i]
  <2>1. Parts(es[i]) = <<es[i]>>
    BY <1>1 DEF Parts, BinNames
  <2>2. QED
    BY <2>1 DEF SrcEnd, SinkEnd
<1>3. ASSUME NEW i \in 1..Len(es) PROVE <<name, es[i]>> \in AddMany(name, es)
  <2>1. \A k \in 1..i : k \in 1..Len(es)
    BY <1>1
  <2>2. QED
    BY <1>1, <2>1, AddManyIs
<1>4. ASSUME NEW i \in 1..(Len(es) - 1)
      PROVE  <<es[i], es[i + 1]>> \in LinkMany(es)
  <2>1. i \in 1..Len(es) /\ i + 1 \in 1..Len(es)
    BY <1>1
  <2>2. \A k \in 1..(i + 1) : k \in 1..Len(es)
    BY <1>1
  <2>3. <<es[i], es[i + 1]>> = <<SrcEnd(es[i]), SinkEnd(es[i + 1])>>
    BY <1>2, <2>1
  <2>4. QED
    BY <1>1, <2>2, <2>3, LinkManyIs
<1>5. QED
  BY <1>1, <1>3, <1>4 DEF Range

\* Where a list of elements that are no bins makes links from.
LEMMA LinksFrom ==
  ASSUME NEW S, NEW es \in Seq(S), NEW l \in LinkMany(es),
         \A i \in 1..(Len(es) - 1) : es[i] \notin BinNames
  PROVE  \E i \in 1..(Len(es) - 1) : l[1] = es[i]
<1>1. PICK i \in 1..(Len(es) - 1) : l = <<SrcEnd(es[i]), SinkEnd(es[i + 1])>>
  BY LinkManyIs
<1>2. Parts(es[i]) = <<es[i]>>
  BY <1>1 DEF Parts, BinNames
<1>3. SrcEnd(es[i]) = es[i]
  BY <1>2 DEF SrcEnd
<1>4. QED
  BY <1>1, <1>3

LEMMA SourceCases ==
  ASSUME src \in DOMAIN Sources
  PROVE  \/ src = "MP4_SRC" /\ Sources[src] = Mp4Source
         \/ src = "H264_ELEMENTARY_SRC" /\ Sources[src] = H264Source
         \/ src = "MULTI_FILE_SRC" /\ Sources[src] = MultiFileSource
BY DEF Sources

LEMMA SinkCases ==
  ASSUME snk \in DOMAIN Sinks
  PROVE  \/ snk = "VIDEO_RENDER_SINK" /\ Sinks[snk] = RenderSink
         \/ snk = "PLATFORM_TEGRA" /\ Sinks[snk] = TegraSink
         \/ snk = "FILE_SINK" /\ Sinks[snk] = FileSink
BY DEF Sinks

\* The elements of each bin.
LEMMA BinLists ==
  /\ Mp4Source.elements = <<"filesrc", "qtdemux", "h264parse", "decoder">>
  /\ H264Source.elements = <<"filesrc", "h264parse", "decoder">>
  /\ MultiFileSource.elements = <<"multifilesrc", "jpegparse", "decoder">>
  /\ RenderSink.elements = <<"eglglessink">>
  /\ TegraSink.elements = <<"egltransform", "eglglessink">>
  /\ FileSink.elements
       = <<"capsfilter", "h264enc", "h264parse_sink", "qtmux", "filesink">>
  /\ FilterBin.elements = <<"nvtracker", "nvinfer2", "nvfpfilter">>
<1>1. \A es : Row(es).elements = es
  BY Zenon DEF Row, Bin
<1>2. Mp4Source.elements = <<"filesrc", "qtdemux", "h264parse", "decoder">>
  BY Zenon DEF Mp4Source, Bin
<1>3. QED
  BY <1>1, <1>2 DEF H264Source, MultiFileSource, RenderSink, TegraSink, FileSink,
     FilterBin

\* The elements of the bins, by name.
LEMMA BinElements ==
  /\ Range(<<"filesrc", "qtdemux", "h264parse", "decoder">>)
       = {"filesrc", "qtdemux", "h264parse", "decoder"}
  /\ Range(<<"filesrc", "h264parse", "decoder">>)
       = {"filesrc", "h264parse", "decoder"}
  /\ Range(<<"multifilesrc", "jpegparse", "decoder">>)
       = {"multifilesrc", "jpegparse", "decoder"}
  /\ Range(<<"eglglessink">>) = {"eglglessink"}
  /\ Range(<<"egltransform", "eglglessink">>) = {"egltransform", "eglglessink"}
  /\ Range(<<"capsfilter", "h264enc", "h264parse_sink", "qtmux", "filesink">>)
       = {"capsfilter", "h264enc", "h264parse_sink", "qtmux", "filesink"}
  /\ Range(<<"nvtracker", "nvinfer2", "nvfpfilter">>)
       = {"nvtracker", "nvinfer2", "nvfpfilter"}
<1>1. Range(<<"filesrc", "qtdemux", "h264parse", "decoder">>)
        = {"filesrc", "qtdemux", "h264parse", "decoder"}
  BY DEF Range
<1>2. Range(<<"filesrc", "h264parse", "decoder">>)
        = {"filesrc", "h264parse", "decoder"}
  BY DEF Range
<1>3. Range(<<"multifilesrc", "jpegparse", "decoder">>)
        = {"multifilesrc", "jpegparse", "decoder"}
  BY DEF Range
<1>4. Range(<<"eglglessink">>) = {"eglglessink"}
  BY DEF Range
<1>5. Range(<<"egltransform", "eglglessink">>) = {"egltransform", "eglglessink"}
  BY DEF Range
<1>6. Range(<<"capsfilter", "h264enc", "h264parse_sink", "qtmux", "filesink">>)
        = {"capsfilter", "h264enc", "h264parse_sink", "qtmux", "filesink"}
  BY DEF Range
<1>7. Range(<<"nvtracker", "nvinfer2", "nvfpfilter">>)
        = {"nvtracker", "nvinfer2", "nvfpfilter"}
  BY DEF Range
<1>8. QED
  BY <1>1, <1>2, <1>3, <1>4, <1>5, <1>6, <1>7

\* Of an element in the middle of main's own chain, or of the demuxer, no bin
\* makes a link to another element when it is made.
OwnPads == {"qtdemux", "nvvidconv1", "nvfpfilter"}

\* The elements of the bins.
Names ==
  {"filesrc", "qtdemux", "h264parse", "decoder", "multifilesrc", "jpegparse",
   "eglglessink", "egltransform", "capsfilter", "h264enc", "h264parse_sink",
   "qtmux", "filesink", "nvtracker", "nvinfer2", "nvfpfilter"}

LEMMA ChainLinks ==
  ASSUME NEW es \in {<<"filesrc", "qtdemux">>, <<"h264parse", "decoder">>,
                     <<"filesrc", "h264parse", "decoder">>,
                     <<"multifilesrc", "jpegparse", "decoder">>,
                     <<"eglglessink">>, <<"egltransform", "eglglessink">>,
                     <<"capsfilter", "h264enc", "h264parse_sink", "qtmux",
                       "filesink">>,
                     <<"nvtracker", "nvinfer2", "nvfpfilter">>},
         NEW l \in LinkMany(es)
  PROVE  l[1] \notin OwnPads
<1>1. /\ es \in Seq(Names)
      /\ \A i \in 1..(Len(es) - 1) : es[i] \notin BinNames \cup OwnPads
  <2>1. CASE es = <<"filesrc", "qtdemux">>
    <3>1. es \in Seq(Names)
      BY <2>1 DEF Names
    <3>2. QED
      BY <2>1, <3>1 DEF BinNames, OwnPads
  <2>2. CASE es = <<"h264parse", "decoder">>
    <3>1. es \in Seq(Names)
      BY <2>2 DEF Names
    <3>2. QED
      BY <2>2, <3>1 DEF BinNames, OwnPads
  <2>3. CASE es = <<"filesrc", "h264parse", "decoder">>
    <3>1. es \in Seq(Names)
      BY <2>3 DEF Names
    <3>2. QED
      BY <2>3, <3>1 DEF BinNames, OwnPads
  <2>4. CASE es = <<"multifilesrc", "jpegparse", "decoder">>
    <3>1. es \in Seq(Names)
      BY <2>4 DEF Names
    <3>2. QED
      BY <2>4, <3>1 DEF BinNames, OwnPads
  <2>5. CASE es = <<"eglglessink">>
    <3>1. es \in Seq(Names)
      BY <2>5 DEF Names
    <3>2. QED
      BY <2>5, <3>1 DEF BinNames, OwnPads
  <2>6. CASE es = <<"egltransform", "eglglessink">>
    <3>1. es \in Seq(Names)
      BY <2>6 DEF Names
    <3>2. QED
      BY <2>6, <3>1 DEF BinNames, OwnPads
  <2>7. CASE es = <<"capsfilter", "h264enc", "h264parse_sink", "qtmux",
                   "filesink">>
    <3>1. es \in Seq(Names)
      BY <2>7 DEF Names
    <3>2. QED
      BY <2>7, <3>1 DEF BinNames, OwnPads
  <2>8. CASE es = <<"nvtracker", "nvinfer2", "nvfpfilter">>
    <3>1. es \in Seq(Names)
      BY <2>8 DEF Names
    <3>2. QED
      BY <2>8, <3>1 DEF BinNames, OwnPads
  <2>9. QED
    BY <2>1, <2>2, <2>3, <2>4, <2>5, <2>6, <2>7, <2>8
<1>2. QED
  BY <1>1, LinksFrom

LEMMA Plain ==
  ASSUME NEW e, e \notin BinNames
  PROVE  Parts(e) = <<e>> /\ SrcEnd(e) = e /\ SinkEnd(e) = e
<1>1. Parts(e) = <<e>>
  BY DEF Parts, BinNames
<1>2. QED
  BY <1>1 DEF SrcEnd, SinkEnd

\* A list of elements of which none is missing.
LEMMA NoneMissing ==
  ASSUME null \subseteq BinNames, NEW name,
         NEW es \in Seq(Names), Range(es) \cap missing = {}
  PROVE  /\ \A e \in Range(es) : <<name, e>> \in AddMany(name, es)
         /\ \A i \in 1..(Len(es) - 1) : <<es[i], es[i + 1]>> \in LinkMany(es)
<1>1. Range(es) \subseteq Names
  BY DEF Range
<1>2. Names \cap BinNames = {}
  BY DEF Names, BinNames
<1>3. \A e \in Range(es) : ~IsNull(e) /\ e \notin BinNames
  BY <1>1, <1>2 DEF IsNull
<1>4. QED
  BY <1>3, AllGiven

\* A bin that is checked for all its elements.
LEMMA RowMade ==
  ASSUME null \subseteq BinNames, NEW name, NEW es \in Seq(Names),
         BinMade(name, Row(es))
  PROVE  Contains(name, es)' /\ Linked(es)'
<1>1. /\ Row(es).checked = Range(es) /\ Row(es).elements = es
      /\ Row(es).chains = {es}
  BY Zenon DEF Row, Bin
<1>2. /\ Range(es) \cap missing = {}
      /\ children' = children \cup AddMany(name, es)
      /\ links' = links \cup LinkMany(es)
  BY <1>1 DEF BinMade
<1>3. QED
  BY <1>2, NoneMissing DEF Contains, Linked

\* The source bin with the demuxer, which may be missing.
LEMMA Mp4Made ==
  ASSUME null \subseteq BinNames, BinMade("source_bin", Mp4Source)
  PROVE  \/ /\ Contains("source_bin", Mp4Source.elements)'
            /\ \A es \in Mp4Source.chains : Linked(es)'
         \/ /\ <<"source_bin", "qtdemux">> \in children'
                 => <<"source_bin", "qtdemux">> \in children
<1> DEFINE all == <<"filesrc", "qtdemux", "h264parse", "decoder">>
           front == <<"filesrc", "qtdemux">>
           back == <<"h264parse", "decoder">>
<1>1. /\ Mp4Source.checked = {"filesrc", "h264parse", "decoder"}
      /\ Mp4Source.elements = all /\ Mp4Source.chains = {front, back}
  BY Zenon DEF Mp4Source, Bin
<1>2. all \in Seq(Names) /\ front \in Seq(Names) /\ back \in Seq(Names)
  BY DEF Names
<1>3. /\ {"filesrc", "h264parse", "decoder"} \cap missing = {}
      /\ children' = children \cup AddMany("source_bin", all)
      /\ links' = links \cup LinkMany(front) \cup LinkMany(back)
  BY <1>1 DEF BinMade
<1>4. CASE "qtdemux" \in missing
  <2>1. <<"source_bin", "qtdemux">> \notin AddMany("source_bin", all)
    <3>1. SUFFICES ASSUME NEW i \in 1..Len(all),
                          \A k \in 1..i : ~IsNull(all[k]),
                          <<"source_bin", "qtdemux">> = <<"source_bin", all[i]>>
                   PROVE  FALSE
      BY <1>2, AddManyIs
    <3>2. Len(all) = 4 /\ all[2] = "qtdemux" /\ all[1] # "qtdemux"
      OBVIOUS
    <3>3. i \in 2..4
      BY <3>1, <3>2
    <3>4. ~IsNull("qtdemux")
      BY <3>1, <3>2, <3>3
    <3>5. QED
      BY <1>4, <3>4 DEF IsNull
  <2>2. QED
    BY <1>3, <2>1
<1>5. CASE "qtdemux" \notin missing
  <2>1. /\ Range(all) = {"filesrc", "qtdemux", "h264parse", "decoder"}
        /\ Range(front) = {"filesrc", "qtdemux"}
        /\ Range(back) = {"h264parse", "decoder"}
    BY DEF Range
  <2> HIDE DEF all, front, back
  <2>2. Contains("source_bin", all)'
    BY <1>2, <1>3, <1>5, <2>1, NoneMissing DEF Contains
  <2>3. Linked(front)' /\ Linked(back)'
    BY <1>2, <1>3, <1>5, <2>1, NoneMissing DEF Linked
  <2>4. QED
    BY <1>1, <2>2, <2>3
<1>6. QED
  BY <1>4, <1>5

\* What making a bin leaves alone.
LEMMA BinMadeAdds ==
  ASSUME src \in DOMAIN Sources, snk \in DOMAIN Sinks, NEW name,
         NEW bin \in {Sources[src], Sinks[snk], FilterBin}, BinMade(name, bin)
  PROVE  /\ children \subseteq children' /\ links \subseteq links'
         /\ UNCHANGED null
         /\ \A c \in children' : c \in children \/ c[1] = name
         /\ \A l \in links' : l \in links \/ l[1] \notin OwnPads
<1>1. /\ children' = children \cup AddMany(name, bin.elements)
      /\ links' = links \cup UNION {LinkMany(es) : es \in bin.chains}
      /\ UNCHANGED null
  BY DEF BinMade
<1>2. \A c \in AddMany(name, bin.elements) : c[1] = name
  BY DEF AddMany
<1>3. bin \in {Mp4Source, H264Source, MultiFileSource, RenderSink, TegraSink,
               FileSink, FilterBin}
  BY SourceCases, SinkCases
<1>4. ASSUME NEW es \in bin.chains, NEW l \in LinkMany(es)
      PROVE  l[1] \notin OwnPads
  <2>1. \A ch : Row(ch).chains = {ch}
    BY Zenon DEF Row, Bin
  <2>2. Mp4Source.chains = {<<"filesrc", "qtdemux">>, <<"h264parse", "decoder">>}
    BY Zenon DEF Mp4Source, Bin
  <2>3. es \in {<<"filesrc", "qtdemux">>, <<"h264parse", "decoder">>,
                <<"filesrc", "h264parse", "decoder">>,
                <<"multifilesrc", "jpegparse", "decoder">>,
                <<"eglglessink">>, <<"egltransform", "eglglessink">>,
                <<"capsfilter", "h264enc", "h264parse_sink", "qtmux",
                  "filesink">>,
                <<"nvtracker", "nvinfer2", "nvfpfilter">>}
    <3>1. CASE bin = Mp4Source
      BY <2>2, <3>1
    <3>2. CASE bin = H264Source
      <4>1. es = <<"filesrc", "h264parse", "decoder">>
        BY <2>1, <3>2 DEF H264Source
      <4>2. QED
        BY <4>1
    <3>3. CASE bin = MultiFileSource
      <4>1. es = <<"multifilesrc", "jpegparse", "decoder">>
        BY <2>1, <3>3 DEF MultiFileSource
      <4>2. QED
        BY <4>1
    <3>4. CASE bin = RenderSink
      <4>1. es = <<"eglglessink">>
        BY <2>1, <3>4 DEF RenderSink
      <4>2. QED
        BY <4>1
    <3>5. CASE bin = TegraSink
      <4>1. es = <<"egltransform", "eglglessink">>
        BY <2>1, <3>5 DEF TegraSink
      <4>2. QED
        BY <4>1
    <3>6. CASE bin = FileSink
      <4>1. es = <<"capsfilter", "h264enc", "h264parse_sink", "qtmux",
               "filesink">>
        BY <2>1, <3>6 DEF FileSink
      <4>2. QED
        BY <4>1
    <3>7. CASE bin = FilterBin
      <4>1. es = <<"nvtracker", "nvinfer2", "nvfpfilter">>
        BY <2>1, <3>7 DEF FilterBin
      <4>2. QED
        BY <4>1
    <3>8. QED
      BY <1>3, <3>1, <3>2, <3>3, <3>4, <3>5, <3>6, <3>7
  <2>4. QED
    BY <2>3, ChainLinks
<1>5. QED
  BY <1>1, <1>2, <1>4

LEMMA NoBinIsMissing ==
  ASSUME TypeOK
  PROVE  BinNames \cap missing = {} /\ null \subseteq BinNames
<1>1. ASSUME NEW bin \in {Mp4Source, H264Source, MultiFileSource, RenderSink,
                          TegraSink, FileSink, FilterBin}
      PROVE  Range(bin.elements) \cap BinNames = {}
  <2>1. Range(bin.elements) \subseteq Names
    <3>1. CASE bin \in {Mp4Source, H264Source, MultiFileSource}
      BY <3>1, BinLists, BinElements DEF Names
    <3>2. CASE bin \in {RenderSink, TegraSink, FileSink, FilterBin}
      BY <3>2, BinLists, BinElements DEF Names
    <3>3. QED
      BY <3>1, <3>2
  <2>2. QED
    BY <2>1 DEF Names, BinNames
<1>2. /\ Range(Sources[src].elements) \cap BinNames = {}
      /\ Range(Sinks[snk].elements) \cap BinNames = {}
      /\ Range(FilterBin.elements) \cap BinNames = {}
  BY <1>1, SourceCases, SinkCases DEF TypeOK
<1>3. MainElements \cap BinNames = {}
  BY DEF MainElements, BinNames
<1>4. QED
  BY <1>2, <1>3 DEF TypeOK, Needed, BinNames

-----------------------------------------------------------------------------
(* What main adds and links itself.                                         *)

\* Its own elements are there once it has looked, and so is the filter bin
\* when main goes on.
LEMMA Present ==
  ASSUME TypeOK, MainElements \cap missing = {}, main_pc # "failed"
  PROVE  \A e \in MainElements \cup {"fp-filter-bin"} : ~IsNull(e)
<1>1. MainElements \cap BinNames = {}
  BY DEF MainElements, BinNames
<1>2. QED
  BY <1>1, NoBinIsMissing DEF TypeOK, IsNull, BinNames

LEMMA Ends ==
  ASSUME TypeOK
  PROVE  /\ SrcEnd("source_bin") = "decoder"
         /\ SinkEnd("fp-filter-bin") = "nvtracker"
         /\ SrcEnd("fp-filter-bin") = "nvfpfilter"
         /\ Parts("source_bin") = Sources[src].elements
         /\ Parts("sink_bin") = Sinks[snk].elements
         /\ Parts("fp-filter-bin") = FilterBin.elements
<1>1. /\ Parts("source_bin") = Sources[src].elements
      /\ Parts("sink_bin") = Sinks[snk].elements
      /\ Parts("fp-filter-bin") = FilterBin.elements
  BY DEF Parts
<1>2. FilterBin.elements = <<"nvtracker", "nvinfer2", "nvfpfilter">>
  BY BinLists
<1>3. \/ Sources[src].elements
           = <<"filesrc", "qtdemux", "h264parse", "decoder">>
      \/ Sources[src].elements = <<"filesrc", "h264parse", "decoder">>
      \/ Sources[src].elements = <<"multifilesrc", "jpegparse", "decoder">>
  BY BinLists, SourceCases DEF TypeOK
<1>4. ASSUME NEW es, \/ es = <<"filesrc", "qtdemux", "h264parse", "decoder">>
                     \/ es = <<"filesrc", "h264parse", "decoder">>
                     \/ es = <<"multifilesrc", "jpegparse", "decoder">>
      PROVE  es[Len(es)] = "decoder"
  <2>1. CASE es = <<"filesrc", "qtdemux", "h264parse", "decoder">>
    BY <2>1
  <2>2. CASE es = <<"filesrc", "h264parse", "decoder">>
    BY <2>2
  <2>3. CASE es = <<"multifilesrc", "jpegparse", "decoder">>
    BY <2>3
  <2>4. QED
    BY <1>4, <2>1, <2>2, <2>3
<1>5. ASSUME NEW es, es = <<"nvtracker", "nvinfer2", "nvfpfilter">>
      PROVE  Head(es) = "nvtracker" /\ es[Len(es)] = "nvfpfilter"
  BY <1>5
<1>6. SrcEnd("source_bin") = "decoder"
  BY <1>1, <1>3, <1>4, Zenon DEF SrcEnd
<1>7. /\ SinkEnd("fp-filter-bin") = "nvtracker"
      /\ SrcEnd("fp-filter-bin") = "nvfpfilter"
  BY <1>1, <1>2, <1>5, Zenon DEF SrcEnd, SinkEnd
<1>8. QED
  BY <1>1, <1>6, <1>7

\* Where the elements of two lists, and of three, are in their concatenation.
LEMMA Concat ==
  ASSUME NEW S, NEW a \in Seq(S), NEW b \in Seq(S)
  PROVE  /\ a \o b \in Seq(S) /\ Len(a \o b) = Len(a) + Len(b)
         /\ Len(a) \in Nat /\ Len(b) \in Nat
         /\ \A i \in 1..Len(a) : (a \o b)[i] = a[i]
         /\ \A i \in 1..Len(b) : (a \o b)[Len(a) + i] = b[i]
<1> DEFINE c == a \o b
<1>1. Len(a) \in Nat /\ Len(b) \in Nat
  BY LenProperties
<1>2. /\ c \in Seq(S) /\ Len(c) = Len(a) + Len(b)
      /\ \A i \in 1..(Len(a) + Len(b)) :
           c[i] = IF i <= Len(a) THEN a[i] ELSE b[i - Len(a)]
  BY ConcatProperties
<1> HIDE DEF c
<1>3. \A i \in 1..Len(a) : c[i] = a[i]
  BY <1>1, <1>2
<1>4. ASSUME NEW i \in 1..Len(b) PROVE c[Len(a) + i] = b[i]
  <2>1. /\ Len(a) + i \in 1..(Len(a) + Len(b))
        /\ ~(Len(a) + i <= Len(a)) /\ (Len(a) + i) - Len(a) = i
    BY <1>1
  <2>2. QED
    BY <1>2, <2>1
<1>5. QED
  BY <1>1, <1>2, <1>3, <1>4 DEF c

LEMMA ConcatThree ==
  ASSUME NEW S, NEW a \in Seq(S), NEW b \in Seq(S), NEW c \in Seq(S)
  PROVE  /\ a \o b \o c \in Seq(S)
         /\ Len(a \o b \o c) = Len(a) + Len(b) + Len(c)
         /\ \A i \in 1..Len(a) : (a \o b \o c)[i] = a[i]
         /\ \A i \in 1..Len(b) : (a \o b \o c)[Len(a) + i] = b[i]
         /\ \A i \in 1..Len(c) : (a \o b \o c)[Len(a) + Len(b) + i] = c[i]
<1> DEFINE d == a \o b
<1>1. /\ d \in Seq(S) /\ Len(d) = Len(a) + Len(b)
      /\ Len(a) \in Nat /\ Len(b) \in Nat
      /\ \A i \in 1..Len(a) : d[i] = a[i]
      /\ \A i \in 1..Len(b) : d[Len(a) + i] = b[i]
  BY Concat
<1> HIDE DEF d
<1>2. /\ d \o c \in Seq(S) /\ Len(d \o c) = Len(d) + Len(c) /\ Len(c) \in Nat
      /\ \A i \in 1..Len(d) : (d \o c)[i] = d[i]
      /\ \A i \in 1..Len(c) : (d \o c)[Len(d) + i] = c[i]
  <2>1. d \in Seq(S)
    BY <1>1
  <2>2. QED
    BY <2>1, Concat
<1>3. ASSUME NEW i \in 1..Len(a) PROVE (d \o c)[i] = a[i]
  BY <1>1, <1>2
<1>4. ASSUME NEW i \in 1..Len(b) PROVE (d \o c)[Len(a) + i] = b[i]
  <2>1. Len(a) + i \in 1..Len(d)
    BY <1>1
  <2>2. QED
    BY <1>1, <1>2, <2>1
<1>5. QED
  BY <1>1, <1>2, <1>3, <1>4 DEF d

\* The lists of main.
MainNames == MainElements \cup BinNames

LEMMA Lists ==
  /\ Added = <<"source_bin", "streammux", "nvinfer1", "nvosd", "nvvidconv1",
               "nvvidconv2", "nvvidconv3", "sink_bin">>
  /\ Added \in Seq(MainNames)
  /\ Chain(TRUE) \in Seq(MainNames) /\ Len(Chain(TRUE)) = 8
  /\ Chain(TRUE)[1] = "streammux" /\ Chain(TRUE)[2] = "nvinfer1"
  /\ Chain(TRUE)[3] = "nvvidconv1" /\ Chain(TRUE)[4] = "fp-filter-bin"
  /\ Chain(TRUE)[5] = "nvvidconv2" /\ Chain(TRUE)[6] = "nvosd"
  /\ Chain(TRUE)[7] = "nvvidconv3" /\ Chain(TRUE)[8] = "sink_bin"
  /\ Chain(FALSE) \in Seq(MainNames) /\ Len(Chain(FALSE)) = 7
  /\ Chain(FALSE)[1] = "streammux" /\ Chain(FALSE)[2] = "nvinfer1"
  /\ Chain(FALSE)[3] = "nvvidconv1" /\ Chain(FALSE)[4] = "nvvidconv2"
  /\ Chain(FALSE)[5] = "nvosd" /\ Chain(FALSE)[6] = "nvvidconv3"
  /\ Chain(FALSE)[7] = "sink_bin"
<1>1. Added = <<"source_bin", "streammux", "nvinfer1", "nvosd", "nvvidconv1",
                "nvvidconv2", "nvvidconv3", "sink_bin">>
  BY DEF Added
<1>2. /\ "source_bin" \in MainNames /\ "streammux" \in MainNames
      /\ "nvinfer1" \in MainNames /\ "nvosd" \in MainNames
      /\ "nvvidconv1" \in MainNames /\ "nvvidconv2" \in MainNames
      /\ "nvvidconv3" \in MainNames /\ "sink_bin" \in MainNames
      /\ "fp-filter-bin" \in MainNames
  BY DEF MainNames, MainElements, BinNames
<1>3. Added \in Seq(MainNames)
  BY <1>1, <1>2
<1> DEFINE front == <<"streammux", "nvinfer1", "nvvidconv1">>
           mid == <<"fp-filter-bin">>
           none == <<>>
           back == <<"nvvidconv2", "nvosd", "nvvidconv3", "sink_bin">>
<1>4. /\ front \in Seq(MainNames) /\ back \in Seq(MainNames)
      /\ mid \in Seq(MainNames) /\ none \in Seq(MainNames)
  BY <1>2
<1>5. /\ Len(front) = 3 /\ Len(back) = 4 /\ Len(mid) = 1 /\ Len(none) = 0
      /\ front[1] = "streammux" /\ front[2] = "nvinfer1"
      /\ front[3] = "nvvidconv1" /\ mid[1] = "fp-filter-bin"
      /\ back[1] = "nvvidconv2" /\ back[2] = "nvosd"
      /\ back[3] = "nvvidconv3" /\ back[4] = "sink_bin"
  OBVIOUS
<1>6. Chain(TRUE) = front \o mid \o back
  BY Zenon DEF Chain
<1>7. Chain(FALSE) = front \o none \o back
  BY Zenon DEF Chain
<1> HIDE DEF front, mid, none, back
<1>8. /\ Chain(TRUE) \in Seq(MainNames) /\ Len(Chain(TRUE)) = 8
      /\ Chain(TRUE)[1] = "streammux" /\ Chain(TRUE)[2] = "nvinfer1"
      /\ Chain(TRUE)[3] = "nvvidconv1" /\ Chain(TRUE)[4] = "fp-filter-bin"
      /\ Chain(TRUE)[5] = "nvvidconv2" /\ Chain(TRUE)[6] = "nvosd"
      /\ Chain(TRUE)[7] = "nvvidconv3" /\ Chain(TRUE)[8] = "sink_bin"
  <2> DEFINE f == front \o mid \o back
  <2>1. /\ f \in Seq(MainNames) /\ Len(f) = Len(front) + Len(mid) + Len(back)
        /\ \A i \in 1..Len(front) : f[i] = front[i]
        /\ \A i \in 1..Len(mid) : f[Len(front) + i] = mid[i]
        /\ \A i \in 1..Len(back) : f[Len(front) + Len(mid) + i] = back[i]
    BY <1>4, ConcatThree
  <2> HIDE DEF f
  <2>2. /\ f \in Seq(MainNames) /\ Len(f) = 3 + 1 + 4
        /\ \A i \in 1..3 : f[i] = front[i]
        /\ \A i \in 1..1 : f[3 + i] = mid[i]
        /\ \A i \in 1..4 : f[3 + 1 + i] = back[i]
    BY <1>5, <2>1
  <2>3. /\ f[1] = front[1] /\ f[2] = front[2] /\ f[3] = front[3]
        /\ f[4] = mid[1] /\ f[5] = back[1] /\ f[6] = back[2]
        /\ f[7] = back[3] /\ f[8] = back[4]
    BY <2>2
  <2>4. Chain(TRUE) = f
    BY <1>6, Zenon DEF f
  <2>5. /\ f \in Seq(MainNames) /\ Len(f) = 8
        /\ f[1] = "streammux" /\ f[2] = "nvinfer1" /\ f[3] = "nvvidconv1"
        /\ f[4] = "fp-filter-bin" /\ f[5] = "nvvidconv2" /\ f[6] = "nvosd"
        /\ f[7] = "nvvidconv3" /\ f[8] = "sink_bin"
    BY <1>5, <2>2, <2>3
  <2>6. QED
    BY <2>4, <2>5, Zenon
<1>9. /\ Chain(FALSE) \in Seq(MainNames) /\ Len(Chain(FALSE)) = 7
      /\ Chain(FALSE)[1] = "streammux" /\ Chain(FALSE)[2] = "nvinfer1"
      /\ Chain(FALSE)[3] = "nvvidconv1" /\ Chain(FALSE)[4] = "nvvidconv2"
      /\ Chain(FALSE)[5] = "nvosd" /\ Chain(FALSE)[6] = "nvvidconv3"
      /\ Chain(FALSE)[7] = "sink_bin"
  <2> DEFINE f == front \o none \o back
  <2>1. /\ f \in Seq(MainNames) /\ Len(f) = Len(front) + Len(none) + Len(back)
        /\ \A i \in 1..Len(front) : f[i] = front[i]
        /\ \A i \in 1..Len(back) : f[Len(front) + Len(none) + i] = back[i]
    BY <1>4, ConcatThree
  <2> HIDE DEF f
  <2>2. /\ f \in Seq(MainNames) /\ Len(f) = 3 + 0 + 4
        /\ \A i \in 1..3 : f[i] = front[i]
        /\ \A i \in 1..4 : f[3 + 0 + i] = back[i]
    BY <1>5, <2>1
  <2>3. /\ f[1] = front[1] /\ f[2] = front[2] /\ f[3] = front[3]
        /\ f[4] = back[1] /\ f[5] = back[2] /\ f[6] = back[3] /\ f[7] = back[4]
    BY <2>2
  <2>4. Chain(FALSE) = f
    BY <1>7, Zenon DEF f
  <2>5. /\ f \in Seq(MainNames) /\ Len(f) = 7
        /\ f[1] = "streammux" /\ f[2] = "nvinfer1" /\ f[3] = "nvvidconv1"
        /\ f[4] = "nvvidconv2" /\ f[5] = "nvosd" /\ f[6] = "nvvidconv3"
        /\ f[7] = "sink_bin"
    BY <1>5, <2>2, <2>3
  <2>6. QED
    BY <2>4, <2>5, Zenon
<1>10. QED
  BY <1>1, <1>3, <1>8, <1>9

\* What main links with the filter.
LEMMA ThroughFilter ==
  ASSUME TypeOK, MainElements \cap missing = {}, main_pc # "failed",
         NEW ch \in Seq(MainNames), Len(ch) = 8,
         ch[1] = "streammux", ch[2] = "nvinfer1",
         ch[3] = "nvvidconv1", ch[4] = "fp-filter-bin",
         ch[5] = "nvvidconv2", ch[6] = "nvosd",
         ch[7] = "nvvidconv3", ch[8] = "sink_bin"
  PROVE  /\ {<<"streammux", "nvinfer1">>, <<"nvinfer1", "nvvidconv1">>,
             <<"nvvidconv2", "nvosd">>, <<"nvosd", "nvvidconv3">>}
              \subseteq LinkMany(ch)
         /\ \/ <<"nvvidconv3", SinkEnd("sink_bin")>> \in LinkMany(ch)
            \/ IsNull("sink_bin")
         /\ LinkMany(ch) \cap Crossing = {<<"nvvidconv1", "nvtracker">>,
                                         <<"nvfpfilter", "nvvidconv2">>}
         /\ <<"qtdemux", "h264parse">> \notin LinkMany(ch)
<1>1. \A k \in 1..7 : ~IsNull(ch[k])
  BY Present DEF MainElements
<1>2. /\ \A e \in MainElements : SrcEnd(e) = e /\ SinkEnd(e) = e
      /\ SinkEnd("fp-filter-bin") = "nvtracker"
      /\ SrcEnd("fp-filter-bin") = "nvfpfilter"
  <2>1. MainElements \cap BinNames = {}
    BY DEF MainElements, BinNames
  <2>2. QED
    BY <2>1, Plain, Ends
<1>3. <<SrcEnd(ch[1]), SinkEnd(ch[2])>> = <<"streammux", "nvinfer1">>
  BY <1>2 DEF MainElements
<1>4. <<SrcEnd(ch[2]), SinkEnd(ch[3])>> = <<"nvinfer1", "nvvidconv1">>
  BY <1>2 DEF MainElements
<1>5. <<SrcEnd(ch[3]), SinkEnd(ch[4])>> = <<"nvvidconv1", "nvtracker">>
  BY <1>2 DEF MainElements
<1>6. <<SrcEnd(ch[4]), SinkEnd(ch[5])>> = <<"nvfpfilter", "nvvidconv2">>
  BY <1>2 DEF MainElements
<1>7. <<SrcEnd(ch[5]), SinkEnd(ch[6])>> = <<"nvvidconv2", "nvosd">>
  BY <1>2 DEF MainElements
<1>8. <<SrcEnd(ch[6]), SinkEnd(ch[7])>> = <<"nvosd", "nvvidconv3">>
  BY <1>2 DEF MainElements
<1>9. <<SrcEnd(ch[7]), SinkEnd(ch[8])>> = <<"nvvidconv3", SinkEnd("sink_bin")>>
  BY <1>2 DEF MainElements
<1>10. ASSUME NEW i \in 1..6, NEW j, j = i + 1
      PROVE  <<SrcEnd(ch[i]), SinkEnd(ch[j])>> \in LinkMany(ch)
  <2>1. i \in 1..(Len(ch) - 1)
    OBVIOUS
  <2>2. \A m \in 1..(i + 1) : ~IsNull(ch[m])
    BY <1>1
  <2>3. QED
    BY <1>10, <2>1, <2>2, LinkManyIs
<1>11. \/ <<"nvvidconv3", SinkEnd("sink_bin")>> \in LinkMany(ch)
      \/ IsNull("sink_bin")
  <2>1. SUFFICES ASSUME ~IsNull("sink_bin")
                 PROVE  <<SrcEnd(ch[7]), SinkEnd(ch[8])>> \in LinkMany(ch)
    BY <1>9
  <2>2. \A j \in 1..(7 + 1) : ~IsNull(ch[j])
    BY <1>1, <2>1
  <2>3. QED
    BY <2>2, LinkManyIs
<1>12. \A l \in LinkMany(ch) :
        \E i \in 1..7 : l = <<SrcEnd(ch[i]), SinkEnd(ch[i + 1])>>
  BY LinkManyIs
<1>13. LinkMany(ch) \subseteq
        {<<"streammux", "nvinfer1">>,
         <<"nvinfer1", "nvvidconv1">>,
         <<"nvvidconv1", "nvtracker">>,
         <<"nvfpfilter", "nvvidconv2">>,
         <<"nvvidconv2", "nvosd">>,
         <<"nvosd", "nvvidconv3">>,
         <<"nvvidconv3", SinkEnd("sink_bin")>>}
  BY <1>3, <1>4, <1>5, <1>6, <1>7, <1>8, <1>9, <1>12
<1>14. {<<"streammux", "nvinfer1">>,
         <<"nvinfer1", "nvvidconv1">>,
         <<"nvvidconv1", "nvtracker">>,
         <<"nvfpfilter", "nvvidconv2">>,
         <<"nvvidconv2", "nvosd">>,
         <<"nvosd", "nvvidconv3">>}
         \subseteq LinkMany(ch)
  <2>1. <<SrcEnd(ch[1]), SinkEnd(ch[2])>> \in LinkMany(ch)
    BY <1>10
  <2>2. <<SrcEnd(ch[2]), SinkEnd(ch[3])>> \in LinkMany(ch)
    BY <1>10
  <2>3. <<SrcEnd(ch[3]), SinkEnd(ch[4])>> \in LinkMany(ch)
    BY <1>10
  <2>4. <<SrcEnd(ch[4]), SinkEnd(ch[5])>> \in LinkMany(ch)
    BY <1>10
  <2>5. <<SrcEnd(ch[5]), SinkEnd(ch[6])>> \in LinkMany(ch)
    BY <1>10
  <2>6. <<SrcEnd(ch[6]), SinkEnd(ch[7])>> \in LinkMany(ch)
    BY <1>10
  <2>7. QED
    BY <1>3, <1>4, <1>5, <1>6, <1>7, <1>8, <1>9,
       <2>1, <2>2, <2>3, <2>4, <2>5, <2>6
<1>15. ASSUME NEW l
      PROVE  l \in LinkMany(ch) /\ l \in Crossing <=>
               l \in {<<"nvvidconv1", "nvtracker">>,
                      <<"nvfpfilter", "nvvidconv2">>}
  <2>1. l \in LinkMany(ch) /\ l \in Crossing =>
          l \in {<<"nvvidconv1", "nvtracker">>,
                 <<"nvfpfilter", "nvvidconv2">>}
    BY <1>13 DEF Crossing
  <2>2. QED
    BY <1>14, <2>1 DEF Crossing
<1>16. QED
  BY <1>11, <1>13, <1>14, <1>15

\* And without it.
LEMMA PastFilter ==
  ASSUME TypeOK, MainElements \cap missing = {}, main_pc # "failed",
         NEW ch \in Seq(MainNames), Len(ch) = 7,
         ch[1] = "streammux", ch[2] = "nvinfer1",
         ch[3] = "nvvidconv1", ch[4] = "nvvidconv2",
         ch[5] = "nvosd", ch[6] = "nvvidconv3",
         ch[7] = "sink_bin"
  PROVE  /\ {<<"streammux", "nvinfer1">>, <<"nvinfer1", "nvvidconv1">>,
             <<"nvvidconv2", "nvosd">>, <<"nvosd", "nvvidconv3">>}
              \subseteq LinkMany(ch)
         /\ \/ <<"nvvidconv3", SinkEnd("sink_bin")>> \in LinkMany(ch)
            \/ IsNull("sink_bin")
         /\ LinkMany(ch) \cap Crossing = {<<"nvvidconv1", "nvvidconv2">>}
         /\ <<"qtdemux", "h264parse">> \notin LinkMany(ch)
<1>1. \A k \in 1..6 : ~IsNull(ch[k])
  BY Present DEF MainElements
<1>2. /\ \A e \in MainElements : SrcEnd(e) = e /\ SinkEnd(e) = e
      /\ SinkEnd("fp-filter-bin") = "nvtracker"
      /\ SrcEnd("fp-filter-bin") = "nvfpfilter"
  <2>1. MainElements \cap BinNames = {}
    BY DEF MainElements, BinNames
  <2>2. QED
    BY <2>1, Plain, Ends
<1>3. <<SrcEnd(ch[1]), SinkEnd(ch[2])>> = <<"streammux", "nvinfer1">>
  BY <1>2 DEF MainElements
<1>4. <<SrcEnd(ch[2]), SinkEnd(ch[3])>> = <<"nvinfer1", "nvvidconv1">>
  BY <1>2 DEF MainElements
<1>5. <<SrcEnd(ch[3]), SinkEnd(ch[4])>> = <<"nvvidconv1", "nvvidconv2">>
  BY <1>2 DEF MainElements
<1>6. <<SrcEnd(ch[4]), SinkEnd(ch[5])>> = <<"nvvidconv2", "nvosd">>
  BY <1>2 DEF MainElements
<1>7. <<SrcEnd(ch[5]), SinkEnd(ch[6])>> = <<"nvosd", "nvvidconv3">>
  BY <1>2 DEF MainElements
<1>8. <<SrcEnd(ch[6]), SinkEnd(ch[7])>> = <<"nvvidconv3", SinkEnd("sink_bin")>>
  BY <1>2 DEF MainElements
<1>9. ASSUME NEW i \in 1..5, NEW j, j = i + 1
      PROVE  <<SrcEnd(ch[i]), SinkEnd(ch[j])>> \in LinkMany(ch)
  <2>1. i \in 1..(Len(ch) - 1)
    OBVIOUS
  <2>2. \A m \in 1..(i + 1) : ~IsNull(ch[m])
    BY <1>1
  <2>3. QED
    BY <1>9, <2>1, <2>2, LinkManyIs
<1>10. \/ <<"nvvidconv3", SinkEnd("sink_bin")>> \in LinkMany(ch)
      \/ IsNull("sink_bin")
  <2>1. SUFFICES ASSUME ~IsNull("sink_bin")
                 PROVE  <<SrcEnd(ch[6]), SinkEnd(ch[7])>> \in LinkMany(ch)
    BY <1>8
  <2>2. \A j \in 1..(6 + 1) : ~IsNull(ch[j])
    BY <1>1, <2>1
  <2>3. QED
    BY <2>2, LinkManyIs
<1>11. \A l \in LinkMany(ch) :
        \E i \in 1..6 : l = <<SrcEnd(ch[i]), SinkEnd(ch[i + 1])>>
  BY LinkManyIs
<1>12. LinkMany(ch) \subseteq
        {<<"streammux", "nvinfer1">>,
         <<"nvinfer1", "nvvidconv1">>,
         <<"nvvidconv1", "nvvidconv2">>,
         <<"nvvidconv2", "nvosd">>,
         <<"nvosd", "nvvidconv3">>,
         <<"nvvidconv3", SinkEnd("sink_bin")>>}
  BY <1>3, <1>4, <1>5, <1>6, <1>7, <1>8, <1>11
<1>13. {<<"streammux", "nvinfer1">>,
         <<"nvinfer1", "nvvidconv1">>,
         <<"nvvidconv1", "nvvidconv2">>,
         <<"nvvidconv2", "nvosd">>,
         <<"nvosd", "nvvidconv3">>}
         \subseteq LinkMany(ch)
  <2>1. <<SrcEnd(ch[1]), SinkEnd(ch[2])>> \in LinkMany(ch)
    BY <1>9
  <2>2. <<SrcEnd(ch[2]), SinkEnd(ch[3])>> \in LinkMany(ch)
    BY <1>9
  <2>3. <<SrcEnd(ch[3]), SinkEnd(ch[4])>> \in LinkMany(ch)
    BY <1>9
  <2>4. <<SrcEnd(ch[4]), SinkEnd(ch[5])>> \in LinkMany(ch)
    BY <1>9
  <2>5. <<SrcEnd(ch[5]), SinkEnd(ch[6])>> \in LinkMany(ch)
    BY <1>9
  <2>6. QED
    BY <1>3, <1>4, <1>5, <1>6, <1>7, <1>8, <2>1, <2>2, <2>3, <2>4, <2>5
<1>14. ASSUME NEW l
      PROVE  l \in LinkMany(ch) /\ l \in Crossing <=>
               l \in {<<"nvvidconv1", "nvvidconv2">>}
  <2>1. l \in LinkMany(ch) /\ l \in Crossing =>
          l \in {<<"nvvidconv1", "nvvidconv2">>}
    BY <1>12 DEF Crossing
  <2>2. QED
    BY <1>13, <2>1 DEF Crossing
<1>15. QED
  BY <1>10, <1>12, <1>13, <1>14

LEMMA AddedAll ==
  ASSUME TypeOK, MainElements \cap missing = {}, main_pc # "failed",
         ~IsNull("source_bin")
  PROVE  /\ \A e \in Range(Added) :
              \/ <<"pipeline", e>> \in AddMany("pipeline", Added)
              \/ e = "sink_bin" /\ IsNull(e)
         /\ <<"pipeline", "fp-filter-bin">> \notin AddMany("pipeline", Added)
<1> DEFINE es == Added
<1>1. /\ es \in Seq(MainNames) /\ Len(es) = 8 /\ DOMAIN es = 1..8
      /\ es[1] = "source_bin" /\ es[2] = "streammux" /\ es[3] = "nvinfer1"
      /\ es[4] = "nvosd" /\ es[5] = "nvvidconv1" /\ es[6] = "nvvidconv2"
      /\ es[7] = "nvvidconv3" /\ es[8] = "sink_bin"
  BY Lists
<1> HIDE DEF es
<1>2. \A k \in 1..7 : ~IsNull(es[k])
  BY <1>1, Present DEF MainElements
<1>3. \A c : c \in AddMany("pipeline", es) <=>
               \E i \in 1..8 : (\A k \in 1..i : ~IsNull(es[k]))
                               /\ c = <<"pipeline", es[i]>>
  <2>1. es \in Seq(MainNames) /\ Len(es) = 8
    BY <1>1
  <2>2. ASSUME NEW bin, NEW c
        PROVE  c \in AddMany(bin, es) <=>
                 \E i \in 1..Len(es) :
                   (\A k \in 1..i : ~IsNull(es[k])) /\ c = <<bin, es[i]>>
    BY <2>1, AddManyIs, SMTT(60)
  <2>3. QED
    BY <2>1, <2>2
<1>4. ASSUME NEW i \in 1..8
      PROVE  \/ <<"pipeline", es[i]>> \in AddMany("pipeline", es)
             \/ es[i] = "sink_bin" /\ IsNull(es[i])
  <2>1. CASE \A k \in 1..i : ~IsNull(es[k])
    BY <1>3, <2>1
  <2>2. CASE \E k \in 1..i : IsNull(es[k])
    <3>1. i = 8 /\ IsNull(es[8])
      BY <1>2, <2>2
    <3>2. QED
      BY <1>1, <3>1
  <2>3. QED
    BY <2>1, <2>2
<1>5. \A i \in 1..8 : es[i] # "fp-filter-bin"
  BY <1>1
<1>6. <<"pipeline", "fp-filter-bin">> \notin AddMany("pipeline", es)
  BY <1>3, <1>5
<1>7. QED
  BY <1>1, <1>4, <1>6 DEF es, Range

LEMMA SourceLinked ==
  ASSUME TypeOK, MainElements \cap missing = {}, main_pc # "failed",
         ~IsNull("source_bin")
  PROVE  /\ <<SrcEnd("source_bin"), "streammux">>
              \in LinkMany(<<"source_bin", "streammux">>)
         /\ LinkMany(<<"source_bin", "streammux">>) \cap Crossing = {}
         /\ <<"qtdemux", "h264parse">>
              \notin LinkMany(<<"source_bin", "streammux">>)
<1> DEFINE es == <<"source_bin", "streammux">>
<1>1. /\ es \in Seq(MainNames) /\ Len(es) = 2
      /\ es[1] = "source_bin" /\ es[2] = "streammux"
  BY DEF MainNames, MainElements, BinNames
<1> HIDE DEF es
<1>2. /\ SinkEnd("streammux") = "streammux" /\ SrcEnd("source_bin") = "decoder"
      /\ ~IsNull("streammux")
  BY Plain, Ends, Present DEF MainElements, BinNames
<1>3. \A l : l \in LinkMany(es) <=>
               \E i \in 1..(2 - 1) : (\A k \in 1..(i + 1) : ~IsNull(es[k]))
                                 /\ l = <<SrcEnd(es[i]), SinkEnd(es[i + 1])>>
  BY <1>1, LinkManyIs
<1>4. \A k \in 1..2 : ~IsNull(es[k])
  BY <1>1, <1>2
<1>5. \A l : l \in LinkMany(es) <=> l = <<SrcEnd(es[1]), SinkEnd(es[2])>>
  BY <1>3, <1>4
<1>6. LinkMany(es) = {<<"decoder", "streammux">>}
  BY <1>1, <1>2, <1>5
<1>7. QED
  BY <1>2, <1>6 DEF es, Crossing

-----------------------------------------------------------------------------
(* Every step of main keeps the invariant.                                  *)

LEMMA InitInv == Init => IInv
<1> SUFFICES ASSUME Init PROVE IInv
  OBVIOUS
<1> USE DEF AfterSource, AfterElements, AfterSink, AfterConfig, AfterFilter,
            AfterAdd, AfterLinkSource, AfterLink, AfterSave, AfterPlay
<1>1. TypeOK
  BY DEF Init, TypeOK
<1>2. RunInv
  BY DEF Init, RunInv
<1>3. SourceInv
  BY DEF Init, SourceInv
<1>4. SinkInv
  BY DEF Init, SinkInv
<1>5. FilterInv
  BY DEF Init, FilterInv
<1>6. AddInv
  BY DEF Init, AddInv
<1>7. LinkInv
  BY DEF Init, LinkInv
<1>8. QED
  BY <1>1, <1>2, <1>3, <1>4, <1>5, <1>6, <1>7 DEF IInv

\* What a bin contains and what is linked stays so.
LEMMA Grows ==
  ASSUME UNCHANGED buildVars, children \subseteq children',
         links \subseteq links'
  PROVE  /\ \A name, es : Contains(name, es) => Contains(name, es)'
         /\ \A es : Linked(es) => Linked(es)'
         /\ \A e : Parts(e)' = Parts(e) /\ SrcEnd(e)' = SrcEnd(e)
                                        /\ SinkEnd(e)' = SinkEnd(e)
<1>1. \A e : Parts(e)' = Parts(e)
  BY DEF buildVars, Parts
<1>2. \A e : SrcEnd(e)' = SrcEnd(e) /\ SinkEnd(e)' = SinkEnd(e)
  BY <1>1 DEF SrcEnd, SinkEnd
<1>3. \A name, es : Contains(name, es) => Contains(name, es)'
  BY DEF Contains
<1>4. \A es : Linked(es) => Linked(es)'
  BY DEF Linked
<1>5. QED
  BY <1>1, <1>2, <1>3, <1>4

\* A step of main that neither builds nor reads anything.
LEMMA GraphKept ==
  ASSUME IInv, UNCHANGED <<buildVars, graphVars, filterVars>>,
         TypeOK', RunInv',
         \/ main_pc' = "failed"
         \/ /\ main_pc = "elements" /\ main_pc' = "sink"
            /\ MainElements \cap missing = {} /\ ~IsNull("source_bin")
         \/ main_pc = "filter" /\ main_pc' = "add" /\ ~is_fpfilter_enabled
         \/ main_pc = "start_save" /\ main_pc' = "play"
         \/ main_pc = "play" /\ main_pc' = "start_server"
         \/ main_pc = "start_server" /\ main_pc' = "running"
  PROVE  IInv'
<1> USE DEF AfterSource, AfterElements, AfterSink, AfterConfig, AfterFilter,
            AfterAdd, AfterLinkSource, AfterLink, AfterSave, AfterPlay
<1>1. /\ children' = children /\ links' = links /\ null' = null
      /\ missing' = missing /\ src' = src /\ snk' = snk
      /\ config' = config /\ tracker_config' = tracker_config
      /\ is_fpfilter_enabled' = is_fpfilter_enabled
      /\ main_element' = main_element
  BY DEF buildVars, graphVars, filterVars
<1>2. /\ \A name, es : Contains(name, es) => Contains(name, es)'
      /\ \A es : Linked(es) => Linked(es)'
      /\ \A e : Parts(e)' = Parts(e) /\ SrcEnd(e)' = SrcEnd(e)
                                     /\ SinkEnd(e)' = SinkEnd(e)
  BY <1>1, Grows
<1>3. \A e : IsNull(e)' <=> IsNull(e)
  BY <1>1 DEF IsNull
<1>4. SourceInv'
  BY <1>1, <1>2, <1>3 DEF IInv, SourceInv
<1>5. SinkInv'
  BY <1>1, <1>2, <1>3 DEF IInv, SinkInv
<1>6. FilterInv'
  BY <1>1, <1>2 DEF IInv, FilterInv
<1>7. AddInv'
  BY <1>1, <1>3 DEF IInv, AddInv
<1>8. LinkInv'
  BY <1>1, <1>2, <1>3 DEF IInv, LinkInv
<1>9. QED
  BY <1>4, <1>5, <1>6, <1>7, <1>8 DEF IInv

LEMMA FailedInv ==
  ASSUME IInv, NEW here, Failed(here),
         here \in {"source", "elements", "link_source", "link", "start_save"}
  PROVE  IInv'
<1> USE DEF AfterSource, AfterElements, AfterSink, AfterConfig, AfterFilter,
            AfterAdd, AfterLinkSource, AfterLink, AfterSave, AfterPlay
<1>1. /\ UNCHANGED <<buildVars, graphVars, filterVars>>
      /\ main_pc = here /\ main_pc' = "failed"
  BY DEF Failed, At
<1>2. TypeOK'
  BY <1>1 DEF IInv, TypeOK, Needed, Failed, buildVars, graphVars,
     filterVars, runVars
<1>3. RunInv'
  BY <1>1 DEF IInv, RunInv, Failed, runVars
<1>4. QED
  BY <1>1, <1>2, <1>3, GraphKept

LEMMA CreateSourceBinInv ==
  ASSUME IInv, CreateSourceBin
  PROVE  IInv'
<1> USE DEF AfterSource, AfterElements, AfterSink, AfterConfig, AfterFilter,
            AfterAdd, AfterLinkSource, AfterLink, AfterSave, AfterPlay
<1>1. CASE Failed("source")
  BY <1>1, FailedInv
<1>2. ASSUME At("source", "elements"), BinFails("source_bin"),
             UNCHANGED <<buildVars, filterVars, runVars>>
      PROVE  IInv'
  <2>1. /\ main_pc = "source" /\ main_pc' = "elements"
        /\ null' = null \cup {"source_bin"} /\ UNCHANGED <<links, children>>
        /\ children = {}
        /\ UNCHANGED <<buildVars, filterVars, runVars>>
    BY <1>2 DEF At, BinFails, IInv, SourceInv
  <2>2. TypeOK'
    BY <2>1 DEF IInv, TypeOK, Needed, buildVars, filterVars, runVars
  <2>3. RunInv'
    BY <2>1 DEF IInv, RunInv, runVars
  <2>4. "source_bin" \in null'
    BY <2>1
  <2>5. SourceInv'
    BY <2>1, <2>4 DEF IInv, SourceInv, IsNull
  <2>6. SinkInv' /\ FilterInv'
    BY <2>1 DEF SinkInv, FilterInv
  <2>7. AddInv'
    BY <2>1 DEF IInv, AddInv
  <2>8. LinkInv'
    BY <2>1 DEF IInv, LinkInv
  <2>9. QED
    BY <2>2, <2>3, <2>5, <2>6, <2>7, <2>8 DEF IInv
<1>3. ASSUME At("source", "elements"), BinMade("source_bin", Sources[src]),
             UNCHANGED <<buildVars, filterVars, runVars>>
      PROVE  IInv'
  <2>1. /\ main_pc = "source" /\ main_pc' = "elements" /\ children = {}
        /\ UNCHANGED <<buildVars, filterVars, runVars>>
    BY <1>3 DEF At, IInv, SourceInv
  <2>2. /\ children \subseteq children' /\ links \subseteq links'
        /\ UNCHANGED null
        /\ \A c \in children' : c \in children \/ c[1] = "source_bin"
        /\ \A l \in links' : l \in links \/ l[1] \notin OwnPads
    BY <1>3, BinMadeAdds DEF IInv, TypeOK
  <2>3. TypeOK'
    BY <2>1, <2>2 DEF IInv, TypeOK, Needed, buildVars, filterVars, runVars
  <2>4. RunInv'
    BY <2>1 DEF IInv, RunInv, runVars
  <2>5. \/ /\ Contains("source_bin", Sources[src].elements)'
           /\ \A es \in Sources[src].chains : Linked(es)'
        \/ src = "MP4_SRC" /\ <<"source_bin", "qtdemux">> \notin children'
    <3>1. null \subseteq BinNames
      BY NoBinIsMissing DEF IInv
    <3>2. CASE src = "MP4_SRC" /\ Sources[src] = Mp4Source
      <4>1. src' = src /\ <<"source_bin", "qtdemux">> \notin children
        BY <2>1 DEF buildVars
      <4>2. BinMade("source_bin", Mp4Source)
        BY <1>3, <3>2
      <4>3. \/ /\ Contains("source_bin", Mp4Source.elements)'
               /\ \A es \in Mp4Source.chains : Linked(es)'
            \/ <<"source_bin", "qtdemux">> \notin children'
        BY <3>1, <4>1, <4>2, Mp4Made
      <4>4. QED
        BY <3>2, <4>1, <4>3 DEF Contains
    <3>3. ASSUME NEW es \in Seq(Names), Sources[src] = Row(es)
          PROVE  /\ Contains("source_bin", Sources[src].elements)'
                 /\ \A ch \in Sources[src].chains : Linked(ch)'
      <4>1. BinMade("source_bin", Row(es))
        BY <1>3, <3>3
      <4>2. Contains("source_bin", es)' /\ Linked(es)'
        BY <3>1, <4>1, RowMade
      <4>3. Row(es).elements = es /\ Row(es).chains = {es}
        BY Zenon DEF Row, Bin
      <4>4. src' = src
        BY <2>1 DEF buildVars
      <4>5. QED
        BY <3>3, <4>2, <4>3, <4>4 DEF Contains
    <3>4. CASE Sources[src] = H264Source
      <4>1. <<"filesrc", "h264parse", "decoder">> \in Seq(Names)
        BY DEF Names
      <4>2. QED
        BY <3>3, <3>4, <4>1 DEF H264Source
    <3>5. CASE Sources[src] = MultiFileSource
      <4>1. <<"multifilesrc", "jpegparse", "decoder">> \in Seq(Names)
        BY DEF Names
      <4>2. QED
        BY <3>3, <3>5, <4>1 DEF MultiFileSource
    <3>6. QED
      BY <3>2, <3>4, <3>5, SourceCases DEF IInv, TypeOK
  <2>6. SourceInv'
    <3>1. src' = src
      BY <2>1 DEF buildVars
    <3>2. <<"qtdemux", "h264parse">> \in links'
            => <<"source_bin", "qtdemux">> \in children'
      BY <2>2 DEF IInv, SourceInv, OwnPads
    <3>3. main_pc' \notin AfterElements
      BY <2>1
    <3>4. QED
      BY <2>1, <2>5, <3>1, <3>2 DEF SourceInv
  <2>7. SinkInv' /\ FilterInv'
    BY <2>1 DEF SinkInv, FilterInv
  <2>8. AddInv'
    BY <2>1, <2>2 DEF IInv, AddInv
  <2>9. LinkInv'
    <3>1. links \cap Crossing = {}
      BY <2>1 DEF IInv, LinkInv
    <3>2. links' \cap Crossing = {}
      BY <2>2, <3>1 DEF Crossing, OwnPads
    <3>3. QED
      BY <2>1, <3>2 DEF LinkInv, Crossing
  <2>10. QED
    BY <2>3, <2>4, <2>6, <2>7, <2>8, <2>9 DEF IInv
<1>4. QED
  BY <1>1, <1>2, <1>3 DEF CreateSourceBin

LEMMA CreateElementsInv ==
  ASSUME IInv, CreateElements
  PROVE  IInv'
<1> USE DEF AfterSource, AfterElements, AfterSink, AfterConfig, AfterFilter,
            AfterAdd, AfterLinkSource, AfterLink, AfterSave, AfterPlay
<1>1. CASE Failed("elements")
  BY <1>1, FailedInv
<1>2. CASE ~Failed("elements")
  <2>1. /\ MainElements \cap missing = {} /\ ~IsNull("source_bin")
        /\ main_pc = "elements" /\ main_pc' = "sink"
        /\ UNCHANGED <<buildVars, graphVars, filterVars, runVars>>
    BY <1>2 DEF CreateElements, At
  <2>2. TypeOK'
    BY <2>1 DEF IInv, TypeOK, Needed, buildVars, graphVars, filterVars, runVars
  <2>3. RunInv'
    BY <2>1 DEF IInv, RunInv, runVars
  <2>4. QED
    BY <2>1, <2>2, <2>3, GraphKept
<1>3. QED
  BY <1>1, <1>2

\* The two bins that main has made stay as they are.
LEMMA SourceKept ==
  ASSUME IInv, UNCHANGED buildVars, children \subseteq children',
         links \subseteq links',
         "source_bin" \in null' <=> "source_bin" \in null,
         <<"source_bin", "qtdemux">> \in children'
           => <<"source_bin", "qtdemux">> \in children,
         <<"qtdemux", "h264parse">> \in links'
           => \/ <<"qtdemux", "h264parse">> \in links
              \/ <<"source_bin", "qtdemux">> \in children,
         main_pc \in AfterElements, main_pc' \in AfterElements \cup {"failed"}
  PROVE  SourceInv'
<1> USE DEF AfterSource, AfterElements, AfterSink, AfterConfig, AfterFilter,
            AfterAdd, AfterLinkSource, AfterLink, AfterSave, AfterPlay
<1>1. src' = src /\ missing' = missing
  BY DEF buildVars
<1>2. ~IsNull("source_bin") /\ ~IsNull("source_bin")'
  BY <1>1 DEF IInv, SourceInv, IsNull
<1>3. /\ \A name, es : Contains(name, es) => Contains(name, es)'
      /\ \A es : Linked(es) => Linked(es)'
  BY Grows
<1>4. \/ /\ Contains("source_bin", Sources[src].elements)
         /\ \A es \in Sources[src].chains : Linked(es)
      \/ src = "MP4_SRC" /\ <<"source_bin", "qtdemux">> \notin children
  BY <1>2 DEF IInv, SourceInv
<1>5. \/ /\ Contains("source_bin", Sources[src].elements)'
         /\ \A es \in Sources[src].chains : Linked(es)'
      \/ src = "MP4_SRC" /\ <<"source_bin", "qtdemux">> \notin children'
  <2>1. CASE /\ Contains("source_bin", Sources[src].elements)
             /\ \A es \in Sources[src].chains : Linked(es)
    <3>1. Contains("source_bin", Sources[src].elements)'
      BY <1>1, <1>3, <2>1
    <3>2. \A es \in Sources[src].chains : Linked(es)'
      BY <1>3, <2>1
    <3>3. QED
      BY <1>1, <3>1, <3>2
  <2>2. CASE src = "MP4_SRC" /\ <<"source_bin", "qtdemux">> \notin children
    BY <2>2
  <2>3. QED
    BY <1>4, <2>1, <2>2
<1>6. <<"qtdemux", "h264parse">> \in links'
        => <<"source_bin", "qtdemux">> \in children'
  BY DEF IInv, SourceInv
<1>7. main_pc' # "source"
  OBVIOUS
<1>8. QED
  BY <1>1, <1>2, <1>5, <1>6, <1>7 DEF SourceInv

LEMMA SinkKept ==
  ASSUME IInv, UNCHANGED buildVars, children \subseteq children',
         links \subseteq links',
         "sink_bin" \in null' <=> "sink_bin" \in null,
         main_pc \in AfterSink, main_pc' \in AfterSink \cup {"failed"}
  PROVE  SinkInv'
<1>1. missing' = missing
  BY DEF buildVars
<1>2. IsNull("sink_bin")' <=> IsNull("sink_bin")
  BY <1>1 DEF IsNull
<1>3. /\ \A name, es : Contains(name, es) => Contains(name, es)'
      /\ \A es : Linked(es) => Linked(es)'
      /\ Parts("sink_bin")' = Parts("sink_bin")
  BY Grows
<1>4. CASE IsNull("sink_bin")
  BY <1>2, <1>4 DEF SinkInv
<1>5. CASE ~IsNull("sink_bin")
  <2>1. Contains("sink_bin", Parts("sink_bin")) /\ Linked(Parts("sink_bin"))
    BY <1>5 DEF IInv, SinkInv
  <2>2. Contains("sink_bin", Parts("sink_bin"))' /\ Linked(Parts("sink_bin"))'
    BY <1>3, <2>1
  <2>3. QED
    BY <2>2 DEF SinkInv
<1>6. QED
  BY <1>4, <1>5

LEMMA CreateSinkBinInv ==
  ASSUME IInv, CreateSinkBin
  PROVE  IInv'
<1> USE DEF AfterSource, AfterElements, AfterSink, AfterConfig, AfterFilter,
            AfterAdd, AfterLinkSource, AfterLink, AfterSave, AfterPlay
<1>1. /\ main_pc = "sink" /\ main_pc' = "config"
      /\ UNCHANGED <<buildVars, filterVars, runVars>>
      /\ src' = src /\ missing' = missing /\ snk' = snk
  BY DEF CreateSinkBin, At, buildVars
<1>2. /\ children \subseteq children' /\ links \subseteq links'
      /\ null \subseteq null' /\ null' \subseteq null \cup {"sink_bin"}
      /\ \A c \in children' : c \in children \/ c[1] = "sink_bin"
      /\ \A l \in links' : l \in links \/ l[1] \notin OwnPads
  <2>1. CASE BinFails("sink_bin")
    BY <2>1 DEF BinFails
  <2>2. CASE BinMade("sink_bin", Sinks[snk])
    BY <2>2, BinMadeAdds DEF IInv, TypeOK
  <2>3. QED
    BY <2>1, <2>2 DEF CreateSinkBin
<1>3. /\ \A name, es : Contains(name, es) => Contains(name, es)'
      /\ \A es : Linked(es) => Linked(es)'
      /\ \A e : Parts(e)' = Parts(e)
  BY <1>1, <1>2, Grows
<1>4. TypeOK'
  BY <1>1, <1>2 DEF IInv, TypeOK, Needed, filterVars, runVars
<1>5. RunInv'
  BY <1>1 DEF IInv, RunInv, runVars
<1>6. SourceInv'
  <2>1. /\ "source_bin" \in null' <=> "source_bin" \in null
        /\ <<"source_bin", "qtdemux">> \in children'
             => <<"source_bin", "qtdemux">> \in children
        /\ <<"qtdemux", "h264parse">> \in links'
             => <<"qtdemux", "h264parse">> \in links
    BY <1>2 DEF OwnPads
  <2>2. QED
    BY <1>1, <1>2, <2>1, SourceKept
<1>7. SinkInv'
  <2>1. CASE BinFails("sink_bin")
    <3>1. IsNull("sink_bin")'
      BY <2>1 DEF BinFails, IsNull
    <3>2. QED
      BY <3>1 DEF SinkInv
  <2>2. CASE BinMade("sink_bin", Sinks[snk])
    <3>1. null \subseteq BinNames
      BY NoBinIsMissing DEF IInv
    <3>2. ASSUME NEW es \in Seq(Names), Sinks[snk] = Row(es)
          PROVE  Contains("sink_bin", Parts("sink_bin"))'
                 /\ Linked(Parts("sink_bin"))'
      <4>1. Contains("sink_bin", es)' /\ Linked(es)'
        BY <2>2, <3>1, <3>2, RowMade
      <4>2. Row(es).elements = es
        BY Zenon DEF Row, Bin
      <4>3. Parts("sink_bin") = es
        BY <3>2, <4>2, Ends DEF IInv
      <4>4. Parts("sink_bin")' = es
        BY <1>3, <4>3
      <4>5. QED
        BY <4>1, <4>4 DEF Contains, Linked
    <3>3. CASE Sinks[snk] = RenderSink
      <4>1. <<"eglglessink">> \in Seq(Names)
        BY DEF Names
      <4>2. QED
        BY <3>2, <3>3, <4>1 DEF RenderSink, SinkInv
    <3>4. CASE Sinks[snk] = TegraSink
      <4>1. <<"egltransform", "eglglessink">> \in Seq(Names)
        BY DEF Names
      <4>2. QED
        BY <3>2, <3>4, <4>1 DEF TegraSink, SinkInv
    <3>5. CASE Sinks[snk] = FileSink
      <4>1. <<"capsfilter", "h264enc", "h264parse_sink", "qtmux", "filesink">>
              \in Seq(Names)
        BY DEF Names
      <4>2. QED
        BY <3>2, <3>5, <4>1 DEF FileSink, SinkInv
    <3>6. QED
      BY <3>3, <3>4, <3>5, SinkCases DEF IInv, TypeOK
  <2>3. QED
    BY <2>1, <2>2 DEF CreateSinkBin
<1>8. FilterInv'
  BY <1>1 DEF IInv, FilterInv
<1>9. AddInv'
  BY <1>1, <1>2 DEF IInv, AddInv
<1>10. LinkInv'
  <2>1. links \cap Crossing = {}
    BY <1>1 DEF IInv, LinkInv
  <2>2. links' \cap Crossing = {}
    BY <1>2, <2>1 DEF Crossing, OwnPads
  <2>3. QED
    BY <1>1, <2>2 DEF LinkInv, Crossing
<1>11. QED
  BY <1>4, <1>5, <1>6, <1>7, <1>8, <1>9, <1>10 DEF IInv

LEMMA ReadConfigInv ==
  ASSUME IInv, ReadConfig
  PROVE  IInv'
<1> USE DEF AfterSource, AfterElements, AfterSink, AfterConfig, AfterFilter,
            AfterAdd, AfterLinkSource, AfterLink, AfterSave, AfterPlay
<1>1. /\ main_pc = "config" /\ main_pc' = "filter"
      /\ config' \in Configs
      /\ is_fpfilter_enabled' \in FpfilterStatus(config')
      /\ UNCHANGED <<buildVars, graphVars, main_element, runVars>>
      /\ children' = children /\ links' = links /\ null' = null
      /\ missing' = missing
  BY DEF ReadConfig, At, graphVars, buildVars
<1>2. is_fpfilter_enabled' \in BOOLEAN
  BY <1>1 DEF FpfilterStatus, Configs
<1>3. TypeOK'
  BY <1>1, <1>2 DEF IInv, TypeOK, Needed, buildVars, runVars
<1>4. RunInv'
  BY <1>1 DEF IInv, RunInv, runVars
<1>5. SourceInv'
  BY <1>1, SourceKept
<1>6. SinkInv'
  BY <1>1, SinkKept
<1>7. FilterInv'
  BY <1>1 DEF IInv, FilterInv
<1>8. AddInv'
  BY <1>1 DEF IInv, AddInv
<1>9. LinkInv'
  BY <1>1 DEF IInv, LinkInv
<1>10. QED
  BY <1>3, <1>4, <1>5, <1>6, <1>7, <1>8, <1>9 DEF IInv

LEMMA CreateFilterElementsBinInv ==
  ASSUME IInv, CreateFilterElementsBin
  PROVE  IInv'
<1> USE DEF AfterSource, AfterElements, AfterSink, AfterConfig, AfterFilter,
            AfterAdd, AfterLinkSource, AfterLink, AfterSave, AfterPlay
<1>1. CASE /\ ~is_fpfilter_enabled
           /\ At("filter", "add")
           /\ UNCHANGED <<buildVars, graphVars, filterVars, runVars>>
  <2>1. main_pc = "filter" /\ main_pc' = "add"
    BY <1>1 DEF At
  <2>2. TypeOK'
    BY <1>1, <2>1 DEF IInv, TypeOK, Needed, buildVars, graphVars, filterVars,
       runVars
  <2>3. RunInv'
    BY <1>1, <2>1 DEF IInv, RunInv, runVars
  <2>4. QED
    BY <1>1, <2>1, <2>2, <2>3, GraphKept
<1>2. ASSUME is_fpfilter_enabled, At("filter", "failed"),
             BinFails("fp-filter-bin"),
             UNCHANGED <<buildVars, config, is_fpfilter_enabled, main_element,
                         runVars>>
      PROVE  IInv'
  <2>1. /\ main_pc = "filter" /\ main_pc' = "failed"
        /\ null' = null \cup {"fp-filter-bin"}
        /\ children' = children /\ links' = links
    BY <1>2 DEF At, BinFails
  <2>2. TypeOK'
    BY <1>2, <2>1 DEF IInv, TypeOK, Needed, buildVars, runVars
  <2>3. RunInv'
    BY <1>2, <2>1 DEF IInv, RunInv, runVars
  <2>4. SourceInv'
    BY <1>2, <2>1, SourceKept
  <2>5. SinkInv' /\ FilterInv' /\ LinkInv'
    BY <2>1 DEF SinkInv, FilterInv, LinkInv
  <2>6. AddInv'
    BY <2>1 DEF IInv, AddInv
  <2>7. QED
    BY <2>2, <2>3, <2>4, <2>5, <2>6 DEF IInv
<1>3. ASSUME is_fpfilter_enabled, At("filter", "add"),
             SetTrackerProperties(tracker_config'),
             BinMade("fp-filter-bin", FilterBin),
             UNCHANGED <<buildVars, config, is_fpfilter_enabled, main_element,
                         runVars>>
      PROVE  IInv'
  <2>1. main_pc = "filter" /\ main_pc' = "add"
    BY <1>3 DEF At
  <2>2. /\ children \subseteq children' /\ links \subseteq links'
        /\ UNCHANGED null
        /\ \A c \in children' : c \in children \/ c[1] = "fp-filter-bin"
        /\ \A l \in links' : l \in links \/ l[1] \notin OwnPads
    BY <1>3, BinMadeAdds DEF IInv, TypeOK
  <2>3. TypeOK'
    BY <1>3, <2>1, <2>2 DEF IInv, TypeOK, Needed, buildVars, runVars
  <2>4. RunInv'
    BY <1>3, <2>1 DEF IInv, RunInv, runVars
  <2>5. SourceInv'
    <3>1. /\ <<"source_bin", "qtdemux">> \in children'
               => <<"source_bin", "qtdemux">> \in children
          /\ <<"qtdemux", "h264parse">> \in links'
               => <<"qtdemux", "h264parse">> \in links
      BY <2>2 DEF OwnPads
    <3>2. QED
      BY <1>3, <2>1, <2>2, <3>1, SourceKept
  <2>6. SinkInv'
    BY <1>3, <2>1, <2>2, SinkKept
  <2>7. FilterInv'
    <3>1. null \subseteq BinNames
      BY NoBinIsMissing DEF IInv
    <3> DEFINE es == <<"nvtracker", "nvinfer2", "nvfpfilter">>
    <3>2. es \in Seq(Names)
      BY DEF Names
    <3>3. BinMade("fp-filter-bin", Row(es))
      BY <1>3 DEF FilterBin
    <3>4. Contains("fp-filter-bin", es)' /\ Linked(es)'
      BY <3>1, <3>2, <3>3, RowMade
    <3>5. FilterBin.elements = es
      BY Zenon DEF FilterBin, Row, Bin
    <3>6. /\ Contains("fp-filter-bin", FilterBin.elements)'
          /\ Linked(FilterBin.elements)'
      BY <3>4, <3>5
    <3>7. MainElements \cap missing = {} /\ missing' = missing
      BY <1>3, <2>1 DEF IInv, FilterInv, buildVars
    <3>8. config' \in Configs /\ is_fpfilter_enabled' \in FpfilterStatus(config')
      BY <1>3, <2>1 DEF IInv, FilterInv
    <3>9. QED
      BY <1>3, <3>6, <3>7, <3>8 DEF FilterInv
  <2>8. AddInv'
    BY <2>1, <2>2 DEF IInv, AddInv
  <2>9. LinkInv'
    <3>1. links \cap Crossing = {}
      BY <2>1 DEF IInv, LinkInv
    <3>2. links' \cap Crossing = {}
      BY <2>2, <3>1 DEF Crossing, OwnPads
    <3>3. QED
      BY <2>1, <3>2 DEF LinkInv, Crossing
  <2>10. QED
    BY <2>3, <2>4, <2>5, <2>6, <2>7, <2>8, <2>9 DEF IInv
<1>4. QED
  BY <1>1, <1>2, <1>3 DEF CreateFilterElementsBin

\* What the checks of main and of its filter bin left behind.
LEMMA GoneOn ==
  ASSUME IInv, main_pc \in AfterFilter
  PROVE  /\ MainElements \cap missing = {}
         /\ main_pc # "failed" /\ ~IsNull("source_bin")
<1> USE DEF AfterSource, AfterElements, AfterSink, AfterConfig, AfterFilter,
            AfterAdd, AfterLinkSource, AfterLink, AfterSave, AfterPlay
<1>1. QED
  BY DEF IInv, FilterInv, SourceInv

LEMMA AddElementsInv ==
  ASSUME IInv, AddElements
  PROVE  IInv'
<1> USE DEF AfterSource, AfterElements, AfterSink, AfterConfig, AfterFilter,
            AfterAdd, AfterLinkSource, AfterLink, AfterSave, AfterPlay
<1> DEFINE more == IF is_fpfilter_enabled
                   THEN {<<"pipeline", "fp-filter-bin">>} ELSE {}
<1>1. /\ main_pc = "add" /\ main_pc' = "link_source"
      /\ main_element' = IF is_fpfilter_enabled THEN "fp-filter-bin" ELSE "NULL"
      /\ children' = children \cup AddMany("pipeline", Added) \cup more
      /\ links' = links /\ null' = null /\ missing' = missing
      /\ config' = config /\ tracker_config' = tracker_config
      /\ is_fpfilter_enabled' = is_fpfilter_enabled
      /\ UNCHANGED <<buildVars, runVars>>
  BY DEF AddElements, At, buildVars
<1>2. \A c \in AddMany("pipeline", Added) \cup more : c[1] = "pipeline"
  BY DEF AddMany
<1>3. \/ more = {<<"pipeline", "fp-filter-bin">>} /\ is_fpfilter_enabled
      \/ more = {} /\ ~is_fpfilter_enabled
  BY Zenon
<1> HIDE DEF more
<1>4. /\ \A e \in Range(Added) :
           \/ <<"pipeline", e>> \in AddMany("pipeline", Added)
           \/ e = "sink_bin" /\ IsNull(e)
      /\ <<"pipeline", "fp-filter-bin">> \notin AddMany("pipeline", Added)
  BY <1>1, GoneOn, AddedAll DEF IInv
<1>5. \A e : IsNull(e)' <=> IsNull(e)
  BY <1>1 DEF IsNull
<1>6. TypeOK'
  BY <1>1 DEF IInv, TypeOK, Needed, buildVars, runVars
<1>7. RunInv'
  BY <1>1 DEF IInv, RunInv, runVars
<1>8. SourceInv'
  <2>1. <<"source_bin", "qtdemux">> \in children'
          => <<"source_bin", "qtdemux">> \in children
    BY <1>1, <1>2
  <2>2. QED
    BY <1>1, <2>1, SourceKept
<1>9. SinkInv'
  BY <1>1, SinkKept
<1>10. FilterInv'
  BY <1>1, Grows DEF IInv, FilterInv
<1>11. AddInv'
  <2>1. <<"pipeline", "fp-filter-bin">> \notin children
    BY <1>1 DEF IInv, AddInv
  <2>2. <<"pipeline", "fp-filter-bin">> \in children' <=> is_fpfilter_enabled'
    BY <1>1, <1>3, <1>4, <2>1
  <2>3. \A e \in Range(Added) :
          <<"pipeline", e>> \in children' \/ (e = "sink_bin" /\ IsNull(e)')
    BY <1>1, <1>4, <1>5
  <2>4. QED
    BY <1>1, <2>2, <2>3 DEF AddInv
<1>12. LinkInv'
  BY <1>1 DEF IInv, LinkInv
<1>13. QED
  BY <1>6, <1>7, <1>8, <1>9, <1>10, <1>11, <1>12 DEF IInv

\* A step of main that links elements, and does nothing else.
LEMMA OnlyLinks ==
  ASSUME IInv, UNCHANGED <<buildVars, null, children, filterVars, runVars>>,
         links \subseteq links',
         <<"qtdemux", "h264parse">> \in links'
           => <<"qtdemux", "h264parse">> \in links,
         \/ main_pc = "link_source" /\ main_pc' = "link"
         \/ main_pc = "link" /\ main_pc' = "start_save"
  PROVE  TypeOK' /\ RunInv' /\ SourceInv' /\ SinkInv' /\ FilterInv' /\ AddInv'
<1> USE DEF AfterSource, AfterElements, AfterSink, AfterConfig, AfterFilter,
            AfterAdd, AfterLinkSource, AfterLink, AfterSave, AfterPlay
<1>1. /\ children' = children /\ null' = null /\ missing' = missing
      /\ config' = config /\ tracker_config' = tracker_config
      /\ is_fpfilter_enabled' = is_fpfilter_enabled
      /\ main_element' = main_element
  BY DEF buildVars, filterVars
<1>2. TypeOK'
  BY <1>1 DEF IInv, TypeOK, Needed, buildVars, runVars
<1>3. RunInv'
  BY <1>1 DEF IInv, RunInv, runVars
<1>4. SourceInv'
  BY <1>1, SourceKept
<1>5. SinkInv'
  BY <1>1, SinkKept
<1>6. FilterInv'
  BY <1>1, Grows DEF IInv, FilterInv
<1>7. \A e : IsNull(e)' <=> IsNull(e)
  BY <1>1 DEF IsNull
<1>8. AddInv'
  BY <1>1, <1>7 DEF IInv, AddInv
<1>9. QED
  BY <1>2, <1>3, <1>4, <1>5, <1>6, <1>8

LEMMA LinkSourceInv ==
  ASSUME IInv, LinkSource
  PROVE  IInv'
<1> USE DEF AfterSource, AfterElements, AfterSink, AfterConfig, AfterFilter,
            AfterAdd, AfterLinkSource, AfterLink, AfterSave, AfterPlay
<1>1. CASE Failed("link_source")
  BY <1>1, FailedInv
<1>2. CASE ~Failed("link_source")
  <2>1. /\ main_pc = "link_source" /\ main_pc' = "link"
        /\ links' = links \cup LinkMany(<<"source_bin", "streammux">>)
        /\ UNCHANGED <<buildVars, null, children, filterVars, runVars>>
    BY <1>2 DEF LinkSource, At
  <2>2. /\ <<SrcEnd("source_bin"), "streammux">> \in links'
        /\ LinkMany(<<"source_bin", "streammux">>) \cap Crossing = {}
        /\ <<"qtdemux", "h264parse">>
             \notin LinkMany(<<"source_bin", "streammux">>)
    BY <2>1, GoneOn, SourceLinked DEF IInv
  <2>3. TypeOK' /\ RunInv' /\ SourceInv' /\ SinkInv' /\ FilterInv' /\ AddInv'
    BY <2>1, <2>2, OnlyLinks
  <2>4. LinkInv'
    <3>1. SrcEnd("source_bin")' = SrcEnd("source_bin")
      BY <2>1, Grows
    <3>2. links' \cap Crossing = {}
      BY <2>1, <2>2 DEF IInv, LinkInv
    <3>3. QED
      BY <2>1, <2>2, <3>1, <3>2 DEF LinkInv, Crossing
  <2>5. QED
    BY <2>3, <2>4 DEF IInv
<1>3. QED
  BY <1>1, <1>2

LEMMA LinkElementsInv ==
  ASSUME IInv, LinkElements
  PROVE  IInv'
<1> USE DEF AfterSource, AfterElements, AfterSink, AfterConfig, AfterFilter,
            AfterAdd, AfterLinkSource, AfterLink, AfterSave, AfterPlay
<1>1. CASE Failed("link")
  BY <1>1, FailedInv
<1>2. CASE ~Failed("link")
  <2> DEFINE ch == Chain(is_fpfilter_enabled)
  <2>1. /\ main_pc = "link" /\ main_pc' = "start_save"
        /\ links' = links \cup LinkMany(ch)
        /\ UNCHANGED <<buildVars, null, children, filterVars, runVars>>
    BY <1>2 DEF LinkElements, At
  <2>2. /\ {<<"streammux", "nvinfer1">>, <<"nvinfer1", "nvvidconv1">>,
            <<"nvvidconv2", "nvosd">>, <<"nvosd", "nvvidconv3">>}
              \subseteq LinkMany(ch)
        /\ \/ <<"nvvidconv3", SinkEnd("sink_bin")>> \in LinkMany(ch)
           \/ IsNull("sink_bin")
        /\ LinkMany(ch) \cap Crossing = CrossingFor(is_fpfilter_enabled)
        /\ <<"qtdemux", "h264parse">> \notin LinkMany(ch)
    <3>1. /\ TypeOK /\ MainElements \cap missing = {} /\ main_pc # "failed"
          /\ is_fpfilter_enabled \in BOOLEAN
      BY <2>1, GoneOn DEF IInv, TypeOK
    <3>2. CASE is_fpfilter_enabled
      <4>1. ch = Chain(TRUE)
        BY <3>1, <3>2, Zenon
      <4>2. CrossingFor(is_fpfilter_enabled)
              = {<<"nvvidconv1", "nvtracker">>, <<"nvfpfilter", "nvvidconv2">>}
        BY <3>2, Zenon DEF CrossingFor
      <4> HIDE DEF ch
      <4>3. /\ ch \in Seq(MainNames) /\ Len(ch) = 8
            /\ ch[1] = "streammux" /\ ch[2] = "nvinfer1"
            /\ ch[3] = "nvvidconv1" /\ ch[4] = "fp-filter-bin"
            /\ ch[5] = "nvvidconv2" /\ ch[6] = "nvosd"
            /\ ch[7] = "nvvidconv3" /\ ch[8] = "sink_bin"
        BY <4>1, Lists, Zenon
      <4>4. QED
        BY <3>1, <4>2, <4>3, ThroughFilter
    <3>3. CASE ~is_fpfilter_enabled
      <4>1. ch = Chain(FALSE)
        BY <3>1, <3>3, Zenon
      <4>2. CrossingFor(is_fpfilter_enabled) = {<<"nvvidconv1", "nvvidconv2">>}
        BY <3>3, Zenon DEF CrossingFor
      <4> HIDE DEF ch
      <4>3. /\ ch \in Seq(MainNames) /\ Len(ch) = 7
            /\ ch[1] = "streammux" /\ ch[2] = "nvinfer1"
            /\ ch[3] = "nvvidconv1" /\ ch[4] = "nvvidconv2"
            /\ ch[5] = "nvosd" /\ ch[6] = "nvvidconv3" /\ ch[7] = "sink_bin"
        BY <4>1, Lists, Zenon
      <4>4. QED
        BY <3>1, <4>2, <4>3, PastFilter
    <3>4. QED
      BY <3>2, <3>3
  <2> HIDE DEF ch
  <2>3. TypeOK' /\ RunInv' /\ SourceInv' /\ SinkInv' /\ FilterInv' /\ AddInv'
    BY <2>1, <2>2, OnlyLinks
  <2>4. LinkInv'
    <3>1. /\ SrcEnd("source_bin")' = SrcEnd("source_bin")
          /\ SinkEnd("sink_bin")' = SinkEnd("sink_bin")
      BY <2>1, Grows
    <3>2. IsNull("sink_bin")' <=> IsNull("sink_bin")
      BY <2>1 DEF IsNull, buildVars
    <3>3. is_fpfilter_enabled' = is_fpfilter_enabled
      BY <2>1 DEF filterVars
    <3>4. /\ links \cap Crossing = {}
          /\ <<SrcEnd("source_bin"), "streammux">> \in links
      BY <2>1 DEF IInv, LinkInv
    <3>5. links' \cap Crossing = CrossingFor(is_fpfilter_enabled)
      BY <2>1, <2>2, <3>4
    <3>6. CrossingFor(is_fpfilter_enabled)' = CrossingFor(is_fpfilter_enabled)
      BY <3>3 DEF CrossingFor
    <3>7. (links \cap Crossing)' = CrossingFor(is_fpfilter_enabled)'
      BY <3>5, <3>6 DEF Crossing
    <3>8. Linked(<<"streammux", "nvinfer1", "nvvidconv1">>)'
      BY <2>1, <2>2 DEF Linked
    <3>9. Linked(<<"nvvidconv2", "nvosd", "nvvidconv3">>)'
      BY <2>1, <2>2 DEF Linked
    <3>10. \/ <<"nvvidconv3", SinkEnd("sink_bin")'>> \in links'
           \/ IsNull("sink_bin")'
      BY <2>1, <2>2, <3>1, <3>2
    <3>11. <<SrcEnd("source_bin")', "streammux">> \in links'
      BY <2>1, <3>1, <3>4
    <3>12. QED
      BY <2>1, <3>7, <3>8, <3>9, <3>10, <3>11 DEF LinkInv
  <2>5. QED
    BY <2>3, <2>4 DEF IInv
<1>3. QED
  BY <1>1, <1>2

LEMMA StartSavingInv ==
  ASSUME IInv, StartSaving
  PROVE  IInv'
<1> USE DEF AfterSource, AfterElements, AfterSink, AfterConfig, AfterFilter,
            AfterAdd, AfterLinkSource, AfterLink, AfterSave, AfterPlay
<1>1. CASE Failed("start_save")
  BY <1>1, FailedInv
<1>2. CASE ~Failed("start_save")
  <2>1. /\ main_pc = "start_save" /\ main_pc' = "play"
        /\ probed' = TRUE /\ threads' = {"save"}
        /\ UNCHANGED <<buildVars, graphVars, filterVars, playing, pads>>
    BY <1>2 DEF StartSaving, At
  <2>2. TypeOK'
    BY <2>1 DEF IInv, TypeOK, Needed, buildVars, graphVars, filterVars
  <2>3. RunInv'
    BY <2>1 DEF IInv, RunInv
  <2>4. QED
    BY <2>1, <2>2, <2>3, GraphKept
<1>3. QED
  BY <1>1, <1>2

LEMMA PlayInv ==
  ASSUME IInv, Play
  PROVE  IInv'
<1> USE DEF AfterSource, AfterElements, AfterSink, AfterConfig, AfterFilter,
            AfterAdd, AfterLinkSource, AfterLink, AfterSave, AfterPlay
<1>1. /\ main_pc = "play" /\ main_pc' = "start_server" /\ playing' = TRUE
      /\ UNCHANGED <<buildVars, graphVars, filterVars, probed, threads, pads>>
  BY DEF Play, At
<1>2. TypeOK'
  BY <1>1 DEF IInv, TypeOK, Needed, buildVars, graphVars, filterVars
<1>3. RunInv'
  BY <1>1 DEF IInv, RunInv
<1>4. QED
  BY <1>1, <1>2, <1>3, GraphKept

LEMMA StartUsrPromptMonitorInv ==
  ASSUME IInv, StartUsrPromptMonitor
  PROVE  IInv'
<1> USE DEF AfterSource, AfterElements, AfterSink, AfterConfig, AfterFilter,
            AfterAdd, AfterLinkSource, AfterLink, AfterSave, AfterPlay
<1>1. /\ main_pc = "start_server" /\ main_pc' = "running"
      /\ threads' = threads \cup {"prompt"}
      /\ UNCHANGED <<buildVars, graphVars, filterVars, probed, playing, pads>>
  BY DEF StartUsrPromptMonitor, At
<1>2. TypeOK'
  BY <1>1 DEF IInv, TypeOK, Needed, buildVars, graphVars, filterVars
<1>3. RunInv'
  BY <1>1 DEF IInv, RunInv
<1>4. QED
  BY <1>1, <1>2, <1>3, GraphKept

\* The streaming thread links the parser only behind a demuxer that is there.
LEMMA QtdemuxNewPadCbInv ==
  ASSUME IInv, NEW pad, QtdemuxNewPadCb(pad)
  PROVE  IInv'
<1> USE DEF AfterSource, AfterElements, AfterSink, AfterConfig, AfterFilter,
            AfterAdd, AfterLinkSource, AfterLink, AfterSave, AfterPlay
<1>1. /\ playing /\ <<"source_bin", "qtdemux">> \in children
      /\ links \subseteq links'
      /\ links' \subseteq links \cup {<<"qtdemux", "h264parse">>}
      /\ UNCHANGED <<buildVars, main_pc, null, children, filterVars, probed,
                     threads, playing>>
      /\ children' = children /\ null' = null /\ missing' = missing
      /\ config' = config /\ tracker_config' = tracker_config
      /\ is_fpfilter_enabled' = is_fpfilter_enabled
      /\ main_element' = main_element
  BY DEF QtdemuxNewPadCb, buildVars, filterVars
<1>2. main_pc \in AfterPlay /\ main_pc' = main_pc
  BY <1>1 DEF IInv, RunInv
<1>3. TypeOK'
  BY <1>1 DEF IInv, TypeOK, Needed, buildVars
<1>4. RunInv'
  BY <1>1 DEF IInv, RunInv
<1>5. SourceInv'
  BY <1>1, <1>2, SourceKept
<1>6. SinkInv'
  BY <1>1, <1>2, SinkKept
<1>7. FilterInv'
  BY <1>1, Grows DEF IInv, FilterInv
<1>8. \A e : IsNull(e)' <=> IsNull(e)
  BY <1>1 DEF IsNull
<1>9. AddInv'
  BY <1>1, <1>8 DEF IInv, AddInv
<1>10. LinkInv'
  <2>1. /\ \A es : Linked(es) => Linked(es)'
        /\ \A e : SrcEnd(e)' = SrcEnd(e) /\ SinkEnd(e)' = SinkEnd(e)
    BY <1>1, Grows
  <2>2. links' \cap Crossing = links \cap Crossing
    BY <1>1 DEF Crossing
  <2>3. (links \cap Crossing)' = CrossingFor(is_fpfilter_enabled)'
    BY <1>1, <1>2, <2>2 DEF IInv, LinkInv, Crossing, CrossingFor
  <2>4. QED
    BY <1>1, <1>2, <1>8, <2>1, <2>3 DEF IInv, LinkInv
<1>11. QED
  BY <1>3, <1>4, <1>5, <1>6, <1>7, <1>9, <1>10 DEF IInv

LEMMA NextInv ==
  ASSUME IInv, [Next]_vars
  PROVE  IInv'
<1>1. CASE CreateSourceBin
  BY <1>1, CreateSourceBinInv
<1>2. CASE CreateElements
  BY <1>2, CreateElementsInv
<1>3. CASE CreateSinkBin
  BY <1>3, CreateSinkBinInv
<1>4. CASE ReadConfig
  BY <1>4, ReadConfigInv
<1>5. CASE CreateFilterElementsBin
  BY <1>5, CreateFilterElementsBinInv
<1>6. CASE AddElements
  BY <1>6, AddElementsInv
<1>7. CASE LinkSource
  BY <1>7, LinkSourceInv
<1>8. CASE LinkElements
  BY <1>8, LinkElementsInv
<1>9. CASE StartSaving
  BY <1>9, StartSavingInv
<1>10. CASE Play
  BY <1>10, PlayInv
<1>11. CASE StartUsrPromptMonitor
  BY <1>11, StartUsrPromptMonitorInv
<1>12. CASE \E pad \in {"video_0", "audio_0"} : QtdemuxNewPadCb(pad)
  BY <1>12, QtdemuxNewPadCbInv
<1>13. CASE UNCHANGED vars
  <2>1. /\ UNCHANGED <<buildVars, graphVars, filterVars, runVars>>
        /\ main_pc' = main_pc
    BY <1>13 DEF vars
  <2>2. /\ src' = src /\ snk' = snk /\ missing' = missing /\ null' = null
        /\ links' = links /\ children' = children /\ config' = config
        /\ tracker_config' = tracker_config
        /\ is_fpfilter_enabled' = is_fpfilter_enabled
        /\ main_element' = main_element /\ probed' = probed
        /\ threads' = threads /\ playing' = playing /\ pads' = pads
    BY <2>1 DEF buildVars, graphVars, filterVars, runVars
  <2>3. TypeOK' /\ RunInv'
    BY <2>1, <2>2 DEF IInv, TypeOK, Needed, RunInv
  <2>4. \A e : IsNull(e)' <=> IsNull(e)
    BY <2>2 DEF IsNull
  <2>5. /\ \A name, es : Contains(name, es)' <=> Contains(name, es)
        /\ \A es : Linked(es)' <=> Linked(es)
        /\ \A e : Parts(e)' = Parts(e) /\ SrcEnd(e)' = SrcEnd(e)
                                       /\ SinkEnd(e)' = SinkEnd(e)
    BY <2>1, <2>2, Grows DEF Contains, Linked
  <2>6. SourceInv'
    BY <2>1, <2>2, <2>4, <2>5 DEF IInv, SourceInv
  <2>7. SinkInv'
    BY <2>1, <2>4, <2>5 DEF IInv, SinkInv
  <2>8. FilterInv'
    BY <2>1, <2>2, <2>5 DEF IInv, FilterInv
  <2>9. AddInv'
    BY <2>1, <2>2, <2>4 DEF IInv, AddInv
  <2>10. LinkInv'
    BY <2>1, <2>2, <2>4, <2>5 DEF IInv, LinkInv, Crossing, CrossingFor
  <2>11. QED
    BY <2>3, <2>6, <2>7, <2>8, <2>9, <2>10 DEF IInv
<1>14. QED
  BY <1>1, <1>2, <1>3, <1>4, <1>5, <1>6, <1>7, <1>8, <1>9, <1>10, <1>11,
     <1>12, <1>13 DEF Next

\* What each step of main leaves to the next ones holds at every moment: the
\* bins that are there are complete and linked, the flag is what the file says,
\* and between the converters is what the flag says.
THEOREM InductiveInvariant == Spec => []IInv
<1>1. IInv /\ [Next]_vars => IInv'
  BY NextInv
<1>2. QED
  BY InitInv, <1>1, PTL DEF Spec

-----------------------------------------------------------------------------
(* What follows for a start that failed, and for a pipeline that plays.     *)

\* Wherever main returns -1, it has started no thread and the pipeline does not
\* play.
THEOREM NothingLeftRunning == Spec => []FailureLeavesNothingRunning
<1>1. IInv => FailureLeavesNothingRunning
  BY DEF IInv, RunInv, FailureLeavesNothingRunning, AfterSave, AfterPlay
<1>2. QED
  BY <1>1, InductiveInvariant, PTL

\* The probe, the queue and the save thread are there before the first frame.
THEOREM ReadyFirst == Spec => []ReadyBeforePlaying
<1>1. IInv => ReadyBeforePlaying
  BY DEF IInv, RunInv, ReadyBeforePlaying, AfterSave
<1>2. QED
  BY <1>1, InductiveInvariant, PTL

\* What holds between the converters of a pipeline that plays.
LEMMA WhenPlaying ==
  ASSUME IInv, playing
  PROVE  /\ main_pc \in AfterLink /\ main_pc \in AfterAdd
         /\ main_pc \in AfterFilter /\ main_pc \in AfterConfig
         /\ main_pc \in AfterSource /\ main_pc \in AfterSink
         /\ main_pc \in AfterElements /\ main_pc \in AfterLinkSource
         /\ links \cap Crossing = CrossingFor(is_fpfilter_enabled)
         /\ is_fpfilter_enabled \in BOOLEAN
<1> USE DEF AfterSource, AfterElements, AfterSink, AfterConfig, AfterFilter,
            AfterAdd, AfterLinkSource, AfterLink, AfterSave, AfterPlay
<1>1. main_pc \in AfterPlay
  BY DEF IInv, RunInv
<1>2. links \cap Crossing = CrossingFor(is_fpfilter_enabled)
  BY <1>1 DEF IInv, LinkInv
<1>3. is_fpfilter_enabled \in BOOLEAN
  BY DEF IInv, TypeOK
<1>4. QED
  BY <1>1, <1>2, <1>3

\* Frames go through the filter, or past it, as the configuration says, and
\* through it only behind a tracker that could be configured.
THEOREM FilterIsConfigured == Spec => []FilterAsConfigured
<1> DEFINE through == /\ <<"nvvidconv1", "nvtracker">> \in links
                      /\ <<"nvfpfilter", "nvvidconv2">> \in links
                      /\ tracker_config \in {"good", "unknown_key"}
           past == <<"nvvidconv1", "nvvidconv2">> \in links
<1>1. ASSUME IInv, playing
      PROVE  /\ is_fpfilter_enabled => through
             /\ ~is_fpfilter_enabled => past
             /\ config \in Configs
             /\ is_fpfilter_enabled \in FpfilterStatus(config)
  <2>1. /\ links \cap Crossing = CrossingFor(is_fpfilter_enabled)
        /\ main_pc \in AfterConfig /\ main_pc \in AfterFilter
    BY <1>1, WhenPlaying
  <2>2. /\ config \in Configs
        /\ is_fpfilter_enabled \in FpfilterStatus(config)
        /\ is_fpfilter_enabled => tracker_config \in {"good", "unknown_key"}
    BY <1>1, <2>1 DEF IInv, FilterInv, SetTrackerProperties
  <2>3. CASE is_fpfilter_enabled
    BY <2>1, <2>2, <2>3 DEF CrossingFor
  <2>4. CASE ~is_fpfilter_enabled
    BY <2>1, <2>2, <2>4 DEF CrossingFor
  <2>5. QED
    BY <2>2, <2>3, <2>4
<1>2. ASSUME IInv PROVE FilterAsConfigured
  <2>1. SUFFICES ASSUME playing
                 PROVE  CASE config \in {"no_key", "1"} -> through
                          [] config \in {"0", "bad"} -> past
                          [] OTHER -> through \/ past
    BY DEF FilterAsConfigured
  <2>2. CASE config \in {"no_key", "1"}
    <3>1. is_fpfilter_enabled
      BY <1>1, <1>2, <2>1, <2>2 DEF FpfilterStatus
    <3>2. QED
      BY <1>1, <1>2, <2>1, <2>2, <3>1
  <2>3. CASE config \in {"0", "bad"}
    <3>1. ~is_fpfilter_enabled
      BY <1>1, <1>2, <2>1, <2>3 DEF FpfilterStatus
    <3>2. QED
      BY <1>1, <1>2, <2>1, <2>3, <3>1
  <2>4. CASE config \notin {"no_key", "1", "0", "bad"}
    <3>1. through \/ past
      BY <1>1, <1>2, <2>1
    <3>2. QED
      BY <2>4, <3>1
  <2>5. QED
    BY <2>2, <2>3, <2>4
<1>3. QED
  BY <1>2, InductiveInvariant, PTL

\* A list that is linked to the end of another one makes a longer one.
LEMMA Join ==
  ASSUME NEW S, NEW a \in Seq(S), NEW b \in Seq(S), Len(a) > 0, Len(b) > 0,
         Linked(a), Linked(b), <<a[Len(a)], b[1]>> \in links
  PROVE  /\ a \o b \in Seq(S) /\ Len(a \o b) > 0 /\ Linked(a \o b)
         /\ (a \o b)[Len(a \o b)] = b[Len(b)]
         /\ \A e : e \in Range(a \o b) <=> e \in Range(a) \/ e \in Range(b)
<1> DEFINE c == a \o b
<1>1. /\ c \in Seq(S) /\ Len(c) = Len(a) + Len(b)
      /\ Len(a) \in Nat /\ Len(b) \in Nat
      /\ \A i \in 1..Len(a) : c[i] = a[i]
      /\ \A i \in 1..Len(b) : c[Len(a) + i] = b[i]
  BY Concat
<1>2. DOMAIN c = 1..Len(c) /\ DOMAIN a = 1..Len(a) /\ DOMAIN b = 1..Len(b)
  BY <1>1, LenProperties
<1> HIDE DEF c
<1>3. ASSUME NEW i \in 1..Len(c)
      PROVE  \/ i \in 1..Len(a) /\ c[i] = a[i]
             \/ i - Len(a) \in 1..Len(b) /\ c[i] = b[i - Len(a)]
  <2>1. CASE i \in 1..Len(a)
    BY <1>1, <2>1
  <2>2. CASE i \notin 1..Len(a)
    <3>1. i - Len(a) \in 1..Len(b) /\ Len(a) + (i - Len(a)) = i
      BY <1>1, <2>2
    <3>2. QED
      BY <1>1, <3>1
  <2>3. QED
    BY <2>1, <2>2
<1>4. ASSUME NEW i \in 1..(Len(c) - 1) PROVE <<c[i], c[i + 1]>> \in links
  <2>1. CASE i \in 1..(Len(a) - 1)
    <3>1. i \in 1..Len(a) /\ i + 1 \in 1..Len(a)
      BY <1>1, <2>1
    <3>2. QED
      BY <1>1, <2>1, <3>1 DEF Linked
  <2>2. CASE i = Len(a)
    <3>1. c[i] = a[Len(a)] /\ c[i + 1] = b[1]
      BY <1>1, <2>2
    <3>2. QED
      BY <3>1
  <2>3. CASE i \notin 1..Len(a)
    <3> DEFINE j == i - Len(a)
    <3>1. /\ j \in 1..(Len(b) - 1) /\ j \in 1..Len(b) /\ j + 1 \in 1..Len(b)
          /\ Len(a) + j = i /\ Len(a) + (j + 1) = i + 1
      BY <1>1, <2>3
    <3> HIDE DEF j
    <3>2. c[i] = b[j] /\ c[i + 1] = b[j + 1]
      BY <1>1, <3>1
    <3>3. QED
      BY <3>1, <3>2 DEF Linked
  <2>4. QED
    BY <1>1, <2>1, <2>2, <2>3
<1>5. c[Len(c)] = b[Len(b)] /\ Len(c) > 0
  BY <1>1
<1>6. ASSUME NEW e PROVE e \in Range(c) <=> e \in Range(a) \/ e \in Range(b)
  <2>1. /\ e \in Range(c) <=> \E i \in 1..Len(c) : e = c[i]
        /\ e \in Range(a) <=> \E i \in 1..Len(a) : e = a[i]
        /\ e \in Range(b) <=> \E i \in 1..Len(b) : e = b[i]
    BY <1>2, Zenon DEF Range
  <2>2. ASSUME NEW i \in 1..Len(a), e = a[i] PROVE \E k \in 1..Len(c) : e = c[k]
    <3>1. i \in 1..Len(c) /\ c[i] = a[i]
      BY <1>1
    <3>2. QED
      BY <2>2, <3>1
  <2>3. ASSUME NEW i \in 1..Len(b), e = b[i] PROVE \E k \in 1..Len(c) : e = c[k]
    <3>1. Len(a) + i \in 1..Len(c) /\ c[Len(a) + i] = b[i]
      BY <1>1
    <3>2. QED
      BY <2>3, <3>1
  <2>4. QED
    BY <1>3, <2>1, <2>2, <2>3
<1>7. QED
  BY <1>1, <1>4, <1>5, <1>6 DEF c, Linked

AllNames == Names \cup MainElements

\* The elements of the bins, as lists.
LEMMA BinParts ==
  ASSUME TypeOK
  PROVE  /\ Parts("source_bin") \in Seq(AllNames) /\ Len(Parts("source_bin")) > 0
         /\ Parts("sink_bin") \in Seq(AllNames) /\ Len(Parts("sink_bin")) > 0
<1> DEFINE OK(es) == es \in Seq(AllNames) /\ Len(es) > 0
<1>1. OK(<<"filesrc", "qtdemux", "h264parse", "decoder">>)
  BY DEF AllNames, Names
<1>2. OK(<<"filesrc", "h264parse", "decoder">>)
  BY DEF AllNames, Names
<1>3. OK(<<"multifilesrc", "jpegparse", "decoder">>)
  BY DEF AllNames, Names
<1>4. OK(<<"eglglessink">>)
  BY DEF AllNames, Names
<1>5. OK(<<"egltransform", "eglglessink">>)
  BY DEF AllNames, Names
<1>6. OK(<<"capsfilter", "h264enc", "h264parse_sink", "qtmux", "filesink">>)
  BY DEF AllNames, Names
<1> HIDE DEF OK
<1>7. OK(Sources[src].elements) /\ OK(Sinks[snk].elements)
  BY <1>1, <1>2, <1>3, <1>4, <1>5, <1>6, BinLists, SourceCases, SinkCases
     DEF TypeOK
<1>8. QED
  BY <1>7, Ends DEF OK

\* The source bin is linked in a row if the demuxer has linked its video.
LEMMA SourceInARow ==
  ASSUME IInv, playing,
         src = "MP4_SRC" => <<"qtdemux", "h264parse">> \in links
  PROVE  /\ Contains("source_bin", Parts("source_bin"))
         /\ Linked(Parts("source_bin"))
<1>1. /\ main_pc \in AfterSource /\ main_pc \in AfterElements /\ TypeOK
      /\ Parts("source_bin") = Sources[src].elements
  BY WhenPlaying, Ends DEF IInv
<1>2. /\ Contains("source_bin", Sources[src].elements)
      /\ \A es \in Sources[src].chains : Linked(es)
  BY <1>1 DEF IInv, SourceInv
<1>3. \A es : Row(es).elements = es /\ Row(es).chains = {es}
  BY Zenon DEF Row, Bin
<1>4. CASE Sources[src] = H264Source
  BY <1>1, <1>2, <1>3, <1>4 DEF H264Source
<1>5. CASE Sources[src] = MultiFileSource
  BY <1>1, <1>2, <1>3, <1>5 DEF MultiFileSource
<1>6. CASE src = "MP4_SRC" /\ Sources[src] = Mp4Source
  <2> DEFINE all == <<"filesrc", "qtdemux", "h264parse", "decoder">>
             front == <<"filesrc", "qtdemux">>
             back == <<"h264parse", "decoder">>
  <2>1. Mp4Source.elements = all /\ Mp4Source.chains = {front, back}
    BY Zenon DEF Mp4Source, Bin
  <2>2. Linked(front) /\ Linked(back)
    BY <1>2, <1>6, <2>1
  <2>3. /\ <<"filesrc", "qtdemux">> \in links
        /\ <<"h264parse", "decoder">> \in links
    BY <2>2 DEF Linked
  <2>4. Linked(all)
    <3>1. /\ Len(all) = 4 /\ all[1] = "filesrc" /\ all[2] = "qtdemux"
          /\ all[3] = "h264parse" /\ all[4] = "decoder"
      OBVIOUS
    <3> HIDE DEF all
    <3>2. /\ <<all[1], all[2]>> \in links /\ <<all[2], all[3]>> \in links
          /\ <<all[3], all[4]>> \in links
      BY <1>6, <2>3, <3>1
    <3>3. \A i \in 1..(4 - 1) : i = 1 \/ i = 2 \/ i = 3
      OBVIOUS
    <3>4. QED
      BY <3>1, <3>2, <3>3 DEF Linked
  <2>5. QED
    BY <1>1, <1>2, <1>6, <2>1, <2>4
<1>7. QED
  BY <1>1, <1>4, <1>5, <1>6, SourceCases DEF TypeOK

\* What main's own elements and the filter are linked to.
LEMMA MainLinked ==
  ASSUME IInv, playing, ~IsNull("sink_bin")
  PROVE  /\ Linked(<<"streammux", "nvinfer1", "nvvidconv1">>)
         /\ Linked(<<"nvvidconv2", "nvosd", "nvvidconv3">>)
         /\ <<SrcEnd("source_bin"), "streammux">> \in links
         /\ <<"nvvidconv3", SinkEnd("sink_bin")>> \in links
         /\ Linked(Parts("sink_bin"))
         /\ \/ /\ main_element = "NULL"
               /\ <<"nvvidconv1", "nvvidconv2">> \in links
            \/ /\ main_element = "fp-filter-bin"
               /\ <<"nvvidconv1", "nvtracker">> \in links
               /\ <<"nvfpfilter", "nvvidconv2">> \in links
               /\ Linked(FilterBin.elements)
<1>1. /\ main_pc \in AfterLink /\ main_pc \in AfterAdd
      /\ main_pc \in AfterFilter /\ main_pc \in AfterLinkSource
      /\ main_pc \in AfterSink
      /\ links \cap Crossing = CrossingFor(is_fpfilter_enabled)
  BY WhenPlaying
<1>2. /\ Linked(<<"streammux", "nvinfer1", "nvvidconv1">>)
      /\ Linked(<<"nvvidconv2", "nvosd", "nvvidconv3">>)
      /\ <<SrcEnd("source_bin"), "streammux">> \in links
      /\ <<"nvvidconv3", SinkEnd("sink_bin")>> \in links
  BY <1>1 DEF IInv, LinkInv
<1>3. Linked(Parts("sink_bin"))
  BY <1>1 DEF IInv, SinkInv
<1>4. main_element = IF is_fpfilter_enabled THEN "fp-filter-bin" ELSE "NULL"
  BY <1>1 DEF IInv, AddInv
<1>5. CASE is_fpfilter_enabled
  <2>1. Linked(FilterBin.elements)
    BY <1>1, <1>5 DEF IInv, FilterInv
  <2>2. main_element = "fp-filter-bin"
    BY <1>4, <1>5
  <2>3. /\ <<"nvvidconv1", "nvtracker">> \in links
        /\ <<"nvfpfilter", "nvvidconv2">> \in links
    BY <1>1, <1>5 DEF CrossingFor
  <2>4. QED
    BY <1>2, <1>3, <2>1, <2>2, <2>3
<1>6. CASE ~is_fpfilter_enabled
  <2>1. main_element = "NULL"
    BY <1>4, <1>6
  <2>2. <<"nvvidconv1", "nvvidconv2">> \in links
    BY <1>1, <1>6 DEF CrossingFor
  <2>3. QED
    BY <1>2, <1>3, <2>1, <2>2
<1>7. QED
  BY <1>5, <1>6

\* What is in the pipeline, by itself or in a bin.
LEMMA AllInPipeline ==
  ASSUME IInv, playing, ~IsNull("sink_bin"),
         Contains("source_bin", Parts("source_bin"))
  PROVE  /\ \A e \in Range(Parts("source_bin")) : InPipeline(e)
         /\ \A e \in Range(Parts("sink_bin")) : InPipeline(e)
         /\ \A e \in MainElements : InPipeline(e)
         /\ main_element # "NULL" =>
              \A e \in Range(FilterBin.elements) : InPipeline(e)
<1>1. /\ main_pc \in AfterAdd /\ main_pc \in AfterFilter /\ main_pc \in AfterSink
  BY WhenPlaying
<1>2. \A bin : \A e :
        <<"pipeline", bin>> \in children /\ <<bin, e>> \in children
          => InPipeline(e)
  BY DEF InPipeline
<1>3. /\ \A e \in Range(Added) :
           <<"pipeline", e>> \in children \/ (e = "sink_bin" /\ IsNull(e))
      /\ <<"pipeline", "fp-filter-bin">> \in children <=> is_fpfilter_enabled
      /\ main_element = IF is_fpfilter_enabled THEN "fp-filter-bin" ELSE "NULL"
  BY <1>1 DEF IInv, AddInv
<1>4. \A e \in MainElements \cup {"source_bin", "sink_bin"} : e \in Range(Added)
  BY Lists DEF Range, MainElements
<1>5. \A e \in MainElements \cup {"source_bin", "sink_bin"} :
        <<"pipeline", e>> \in children
  BY <1>3, <1>4
<1>6. \A e \in Range(Parts("source_bin")) : InPipeline(e)
  BY <1>2, <1>5 DEF Contains
<1>7. \A e \in Range(Parts("sink_bin")) : InPipeline(e)
  <2>1. Contains("sink_bin", Parts("sink_bin"))
    BY <1>1 DEF IInv, SinkInv
  <2>2. QED
    BY <1>2, <1>5, <2>1 DEF Contains
<1>8. \A e \in MainElements : InPipeline(e)
  BY <1>5 DEF InPipeline
<1>9. ASSUME main_element # "NULL", NEW e \in Range(FilterBin.elements)
      PROVE  InPipeline(e)
  <2>1. is_fpfilter_enabled
    BY <1>3, <1>9
  <2>2. Contains("fp-filter-bin", FilterBin.elements)
    BY <1>1, <2>1 DEF IInv, FilterInv
  <2>3. <<"pipeline", "fp-filter-bin">> \in children
    BY <1>3, <2>1
  <2>4. QED
    BY <1>2, <1>9, <2>2, <2>3 DEF Contains
<1>10. QED
  BY <1>6, <1>7, <1>8, <1>9

LEMMA IsWhole ==
  ASSUME IInv, playing, ~IsNull("sink_bin"),
         src = "MP4_SRC" => <<"qtdemux", "h264parse">> \in links
  PROVE  Whole
<1> DEFINE source == Parts("source_bin")
           sink == Parts("sink_bin")
           filter == FilterBin.elements
           front == <<"streammux", "nvinfer1", "nvvidconv1">>
           back == <<"nvvidconv2", "nvosd", "nvvidconv3">>
<1>1. TypeOK
  BY DEF IInv
<1>2. Contains("source_bin", source) /\ Linked(source)
  BY SourceInARow
<1>3. /\ source \in Seq(AllNames) /\ Len(source) > 0
      /\ sink \in Seq(AllNames) /\ Len(sink) > 0
  BY <1>1, BinParts
<1>4. /\ front \in Seq(AllNames) /\ Len(front) > 0 /\ Len(front) = 3
      /\ front[1] = "streammux" /\ front[3] = "nvvidconv1"
      /\ back \in Seq(AllNames) /\ Len(back) > 0 /\ Len(back) = 3
      /\ back[1] = "nvvidconv2" /\ back[3] = "nvvidconv3"
  BY DEF AllNames, MainElements
<1>5. /\ filter \in Seq(AllNames) /\ Len(filter) > 0 /\ Len(filter) = 3
      /\ filter[1] = "nvtracker" /\ filter[3] = "nvfpfilter"
  BY BinLists DEF AllNames, Names
<1>6. source[Len(source)] = SrcEnd("source_bin") /\ sink[1] = SinkEnd("sink_bin")
  BY <1>3 DEF SrcEnd, SinkEnd
<1>7. /\ \A e \in Range(source) : InPipeline(e)
      /\ \A e \in Range(sink) : InPipeline(e)
      /\ \A e \in Range(front) : InPipeline(e)
      /\ \A e \in Range(back) : InPipeline(e)
      /\ main_element # "NULL" => \A e \in Range(filter) : InPipeline(e)
  <2>1. Range(front) \subseteq MainElements
    BY DEF Range, MainElements
  <2>2. Range(back) \subseteq MainElements
    BY DEF Range, MainElements
  <2>3. QED
    BY <1>2, <2>1, <2>2, AllInPipeline
<1>8. /\ Linked(front) /\ Linked(back) /\ Linked(sink)
      /\ <<SrcEnd("source_bin"), "streammux">> \in links
      /\ <<"nvvidconv3", SinkEnd("sink_bin")>> \in links
      /\ \/ /\ main_element = "NULL"
            /\ <<"nvvidconv1", "nvvidconv2">> \in links
         \/ /\ main_element = "fp-filter-bin"
            /\ <<"nvvidconv1", "nvtracker">> \in links
            /\ <<"nvfpfilter", "nvvidconv2">> \in links
            /\ Linked(filter)
  BY MainLinked
<1>9. main_element = "NULL" => Route = source \o front \o <<>> \o back \o sink
  BY Zenon DEF Route
<1>10. main_element = "fp-filter-bin"
         => Route = source \o front \o filter \o back \o sink
  <2>1. Parts("fp-filter-bin") = filter
    BY <1>1, Ends
  <2>2. ASSUME main_element = "fp-filter-bin"
        PROVE  /\ Parts(main_element) = filter
               /\ main_element # "NULL"
    BY <2>1, <2>2
  <2>3. QED
    BY <2>2, Zenon DEF Route
<1> HIDE DEF source, sink, filter, front, back
<1> DEFINE first == source \o front
<1>11. /\ first \in Seq(AllNames) /\ Len(first) > 0 /\ Linked(first)
       /\ first[Len(first)] = "nvvidconv1"
       /\ \A e \in Range(first) : InPipeline(e)
  <2>1. /\ source \in Seq(AllNames) /\ Len(source) > 0 /\ Linked(source)
        /\ front \in Seq(AllNames) /\ Len(front) > 0 /\ Linked(front)
    BY <1>2, <1>3, <1>4, <1>8
  <2>2. <<source[Len(source)], front[1]>> \in links
    BY <1>4, <1>6, <1>8
  <2> HIDE DEF first
  <2>3. /\ first \in Seq(AllNames) /\ Len(first) > 0 /\ Linked(first)
        /\ first[Len(first)] = front[Len(front)]
        /\ \A e : e \in Range(first) <=> e \in Range(source) \/ e \in Range(front)
    BY <2>1, <2>2, Join DEF first
  <2>4. front[Len(front)] = "nvvidconv1"
    BY <1>4
  <2>5. ASSUME NEW e \in Range(first) PROVE InPipeline(e)
    BY <1>7, <2>3
  <2>6. QED
    BY <2>3, <2>4, <2>5
<1> HIDE DEF first
<1>12. ASSUME NEW through \in Seq(AllNames), Len(through) > 0, Linked(through),
              <<through[Len(through)], "nvvidconv2">> \in links,
              \A e \in Range(through) : InPipeline(e),
              Route = through \o back \o sink
       PROVE  Whole
  <2> DEFINE most == through \o back
  <2>1. /\ most \in Seq(AllNames) /\ Len(most) > 0 /\ Linked(most)
        /\ most[Len(most)] = "nvvidconv3"
        /\ \A e \in Range(most) : InPipeline(e)
    BY <1>4, <1>7, <1>8, <1>12, Join
  <2> HIDE DEF most
  <2>2. /\ Linked(most \o sink)
        /\ \A e \in Range(most \o sink) : InPipeline(e)
    BY <1>3, <1>6, <1>7, <1>8, <2>1, Join
  <2>3. Route = most \o sink
    BY <1>12 DEF most
  <2>4. QED
    BY <2>2, <2>3 DEF Whole, Linked
<1>13. CASE main_element = "NULL"
  <2>1. first \o <<>> = first
    BY <1>11, ConcatEmptySeq
  <2>2. Route = first \o back \o sink
    BY <1>9, <1>13, <2>1 DEF first
  <2>3. <<"nvvidconv1", "nvvidconv2">> \in links
    BY <1>8, <1>13
  <2>4. QED
    BY <1>11, <1>12, <2>2, <2>3
<1>14. CASE main_element = "fp-filter-bin"
  <2> DEFINE through == first \o filter
  <2>1. /\ <<"nvvidconv1", "nvtracker">> \in links
        /\ <<"nvfpfilter", "nvvidconv2">> \in links
        /\ Linked(filter) /\ \A e \in Range(filter) : InPipeline(e)
    BY <1>7, <1>8, <1>14
  <2>2. /\ through \in Seq(AllNames) /\ Len(through) > 0 /\ Linked(through)
        /\ through[Len(through)] = "nvfpfilter"
        /\ \A e \in Range(through) : InPipeline(e)
    BY <1>5, <1>11, <2>1, Join
  <2>3. Route = through \o back \o sink
    BY <1>10, <1>14 DEF first
  <2> HIDE DEF through
  <2>4. QED
    BY <1>12, <2>1, <2>2, <2>3
<1>15. QED
  BY <1>8, <1>13, <1>14

\* A pipeline that main leaves running is whole, whatever could not be made, but
\* for a sink bin that is missing and for a demuxer that has linked nothing.
THEOREM WholeIfRunning == Spec => []RunningIsWhole
<1>1. ASSUME IInv PROVE RunningIsWhole
  <2>1. main_pc = "running" => playing
    BY <1>1 DEF IInv, RunInv, AfterPlay
  <2>2. QED
    BY <1>1, <2>1, IsWhole DEF RunningIsWhole
<1>2. QED
  BY <1>1, InductiveInvariant, PTL

-----------------------------------------------------------------------------
(* What main hands over to the requests and to the streaming threads.       *)

CP == INSTANCE FpFilterControlProofs WITH
  Bins <- ControlBins, FirstBin <- "fp-filter-bin", NoBin <- "NULL",
  nvvidconv1 <- "nvvidconv1", nvvidconv2 <- "nvvidconv2",
  Stream <- <<>>, BinCapacity <- 1, MaxTimers <- 0,
  tp_count <- <<>>, fp_count <- <<>>,
  links <- Links, children <- Children, playing <- Children,
  probes <- <<>>, eos_probe <- {}, in_bin <- [b \in ControlBins |-> <<>>],
  pos <- 1, streaming <- "pushing", delivered <- <<>>, created <- {},
  save_fpfilter_images <- FALSE, timers <- {}, armed <- 0, window <- 0,
  arming <- FALSE, deciding <- <<>>, frame_save_queue <- <<>>, late <- 0

\* What FpFilterControl assumes of its constants is so for this pipeline.
LEMMA ControlAssumptions ==
  /\ CP!ElementsAssumption /\ CP!StreamAssumption /\ CP!CapacityAssumption
  /\ CP!MaxTimersAssumption /\ CP!FirstBinAssumption /\ CP!CountsAssumption
<1>1. CP!ElementsAssumption
  BY DEF CP!ElementsAssumption, ControlBins
<1>2. CP!StreamAssumption
  BY DEF CP!StreamAssumption
<1>3. CP!CapacityAssumption
  BY DEF CP!CapacityAssumption
<1>4. CP!MaxTimersAssumption
  BY DEF CP!MaxTimersAssumption
<1>5. CP!FirstBinAssumption
  BY DEF CP!FirstBinAssumption, ControlBins
<1>6. CP!CountsAssumption
  BY DEF CP!CountsAssumption
<1>7. QED
  BY <1>1, <1>2, <1>3, <1>4, <1>5, <1>6

LEMMA StartsControl == CP!Init => CP!IInv
BY CP!InvStart, ControlAssumptions

\* The module's own proofs are about the instance the run checks.
LEMMA ControlIsProved ==
  /\ Control!Init => CP!Init
  /\ CP!IInv => Control!IInv
<1>1. Control!Init => CP!Init
  BY DEF
     Control!Init, CP!Init, Control!SaveInit, CP!SaveInit
<1>2. Control!Eos = CP!Eos /\ Control!Items = CP!Items
  BY DEF
     Control!Eos, CP!Eos, Control!Items, CP!Items
<1>3. CP!LinkTypeOK => Control!LinkTypeOK
  BY <1>2 DEF
     Control!LinkTypeOK, CP!LinkTypeOK, Control!Probe, CP!Probe,
     Control!DrainEos, CP!DrainEos
<1>4. CP!SaveTypeOK => Control!SaveTypeOK
  BY DEF
     Control!SaveTypeOK, CP!SaveTypeOK
<1>5. CP!TypeOK => Control!TypeOK
  BY <1>2, <1>3, <1>4 DEF
     Control!TypeOK, CP!TypeOK
<1>6. /\ CP!Direct <=> Control!Direct
      /\ \A b : CP!Through(b) <=> Control!Through(b)
      /\ \A b : CP!ProbesLeadFrom(b) <=> Control!ProbesLeadFrom(b)
  BY DEF
     Control!Direct, CP!Direct, Control!Through, CP!Through,
     Control!ProbesLeadFrom, CP!ProbesLeadFrom, Control!InUseAfter,
     CP!InUseAfter
<1>7. CP!LinkInv => Control!LinkInv
  BY <1>6 DEF
     Control!LinkInv, CP!LinkInv, Control!DirectPhase, CP!DirectPhase,
     Control!ThroughPhase, CP!ThroughPhase, Control!DrainingPhase,
     CP!DrainingPhase, Control!DrainEos, CP!DrainEos
<1>8. CP!SaveInv => Control!SaveInv
  BY DEF
     Control!SaveInv, CP!SaveInv, Control!WindowEndsWithItsTimer,
     CP!WindowEndsWithItsTimer
<1>9. CP!LateInv => Control!LateInv
  BY DEF
     Control!LateInv, CP!LateInv
<1>10. QED
  BY <1>1, <1>5, <1>7, <1>8, <1>9 DEF Control!IInv, CP!IInv

\* A pipeline that plays is one that FpFilterControl starts from.
LEMMA PlayingIsInit ==
  ASSUME IInv, playing
  PROVE  Control!Init
<1>1. /\ main_pc \in AfterAdd /\ main_pc \in AfterLink
      /\ links \cap Crossing = CrossingFor(is_fpfilter_enabled)
  BY WhenPlaying
<1>2. /\ <<"pipeline", "fp-filter-bin">> \in children <=> is_fpfilter_enabled
      /\ main_element = IF is_fpfilter_enabled THEN "fp-filter-bin" ELSE "NULL"
      /\ is_fpfilter_enabled \in BOOLEAN
  BY <1>1 DEF IInv, AddInv, TypeOK
<1>3. /\ SrcEnd("nvvidconv1") = "nvvidconv1"
      /\ SinkEnd("nvvidconv2") = "nvvidconv2"
      /\ SrcEnd("fp-filter-bin") = "nvfpfilter"
      /\ SinkEnd("fp-filter-bin") = "nvtracker"
  BY Plain, Ends DEF IInv, BinNames
<1>4. \A a, b :
        <<a, b>> \in Links <=>
          /\ a \in {"nvvidconv1", "fp-filter-bin"}
          /\ b \in {"nvvidconv2", "fp-filter-bin"}
          /\ <<SrcEnd(a), SinkEnd(b)>> \in links
  BY DEF Links, ControlBins
<1>5. \A l \in Links : l = <<l[1], l[2]>>
  BY DEF Links
<1>6. CASE is_fpfilter_enabled
  <2>1. /\ <<"nvvidconv1", "nvtracker">> \in links
        /\ <<"nvfpfilter", "nvvidconv2">> \in links
        /\ <<"nvvidconv1", "nvvidconv2">> \notin links
        /\ <<"nvfpfilter", "nvtracker">> \notin links
    BY <1>1, <1>6 DEF Crossing, CrossingFor
  <2>2. Links = {<<"nvvidconv1", "fp-filter-bin">>,
                 <<"fp-filter-bin", "nvvidconv2">>}
    <3>1. /\ <<"nvvidconv1", "nvvidconv2">> \notin Links
          /\ <<"nvvidconv1", "fp-filter-bin">> \in Links
          /\ <<"fp-filter-bin", "nvvidconv2">> \in Links
          /\ <<"fp-filter-bin", "fp-filter-bin">> \notin Links
      BY <1>3, <1>4, <2>1
    <3>2. ASSUME NEW l \in Links
          PROVE  l \in {<<"nvvidconv1", "nvvidconv2">>,
                      <<"nvvidconv1", "fp-filter-bin">>,
                      <<"fp-filter-bin", "nvvidconv2">>,
                      <<"fp-filter-bin", "fp-filter-bin">>}
      BY <1>5 DEF Links, ControlBins
    <3>3. QED
      BY <3>1, <3>2
  <2>3. Children = {"fp-filter-bin"}
    BY <1>2, <1>6 DEF Children, ControlBins
  <2>4. main_element = "fp-filter-bin" /\ is_fpfilter_enabled = TRUE
    BY <1>2, <1>6
  <2>5. QED
    BY <2>2, <2>3, <2>4 DEF Control!Init, Control!SaveInit
<1>7. CASE ~is_fpfilter_enabled
  <2>1. /\ <<"nvvidconv1", "nvvidconv2">> \in links
        /\ <<"nvvidconv1", "nvtracker">> \notin links
        /\ <<"nvfpfilter", "nvvidconv2">> \notin links
        /\ <<"nvfpfilter", "nvtracker">> \notin links
    BY <1>1, <1>7 DEF Crossing, CrossingFor
  <2>2. Links = {<<"nvvidconv1", "nvvidconv2">>}
    <3>1. /\ <<"nvvidconv1", "nvvidconv2">> \in Links
          /\ <<"nvvidconv1", "fp-filter-bin">> \notin Links
          /\ <<"fp-filter-bin", "nvvidconv2">> \notin Links
          /\ <<"fp-filter-bin", "fp-filter-bin">> \notin Links
      BY <1>3, <1>4, <2>1
    <3>2. ASSUME NEW l \in Links
          PROVE  l \in {<<"nvvidconv1", "nvvidconv2">>,
                      <<"nvvidconv1", "fp-filter-bin">>,
                      <<"fp-filter-bin", "nvvidconv2">>,
                      <<"fp-filter-bin", "fp-filter-bin">>}
      BY <1>5 DEF Links, ControlBins
    <3>3. QED
      BY <3>1, <3>2
  <2>3. Children = {}
    BY <1>2, <1>7 DEF Children, ControlBins
  <2>4. main_element = "NULL" /\ is_fpfilter_enabled = FALSE
    BY <1>2, <1>7
  <2>5. QED
    BY <2>2, <2>3, <2>4 DEF Control!Init, Control!SaveInit
<1>8. QED
  BY <1>6, <1>7

\* What main leaves to the requests and to the streaming threads is a state
\* that FpFilterControl starts from, and one of its inductive invariant.
THEOREM HandsOverInit == Spec => []HandsOver
<1>1. IInv => HandsOver
  BY PlayingIsInit, ControlIsProved, StartsControl DEF HandsOver
<1>2. QED
  BY <1>1, InductiveInvariant, PTL
=============================================================================
