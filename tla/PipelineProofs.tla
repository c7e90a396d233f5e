--------------------------- MODULE PipelineProofs ---------------------------
(***************************************************************************)
(* Proofs about the builders, for every configuration: any number of       *)
(* inputs and outputs, any options, any tracks in the source.              *)
(*                                                                         *)
(* What the builders leave is described by what is true of a graph after   *)
(* each of them (Proper, Entered, Joined: together Fine), and a builder    *)
(* is shown to lead from such a graph to such a graph. That there is a way *)
(* between two elements is said without counting steps: whatever contains  *)
(* the first and all successors of its members contains the second (Path). *)
(* Chains of elements and the loops over inputs and outputs are folds,     *)
(* whose partial results FoldRule gives.                                   *)
(*                                                                         *)
(* The pads are the second part: PipelineInv relates what feeds an entry,  *)
(* the flags and the meters to the tracks whose pads were added, whatever  *)
(* the order decodebin offers them in.                                     *)
(*                                                                         *)
(* The third part decides which configurations get through every CHECK.    *)
(* A chain of elements is described by the names it takes and by what it   *)
(* makes of the capabilities it gets (Branch): if its names are free and   *)
(* its first link has a pad, it fails exactly if nothing comes out at its  *)
(* end, and otherwise leaves the rest of the graph as it was (After). The  *)
(* stages follow from the branches they consist of, and BuiltInv says what *)
(* each of them hands to the next.                                         *)
(***************************************************************************)
EXTENDS Pipeline, TLAPS, FiniteSetTheorems, SequenceTheorems

Chained == INSTANCE FoldRule WITH Op <- ChainStep
Looped == INSTANCE FoldRule WITH Op <- OutputStep
Stacked == INSTANCE FoldRule WITH Op <- MosaicInput

(***************************************************************************)
(* Graphs that the builder makes                                           *)
(***************************************************************************)

\* The names that elements have besides decodebin, the entries of its pads and
\* the test sources.
PlainNames ==
    {"nullptr", "src", "video_caps_device", "video_convert", "deinterlace",
     "aspect_ratio", "videorate", "videorate_capsfilter", "videologo", "post_proc",
     "videoscale", "videoscale_capsfilter", "audio_convert",
     "audio_convert_capsfilter", "volume", "video_codec",
     "x264enc_capsfilter_profile", "audio_codec", "audioresample",
     "mpegaudioparse", "video_parser", "audio_parser", "video_tee", "audio_tee",
     "video_tee_queue", "audio_tee_queue", "video_pay", "audio_pay", "muxer",
     "sink", "splitmuxsink", "videomixer", "interlive", "mux_videoscale",
     "mux_videoscale_capsfilter", "videobox", "level", "cairo", "video_sink",
     "audio_sink"}
PlainPlugins ==
    RawFilters \cup Transparent \cup Joins \cup VideoEncoders \cup AudioEncoders
    \cup VideoParsers \cup AudioParsers
    \cup {"nullptr", "filesrc", "v4l2src", "alsasrc", "rtph264pay", "rtph265pay",
          "rtpmp2tpay", "rtpmp4apay", "rtpac3pay", "sink", "testsink",
          "autovideosink", "autoaudiosink"}
Plain == [name : PlainNames, id : Int, plugin : PlainPlugins]

\* The inputs that have a decodebin, and what may be an element of a pipeline.
Inputs == IF IsMosaic THEN 0 .. cfg.inputs - 1 ELSE {0}
Part(e) ==
    /\ e.name = "decodebin" => cfg.kind # "test_input" /\ e.id \in Inputs
    /\ \A m \in Media : e.name = UdbName[m] =>
           /\ cfg.kind # "test_input" /\ e.id \in Inputs
           /\ IsRelay => e.plugin = Parser(m)

\* No two elements of one name, and links between elements.
Proper(g) ==
    /\ DOMAIN g = {"offers", "links", "conn", "ok"}
    /\ DOMAIN g.conn = Media /\ g.ok \in BOOLEAN
    /\ IsFiniteSet(Elements(g))
    /\ Null \notin Elements(g)
    /\ \A x \in Elements(g) : Part(x)
    /\ \A x, y \in Elements(g) : x.name = y.name /\ x.id = y.id => x = y
    /\ \A l \in g.links : l[2] \in Elements(g)

\* There is a way from x to y: y is in all that x can reach.
Path(g, x, y) == \A S : x \in S /\ Successors(g, S) \subseteq S => y \in S

\* h is g with more elements and links, or g after a failure.
Grows(g, h) ==
    /\ Proper(h)
    /\ Elements(g) \subseteq Elements(h) /\ g.links \subseteq h.links
    /\ h.ok => g.ok
    /\ \A x \in Elements(h) : x \in Elements(g) \/ x \in Plain

\* A plain element may be added anywhere.
LEMMA PlainIsPart == \A e \in Plain : Part(e)
<1> SUFFICES ASSUME NEW e \in Plain  PROVE Part(e)
  OBVIOUS
<1>1. e.name \in PlainNames
  BY DEF Plain
<1>2. e.name \notin {"decodebin", "udb_conn_video", "udb_conn_audio"}
  BY <1>1 DEF PlainNames
<1>3. \A m \in Media : UdbName[m] \in {"udb_conn_video", "udb_conn_audio"}
  BY DEF Media, UdbName
<1> QED  BY <1>2, <1>3 DEF Part

\* ElementAdd adds its element or fails; a failed one leaves an element of that
\* name there, unless it was given a null element.
LEMMA AddFacts ==
    ASSUME NEW g, Proper(g), NEW e, Part(e)
    PROVE  LET h == ElementAdd(g, e) IN
           /\ Proper(h) /\ h.conn = g.conn /\ h.links = g.links
           /\ Elements(g) \subseteq Elements(h) /\ Elements(h) \subseteq Elements(g) \cup {e}
           /\ h.ok => g.ok /\ e \in Elements(h) /\ e # Null
           /\ e # Null => \E x \in Elements(h) : x.name = e.name /\ x.id = e.id
<1> DEFINE h == ElementAdd(g, e)
<1>1. CASE e = Null \/ \E x \in Elements(g) : x.name = e.name /\ x.id = e.id
  <2>1. h = [g EXCEPT !.ok = FALSE]
    BY <1>1 DEF ElementAdd, Abort
  <2>2. /\ DOMAIN h = DOMAIN g /\ h.conn = g.conn /\ h.links = g.links
        /\ h.offers = g.offers /\ h.ok = FALSE
    BY <2>1 DEF Proper
  <2>3. Elements(h) = Elements(g)
    BY <2>2 DEF Elements
  <2>4. Proper(h)
    BY <2>2, <2>3 DEF Proper
  <2> HIDE DEF h
  <2>5. e # Null => \E x \in Elements(h) : x.name = e.name /\ x.id = e.id
    BY <1>1, <2>3
  <2> QED  BY <2>2, <2>3, <2>4, <2>5 DEF h
<1>2. CASE ~(e = Null \/ \E x \in Elements(g) : x.name = e.name /\ x.id = e.id)
  <2> DEFINE o == [x \in Elements(g) \cup {e} |->
                     IF x = e THEN Offers(e.plugin) ELSE g.offers[x]]
  <2>1. h = [g EXCEPT !.offers = o]
    BY <1>2 DEF ElementAdd
  <2>2. DOMAIN o = Elements(g) \cup {e}
    OBVIOUS
  <2> HIDE DEF o
  <2>3. /\ DOMAIN h = DOMAIN g /\ h.conn = g.conn /\ h.links = g.links
        /\ h.offers = o /\ h.ok = g.ok
    BY <2>1 DEF Proper
  <2>4. Elements(h) = Elements(g) \cup {e}
    BY <2>2, <2>3 DEF Elements
  <2> HIDE DEF h
  <2>5. IsFiniteSet(Elements(h))
    BY <2>4, FS_AddElement DEF Proper
  <2>6. Proper(h)
    BY <1>2, <2>3, <2>4, <2>5 DEF Proper
  <2> QED  BY <1>2, <2>3, <2>4, <2>6 DEF h
<1> QED  BY <1>1, <1>2

\* ElementLink makes its link or fails.
LEMMA LinkFacts ==
    ASSUME NEW g, Proper(g), NEW src, NEW dest
    PROVE  LET h == ElementLink(g, src, dest) IN
           /\ Proper(h) /\ h.conn = g.conn /\ g.links \subseteq h.links
           /\ Elements(h) = Elements(g)
           /\ h.ok => /\ g.ok /\ <<src, dest>> \in h.links
                      /\ src \in Elements(g) /\ dest \in Elements(g)
<1> DEFINE h == ElementLink(g, src, dest)
<1>1. CASE ~ CanLink(g, src, dest)
  <2>1. h = [g EXCEPT !.ok = FALSE]
    BY <1>1 DEF ElementLink, Abort
  <2>2. /\ DOMAIN h = DOMAIN g /\ h.conn = g.conn /\ h.links = g.links
        /\ h.offers = g.offers /\ h.ok = FALSE
    BY <2>1 DEF Proper
  <2>3. Elements(h) = Elements(g)
    BY <2>2 DEF Elements
  <2>4. Proper(h)
    BY <2>2, <2>3 DEF Proper
  <2> HIDE DEF h
  <2> QED  BY <2>2, <2>3, <2>4 DEF h
<1>2. CASE CanLink(g, src, dest)
  <2> DEFINE c == IF dest.plugin \in Transparent THEN g.offers[src] ELSE g.offers[dest]
             o == [g.offers EXCEPT ![dest] = c]
             l == g.links \cup {<<src, dest>>}
  <2>1. h = [g EXCEPT !.links = l, !.offers = o]
    BY <1>2 DEF ElementLink, Proper
  <2>2. DOMAIN o = DOMAIN g.offers
    OBVIOUS
  <2>3. src \in Elements(g) /\ dest \in Elements(g)
    BY <1>2 DEF CanLink
  <2>4. g.links \subseteq l /\ <<src, dest>> \in l /\ \A k \in l : k[2] \in Elements(g)
    BY <2>3 DEF Proper
  <2> HIDE DEF o, l
  <2>5. /\ DOMAIN h = DOMAIN g /\ h.conn = g.conn /\ h.links = l
        /\ h.offers = o /\ h.ok = g.ok
    BY <2>1 DEF Proper
  <2>6. Elements(h) = Elements(g)
    BY <2>2, <2>5 DEF Elements
  <2> HIDE DEF h
  <2>7. Proper(h)
    BY <2>4, <2>5, <2>6 DEF Proper
  <2> QED  BY <2>3, <2>4, <2>5, <2>6, <2>7 DEF h
<1> QED  BY <1>1, <1>2

\* Ways: from an element to itself, along a link, one after the other, and
\* still there when links are added.
LEMMA PathFacts ==
    ASSUME NEW g
    PROVE  /\ \A x : Path(g, x, x)
           /\ \A x, y : <<x, y>> \in g.links => Path(g, x, y)
           /\ \A x, y, z : Path(g, x, y) /\ Path(g, y, z) => Path(g, x, z)
           /\ \A h, x, y : g.links \subseteq h.links /\ Path(g, x, y) => Path(h, x, y)
<1>1. \A x : Path(g, x, x)
  BY DEF Path
<1>2. ASSUME NEW x, NEW y, <<x, y>> \in g.links, NEW S, x \in S, Successors(g, S) \subseteq S
      PROVE  y \in S
  <2>1. <<x, y>> \in {k \in g.links : k[1] \in S}
    BY <1>2
  <2>2. <<x, y>>[2] \in Successors(g, S)
    BY <2>1 DEF Successors
  <2> QED  BY <1>2, <2>2
<1>3. \A x, y : <<x, y>> \in g.links => Path(g, x, y)
  BY <1>2 DEF Path
<1>4. \A x, y, z : Path(g, x, y) /\ Path(g, y, z) => Path(g, x, z)
  BY DEF Path
<1>5. ASSUME NEW h, NEW x, NEW y, g.links \subseteq h.links, Path(g, x, y)
      PROVE  Path(h, x, y)
  <2>1. \A S : Successors(g, S) \subseteq Successors(h, S)
    BY <1>5 DEF Successors
  <2> QED  BY <1>5, <2>1 DEF Path
<1> QED  BY <1>1, <1>3, <1>4, <1>5

\* What grows in two steps grows: the parts of a builder's stage add up.
LEMMA GrowsTransitive ==
    ASSUME NEW f, NEW g, NEW h, Grows(f, g), Grows(g, h)
    PROVE  Grows(f, h)
BY DEF Grows

\* A step that finds no element to go on with changes nothing else.
LEMMA AbortFacts ==
    ASSUME NEW g, Proper(g)
    PROVE  LET h == Abort(g) IN
           /\ Grows(g, h) /\ h.conn = g.conn /\ h.links = g.links /\ ~ h.ok
           /\ Elements(h) = Elements(g)
<1> DEFINE h == Abort(g)
<1>1. /\ DOMAIN h = DOMAIN g /\ h.offers = g.offers /\ h.links = g.links /\ h.conn = g.conn
      /\ h.ok = FALSE
  BY DEF Abort, Proper
<1> HIDE DEF h
<1>2. Elements(h) = Elements(g)
  BY <1>1 DEF Elements
<1>3. Proper(h)
  BY <1>1, <1>2 DEF Proper
<1> QED  BY <1>1, <1>2, <1>3 DEF Grows, h

\* One step of Chain: the element is added and linked to the one before it.
LEMMA ChainStepFacts ==
    ASSUME NEW s, Proper(s.g), NEW e \in Plain
    PROVE  LET r == ChainStep(s, e) IN
           /\ Grows(s.g, r.g) /\ r.g.conn = s.g.conn /\ r.at = e
           /\ r.g.ok => Path(r.g, s.at, e) /\ e \in Elements(r.g) /\ s.at # Null
<1> DEFINE a == ElementAdd(s.g, e)
           h == ElementLink(a, s.at, e)
           r == ChainStep(s, e)
<1>1. r.g = h /\ r.at = e
  BY DEF ChainStep
<1>2. Part(e)
  BY PlainIsPart
<1>3. /\ Proper(a) /\ a.conn = s.g.conn /\ a.links = s.g.links
      /\ Elements(s.g) \subseteq Elements(a) /\ Elements(a) \subseteq Elements(s.g) \cup {e}
      /\ a.ok => s.g.ok
  BY <1>2, AddFacts
<1> HIDE DEF a
<1>4. /\ Proper(h) /\ h.conn = a.conn /\ a.links \subseteq h.links
      /\ Elements(h) = Elements(a)
      /\ h.ok => /\ a.ok /\ <<s.at, e>> \in h.links
                 /\ s.at \in Elements(a) /\ e \in Elements(a)
  BY <1>3, LinkFacts
<1> HIDE DEF h, r
<1>5. Grows(s.g, h)
  BY <1>3, <1>4 DEF Grows
<1>6. h.ok => Path(h, s.at, e)
  BY <1>4, PathFacts
<1>7. h.ok => s.at # Null
  BY <1>3, <1>4 DEF Proper
<1> QED  BY <1>1, <1>3, <1>4, <1>5, <1>6, <1>7 DEF r

\* What Chain does to a graph: it goes on growing, and if no step failed there
\* is a way from where it began to where it ends.
LEMMA ChainFacts ==
    ASSUME NEW g, Proper(g), NEW from, NEW es \in Seq(Plain)
    PROVE  LET r == Chain(g, from, es) IN
           /\ Grows(g, r.g) /\ r.g.conn = g.conn
           /\ r.at = IF es = <<>> THEN from ELSE es[Len(es)]
           /\ r.g.ok => Path(r.g, from, r.at)
           /\ r.g.ok /\ es # <<>> => from # Null /\ r.at \in Elements(r.g)
<1> DEFINE n == Len(es)
           base == [g |-> g, at |-> from]
           r == Chain(g, from, es)
<1>1. n \in Nat /\ DOMAIN es = 1 .. n /\ \A k \in 1 .. n : es[k] \in Plain
  BY LenProperties, ElementOfSeq
<1>2. PICK p : /\ p[0] = base
               /\ \A k \in 1 .. n : p[k] = ChainStep(p[k - 1], es[k])
               /\ Chained!Fold(base, es) = p[n]
  <2> HIDE DEF n, base
  <2> QED  BY <1>1, Chained!FoldSteps
<1>3. r = p[n]
  <2>1. r = Chained!Fold(base, es)
    BY DEF Chain, Chained!Fold, FoldLeft, Chained!FoldLeft, MapThenFoldSet,
           Chained!MapThenFoldSet, Max, Chained!Max
  <2> HIDE DEF r, base
  <2> QED  BY <1>2, <2>1
<1> HIDE DEF n, r
<1> DEFINE Done(k) ==
               /\ Grows(g, p[k].g) /\ p[k].g.conn = g.conn
               /\ p[k].at = IF k = 0 THEN from ELSE es[k]
               /\ p[k].g.ok => Path(p[k].g, from, p[k].at)
               /\ p[k].g.ok /\ k # 0 => from # Null /\ p[k].at \in Elements(p[k].g)
           Bad == {k \in 0 .. n : ~ Done(k)}
<1>4. Done(0)
  <2>1. p[0].g = g /\ p[0].at = from
    BY <1>2
  <2>2. Grows(g, g)
    BY DEF Grows
  <2> QED  BY <2>1, <2>2, PathFacts
<1>5. ASSUME NEW k \in 1 .. n, Done(k - 1)  PROVE Done(k)
  <2> DEFINE s == p[k - 1]
  <2>1. k - 1 \in Nat /\ p[k] = ChainStep(s, es[k]) /\ es[k] \in Plain
    BY <1>1, <1>2
  <2>2. /\ Grows(g, s.g) /\ s.g.conn = g.conn
        /\ s.at = IF k - 1 = 0 THEN from ELSE es[k - 1]
        /\ s.g.ok => Path(s.g, from, s.at)
        /\ s.g.ok /\ k - 1 # 0 => from # Null
    BY <1>5
  <2> HIDE DEF s
  <2>3. Proper(s.g)
    BY <2>2 DEF Grows
  <2>4. /\ Grows(s.g, p[k].g) /\ p[k].g.conn = s.g.conn /\ p[k].at = es[k]
        /\ p[k].g.ok => /\ Path(p[k].g, s.at, es[k]) /\ es[k] \in Elements(p[k].g)
                        /\ s.at # Null
    BY <2>1, <2>3, ChainStepFacts
  <2>5. Grows(g, p[k].g)
    BY <2>2, <2>4, GrowsTransitive
  <2>6. p[k].g.ok => Path(p[k].g, from, s.at)
    BY <2>2, <2>4, PathFacts DEF Grows
  <2>7. p[k].g.ok => Path(p[k].g, from, es[k])
    BY <2>4, <2>6, PathFacts
  <2>8. p[k].g.ok => from # Null
    <3>1. CASE k - 1 = 0
      BY <2>2, <2>4, <3>1
    <3>2. CASE k - 1 # 0
      BY <2>2, <2>4, <3>2 DEF Grows
    <3> QED  BY <3>1, <3>2
  <2> QED  BY <2>1, <2>2, <2>4, <2>5, <2>7, <2>8
<1>6. Bad = {}
  <2> SUFFICES ASSUME Bad # {}  PROVE FALSE
    OBVIOUS
  <2>1. Bad \in SUBSET Nat
    BY <1>1
  <2>2. PICK k \in Bad : \A j \in Bad : k <= j
    <3> HIDE DEF Bad
    <3> QED  BY <2>1, Chained!LeastNumber
  <2>3. k \in 0 .. n /\ ~ Done(k)
    BY <2>2
  <2>4. k # 0
    BY <1>4, <2>3
  <2>5. k \in 1 .. n /\ k - 1 \in 0 .. n /\ ~(k <= k - 1)
    BY <1>1, <2>3, <2>4
  <2>6. Done(k - 1)
    BY <2>2, <2>5
  <2> QED  BY <1>5, <2>3, <2>5, <2>6
<1>7. Done(n)
  BY <1>1, <1>6
<1>8. n = 0 <=> es = <<>>
  BY EmptySeq, LenProperties DEF n
<1> QED  BY <1>3, <1>7, <1>8 DEF r, n

(***************************************************************************)
(* What the stages add                                                     *)
(***************************************************************************)

\* Every element of a plain name and plugin is a plain element.
LEMMA PlainElement ==
    \A name \in PlainNames, i \in Int, plugin \in PlainPlugins :
        Element(name, i, plugin) \in Plain
BY DEF Plain, Element

\* Sequences of plain elements.
LEMMA PlainSequences ==
    /\ <<>> \in Seq(Plain)
    /\ \A x \in Plain : <<x>> \in Seq(Plain) /\ Len(<<x>>) = 1 /\ <<x>> # <<>>
    /\ \A x, y \in Plain : <<x, y>> \in Seq(Plain) /\ Len(<<x, y>>) = 2
    /\ \A x, y, z \in Plain : <<x, y, z>> \in Seq(Plain) /\ Len(<<x, y, z>>) = 3
    /\ \A s, t \in Seq(Plain) : s \o t \in Seq(Plain)
    /\ \A o : \A s \in Seq(Plain) : Opt(o, s) \in Seq(Plain)
<1>1. <<>> \in Seq(Plain)
  OBVIOUS
<1>2. \A s, t \in Seq(Plain) : s \o t \in Seq(Plain)
  BY ConcatProperties
<1>3. \A o : \A s \in Seq(Plain) : Opt(o, s) \in Seq(Plain)
  BY <1>1 DEF Opt
<1>4. \A x \in Plain : <<x>> \in Seq(Plain) /\ Len(<<x>>) = 1 /\ <<x>> # <<>>
  OBVIOUS
<1>5. \A x, y \in Plain : <<x, y>> \in Seq(Plain) /\ Len(<<x, y>>) = 2
  OBVIOUS
<1>6. \A x, y, z \in Plain : <<x, y, z>> \in Seq(Plain) /\ Len(<<x, y, z>>) = 3
  OBVIOUS
<1> QED  BY <1>1, <1>2, <1>3, <1>4, <1>5, <1>6

\* The elements of the filters, encoders, parsers and payloaders are plain.
LEMMA PlainParts ==
    ASSUME cfg \in Config, NEW i \in Int
    PROVE  /\ VideoConvert \in Seq(Plain) /\ AudioConverters \in Seq(Plain)
           /\ AspectRatio(i) \in Seq(Plain) /\ VideoFramerate(i) \in Seq(Plain)
           /\ Logo \in Seq(Plain)
           /\ VideoEncoder(i) \in Seq(Plain) /\ AudioEncoder(i) \in Seq(Plain)
           /\ VideoParser(i) \in Seq(Plain) /\ AudioParser(i) \in Seq(Plain)
           /\ \A m \in Media : Tee(m) \in Seq(Plain) /\ Tee(m) # <<>>
           /\ \A m \in Media : Element(TeeQueueName[m], i, "queue") \in Plain
<1>1. /\ {"videoconvert", "avdeinterlace", "aspectratiocrop", "videorate", "capsfilter",
          "gdkpixbufoverlay", "audioconvert", "volume", "audioresample",
          "mpegaudioparse", "h264parse", "aacparse", "tee", "queue"} \subseteq PlainPlugins
      /\ cfg.vcodec \in PlainPlugins /\ cfg.acodec \in PlainPlugins
  BY DEF PlainPlugins, RawFilters, Transparent, AudioParsers, VideoParsers, Config,
         VideoEncoders, AudioEncoders
<1>2. 0 \in Int
  OBVIOUS
<1>3. VideoConvert \in Seq(Plain)
  <2>1. /\ Element("video_convert", 0, "videoconvert") \in Plain
        /\ Element("deinterlace", 0, "avdeinterlace") \in Plain
    BY <1>1, <1>2, PlainElement DEF PlainNames
  <2> QED  BY <2>1, PlainSequences DEF VideoConvert
<1>4. AudioConverters \in Seq(Plain)
  <2>1. /\ Element("audio_convert", 0, "audioconvert") \in Plain
        /\ Element("audio_convert_capsfilter", 0, "capsfilter") \in Plain
        /\ Element("volume", 0, "volume") \in Plain
    BY <1>1, <1>2, PlainElement DEF PlainNames
  <2> QED  BY <2>1, PlainSequences DEF AudioConverters
<1>5. AspectRatio(i) \in Seq(Plain)
  <2>1. Element("aspect_ratio", i, "aspectratiocrop") \in Plain
    BY <1>1, PlainElement DEF PlainNames
  <2> QED  BY <2>1, PlainSequences DEF AspectRatio
<1>6. VideoFramerate(i) \in Seq(Plain)
  <2>1. /\ Element("videorate", i, "videorate") \in Plain
        /\ Element("videorate_capsfilter", i, "capsfilter") \in Plain
    BY <1>1, PlainElement DEF PlainNames
  <2> QED  BY <2>1, PlainSequences DEF VideoFramerate
<1>7. Logo \in Seq(Plain)
  <2>1. Element("videologo", 0, "gdkpixbufoverlay") \in Plain
    BY <1>1, <1>2, PlainElement DEF PlainNames
  <2> QED  BY <2>1, PlainSequences DEF Logo
<1>8. VideoEncoder(i) \in Seq(Plain)
  <2>1. /\ Element("video_codec", i, cfg.vcodec) \in Plain
        /\ Element("x264enc_capsfilter_profile", i, "capsfilter") \in Plain
    BY <1>1, PlainElement DEF PlainNames
  <2> QED  BY <2>1, PlainSequences DEF VideoEncoder
<1>9. AudioEncoder(i) \in Seq(Plain)
  <2>1. /\ Element("audio_codec", i, cfg.acodec) \in Plain
        /\ Element("audioresample", i, "audioresample") \in Plain
        /\ Element("mpegaudioparse", i, "mpegaudioparse") \in Plain
    BY <1>1, PlainElement DEF PlainNames
  <2> QED  BY <2>1, PlainSequences DEF AudioEncoder
<1>10. VideoParser(i) \in Seq(Plain)
  <2>1. Element("video_parser", i, "h264parse") \in Plain
    BY <1>1, PlainElement DEF PlainNames
  <2> QED  BY <2>1, PlainSequences DEF VideoParser
<1>11. AudioParser(i) \in Seq(Plain)
  <2>1. Element("audio_parser", i, "aacparse") \in Plain
    BY <1>1, PlainElement DEF PlainNames
  <2> QED  BY <2>1, PlainSequences DEF AudioParser
<1>12. ASSUME NEW m \in Media
       PROVE  /\ Tee(m) \in Seq(Plain) /\ Tee(m) # <<>>
              /\ Element(TeeQueueName[m], i, "queue") \in Plain
  <2>1. TeeName[m] \in PlainNames /\ TeeQueueName[m] \in PlainNames
    BY DEF TeeName, TeeQueueName, Media, PlainNames
  <2>2. Element(TeeName[m], 0, "tee") \in Plain
    BY <1>1, <1>2, <2>1, PlainElement
  <2>3. Tee(m) \in Seq(Plain) /\ Tee(m) # <<>>
    BY <2>2, PlainSequences DEF Tee
  <2> QED  BY <1>1, <2>1, <2>3, PlainElement
<1> QED  BY <1>3, <1>4, <1>5, <1>6, <1>7, <1>8, <1>9, <1>10, <1>11, <1>12

\* Every decodebin has an entry for each configured medium.
Entered(g) ==
    \A i : Element("decodebin", i, "decodebin") \in Elements(g) =>
        \A m \in cfg.media : \E e \in Elements(g) : e.name = UdbName[m] /\ e.id = i

\* While nothing failed, there is a way from each source of a medium to the
\* connector that the next stage goes on from.
Joined(g) ==
    g.ok => \A m \in cfg.media : g.conn[m] # Null =>
                \A e \in Entries(g, m) : Path(g, e, g.conn[m])

Fine(g) == Proper(g) /\ Entered(g) /\ Joined(g)

\* A graph that grows gets no decodebin and no sources.
LEMMA GrowsKeeps ==
    ASSUME NEW g, NEW h, Grows(g, h)
    PROVE  /\ Entered(g) => Entered(h)
           /\ \A m \in Media : Entries(h, m) = Entries(g, m)
           /\ \A i : Element("decodebin", i, "decodebin") \in Elements(h)
                     => Element("decodebin", i, "decodebin") \in Elements(g)
<1>1. \A x \in Elements(h) : x \in Elements(g) \/ x.name \in PlainNames
  BY DEF Grows, Plain
<1>2. \A i : Element("decodebin", i, "decodebin").name = "decodebin"
  BY DEF Element
<1>3. {"decodebin", "udb_conn_video", "udb_conn_audio", "video_src", "audio_src"}
      \cap PlainNames = {}
  BY DEF PlainNames
<1>4. \A i : Element("decodebin", i, "decodebin") \in Elements(h)
             => Element("decodebin", i, "decodebin") \in Elements(g)
  BY <1>1, <1>2, <1>3
<1>5. Elements(g) \subseteq Elements(h)
  BY DEF Grows
<1>6. Entered(g) => Entered(h)
  BY <1>4, <1>5 DEF Entered
<1>7. ASSUME NEW m \in Media  PROVE Entries(h, m) = Entries(g, m)
  <2>1. UdbName[m] \in {"udb_conn_video", "udb_conn_audio"}
    BY DEF Media, UdbName
  <2>2. TestSource(m).name \in {"video_src", "audio_src"}
    BY DEF TestSource, Element
  <2>3. \A x \in Elements(h) : x \notin Elements(g) => x.name # UdbName[m] /\ x # TestSource(m)
    BY <1>1, <1>3, <2>1, <2>2
  <2> QED  BY <1>5, <2>3 DEF Entries
<1> QED  BY <1>4, <1>6, <1>7

\* A stage that goes on from a connector leaves the graph in order.
LEMMA ExtendFine ==
    ASSUME NEW g, Fine(g), cfg \in Config, NEW m \in Media, NEW es \in Seq(Plain)
    PROVE  Fine(Extend(g, m, es)) /\ (Extend(g, m, es).ok => g.ok)
<1> DEFINE r == Chain(g, g.conn[m], es)
           h == [r.g EXCEPT !.conn[m] = r.at]
<1>1. /\ Grows(g, r.g) /\ r.g.conn = g.conn
      /\ r.at = IF es = <<>> THEN g.conn[m] ELSE es[Len(es)]
      /\ r.g.ok => Path(r.g, g.conn[m], r.at)
      /\ r.g.ok /\ es # <<>> => g.conn[m] # Null
  BY ChainFacts DEF Fine
<1>2. Extend(g, m, es) = h
  BY DEF Extend
<1> HIDE DEF r
<1>3. Proper(r.g)
  BY <1>1 DEF Grows
<1>4. /\ DOMAIN h = DOMAIN r.g /\ h.offers = r.g.offers /\ h.links = r.g.links
      /\ h.ok = r.g.ok /\ h.conn = [r.g.conn EXCEPT ![m] = r.at]
  BY <1>3 DEF Proper
<1> HIDE DEF h
<1>5. Elements(h) = Elements(r.g)
  BY <1>4 DEF Elements
<1>6. Proper(h)
  BY <1>3, <1>4, <1>5 DEF Proper
<1>7. Entered(h)
  <2>1. Entered(r.g)
    BY <1>1, GrowsKeeps DEF Fine
  <2> QED  BY <1>5, <2>1 DEF Entered
<1>8. ASSUME h.ok, NEW n \in cfg.media, h.conn[n] # Null, NEW e \in Entries(h, n)
      PROVE  Path(h, e, h.conn[n])
  <2>1. n \in Media
    BY DEF Config
  <2>2. e \in Entries(g, n)
    <3>1. Entries(h, n) = Entries(r.g, n)
      BY <1>5 DEF Entries
    <3> QED  BY <1>1, <1>8, <2>1, <3>1, GrowsKeeps
  <2>3. g.ok /\ r.g.ok /\ g.links \subseteq h.links
    BY <1>1, <1>4, <1>8 DEF Grows
  <2>4. DOMAIN g.conn = Media
    BY DEF Fine, Proper
  <2>5. CASE n # m
    <3>1. h.conn[n] = g.conn[n]
      BY <1>1, <1>4, <2>1, <2>4, <2>5
    <3>2. Path(g, e, g.conn[n])
      BY <1>8, <2>2, <2>3, <3>1 DEF Fine, Joined
    <3> QED  BY <2>3, <3>1, <3>2, PathFacts
  <2>6. CASE n = m
    <3>1. h.conn[n] = r.at
      BY <1>1, <1>4, <2>4, <2>6
    <3>2. g.conn[m] # Null
      BY <1>1, <1>8, <2>3, <3>1
    <3>3. Path(g, e, g.conn[m])
      BY <2>2, <2>3, <2>6, <3>2 DEF Fine, Joined
    <3>4. Path(h, e, g.conn[m])
      BY <2>3, <3>3, PathFacts
    <3>5. Path(h, g.conn[m], r.at)
      BY <1>1, <1>4, <2>3, PathFacts
    <3> QED  BY <3>1, <3>4, <3>5, PathFacts
  <2> QED  BY <2>5, <2>6
<1>9. Joined(h)
  BY <1>8 DEF Joined
<1>10. h.ok => g.ok
  BY <1>1, <1>4 DEF Grows
<1> QED  BY <1>2, <1>6, <1>7, <1>9, <1>10 DEF Fine

\* So does a stage that fails.
LEMMA AbortFine ==
    ASSUME NEW g, Fine(g)
    PROVE  Fine(Abort(g)) /\ ~ Abort(g).ok
<1> DEFINE h == Abort(g)
<1>1. Proper(h) /\ ~ h.ok /\ Elements(h) = Elements(g)
  BY AbortFacts DEF Fine, Grows
<1> HIDE DEF h
<1>2. Entered(h) /\ Joined(h)
  BY <1>1 DEF Fine, Entered, Joined
<1> QED  BY <1>1, <1>2 DEF Fine, h

(***************************************************************************)
(* The stages of GstBaseBuilder::InitPipeline                              *)
(***************************************************************************)

\* The pipeline before the first element: the new bin of CreatePipeLine.
LEMMA EmptyIsProper == Proper(EmptyGraph) /\ Elements(EmptyGraph) = {}
<1>1. Elements(EmptyGraph) = {}
  BY DEF Elements, EmptyGraph
<1>2. DOMAIN EmptyGraph = {"offers", "links", "conn", "ok"}
  BY DEF EmptyGraph
<1>3. DOMAIN EmptyGraph.conn = Media /\ EmptyGraph.ok = TRUE /\ EmptyGraph.links = {}
  BY DEF EmptyGraph
<1>4. IsFiniteSet({})
  BY FS_EmptySet
<1> QED  BY <1>1, <1>2, <1>3, <1>4 DEF Proper

\* A connector is started with an element that is added.
LEMMA StartFacts ==
    ASSUME NEW g, Proper(g), NEW m \in Media, NEW e, Part(e), e # Null
    PROVE  LET h == Start(g, m, e) IN
           /\ Proper(h) /\ h.conn = [g.conn EXCEPT ![m] = e] /\ g.links \subseteq h.links
           /\ Elements(g) \subseteq Elements(h) /\ Elements(h) \subseteq Elements(g) \cup {e}
           /\ h.ok => g.ok /\ e \in Elements(h)
           /\ \E x \in Elements(h) : x.name = e.name /\ x.id = e.id
<1> DEFINE a == ElementAdd(g, e)
           h == Start(g, m, e)
<1>1. /\ Proper(a) /\ a.conn = g.conn /\ a.links = g.links
      /\ Elements(g) \subseteq Elements(a) /\ Elements(a) \subseteq Elements(g) \cup {e}
      /\ a.ok => g.ok /\ e \in Elements(a)
      /\ \E x \in Elements(a) : x.name = e.name /\ x.id = e.id
  BY AddFacts
<1>2. h = [a EXCEPT !.conn[m] = e]
  BY DEF Start
<1> HIDE DEF a
<1>3. /\ DOMAIN h = DOMAIN a /\ h.offers = a.offers /\ h.links = a.links
      /\ h.ok = a.ok /\ h.conn = [a.conn EXCEPT ![m] = e]
  BY <1>1, <1>2 DEF Proper
<1> HIDE DEF h
<1>4. Elements(h) = Elements(a)
  BY <1>3 DEF Elements
<1>5. Proper(h)
  BY <1>1, <1>3, <1>4 DEF Proper
<1> QED  BY <1>1, <1>3, <1>4, <1>5 DEF h

\* A chain of one element is one step.
LEMMA ChainOfOne ==
    ASSUME NEW g, NEW from, NEW e
    PROVE  Chain(g, from, <<e>>) = ChainStep([g |-> g, at |-> from], e)
<1> DEFINE es == <<e>>
           n == 1
           s == [g |-> g, at |-> from]
<1>1. n \in Nat /\ DOMAIN es = 1 .. n
  OBVIOUS
<1>2. es[n] = e /\ n \in 1 .. n /\ n - 1 = 0
  OBVIOUS
<1> HIDE DEF es, n, s
<1>3. PICK p : /\ p[0] = s
               /\ \A k \in 1 .. n : p[k] = ChainStep(p[k - 1], es[k])
               /\ Chained!Fold(s, es) = p[n]
  BY <1>1, Chained!FoldSteps
<1>4. p[n] = ChainStep(s, e)
  BY <1>2, <1>3
<1>5. Chain(g, from, es) = Chained!Fold(s, es)
  BY DEF Chain, Chained!Fold, FoldLeft, Chained!FoldLeft, MapThenFoldSet,
         Chained!MapThenFoldSet, Max, Chained!Max, s
<1> QED  BY <1>3, <1>4, <1>5 DEF es, s

\* A decoded source: a decodebin comes, and no entry.
LEMMA DecodedFacts ==
    ASSUME NEW g, Proper(g), NEW i \in Inputs, i \in Int, cfg.kind # "test_input"
    PROVE  LET h == DecodedInput(g, i) IN
           /\ Proper(h) /\ h.conn = g.conn /\ g.links \subseteq h.links
           /\ Elements(g) \subseteq Elements(h) /\ (h.ok => g.ok /\ HasSource(i))
           /\ \A x \in Elements(h) : x \in Elements(g) \/ x \in Plain
                                     \/ x = Element("decodebin", i, "decodebin")
<1> DEFINE src == Element("src", i, "filesrc")
           bin == Element("decodebin", i, "decodebin")
           a == ElementAdd(g, src)
           h == Chain(a, src, <<bin>>).g
<1>0. DecodedInput(g, i) = IF HasSource(i) THEN h ELSE Abort(g)
  BY DEF DecodedInput
<1>1. src \in Plain /\ Part(src)
  <2>1. "src" \in PlainNames /\ "filesrc" \in PlainPlugins
    BY DEF PlainNames, PlainPlugins
  <2> QED  BY <2>1, PlainElement, PlainIsPart
<1>2. Part(bin)
  <2>1. bin.name = "decodebin" /\ bin.id = i
    BY DEF Element
  <2>2. \A m \in Media : bin.name # UdbName[m]
    BY <2>1 DEF Media, UdbName
  <2> QED  BY <2>1, <2>2 DEF Part
<1>3. /\ Proper(a) /\ a.conn = g.conn /\ a.links = g.links
      /\ Elements(g) \subseteq Elements(a) /\ Elements(a) \subseteq Elements(g) \cup {src}
      /\ a.ok => g.ok
  BY <1>1, AddFacts
<1>4. h = ElementLink(ElementAdd(a, bin), src, bin)
  <2>1. Chain(a, src, <<bin>>) = ChainStep([g |-> a, at |-> src], bin)
    BY ChainOfOne
  <2> QED  BY <2>1 DEF ChainStep
<1> HIDE DEF a, src, bin, h
<1> DEFINE b == ElementAdd(a, bin)
<1>5. /\ Proper(b) /\ b.conn = a.conn /\ b.links = a.links
      /\ Elements(a) \subseteq Elements(b) /\ Elements(b) \subseteq Elements(a) \cup {bin}
      /\ b.ok => a.ok
  BY <1>2, <1>3, AddFacts
<1> HIDE DEF b
<1>6. /\ Proper(h) /\ h.conn = b.conn /\ b.links \subseteq h.links
      /\ Elements(h) = Elements(b) /\ (h.ok => b.ok)
  <2>1. h = ElementLink(b, src, bin)
    BY <1>4 DEF b
  <2> DEFINE k == ElementLink(b, src, bin)
  <2>2. Proper(b)
    BY <1>5
  <2>3. /\ Proper(k) /\ k.conn = b.conn /\ b.links \subseteq k.links
        /\ Elements(k) = Elements(b) /\ (k.ok => b.ok)
    BY <2>2, LinkFacts
  <2> HIDE DEF k
  <2> QED  BY <2>1, <2>3 DEF k
<1>7. \A x \in Elements(h) : x \in Elements(g) \/ x \in Plain \/ x = bin
  BY <1>1, <1>3, <1>5, <1>6
<1>8. /\ Proper(h) /\ h.conn = g.conn /\ g.links \subseteq h.links
      /\ Elements(g) \subseteq Elements(h) /\ (h.ok => g.ok)
  BY <1>3, <1>5, <1>6
<1>9. CASE HasSource(i)
  <2>1. DecodedInput(g, i) = h
    BY <1>0, <1>9
  <2> QED  BY <1>7, <1>8, <1>9, <2>1 DEF bin
<1>10. CASE ~ HasSource(i)
  <2>1. DecodedInput(g, i) = Abort(g)
    BY <1>0, <1>10
  <2> DEFINE k == Abort(g)
  <2>2. Proper(k) /\ k.conn = g.conn /\ k.links = g.links /\ ~ k.ok /\ Elements(k) = Elements(g)
    BY AbortFacts DEF Grows
  <2> HIDE DEF k
  <2> QED  BY <2>1, <2>2 DEF k
<1> QED  BY <1>9, <1>10

\* The input stage; the test sources are the only ones that are connected.
LEMMA InputFacts ==
    ASSUME cfg \in Config, ~ IsMosaic
    PROVE  LET h == BuildInput(EmptyGraph) IN
           Proper(h) /\ (cfg.kind = "test_input" => Fine(h))
<1> DEFINE h == BuildInput(EmptyGraph)
<1>1. CASE cfg.kind = "device"
  <2> DEFINE g1 == IF "video" \in cfg.media THEN DeviceInput(EmptyGraph, "video") ELSE EmptyGraph
  <2>1. h = IF "audio" \in cfg.media THEN DeviceInput(g1, "audio") ELSE g1
    BY <1>1 DEF BuildInput, ForMedia
  <2>2. Proper(g1)
    <3> DEFINE src == Element("src", 0, "v4l2src")
               s == Start(EmptyGraph, "video", src)
               es == <<Element("video_caps_device", 0, "capsfilter")>>
    <3>1. src \in Plain /\ Element("video_caps_device", 0, "capsfilter") \in Plain
      BY PlainElement DEF PlainNames, PlainPlugins, Transparent
    <3>2. Part(src) /\ src # Null
      BY <3>1, PlainIsPart DEF Element, Null
    <3>3. Proper(s)
      BY <3>2, EmptyIsProper, StartFacts DEF Media
    <3>4. es \in Seq(Plain)
      BY <3>1, PlainSequences
    <3>5. DeviceInput(EmptyGraph, "video") = Extend(s, "video", es)
      BY DEF DeviceInput
    <3> HIDE DEF s, es
    <3> DEFINE r == Chain(s, s.conn["video"], es)
    <3>6. Proper(r.g)
      BY <3>3, <3>4, ChainFacts DEF Grows
    <3> HIDE DEF r
    <3> DEFINE x == [r.g EXCEPT !.conn["video"] = r.at]
    <3>7. Extend(s, "video", es) = x
      BY DEF Extend, r
    <3>8. /\ DOMAIN x = DOMAIN r.g /\ x.offers = r.g.offers /\ x.links = r.g.links
          /\ x.ok = r.g.ok /\ DOMAIN x.conn = DOMAIN r.g.conn
      BY <3>6 DEF Proper
    <3> HIDE DEF x
    <3>9. Elements(x) = Elements(r.g)
      BY <3>8 DEF Elements
    <3>10. Proper(x)
      BY <3>6, <3>8, <3>9 DEF Proper
    <3> QED  BY <3>5, <3>7, <3>10, EmptyIsProper
  <2> HIDE DEF g1
  <2>3. Proper(h)
    <3> DEFINE src == Element("src", 1, "alsasrc")
    <3>1. src \in Plain
      BY PlainElement DEF PlainNames, PlainPlugins
    <3>2. Part(src) /\ src # Null
      BY <3>1, PlainIsPart DEF Element, Null
    <3>3. DeviceInput(g1, "audio") = Start(g1, "audio", src)
      BY DEF DeviceInput
    <3>4. Proper(Start(g1, "audio", src))
      BY <2>2, <3>2, StartFacts DEF Media
    <3> QED  BY <2>1, <2>2, <3>3, <3>4
  <2> QED  BY <1>1, <2>3
<1>2. CASE cfg.kind = "test_input"
  <2> DEFINE v == TestSource("video")
             w == TestSource("audio")
             g1 == IF "video" \in cfg.media THEN Start(EmptyGraph, "video", v) ELSE EmptyGraph
  <2>1. h = IF "audio" \in cfg.media THEN Start(g1, "audio", w) ELSE g1
    BY <1>2 DEF BuildInput, ForMedia, TestInput
  <2>2. v.name = "video_src" /\ w.name = "audio_src"
    BY DEF TestSource, Element
  <2>3. Part(v) /\ Part(w) /\ v # Null /\ w # Null
    <3>1. \A m \in Media : UdbName[m] \in {"udb_conn_video", "udb_conn_audio"}
      BY DEF Media, UdbName
    <3>2. Null.name = "nullptr"
      BY DEF Null, Element
    <3> HIDE DEF v, w
    <3> QED  BY <2>2, <3>1, <3>2 DEF Part
  <2>4. /\ Proper(g1)
        /\ "video" \in cfg.media => g1.conn["video"] = v
    <3>1. DOMAIN EmptyGraph.conn = Media /\ "video" \in Media
      BY EmptyIsProper DEF Proper, Media
    <3> HIDE DEF v
    <3>2. /\ Proper(Start(EmptyGraph, "video", v))
          /\ Start(EmptyGraph, "video", v).conn = [EmptyGraph.conn EXCEPT !["video"] = v]
      BY <2>3, <3>1, EmptyIsProper, StartFacts
    <3> QED  BY <3>1, <3>2, EmptyIsProper
  <2> HIDE DEF g1, h
  <2>5. /\ Proper(h)
        /\ "video" \in cfg.media => h.conn["video"] = v
        /\ "audio" \in cfg.media => h.conn["audio"] = w
    <3>1. DOMAIN g1.conn = Media /\ "video" \in Media /\ "audio" \in Media /\ "audio" # "video"
      BY <2>4 DEF Proper, Media
    <3> HIDE DEF v, w
    <3>2. /\ Proper(Start(g1, "audio", w))
          /\ Start(g1, "audio", w).conn = [g1.conn EXCEPT !["audio"] = w]
      BY <2>3, <2>4, <3>1, StartFacts
    <3> QED  BY <2>1, <2>4, <3>1, <3>2
  <2>6. \A x \in Elements(h) : x.name # "decodebin" /\ \A m \in Media : x.name # UdbName[m]
    BY <1>2, <2>5 DEF Proper, Part
  <2>7. Entered(h)
    <3>1. \A i : Element("decodebin", i, "decodebin").name = "decodebin"
      BY DEF Element
    <3> QED  BY <2>6, <3>1 DEF Entered
  <2>8. ASSUME NEW m \in cfg.media, NEW e \in Entries(h, m)  PROVE e = h.conn[m]
    <3>1. m \in Media
      BY DEF Config
    <3>2. e = TestSource(m)
      BY <2>6, <2>8, <3>1 DEF Entries
    <3>3. m = "video" \/ m = "audio"
      BY <3>1 DEF Media
    <3> QED  BY <2>5, <3>2, <3>3
  <2>9. Joined(h)
    BY <2>8, PathFacts DEF Joined
  <2> QED  BY <2>5, <2>7, <2>9 DEF Fine, h
<1>3. CASE cfg.kind \notin {"device", "test_input"}
  <2>1. h = DecodedInput(EmptyGraph, 0)
    BY <1>3 DEF BuildInput
  <2>2. 0 \in Inputs /\ 0 \in Int
    BY DEF Inputs
  <2>3. Proper(h)
    BY <1>3, <2>1, <2>2, EmptyIsProper, DecodedFacts
  <2> QED  BY <1>3, <2>3
<1> QED  BY <1>1, <1>2, <1>3

\* The entries of decodebin's pads become the connectors.
LEMMA UdbFine ==
    ASSUME NEW g, Proper(g), cfg \in Config, ~ IsMosaic, cfg.kind # "test_input"
    PROVE  Fine(ForMedia(UdbConnection, g))
<1> DEFINE U(m) == Element(UdbName[m], 0,
                           IF ~ IsRelay THEN "queue"
                           ELSE IF m = "video" THEN cfg.vparser ELSE cfg.aparser)
           v == U("video")
           w == U("audio")
           g1 == IF "video" \in cfg.media THEN Start(g, "video", v) ELSE g
           h == IF "audio" \in cfg.media THEN Start(g1, "audio", w) ELSE g1
<1>1. h = ForMedia(UdbConnection, g)
  BY DEF ForMedia, UdbConnection
<1>2. /\ v.name = UdbName["video"] /\ v.id = 0 /\ (IsRelay => v.plugin = Parser("video"))
      /\ w.name = UdbName["audio"] /\ w.id = 0 /\ (IsRelay => w.plugin = Parser("audio"))
  BY DEF Element, Parser
<1>3. UdbName["video"] = "udb_conn_video" /\ UdbName["audio"] = "udb_conn_audio"
  BY DEF UdbName
<1>4. Null.name = "nullptr" /\ 0 \in Inputs
  BY DEF Null, Element, Inputs
<1> HIDE DEF U, v, w
<1>5. Part(v) /\ Part(w) /\ v # Null /\ w # Null
  <2>1. \A m \in Media : m = "video" \/ m = "audio"
    BY DEF Media
  <2>2. Part(v)
    BY <1>2, <1>3, <1>4, <2>1 DEF Part
  <2>3. Part(w)
    BY <1>2, <1>3, <1>4, <2>1 DEF Part
  <2> QED  BY <1>2, <1>3, <1>4, <2>2, <2>3
<1>6. DOMAIN g.conn = Media /\ "video" \in Media /\ "audio" \in Media /\ "audio" # "video"
  BY DEF Proper, Media
<1>7. /\ Proper(g1)
      /\ "video" \in cfg.media =>
             /\ g1.conn["video"] = v
             /\ g1.ok => v \in Elements(g1)
             /\ \E x \in Elements(g1) : x.name = v.name /\ x.id = v.id
  <2> DEFINE k == Start(g, "video", v)
  <2>1. /\ Proper(k) /\ k.conn = [g.conn EXCEPT !["video"] = v]
        /\ k.ok => v \in Elements(k)
        /\ \E x \in Elements(k) : x.name = v.name /\ x.id = v.id
    BY <1>5, <1>6, StartFacts
  <2> HIDE DEF k
  <2> QED  BY <1>6, <2>1 DEF k
<1> HIDE DEF g1
<1>8. /\ Proper(h) /\ Elements(g1) \subseteq Elements(h) /\ (h.ok => g1.ok)
      /\ h.conn["video"] = g1.conn["video"]
      /\ "audio" \in cfg.media =>
             /\ h.conn["audio"] = w
             /\ h.ok => w \in Elements(h)
             /\ \E x \in Elements(h) : x.name = w.name /\ x.id = w.id
  <2> DEFINE k == Start(g1, "audio", w)
  <2>1. /\ Proper(k) /\ k.conn = [g1.conn EXCEPT !["audio"] = w]
        /\ Elements(g1) \subseteq Elements(k) /\ (k.ok => g1.ok)
        /\ k.ok => w \in Elements(k)
        /\ \E x \in Elements(k) : x.name = w.name /\ x.id = w.id
    BY <1>5, <1>6, <1>7, StartFacts
  <2>2. DOMAIN g1.conn = Media
    BY <1>7 DEF Proper
  <2> HIDE DEF k
  <2> QED  BY <1>6, <1>7, <2>1, <2>2 DEF k
<1> HIDE DEF h
<1>9. ASSUME NEW m \in cfg.media
      PROVE  /\ h.conn[m].name = UdbName[m] /\ h.conn[m].id = 0
             /\ h.ok => h.conn[m] \in Elements(h)
             /\ \E x \in Elements(h) : x.name = UdbName[m] /\ x.id = 0
  <2>1. m = "video" \/ m = "audio"
    BY DEF Config, Media
  <2>2. CASE m = "video"
    BY <1>2, <1>7, <1>8, <2>2
  <2>3. CASE m = "audio"
    BY <1>2, <1>8, <2>3
  <2> QED  BY <2>1, <2>2, <2>3
<1>10. Entered(h)
  <2> SUFFICES ASSUME NEW i, Element("decodebin", i, "decodebin") \in Elements(h)
               PROVE  i = 0
    BY <1>9 DEF Entered
  <2>1. Part(Element("decodebin", i, "decodebin"))
    BY <1>8 DEF Proper
  <2>2. i \in Inputs
    BY <2>1 DEF Part, Element
  <2> QED  BY <2>2 DEF Inputs
<1>11. ASSUME h.ok, NEW m \in cfg.media, NEW e \in Entries(h, m)  PROVE e = h.conn[m]
  <2>1. m \in Media
    BY DEF Config
  <2>2. e \in Elements(h) /\ e.name = UdbName[m]
    BY <1>11 DEF Entries
  <2>3. e.id = 0
    BY <1>8, <2>1, <2>2 DEF Proper, Part, Inputs
  <2> QED  BY <1>8, <1>9, <1>11, <2>2, <2>3 DEF Proper
<1>12. Joined(h)
  BY <1>11, PathFacts DEF Joined
<1> QED  BY <1>1, <1>8, <1>10, <1>12 DEF Fine

\* The connectors of the input are all null when entries are added.
LEMMA UdbStageFine ==
    ASSUME NEW g, Proper(g), cfg \in Config, ~ IsMosaic,
           cfg.kind = "test_input" => Fine(g), BuildUdbConnections(g).ok
    PROVE  Fine(BuildUdbConnections(g))
<1>1. Abort(g).ok = FALSE
  BY DEF Abort, Proper
<1>2. CASE cfg.kind = "test_input"
  BY <1>2 DEF BuildUdbConnections
<1>3. CASE cfg.kind # "test_input"
  <2>1. BuildUdbConnections(g) = ForMedia(UdbConnection, g)
    BY <1>1, <1>3 DEF BuildUdbConnections
  <2> QED  BY <1>3, <2>1, UdbFine
<1> QED  BY <1>2, <1>3

\* The branches for video and for audio one after the other.
LEMMA PostProcFine ==
    ASSUME NEW g, Fine(g), cfg \in Config
    PROVE  Fine(BuildPostProc(g))
<1>1. ASSUME NEW s, Fine(s)  PROVE Fine(VideoPostProc(s))
  <2>1. "video" \in Media /\ 0 \in Int
    BY DEF Media
  <2>0. CASE LogoAborts
    <3>1. VideoPostProc(s) = Abort(s)
      BY <2>0 DEF VideoPostProc
    <3> QED  BY <1>1, <3>1, AbortFine
  <2>2. CASE ~ LogoAborts /\ IsGpu
    <3> DEFINE plugin == IF cfg.vcodec = "mfxh264enc" THEN "mfxvpp" ELSE "vaapipostproc"
               es == <<Element("post_proc", 0, plugin)>>
               post == Extend(s, "video", es)
               cut == [post EXCEPT !.conn["video"] = Null]
    <3>1. VideoPostProc(s) = Extend(cut, "video", Logo)
      BY <2>2 DEF VideoPostProc
    <3>2. plugin \in PlainPlugins
      BY DEF PlainPlugins, RawFilters
    <3> HIDE DEF plugin
    <3>3. es \in Seq(Plain)
      <4>1. Element("post_proc", 0, plugin) \in Plain
        BY <2>1, <3>2, PlainElement DEF PlainNames
      <4> QED  BY <4>1, PlainSequences
    <3> HIDE DEF es
    <3>4. Fine(post)
      BY <1>1, <2>1, <3>3, ExtendFine
    <3> HIDE DEF post
    <3>5. /\ DOMAIN cut = DOMAIN post /\ cut.offers = post.offers /\ cut.links = post.links
          /\ cut.ok = post.ok /\ cut.conn = [post.conn EXCEPT !["video"] = Null]
          /\ DOMAIN post.conn = Media
      BY <3>4 DEF Fine, Proper
    <3> HIDE DEF cut
    <3>6. Elements(cut) = Elements(post)
      BY <3>5 DEF Elements
    <3>7. Proper(cut) /\ Entered(cut)
      BY <3>4, <3>5, <3>6 DEF Fine, Proper, Entered
    <3>8. Joined(cut)
      <4> SUFFICES ASSUME cut.ok, NEW m \in cfg.media, cut.conn[m] # Null, NEW e \in Entries(cut, m)
                   PROVE  Path(cut, e, cut.conn[m])
        BY DEF Joined
      <4>1. m \in Media
        BY DEF Config
      <4>2. cut.conn[m] = post.conn[m]
        BY <3>5, <4>1
      <4>3. e \in Entries(post, m)
        BY <3>6 DEF Entries
      <4>4. Path(post, e, post.conn[m])
        BY <3>4, <3>5, <4>2, <4>3 DEF Fine, Joined
      <4> QED  BY <3>5, <4>2, <4>4, PathFacts
    <3>9. Fine(cut)
      BY <3>7, <3>8 DEF Fine
    <3> QED  BY <2>1, <3>1, <3>9, ExtendFine, PlainParts
  <2>3. CASE ~ LogoAborts /\ ~ IsGpu
    <3> DEFINE size == <<Element("videoscale", 0, "videoscale"),
                         Element("videoscale_capsfilter", 0, "capsfilter")>>
               es == VideoConvert \o Opt("size", size) \o AspectRatio(0) \o VideoFramerate(0) \o Logo
    <3>1. size \in Seq(Plain)
      <4>1. /\ Element("videoscale", 0, "videoscale") \in Plain
            /\ Element("videoscale_capsfilter", 0, "capsfilter") \in Plain
        BY <2>1, PlainElement DEF PlainNames, PlainPlugins, RawFilters, Transparent
      <4> QED  BY <4>1, PlainSequences
    <3> HIDE DEF size
    <3>2. es \in Seq(Plain)
      <4>1. /\ VideoConvert \in Seq(Plain) /\ Opt("size", size) \in Seq(Plain)
            /\ AspectRatio(0) \in Seq(Plain) /\ VideoFramerate(0) \in Seq(Plain)
            /\ Logo \in Seq(Plain)
        BY <2>1, <3>1, PlainSequences, PlainParts
      <4> QED  BY <4>1, PlainSequences
    <3>3. VideoPostProc(s) = Extend(s, "video", es)
      BY <2>3 DEF VideoPostProc, size
    <3> HIDE DEF es
    <3> QED  BY <1>1, <2>1, <3>2, <3>3, ExtendFine
  <2> QED  BY <2>0, <2>2, <2>3
<1>2. ASSUME NEW s, Fine(s), NEW m \in Media  PROVE Fine(PostProc(s, m))
  <2>1. 0 \in Int
    OBVIOUS
  <2>2. CASE m = "video"
    BY <1>1, <1>2, <2>2 DEF PostProc
  <2>3. CASE m = "audio"
    <3>1. Fine(Extend(s, m, AudioConverters))
      BY <1>2, <2>1, ExtendFine, PlainParts
    <3> QED  BY <1>2, <2>3, <3>1 DEF PostProc
  <2> QED  BY <2>2, <2>3 DEF Media
<1> DEFINE g1 == IF "video" \in cfg.media THEN PostProc(g, "video") ELSE g
           h == IF "audio" \in cfg.media THEN PostProc(g1, "audio") ELSE g1
<1>3. Fine(g1)
  BY <1>2 DEF Media
<1> HIDE DEF g1
<1>4. Fine(h)
  BY <1>2, <1>3 DEF Media
<1>5. BuildPostProc(g) = IF IsRelay THEN g ELSE h
  BY DEF BuildPostProc, ForMedia, g1
<1> HIDE DEF h
<1> QED  BY <1>4, <1>5

\* BuildConverter: encoders, parsers and tees keep the ways to the connectors.
LEMMA ConverterFine ==
    ASSUME NEW g, Fine(g), cfg \in Config
    PROVE  Fine(BuildConverter(g))
<1>1. ASSUME NEW s, Fine(s), NEW m \in Media
      PROVE  Fine(RelayConverter(s, m)) /\ Fine(EncodingConverter(s, m))
  <2>1. 0 \in Int
    OBVIOUS
  <2>2. Tee(m) \in Seq(Plain)
    BY <2>1, PlainParts
  <2>3. Fine(RelayConverter(s, m))
    BY <1>1, <2>2, ExtendFine DEF RelayConverter
  <2> DEFINE codec == CASE cfg.kind = "only_audio" /\ m = "video" -> <<>>
                        [] cfg.kind = "only_video" /\ m = "audio" -> <<>>
                        [] cfg.kind # "only_audio" /\ m = "video" -> VideoEncoder(0)
                        [] OTHER -> AudioEncoder(0)
             parser == IF m = "video" THEN VideoParser(0) ELSE AudioParser(0)
             es == codec \o parser \o Tee(m)
  <2>4. codec \in Seq(Plain)
    <3>1. VideoEncoder(0) \in Seq(Plain) /\ AudioEncoder(0) \in Seq(Plain) /\ <<>> \in Seq(Plain)
      BY <2>1, PlainParts, PlainSequences
    <3>2. CASE m = "video"
      BY <3>1, <3>2
    <3>3. CASE m = "audio"
      BY <3>1, <3>3
    <3> QED  BY <3>2, <3>3 DEF Media
  <2>5. parser \in Seq(Plain)
    BY <2>1, PlainParts
  <2>6. EncodingConverter(s, m) = Extend(s, m, es)
    BY DEF EncodingConverter
  <2> HIDE DEF codec, parser
  <2>7. es \in Seq(Plain)
    BY <2>2, <2>4, <2>5, PlainSequences
  <2> HIDE DEF es
  <2> QED  BY <1>1, <2>3, <2>6, <2>7, ExtendFine
<1> DEFINE r1 == IF "video" \in cfg.media THEN RelayConverter(g, "video") ELSE g
           r2 == IF "audio" \in cfg.media THEN RelayConverter(r1, "audio") ELSE r1
           e1 == IF "video" \in cfg.media THEN EncodingConverter(g, "video") ELSE g
           e2 == IF "audio" \in cfg.media THEN EncodingConverter(e1, "audio") ELSE e1
<1>2. Fine(r1) /\ Fine(e1)
  BY <1>1 DEF Media
<1> HIDE DEF r1, e1
<1>3. Fine(r2) /\ Fine(e2)
  BY <1>1, <1>2 DEF Media
<1>4. BuildConverter(g) = IF cfg.kind = "recorder" THEN g ELSE IF IsRelay THEN r2 ELSE e2
  BY DEF BuildConverter, ForMedia, r1, e1
<1> HIDE DEF r2, e2
<1> QED  BY <1>3, <1>4

(***************************************************************************)
(* Outputs                                                                 *)
(***************************************************************************)

\* ElementAdd of a plain element, as a step of growing.
LEMMA AddGrows ==
    ASSUME NEW g, Proper(g), NEW e \in Plain
    PROVE  LET h == ElementAdd(g, e) IN
           Grows(g, h) /\ h.conn = g.conn /\ (h.ok => e \in Elements(h) /\ e # Null)
<1>1. Part(e)
  BY PlainIsPart
<1> DEFINE h == ElementAdd(g, e)
<1>2. /\ Proper(h) /\ h.conn = g.conn /\ h.links = g.links
      /\ Elements(g) \subseteq Elements(h) /\ Elements(h) \subseteq Elements(g) \cup {e}
      /\ h.ok => g.ok /\ e \in Elements(h) /\ e # Null
  BY <1>1, AddFacts
<1> HIDE DEF h
<1>3. Grows(g, h)
  BY <1>2 DEF Grows
<1> QED  BY <1>2, <1>3 DEF h

\* ElementLink, as a step of growing: unless it fails, there is a way across.
LEMMA LinkGrows ==
    ASSUME NEW g, Proper(g), NEW src, NEW dest
    PROVE  LET h == ElementLink(g, src, dest) IN
           /\ Grows(g, h) /\ h.conn = g.conn
           /\ h.ok => src # Null /\ Path(h, src, dest) /\ dest \in Elements(h)
<1> DEFINE h == ElementLink(g, src, dest)
<1>1. /\ Proper(h) /\ h.conn = g.conn /\ g.links \subseteq h.links
      /\ Elements(h) = Elements(g)
      /\ h.ok => /\ g.ok /\ <<src, dest>> \in h.links
                 /\ src \in Elements(g) /\ dest \in Elements(g)
  BY LinkFacts
<1> HIDE DEF h
<1>2. Grows(g, h)
  BY <1>1 DEF Grows
<1>3. h.ok => src # Null
  BY <1>1 DEF Proper
<1>4. h.ok => Path(h, src, dest)
  BY <1>1, PathFacts
<1> QED  BY <1>1, <1>2, <1>3, <1>4 DEF h

\* Muxers, payloaders and sinks are plain.
LEMMA PlainOutputs ==
    ASSUME cfg \in Config, NEW i \in Int
    PROVE  /\ \A scheme : Muxer(scheme, i) \in Plain
           /\ \A m \in Media : Pay(m, i) \in Plain
           /\ \A m \in Media : [DeviceSink[m] EXCEPT !.id = i] \in Plain
           /\ Element("sink", i, "sink") \in Plain
           /\ Element("sink", i, "testsink") \in Plain
           /\ Element("splitmuxsink", i, "splitmuxsink") \in Plain
           /\ \A m \in Media : OutputBranch(m, i) \in Seq(Plain) /\ MosaicBranch(m, i) \in Seq(Plain)
<1>1. {"flvmux", "rtpmux", "mpegtsmux", "nullptr", "rtph264pay", "rtph265pay", "rtpmp2tpay",
       "rtpmp4apay", "rtpac3pay", "sink", "testsink", "splitmuxsink", "autovideosink",
       "autoaudiosink"} \subseteq PlainPlugins
  BY DEF PlainPlugins, Joins
<1>2. {"muxer", "nullptr", "video_pay", "audio_pay", "sink", "splitmuxsink", "video_sink",
       "audio_sink"} \subseteq PlainNames
  BY DEF PlainNames
<1>3. 0 \in Int
  OBVIOUS
<1>4. ASSUME NEW scheme  PROVE Muxer(scheme, i) \in Plain
  <2>1. /\ Element("muxer", i, "flvmux") \in Plain /\ Element("muxer", i, "rtpmux") \in Plain
        /\ Element("muxer", i, "mpegtsmux") \in Plain /\ Null \in Plain
    BY <1>1, <1>2, <1>3, PlainElement DEF Null
  <2> QED  BY <2>1 DEF Muxer
<1>5. ASSUME NEW m \in Media  PROVE Pay(m, i) \in Plain
  <2> DEFINE v == CASE IsRelay /\ cfg.vparser = "tsparse" -> "rtpmp2tpay"
                    [] IsRelay /\ cfg.vparser = "h265parse" -> "rtph265pay"
                    [] ~ IsRelay /\ ~ IsH264Encoder -> "rtph265pay"
                    [] OTHER -> "rtph264pay"
  <2>1. v \in {"rtpmp2tpay", "rtph265pay", "rtph264pay"}
    <3>1. CASE IsRelay
      BY <3>1
    <3>2. CASE ~ IsRelay
      BY <3>2
    <3> QED  BY <3>1, <3>2
  <2> HIDE DEF v
  <2>2. Element("video_pay", i, v) \in Plain
    BY <1>1, <1>2, <2>1, PlainElement
  <2>3. /\ Element("video_pay", i, "rtpmp2tpay") \in Plain
        /\ Element("audio_pay", i, "rtpac3pay") \in Plain
        /\ Element("audio_pay", i, "rtpmp4apay") \in Plain
    BY <1>1, <1>2, PlainElement
  <2>4. CASE m = "video"
    BY <2>2, <2>4 DEF Pay, v
  <2>5. CASE m = "audio"
    <3>1. CASE IsRelay
      BY <2>3, <2>5, <3>1 DEF Pay
    <3>2. CASE ~ IsRelay
      BY <2>3, <2>5, <3>2 DEF Pay
    <3> QED  BY <3>1, <3>2
  <2> QED  BY <2>4, <2>5 DEF Media
<1>6. ASSUME NEW m \in Media  PROVE [DeviceSink[m] EXCEPT !.id = i] \in Plain
  <2>1. /\ Element("video_sink", 0, "autovideosink") \in Plain
        /\ Element("audio_sink", 0, "autoaudiosink") \in Plain
    BY <1>1, <1>2, <1>3, PlainElement
  <2>2. DeviceSink[m] \in Plain
    BY <2>1 DEF DeviceSink, Media
  <2> QED  BY <2>2 DEF Plain
<1>7. /\ Element("sink", i, "sink") \in Plain
      /\ Element("sink", i, "testsink") \in Plain
      /\ Element("splitmuxsink", i, "splitmuxsink") \in Plain
  BY <1>1, <1>2, PlainElement
<1>8. ASSUME NEW m \in Media  PROVE OutputBranch(m, i) \in Seq(Plain)
  BY <1>5, PlainSequences DEF OutputBranch
<1>9. ASSUME NEW m \in Media  PROVE MosaicBranch(m, i) \in Seq(Plain)
  <2> DEFINE rtp == cfg.outs[i + 1] = "udp"
             rate == IF cfg.vcodec # "mfxh264enc" THEN VideoFramerate(i) ELSE <<>>
             p == IF IsH264Encoder THEN "rtph264pay" ELSE "rtph265pay"
             vpay == IF rtp THEN <<Element("video_pay", i, p)>> ELSE <<>>
             apay == IF rtp THEN <<Element("audio_pay", i, "rtpmp4apay")>> ELSE <<>>
             vs == AspectRatio(i) \o rate \o VideoEncoder(i) \o vpay \o VideoParser(i)
             as == AudioEncoder(i) \o apay
  <2>1. MosaicBranch(m, i) = IF m = "video" THEN vs ELSE as
    BY DEF MosaicBranch
  <2>2. rate \in Seq(Plain)
    BY PlainParts, PlainSequences
  <2>3. p \in {"rtph264pay", "rtph265pay"}
    OBVIOUS
  <2> HIDE DEF rtp, rate, p
  <2>4. Element("video_pay", i, p) \in Plain /\ Element("audio_pay", i, "rtpmp4apay") \in Plain
    BY <1>1, <1>2, <2>3, PlainElement
  <2>5. vpay \in Seq(Plain) /\ apay \in Seq(Plain)
    BY <2>4, PlainSequences
  <2> HIDE DEF vpay, apay
  <2>6. vs \in Seq(Plain)
    <3>1. /\ AspectRatio(i) \in Seq(Plain) /\ VideoEncoder(i) \in Seq(Plain)
          /\ VideoParser(i) \in Seq(Plain)
      BY PlainParts
    <3> QED  BY <2>2, <2>5, <3>1, PlainSequences
  <2>7. as \in Seq(Plain)
    <3>1. AudioEncoder(i) \in Seq(Plain)
      BY PlainParts
    <3> QED  BY <2>5, <3>1, PlainSequences
  <2> HIDE DEF vs, as
  <2> QED  BY <2>1, <2>6, <2>7
<1> QED  BY <1>4, <1>5, <1>6, <1>7, <1>8, <1>9

\* A queue behind a tee makes a sequence that is not empty.
LEMMA QueueFirst ==
    ASSUME NEW q \in Plain, NEW es \in Seq(Plain)
    PROVE  <<q>> \o es \in Seq(Plain) /\ <<q>> \o es # <<>>
<1>1. <<q>> \in Seq(Plain) /\ Len(<<q>>) = 1
  BY PlainSequences
<1>2. <<q>> \o es \in Seq(Plain) /\ Len(<<q>> \o es) = 1 + Len(es)
  BY <1>1, ConcatProperties
<1>3. Len(es) \in Nat
  BY LenProperties
<1>4. Len(<<>>) = 0
  BY EmptySeq
<1> QED  BY <1>2, <1>3, <1>4

\* A muxed output: from every connector there is a way to the sink.
LEMMA MuxedFacts ==
    ASSUME NEW g, Proper(g), cfg \in Config, NEW i \in Int, NEW branch,
           \A m \in Media : branch[m] \in Seq(Plain)
    PROVE  LET h == BuildMuxedOutput(g, i, branch)
               sink == Element("sink", i, "sink")
           IN  /\ Grows(g, h) /\ h.conn = g.conn
               /\ h.ok => \A m \in cfg.media : g.conn[m] # Null /\ Path(h, g.conn[m], sink)
<1> DEFINE mux == Muxer(cfg.outs[i + 1], i)
           sink == Element("sink", i, "sink")
           es(m) == <<Element(TeeQueueName[m], i, "queue")>> \o branch[m]
           Join(s, m) == LET r == Chain(s, s.conn[m], es(m)) IN ElementLink(r.g, r.at, mux)
           a == ElementAdd(g, mux)
           g1 == IF "video" \in cfg.media THEN Join(a, "video") ELSE a
           g2 == IF "audio" \in cfg.media THEN Join(g1, "audio") ELSE g1
           h == IF HasSink(i) THEN Chain(g2, mux, <<sink>>).g ELSE Abort(g2)
<1>1. h = BuildMuxedOutput(g, i, branch)
  BY DEF BuildMuxedOutput, GenericOutput, ForMedia
<1>2. mux \in Plain /\ sink \in Plain
  BY PlainOutputs
<1>3. ASSUME NEW m \in Media  PROVE es(m) \in Seq(Plain) /\ es(m) # <<>>
  <2>1. Element(TeeQueueName[m], i, "queue") \in Plain
    BY PlainParts
  <2> QED  BY <2>1, QueueFirst
<1> HIDE DEF mux, sink, es
<1>4. ASSUME NEW s, Proper(s), NEW m \in Media
      PROVE  /\ Grows(s, Join(s, m)) /\ Join(s, m).conn = s.conn
             /\ Join(s, m).ok => s.conn[m] # Null /\ Path(Join(s, m), s.conn[m], mux)
  <2> DEFINE r == Chain(s, s.conn[m], es(m))
             k == ElementLink(r.g, r.at, mux)
  <2>1. /\ Grows(s, r.g) /\ r.g.conn = s.conn
        /\ r.g.ok => Path(r.g, s.conn[m], r.at)
        /\ r.g.ok => s.conn[m] # Null
    BY <1>3, <1>4, ChainFacts
  <2> HIDE DEF r
  <2>2. Proper(r.g)
    BY <2>1 DEF Grows
  <2>3. Grows(r.g, k) /\ k.conn = r.g.conn /\ (k.ok => Path(k, r.at, mux))
    BY <2>2, LinkGrows
  <2> HIDE DEF k
  <2>4. Grows(s, k)
    BY <2>1, <2>3, GrowsTransitive
  <2>5. k.ok => s.conn[m] # Null /\ Path(k, s.conn[m], r.at)
    BY <2>1, <2>3, PathFacts DEF Grows
  <2>6. k.ok => Path(k, s.conn[m], mux)
    BY <2>3, <2>5, PathFacts
  <2>7. Join(s, m) = k
    BY DEF r, k
  <2> HIDE DEF Join
  <2> QED  BY <2>1, <2>3, <2>4, <2>5, <2>6, <2>7
<1> HIDE DEF Join
<1>5. Grows(g, a) /\ a.conn = g.conn
  BY <1>2, AddGrows
<1> HIDE DEF a
<1>6. "video" \in Media /\ "audio" \in Media
  BY DEF Media
<1>7. /\ Grows(g, g1) /\ g1.conn = g.conn
      /\ g1.ok /\ "video" \in cfg.media =>
             g.conn["video"] # Null /\ Path(g1, g.conn["video"], mux)
  <2>1. Proper(a)
    BY <1>5 DEF Grows
  <2>2. /\ Grows(a, Join(a, "video")) /\ Join(a, "video").conn = a.conn
        /\ Join(a, "video").ok => /\ a.conn["video"] # Null
                                  /\ Path(Join(a, "video"), a.conn["video"], mux)
    BY <1>4, <1>6, <2>1
  <2>3. Grows(g, Join(a, "video"))
    BY <1>5, <2>2, GrowsTransitive
  <2> QED  BY <1>5, <2>2, <2>3
<1> HIDE DEF g1
<1>8. /\ Grows(g1, g2) /\ g2.conn = g.conn
      /\ g2.ok /\ "audio" \in cfg.media =>
             g.conn["audio"] # Null /\ Path(g2, g.conn["audio"], mux)
  <2>1. Proper(g1)
    BY <1>7 DEF Grows
  <2>2. /\ Grows(g1, Join(g1, "audio")) /\ Join(g1, "audio").conn = g1.conn
        /\ Join(g1, "audio").ok => /\ g1.conn["audio"] # Null
                                   /\ Path(Join(g1, "audio"), g1.conn["audio"], mux)
    BY <1>4, <1>6, <2>1
  <2>3. Grows(g1, g1)
    BY <2>1 DEF Grows
  <2> QED  BY <1>7, <2>2, <2>3
<1> HIDE DEF g2
<1>9. /\ Grows(g2, h) /\ h.conn = g2.conn
      /\ h.ok => Path(h, mux, sink)
  <2>1. Proper(g2)
    BY <1>8 DEF Grows
  <2>2. <<sink>> \in Seq(Plain) /\ <<sink>> # <<>> /\ Len(<<sink>>) = 1 /\ <<sink>>[1] = sink
    BY <1>2, PlainSequences
  <2> DEFINE one == <<sink>>
             c == Chain(g2, mux, one)
  <2> HIDE DEF one
  <2>3. /\ Grows(g2, c.g) /\ c.g.conn = g2.conn /\ c.at = one[Len(one)]
        /\ c.g.ok => Path(c.g, mux, c.at)
    <3>1. one \in Seq(Plain) /\ one # <<>>
      BY <2>2 DEF one
    <3> QED  BY <2>1, <3>1, ChainFacts
  <2>4. c.at = sink
    BY <2>2, <2>3 DEF one
  <2> HIDE DEF c
  <2>5. h = IF HasSink(i) THEN c.g ELSE Abort(g2)
    BY DEF c, one
  <2> DEFINE k == Abort(g2)
  <2>6. Grows(g2, k) /\ k.conn = g2.conn /\ ~ k.ok
    BY <2>1, AbortFacts
  <2> HIDE DEF k, h
  <2>7. CASE HasSink(i)
    BY <2>3, <2>4, <2>5, <2>7
  <2>8. CASE ~ HasSink(i)
    <3>1. h = k
      BY <2>5, <2>8 DEF k
    <3> QED  BY <2>6, <3>1
  <2> QED  BY <2>7, <2>8
<1> HIDE DEF h
<1>10. Grows(g, h) /\ h.conn = g.conn
  BY <1>7, <1>8, <1>9, GrowsTransitive
<1>11. ASSUME h.ok, NEW m \in cfg.media
       PROVE  g.conn[m] # Null /\ Path(h, g.conn[m], sink)
  <2>1. /\ g2.ok /\ g1.ok
        /\ g1.links \subseteq h.links /\ g2.links \subseteq h.links
    BY <1>8, <1>9, <1>11 DEF Grows
  <2>2. CASE m = "video"
    <3>1. g.conn[m] # Null /\ Path(h, g.conn[m], mux)
      BY <1>7, <2>1, <2>2, PathFacts
    <3> QED  BY <1>9, <1>11, <3>1, PathFacts
  <2>3. CASE m = "audio"
    <3>1. g.conn[m] # Null /\ Path(h, g.conn[m], mux)
      BY <1>8, <2>1, <2>3, PathFacts
    <3> QED  BY <1>9, <1>11, <3>1, PathFacts
  <2> QED  BY <2>2, <2>3 DEF Config, Media
<1> QED  BY <1>1, <1>10, <1>11 DEF sink

\* The sinks that output i of a medium may have.
SinksAt(m, i) == {Element("sink", i, "sink"), [DeviceSink[m] EXCEPT !.id = i]}
\* Every configured medium gets to a sink of output i.
Sunk(g, i) ==
    g.ok /\ (cfg.outs[i + 1] # "device" \/ IsMosaic) =>
        \A m \in cfg.media : g.conn[m] # Null /\ \E y \in SinksAt(m, i) : Path(g, g.conn[m], y)

\* One element added and linked to the connector, the way the sinks are.
LEMMA ChainOneFacts ==
    ASSUME NEW g, Proper(g), NEW from, NEW e \in Plain
    PROVE  LET h == Chain(g, from, <<e>>).g IN
           /\ Grows(g, h) /\ h.conn = g.conn
           /\ h.ok => from # Null /\ Path(h, from, e) /\ e \in Elements(h)
<1> DEFINE s == [g |-> g, at |-> from]
           r == ChainStep(s, e)
<1>1. Chain(g, from, <<e>>) = r
  BY ChainOfOne
<1>2. s.g = g /\ s.at = from
  OBVIOUS
<1> HIDE DEF s
<1>3. /\ Grows(s.g, r.g) /\ r.g.conn = s.g.conn
      /\ r.g.ok => Path(r.g, s.at, e) /\ e \in Elements(r.g) /\ s.at # Null
  BY <1>2, ChainStepFacts
<1> HIDE DEF r
<1> QED  BY <1>1, <1>2, <1>3

\* An output to a device: a queue and the sink of each medium.
LEMMA ShowFacts ==
    ASSUME NEW g, Proper(g), cfg \in Config, NEW i \in Int, NEW m \in Media
    PROVE  LET sink == [DeviceSink[m] EXCEPT !.id = i]
               h == Chain(g, g.conn[m], <<Element(TeeQueueName[m], i, "queue"), sink>>).g
           IN  /\ Grows(g, h) /\ h.conn = g.conn
               /\ h.ok => g.conn[m] # Null /\ Path(h, g.conn[m], sink)
<1> DEFINE sink == [DeviceSink[m] EXCEPT !.id = i]
           q == Element(TeeQueueName[m], i, "queue")
           es == <<q, sink>>
           c == Chain(g, g.conn[m], es)
<1>1. q \in Plain /\ sink \in Plain
  BY PlainParts, PlainOutputs
<1> HIDE DEF q, sink
<1>2. es \in Seq(Plain) /\ Len(es) = 2 /\ es[2] = sink
  BY <1>1, PlainSequences
<1>3. es # <<>>
  BY <1>2, EmptySeq
<1> HIDE DEF es
<1>4. /\ Grows(g, c.g) /\ c.g.conn = g.conn /\ c.at = es[Len(es)]
      /\ c.g.ok => Path(c.g, g.conn[m], c.at)
      /\ c.g.ok => g.conn[m] # Null
  <2>1. es \in Seq(Plain)
    BY <1>2
  <2> QED  BY <1>3, <2>1, ChainFacts
<1>5. c.at = sink
  BY <1>2, <1>4
<1> HIDE DEF c
<1>6. /\ Grows(g, c.g) /\ c.g.conn = g.conn
      /\ c.g.ok => g.conn[m] # Null /\ Path(c.g, g.conn[m], sink)
  BY <1>4, <1>5
<1> QED  BY <1>6 DEF c, es, q, sink

\* One pass of the loop over the outputs.
LEMMA OutputStepFacts ==
    ASSUME NEW g, Proper(g), cfg \in Config, NEW i \in Int
    PROVE  LET h == OutputStep(g, i) IN Grows(g, h) /\ h.conn = g.conn /\ Sunk(h, i)
<1> DEFINE h == OutputStep(g, i)
<1>1. ASSUME NEW branch, \A m \in Media : branch[m] \in Seq(Plain),
             h = BuildMuxedOutput(g, i, branch)
      PROVE  Grows(g, h) /\ h.conn = g.conn /\ Sunk(h, i)
  <2> DEFINE k == BuildMuxedOutput(g, i, branch)
             sink == Element("sink", i, "sink")
  <2>1. /\ Grows(g, k) /\ k.conn = g.conn
        /\ k.ok => \A m \in cfg.media : g.conn[m] # Null /\ Path(k, g.conn[m], sink)
    BY <1>1, MuxedFacts
  <2>2. \A m \in cfg.media : sink \in SinksAt(m, i)
    BY DEF SinksAt
  <2> HIDE DEF k, sink, h
  <2>3. Sunk(k, i)
    BY <2>1, <2>2 DEF Sunk
  <2> QED  BY <1>1, <2>1, <2>3 DEF k
<1>2. CASE ~ IsMosaic /\ cfg.outs[i + 1] = "device"
  <2>1. h = g
    BY <1>2 DEF OutputStep, BuildSchemeOutput
  <2>2. Grows(g, g) /\ Sunk(g, i)
    BY <1>2 DEF Grows, Sunk
  <2> QED  BY <2>1, <2>2
<1>3. CASE ~ IsMosaic /\ cfg.outs[i + 1] # "device"
  <2> DEFINE branch == [m \in Media |-> OutputBranch(m, i)]
  <2>1. h = BuildMuxedOutput(g, i, branch)
    BY <1>3 DEF OutputStep, BuildSchemeOutput
  <2>2. \A m \in Media : branch[m] \in Seq(Plain)
    BY PlainOutputs
  <2> HIDE DEF branch, h
  <2> QED  BY <1>1, <2>1, <2>2 DEF h
<1>4. CASE IsMosaic /\ cfg.outs[i + 1] # "device"
  <2> DEFINE branch == [m \in Media |-> MosaicBranch(m, i)]
  <2>1. h = BuildMuxedOutput(g, i, branch)
    BY <1>4 DEF OutputStep, MosaicOutput
  <2>2. \A m \in Media : branch[m] \in Seq(Plain)
    BY PlainOutputs
  <2> HIDE DEF branch, h
  <2> QED  BY <1>1, <2>1, <2>2 DEF h
<1>5. CASE IsMosaic /\ cfg.outs[i + 1] = "device"
  <2> DEFINE sink(m) == [DeviceSink[m] EXCEPT !.id = i]
             Show(s, m) == Chain(s, s.conn[m], <<Element(TeeQueueName[m], i, "queue"), sink(m)>>).g
             g1 == IF "video" \in cfg.media THEN Show(g, "video") ELSE g
             g2 == IF "audio" \in cfg.media THEN Show(g1, "audio") ELSE g1
  <2>1. h = g2
    BY <1>5 DEF OutputStep, MosaicOutput, ForMedia
  <2>2. ASSUME NEW s, Proper(s), NEW m \in Media
        PROVE  /\ Grows(s, Show(s, m)) /\ Show(s, m).conn = s.conn
               /\ Show(s, m).ok => s.conn[m] # Null /\ Path(Show(s, m), s.conn[m], sink(m))
    BY <2>2, ShowFacts
  <2>3. \A m \in Media : sink(m) \in SinksAt(m, i)
    BY DEF SinksAt
  <2>4. "video" \in Media /\ "audio" \in Media
    BY DEF Media
  <2> HIDE DEF Show, sink, h
  <2>5. Grows(g, g)
    BY DEF Grows
  <2>6. /\ Grows(g, g1) /\ g1.conn = g.conn
        /\ g1.ok /\ "video" \in cfg.media =>
               g.conn["video"] # Null /\ Path(g1, g.conn["video"], sink("video"))
    BY <2>2, <2>4, <2>5
  <2> HIDE DEF g1
  <2>7. Proper(g1) /\ Grows(g1, g1)
    BY <2>6 DEF Grows
  <2>8. /\ Grows(g1, g2) /\ g2.conn = g.conn
        /\ g2.ok /\ "audio" \in cfg.media =>
               g.conn["audio"] # Null /\ Path(g2, g.conn["audio"], sink("audio"))
    BY <2>2, <2>4, <2>6, <2>7
  <2> HIDE DEF g2
  <2>9. Grows(g, g2)
    BY <2>6, <2>8, GrowsTransitive
  <2>10. ASSUME g2.ok, NEW m \in cfg.media
         PROVE  g2.conn[m] # Null /\ \E y \in SinksAt(m, i) : Path(g2, g2.conn[m], y)
    <3>1. g1.ok /\ g1.links \subseteq g2.links
      BY <2>8, <2>10 DEF Grows
    <3>2. CASE m = "video"
      <4>1. g.conn[m] # Null /\ Path(g2, g.conn[m], sink(m))
        BY <2>6, <3>1, <3>2, PathFacts
      <4> QED  BY <2>3, <2>4, <2>8, <3>2, <4>1
    <3>3. CASE m = "audio"
      <4>1. g.conn[m] # Null /\ Path(g2, g.conn[m], sink(m))
        BY <2>8, <2>10, <3>3
      <4> QED  BY <2>3, <2>4, <2>8, <3>3, <4>1
    <3> QED  BY <3>2, <3>3 DEF Config, Media
  <2>11. Sunk(g2, i)
    BY <2>10 DEF Sunk
  <2> QED  BY <2>1, <2>8, <2>9, <2>11 DEF h
<1> QED  BY <1>2, <1>3, <1>4, <1>5

\* The loop over the outputs, iteration by iteration.
LEMMA OutputsSteps ==
    ASSUME NEW g, cfg \in Config
    PROVE  LET n == Len(cfg.outs) IN
           /\ n \in Nat /\ DOMAIN cfg.outs = 1 .. n
           /\ \E p : /\ p[0] = g /\ Outputs(g) = p[n]
                     /\ \A k \in 1 .. n : p[k] = OutputStep(p[k - 1], k - 1)
<1> DEFINE n == Len(cfg.outs)
           es == [j \in DOMAIN cfg.outs |-> j - 1]
           h == Outputs(g)
<1>1. n \in Nat /\ DOMAIN cfg.outs = 1 .. n
  <2>1. cfg.outs \in Seq(Schemes)
    BY DEF Config
  <2> QED  BY <2>1, LenProperties
<1>2. DOMAIN es = 1 .. n /\ \A k \in 1 .. n : es[k] = k - 1
  BY <1>1
<1> HIDE DEF n, es
<1>3. PICK p : /\ p[0] = g
               /\ \A k \in 1 .. n : p[k] = OutputStep(p[k - 1], es[k])
               /\ Looped!Fold(g, es) = p[n]
  <2>1. n \in Nat /\ DOMAIN es = 1 .. n
    BY <1>1, <1>2
  <2> QED  BY <2>1, Looped!FoldSteps
<1>4. h = p[n]
  <2>1. h = Looped!Fold(g, es)
    BY DEF Outputs, Looped!Fold, FoldLeft, Looped!FoldLeft, MapThenFoldSet,
           Looped!MapThenFoldSet, Max, Looped!Max, es
  <2> HIDE DEF h
  <2> QED  BY <1>3, <2>1
<1> HIDE DEF h
<1>5. \A k \in 1 .. n : p[k] = OutputStep(p[k - 1], k - 1)
  BY <1>2, <1>3
<1> QED  BY <1>1, <1>3, <1>4, <1>5 DEF n, h

\* The whole loop: all the outputs, however many, are reached.
LEMMA OutputsFacts ==
    ASSUME NEW g, Proper(g), cfg \in Config
    PROVE  LET h == Outputs(g) IN
           /\ Grows(g, h) /\ h.conn = g.conn
           /\ \A j \in DOMAIN cfg.outs : Sunk(h, j - 1)
<1> DEFINE n == Len(cfg.outs)
           h == Outputs(g)
<1>1. n \in Nat /\ DOMAIN cfg.outs = 1 .. n
  BY OutputsSteps
<1> HIDE DEF n
<1>2. PICK p : p[0] = g /\ h = p[n] /\ \A k \in 1 .. n : p[k] = OutputStep(p[k - 1], k - 1)
  BY OutputsSteps DEF n
<1> HIDE DEF h
<1> DEFINE Done(k) == /\ Grows(g, p[k]) /\ p[k].conn = g.conn
                      /\ \A j \in 1 .. k : Sunk(p[k], j - 1)
           Bad == {k \in 0 .. n : ~ Done(k)}
<1>5. Done(0)
  <2>1. Grows(g, g)
    BY DEF Grows
  <2> QED  BY <1>2, <2>1
<1>6. ASSUME NEW k \in 1 .. n, Done(k - 1)  PROVE Done(k)
  <2> DEFINE s == p[k - 1]
             i == k - 1
             x == OutputStep(s, i)
  <2>1. p[k] = x /\ i \in Int
    BY <1>1, <1>2
  <2>2. Grows(g, s) /\ s.conn = g.conn /\ \A j \in 1 .. k - 1 : Sunk(s, j - 1)
    BY <1>6
  <2> HIDE DEF s
  <2>3. Proper(s)
    BY <2>2 DEF Grows
  <2>4. Grows(s, x) /\ x.conn = s.conn /\ Sunk(x, i)
    <3> HIDE DEF i
    <3> QED  BY <2>1, <2>3, OutputStepFacts
  <2> HIDE DEF x
  <2>5. Grows(g, x)
    BY <2>2, <2>4, GrowsTransitive
  <2>6. ASSUME NEW j \in 1 .. k  PROVE Sunk(x, j - 1)
    <3>1. CASE j = k
      BY <2>4, <3>1
    <3>2. CASE j # k
      <4>1. j \in 1 .. k - 1
        BY <3>2
      <4> DEFINE d == j - 1
      <4>2. Sunk(s, d)
        BY <2>2, <4>1
      <4> HIDE DEF d
      <4>3. (x.ok => s.ok) /\ s.links \subseteq x.links
        BY <2>4 DEF Grows
      <4>4. \A u, w : Path(s, u, w) => Path(x, u, w)
        BY <4>3, PathFacts
      <4>5. Sunk(x, d)
        BY <2>4, <4>2, <4>3, <4>4 DEF Sunk
      <4> QED  BY <4>5 DEF d
    <3> QED  BY <3>1, <3>2
  <2> QED  BY <2>1, <2>2, <2>4, <2>5, <2>6
<1>7. Bad = {}
  <2> SUFFICES ASSUME Bad # {}  PROVE FALSE
    OBVIOUS
  <2>1. Bad \in SUBSET Nat
    BY <1>1
  <2>2. PICK k \in Bad : \A j \in Bad : k <= j
    <3> HIDE DEF Bad
    <3> QED  BY <2>1, Chained!LeastNumber
  <2>3. k \in 0 .. n /\ ~ Done(k)
    BY <2>2
  <2>4. k # 0
    BY <1>5, <2>3
  <2>5. k \in 1 .. n /\ k - 1 \in 0 .. n /\ ~(k <= k - 1)
    BY <1>1, <2>3, <2>4
  <2>6. Done(k - 1)
    BY <2>2, <2>5
  <2> QED  BY <1>6, <2>3, <2>5, <2>6
<1>8. Done(n)
  <2>1. n \in 0 .. n
    BY <1>1
  <2>2. n \notin Bad
    BY <1>7
  <2> HIDE DEF Done
  <2> QED  BY <2>1, <2>2
<1> QED  BY <1>1, <1>2, <1>8 DEF h

\* A graph in order that grows and keeps its connectors stays in order.
LEMMA GrowsFine ==
    ASSUME NEW g, Fine(g), NEW h, Grows(g, h), h.conn = g.conn, cfg \in Config
    PROVE  Fine(h)
<1>1. Proper(h) /\ Entered(h)
  BY GrowsKeeps DEF Fine, Grows
<1>2. ASSUME h.ok, NEW m \in cfg.media, h.conn[m] # Null, NEW e \in Entries(h, m)
      PROVE  Path(h, e, h.conn[m])
  <2>1. m \in Media
    BY DEF Config
  <2>2. e \in Entries(g, m)
    BY <1>2, <2>1, GrowsKeeps
  <2>3. g.ok /\ g.links \subseteq h.links
    BY <1>2 DEF Grows
  <2>4. Path(g, e, g.conn[m])
    BY <1>2, <2>2, <2>3 DEF Fine, Joined
  <2> QED  BY <2>3, <2>4, PathFacts
<1> QED  BY <1>1, <1>2 DEF Fine, Joined

\* From the connector of every configured medium there is a way to every output.
Reached(g) ==
    g.ok => \A m \in cfg.media : \A S \in SinksOf(g, m) :
                g.conn[m] # Null /\ \E y \in S : Path(g, g.conn[m], y)

\* After the loop over the outputs, each of them is reached from the connectors.
LEMMA OutputsReached ==
    ASSUME NEW g, Fine(g), cfg \in Config, cfg.kind \notin {"test_life", "recorder"}
    PROVE  Fine(Outputs(g)) /\ Reached(Outputs(g))
<1> DEFINE h == Outputs(g)
<1>1. Proper(g)
  BY DEF Fine
<1>2. Grows(g, h) /\ h.conn = g.conn /\ \A j \in DOMAIN cfg.outs : Sunk(h, j - 1)
  BY <1>1, OutputsFacts
<1> HIDE DEF h
<1>3. Fine(h)
  BY <1>2, GrowsFine
<1>4. ASSUME h.ok, NEW m \in cfg.media, NEW S \in SinksOf(h, m)
      PROVE  h.conn[m] # Null /\ \E y \in S : Path(h, h.conn[m], y)
  <2>1. PICK j \in DOMAIN cfg.outs : /\ cfg.outs[j] # "device" \/ IsMosaic
                                     /\ S = SinksAt(m, j - 1)
    BY <1>4 DEF SinksOf, SinksAt
  <2>2. j \in Int
    <3>1. DOMAIN cfg.outs = 1 .. Len(cfg.outs) /\ Len(cfg.outs) \in Nat
      BY LenProperties DEF Config
    <3> QED  BY <3>1
  <2> DEFINE i == j - 1
  <2>3. i + 1 = j
    BY <2>2
  <2>4. Sunk(h, i)
    BY <1>2, <2>1
  <2> HIDE DEF i
  <2>5. cfg.outs[i + 1] # "device" \/ IsMosaic
    BY <2>1, <2>3
  <2>6. S = SinksAt(m, i)
    BY <2>1 DEF i
  <2> QED  BY <1>4, <2>4, <2>5, <2>6 DEF Sunk
<1> QED  BY <1>3, <1>4 DEF Reached, h

\* The output stage of all the kinds that are not a mosaic.
LEMMA OutputFine ==
    ASSUME NEW g, Fine(g), cfg \in Config, ~ IsMosaic
    PROVE  Fine(BuildOutput(g)) /\ Reached(BuildOutput(g))
<1> DEFINE h == BuildOutput(g)
<1>0. Proper(g)
  BY DEF Fine
<1>1. CASE cfg.kind = "test_life"
  <2> DEFINE sink(m) == Element("sink", IF m = "video" THEN 0 ELSE 1, "testsink")
             Out(s, m) == Chain(s, s.conn[m], <<sink(m)>>).g
             g1 == IF "video" \in cfg.media THEN Out(g, "video") ELSE g
             g2 == IF "audio" \in cfg.media THEN Out(g1, "audio") ELSE g1
  <2>1. h = g2
    BY <1>1 DEF BuildOutput, ForMedia, TestOutput
  <2>2. \A m \in Media : sink(m) \in Plain /\ sink(m).plugin = "testsink"
    <3>1. Element("sink", 0, "testsink") \in Plain /\ Element("sink", 1, "testsink") \in Plain
      BY PlainOutputs
    <3> QED  BY <3>1 DEF Element
  <2> HIDE DEF sink
  <2>3. ASSUME NEW s, Proper(s), NEW m \in Media
        PROVE  /\ Grows(s, Out(s, m)) /\ Out(s, m).conn = s.conn
               /\ Out(s, m).ok => /\ s.conn[m] # Null /\ Path(Out(s, m), s.conn[m], sink(m))
                                  /\ sink(m) \in Elements(Out(s, m))
    BY <2>2, <2>3, ChainOneFacts
  <2>4. "video" \in Media /\ "audio" \in Media
    BY DEF Media
  <2> HIDE DEF Out, h
  <2>5. Grows(g, g)
    BY <1>0 DEF Grows
  <2>6. /\ Grows(g, g1) /\ g1.conn = g.conn
        /\ g1.ok /\ "video" \in cfg.media =>
               /\ g.conn["video"] # Null /\ Path(g1, g.conn["video"], sink("video"))
               /\ sink("video") \in Elements(g1)
    BY <1>0, <2>3, <2>4, <2>5
  <2> HIDE DEF g1
  <2>7. Proper(g1) /\ Grows(g1, g1)
    BY <2>6 DEF Grows
  <2>8. /\ Grows(g1, g2) /\ g2.conn = g.conn
        /\ g2.ok /\ "audio" \in cfg.media =>
               /\ g.conn["audio"] # Null /\ Path(g2, g.conn["audio"], sink("audio"))
               /\ sink("audio") \in Elements(g2)
    BY <2>3, <2>4, <2>6, <2>7
  <2> HIDE DEF g2
  <2>9. Fine(g2)
    BY <2>6, <2>8, GrowsTransitive, GrowsFine
  <2>10. ASSUME g2.ok, NEW m \in cfg.media, NEW S \in SinksOf(g2, m)
         PROVE  g2.conn[m] # Null /\ \E y \in S : Path(g2, g2.conn[m], y)
    <3>1. S = {e \in Elements(g2) : e.plugin = "testsink"}
      BY <1>1, <2>10 DEF SinksOf
    <3>2. g1.ok /\ g1.links \subseteq g2.links /\ Elements(g1) \subseteq Elements(g2)
      BY <2>8, <2>10 DEF Grows
    <3>3. m \in Media /\ (m = "video" \/ m = "audio")
      BY DEF Config, Media
    <3>4. /\ g.conn[m] # Null /\ Path(g2, g.conn[m], sink(m))
          /\ sink(m) \in Elements(g2)
      <4>1. CASE m = "video"
        BY <2>6, <3>2, <4>1, PathFacts
      <4>2. CASE m = "audio"
        BY <2>8, <2>10, <4>2
      <4> QED  BY <3>3, <4>1, <4>2
    <3>5. sink(m) \in S
      BY <2>2, <3>1, <3>3, <3>4
    <3> QED  BY <2>8, <3>4, <3>5
  <2> QED  BY <2>1, <2>9, <2>10 DEF Reached, h
<1>2. CASE cfg.kind = "recorder"
  <2> DEFINE sink == Element("splitmuxsink", 0, "splitmuxsink")
             a == ElementAdd(g, sink)
             b == ElementLink(a, g.conn["audio"], sink)
             c == ElementLink(b, g.conn["video"], sink)
  <2>1. h = c
    BY <1>2 DEF BuildOutput, RecorderOutput
  <2>2. sink \in Plain /\ sink.plugin = "splitmuxsink"
    <3>1. sink.plugin = "splitmuxsink"
      BY DEF Element
    <3> QED  BY <3>1, PlainOutputs
  <2> HIDE DEF sink, h
  <2>3. Grows(g, a) /\ a.conn = g.conn
    BY <1>0, <2>2, AddGrows
  <2> HIDE DEF a
  <2>4. Proper(a)
    BY <2>3 DEF Grows
  <2>5. /\ Grows(a, b) /\ b.conn = a.conn
        /\ b.ok => g.conn["audio"] # Null /\ Path(b, g.conn["audio"], sink)
    BY <2>4, LinkGrows
  <2> HIDE DEF b
  <2>6. Proper(b)
    BY <2>5 DEF Grows
  <2>7. /\ Grows(b, c) /\ c.conn = b.conn
        /\ c.ok => /\ g.conn["video"] # Null /\ Path(c, g.conn["video"], sink)
                   /\ sink \in Elements(c)
    BY <2>6, LinkGrows
  <2> HIDE DEF c
  <2>8. Grows(g, c) /\ c.conn = g.conn
    BY <2>3, <2>5, <2>7, GrowsTransitive
  <2>9. Fine(c)
    BY <2>8, GrowsFine
  <2>10. ASSUME c.ok, NEW m \in cfg.media, NEW S \in SinksOf(c, m)
         PROVE  c.conn[m] # Null /\ \E y \in S : Path(c, c.conn[m], y)
    <3>1. S = {e \in Elements(c) : e.plugin = "splitmuxsink"}
      BY <1>2, <2>10 DEF SinksOf
    <3>2. sink \in S
      BY <2>2, <2>7, <2>10, <3>1
    <3>3. b.ok /\ b.links \subseteq c.links
      BY <2>7, <2>10 DEF Grows
    <3>4. g.conn["audio"] # Null /\ Path(c, g.conn["audio"], sink)
      BY <2>5, <3>3, PathFacts
    <3>5. m = "video" \/ m = "audio"
      BY DEF Config, Media
    <3> QED  BY <2>7, <2>8, <2>10, <3>2, <3>4, <3>5
  <2> QED  BY <2>1, <2>9, <2>10 DEF Reached, h
<1>3. CASE cfg.kind \notin {"test_life", "recorder"}
  <2>1. h = Outputs(g)
    BY <1>3 DEF BuildOutput
  <2> QED  BY <1>3, <2>1, OutputsReached
<1> QED  BY <1>1, <1>2, <1>3

(***************************************************************************)
(* The mosaic                                                              *)
(***************************************************************************)

\* While nothing failed, there is a way from the entries of a medium to its mixer.
Mixed(g) ==
    g.ok => \A m \in cfg.media : \A e \in Entries(g, m) : Path(g, e, MosaicMix[m])

\* The mixers and filters of the mosaic are plain elements.
LEMMA PlainMosaic ==
    ASSUME cfg \in Config, NEW i \in Int, NEW m \in Media
    PROVE  /\ VMix \in Plain /\ AMix \in Plain /\ MosaicFilters(m, i) \in Seq(Plain)
<1>1. /\ VMix \in Plain /\ AMix \in Plain
  BY PlainElement DEF VMix, AMix, PlainNames, PlainPlugins, RawFilters
<1>2. /\ Element("mux_videoscale", i, "videoscale") \in Plain
      /\ Element("mux_videoscale_capsfilter", i, "capsfilter") \in Plain
      /\ Element("videobox", i, "videobox") \in Plain
      /\ Element("level", i, "level") \in Plain
  BY PlainElement DEF PlainNames, PlainPlugins, RawFilters, Transparent
<1> QED  BY <1>1, <1>2, PlainSequences DEF MosaicFilters

\* The branch of a medium of input i: its entry, linked to the mixer.
MixBranch(s, m, i) ==
    LET q == Element(UdbName[m], i, "queue")
        r == Chain(ElementAdd(s, q), q, MosaicFilters(m, i))
    IN  ElementLink(r.g, r.at, MosaicMix[m])

\* A branch of the mosaic: one entry comes, with a way to the mixer of its medium.
LEMMA MixBranchFacts ==
    ASSUME NEW s, Proper(s), cfg \in Config, IsMosaic, NEW m \in Media,
           NEW i \in Inputs, i \in Int
    PROVE  LET h == MixBranch(s, m, i)
               q == Element(UdbName[m], i, "queue")
           IN  /\ Proper(h) /\ Elements(s) \subseteq Elements(h) /\ s.links \subseteq h.links
               /\ h.ok => s.ok /\ Path(h, q, MosaicMix[m])
               /\ \A x \in Elements(h) : x \in Elements(s) \/ x \in Plain \/ x = q
               /\ \E x \in Elements(h) : x.name = UdbName[m] /\ x.id = i
<1> DEFINE q == Element(UdbName[m], i, "queue")
           a == ElementAdd(s, q)
           r == Chain(a, q, MosaicFilters(m, i))
           h == ElementLink(r.g, r.at, MosaicMix[m])
<1>1. h = MixBranch(s, m, i)
  BY DEF MixBranch
<1>2. q.name = UdbName[m] /\ q.id = i
  BY DEF Element
<1>3. Part(q) /\ q # Null
  <2>1. UdbName[m] \in {"udb_conn_video", "udb_conn_audio"}
    BY DEF Media, UdbName
  <2>2. Null.name = "nullptr"
    BY DEF Null, Element
  <2>3. ~ IsRelay /\ cfg.kind # "test_input"
    BY DEF IsMosaic, IsRelay, Relays
  <2> HIDE DEF q
  <2> QED  BY <1>2, <2>1, <2>2, <2>3 DEF Part
<1> HIDE DEF q
<1>4. /\ Proper(a) /\ a.links = s.links
      /\ Elements(s) \subseteq Elements(a) /\ Elements(a) \subseteq Elements(s) \cup {q}
      /\ a.ok => s.ok
      /\ \E x \in Elements(a) : x.name = q.name /\ x.id = q.id
  BY <1>3, AddFacts
<1> HIDE DEF a
<1>5. Grows(a, r.g) /\ (r.g.ok => Path(r.g, q, r.at))
  <2>1. Proper(a) /\ MosaicFilters(m, i) \in Seq(Plain)
    BY <1>4, PlainMosaic
  <2> QED  BY <2>1, ChainFacts
<1> HIDE DEF r
<1>6. Proper(r.g)
  BY <1>5 DEF Grows
<1>7. Grows(r.g, h) /\ (h.ok => Path(h, r.at, MosaicMix[m]))
  BY <1>6, LinkGrows
<1> HIDE DEF h
<1>8. Grows(a, h)
  BY <1>5, <1>7, GrowsTransitive
<1>9. h.ok => Path(h, q, MosaicMix[m])
  <2>1. h.ok => r.g.ok /\ r.g.links \subseteq h.links
    BY <1>7 DEF Grows
  <2>2. h.ok => Path(h, q, r.at)
    BY <1>5, <2>1, PathFacts
  <2> QED  BY <1>7, <2>2, PathFacts
<1>10. \E x \in Elements(h) : x.name = UdbName[m] /\ x.id = i
  BY <1>2, <1>4, <1>8 DEF Grows
<1>11. \A x \in Elements(h) : x \in Elements(s) \/ x \in Plain \/ x = q
  BY <1>4, <1>8 DEF Grows
<1>12. /\ Proper(h) /\ Elements(s) \subseteq Elements(h) /\ s.links \subseteq h.links
       /\ h.ok => s.ok
  BY <1>4, <1>8 DEF Grows
<1> QED  BY <1>1, <1>9, <1>10, <1>11, <1>12 DEF q

\* One input of a mosaic: a decodebin with an entry for each medium, from where
\* there is a way to the mixers.
LEMMA MosaicInputFacts ==
    ASSUME NEW g, Proper(g), Entered(g), Mixed(g), cfg \in Config, IsMosaic,
           NEW i \in Inputs, i \in Int
    PROVE  LET h == MosaicInput(g, i) IN
           Proper(h) /\ Entered(h) /\ Mixed(h) /\ (h.ok => g.ok /\ HasSource(i))
<1> DEFINE d == DecodedInput(g, i)
           bin == Element("decodebin", i, "decodebin")
           q(m) == Element(UdbName[m], i, "queue")
           g1 == IF "video" \in cfg.media THEN MixBranch(d, "video", i) ELSE d
           h == IF "audio" \in cfg.media THEN MixBranch(g1, "audio", i) ELSE g1
           New(s) == \A x \in Elements(s) : \/ x \in Elements(g) \/ x \in Plain \/ x = bin
                                            \/ \E m \in cfg.media : x = q(m)
           In(s, m) == \E x \in Elements(s) : x.name = UdbName[m] /\ x.id = i
           Way(s, m) == s.ok => Path(s, q(m), MosaicMix[m])
<1>1. h = MosaicInput(g, i)
  BY DEF MosaicInput, ForMedia, MixBranch
<1>2. cfg.kind # "test_input" /\ "video" \in Media /\ "audio" \in Media
  BY DEF IsMosaic, Media
<1>3. \A m \in Media : q(m).name = UdbName[m]
  BY DEF Element
<1>4. ASSUME NEW s, Proper(s), NEW m \in Media
      PROVE  LET b == MixBranch(s, m, i) IN
             /\ Proper(b) /\ Elements(s) \subseteq Elements(b) /\ s.links \subseteq b.links
             /\ b.ok => s.ok
             /\ \A x \in Elements(b) : x \in Elements(s) \/ x \in Plain \/ x = q(m)
             /\ In(b, m) /\ Way(b, m)
  <2> DEFINE b == MixBranch(s, m, i)
  <2>1. /\ Proper(b) /\ Elements(s) \subseteq Elements(b) /\ s.links \subseteq b.links
        /\ b.ok => s.ok /\ Path(b, q(m), MosaicMix[m])
        /\ \A x \in Elements(b) : x \in Elements(s) \/ x \in Plain \/ x = q(m)
        /\ \E x \in Elements(b) : x.name = UdbName[m] /\ x.id = i
    BY <1>4, MixBranchFacts
  <2> HIDE DEF b, q
  <2> QED  BY <2>1 DEF b
<1>5. /\ Proper(d) /\ g.links \subseteq d.links
      /\ Elements(g) \subseteq Elements(d) /\ (d.ok => g.ok /\ HasSource(i))
      /\ \A x \in Elements(d) : x \in Elements(g) \/ x \in Plain \/ x = bin
  BY <1>2, DecodedFacts
<1> HIDE DEF q, bin, d
<1>6. /\ Proper(g1) /\ Elements(g) \subseteq Elements(g1) /\ g.links \subseteq g1.links
      /\ g1.ok => g.ok /\ HasSource(i)
      /\ New(g1)
      /\ "video" \in cfg.media => In(g1, "video") /\ Way(g1, "video")
  <2>1. CASE "video" \notin cfg.media
    BY <1>5, <2>1
  <2>2. CASE "video" \in cfg.media
    <3> DEFINE b == MixBranch(d, "video", i)
    <3>1. /\ Proper(b) /\ Elements(d) \subseteq Elements(b) /\ d.links \subseteq b.links
          /\ b.ok => d.ok
          /\ \A x \in Elements(b) : x \in Elements(d) \/ x \in Plain \/ x = q("video")
          /\ In(b, "video") /\ Way(b, "video")
      BY <1>2, <1>4, <1>5
    <3>2. g1 = b
      BY <2>2
    <3> HIDE DEF b, g1, In, Way
    <3>3. New(b)
      BY <1>5, <2>2, <3>1
    <3> HIDE DEF New
    <3> QED  BY <1>5, <3>1, <3>2, <3>3
  <2> QED  BY <2>1, <2>2
<1> HIDE DEF g1
<1>7. /\ Proper(h) /\ Elements(g1) \subseteq Elements(h) /\ g1.links \subseteq h.links
      /\ h.ok => g1.ok
      /\ New(h)
      /\ "audio" \in cfg.media => In(h, "audio") /\ Way(h, "audio")
  <2>1. CASE "audio" \notin cfg.media
    BY <1>6, <2>1
  <2>2. CASE "audio" \in cfg.media
    <3> DEFINE b == MixBranch(g1, "audio", i)
    <3>1. /\ Proper(b) /\ Elements(g1) \subseteq Elements(b) /\ g1.links \subseteq b.links
          /\ b.ok => g1.ok
          /\ \A x \in Elements(b) : x \in Elements(g1) \/ x \in Plain \/ x = q("audio")
          /\ In(b, "audio") /\ Way(b, "audio")
      BY <1>2, <1>4, <1>6
    <3>2. h = b
      BY <2>2
    <3> HIDE DEF b, h, In, Way
    <3>3. New(b)
      BY <1>6, <2>2, <3>1
    <3> HIDE DEF New
    <3> QED  BY <3>1, <3>2, <3>3
  <2> QED  BY <2>1, <2>2
<1> HIDE DEF h
<1>8. \A m \in cfg.media : In(h, m) /\ Way(h, m) /\ m \in Media
  <2>1. \A m \in cfg.media : m \in Media /\ (m = "video" \/ m = "audio")
    BY DEF Config, Media
  <2>2. "video" \in cfg.media => In(h, "video")
    BY <1>6, <1>7
  <2>3. "video" \in cfg.media => Way(h, "video")
    BY <1>6, <1>7, PathFacts
  <2> HIDE DEF In, Way
  <2> QED  BY <1>7, <2>1, <2>2, <2>3
<1>9. {"decodebin", "udb_conn_video", "udb_conn_audio"} \cap PlainNames = {}
  BY DEF PlainNames
<1>10. \A m \in Media : UdbName[m] \in {"udb_conn_video", "udb_conn_audio"}
  BY DEF Media, UdbName
<1>11. Entered(h)
  <2> SUFFICES ASSUME NEW j, Element("decodebin", j, "decodebin") \in Elements(h), NEW m \in cfg.media
               PROVE  \E e \in Elements(h) : e.name = UdbName[m] /\ e.id = j
    BY DEF Entered
  <2> DEFINE b == Element("decodebin", j, "decodebin")
  <2>1. b.name = "decodebin" /\ b.id = j /\ bin.id = i
    BY DEF Element, bin
  <2> HIDE DEF b
  <2>2. b \notin Plain /\ \A n \in cfg.media : b # q(n)
    BY <1>3, <1>8, <1>9, <1>10, <2>1 DEF Plain
  <2>3. b \in Elements(g) \/ b = bin
    BY <1>7, <2>2 DEF b
  <2>4. CASE b \in Elements(g)
    <3>1. \E e \in Elements(g) : e.name = UdbName[m] /\ e.id = j
      BY <2>4 DEF Entered, b
    <3> QED  BY <1>6, <1>7, <3>1
  <2>5. CASE b = bin
    <3>1. j = i
      BY <2>1, <2>5
    <3> QED  BY <1>8, <3>1
  <2> QED  BY <2>3, <2>4, <2>5
<1>12. Mixed(h)
  <2> SUFFICES ASSUME h.ok, NEW m \in cfg.media, NEW e \in Entries(h, m)
               PROVE  Path(h, e, MosaicMix[m])
    BY DEF Mixed
  <2>1. e \in Elements(h) /\ e.name = UdbName[m] /\ m \in Media
    BY <1>2, <1>8 DEF Entries
  <2>2. e \notin Plain /\ e # bin
    <3>1. bin.name = "decodebin"
      BY DEF bin, Element
    <3> QED  BY <1>9, <1>10, <2>1, <3>1 DEF Plain
  <2>3. e \in Elements(g) \/ \E n \in cfg.media : e = q(n)
    BY <1>7, <2>1, <2>2
  <2>4. CASE e \in Elements(g)
    <3>1. g.ok /\ g.links \subseteq h.links
      BY <1>6, <1>7
    <3>2. e \in Entries(g, m)
      BY <2>1, <2>4 DEF Entries
    <3>3. Path(g, e, MosaicMix[m])
      BY <3>1, <3>2 DEF Mixed
    <3> QED  BY <3>1, <3>3, PathFacts
  <2>5. ASSUME NEW n \in cfg.media, e = q(n)  PROVE Path(h, e, MosaicMix[m])
    <3>1. n \in Media /\ UdbName[n] = UdbName[m]
      BY <1>3, <1>8, <2>1, <2>5
    <3>2. n = m
      BY <2>1, <3>1 DEF Media, UdbName
    <3> QED  BY <1>8, <2>5, <3>2
  <2> QED  BY <2>3, <2>4, <2>5
<1> QED  BY <1>1, <1>6, <1>7, <1>11, <1>12

\* The inputs of a mosaic, one after another onto its mixers.
MosaicMixers == ElementAdd(ElementAdd(EmptyGraph, VMix), AMix)
MosaicInputs == FoldLeft(MosaicInput, MosaicMixers, [n \in 1 .. cfg.inputs |-> n - 1])
LEMMA MosaicInputsSteps ==
    ASSUME cfg \in Config
    PROVE  /\ cfg.inputs \in Nat
           /\ \E p : /\ p[0] = MosaicMixers /\ MosaicInputs = p[cfg.inputs]
                     /\ \A k \in 1 .. cfg.inputs : p[k] = MosaicInput(p[k - 1], k - 1)
<1> DEFINE n == cfg.inputs
           es == [k \in 1 .. cfg.inputs |-> k - 1]
           h == MosaicInputs
<1>1. n \in Nat /\ DOMAIN es = 1 .. n
  BY DEF Config
<1>2. \A k \in 1 .. n : es[k] = k - 1
  BY <1>1
<1> HIDE DEF n, es
<1>3. PICK p : /\ p[0] = MosaicMixers
               /\ \A k \in 1 .. n : p[k] = MosaicInput(p[k - 1], es[k])
               /\ Stacked!Fold(MosaicMixers, es) = p[n]
  BY <1>1, Stacked!FoldSteps
<1>4. h = p[n]
  <2>1. h = Stacked!Fold(MosaicMixers, es)
    BY DEF MosaicInputs, Stacked!Fold, FoldLeft, Stacked!FoldLeft, MapThenFoldSet,
           Stacked!MapThenFoldSet, Max, Stacked!Max, es
  <2> HIDE DEF h
  <2> QED  BY <1>3, <2>1
<1> HIDE DEF h
<1>5. \A k \in 1 .. n : p[k] = MosaicInput(p[k - 1], k - 1)
  BY <1>2, <1>3
<1> QED  BY <1>1, <1>3, <1>4, <1>5 DEF n, h

\* The pipeline of a mosaic, with any number of inputs and outputs.
LEMMA MosaicFine ==
    ASSUME cfg \in Config, IsMosaic
    PROVE  Fine(MosaicPipeline) /\ Reached(MosaicPipeline) /\ (MosaicPipeline.ok => Sourced)
<1> DEFINE mixers == MosaicMixers
           n == cfg.inputs
           inputs == MosaicInputs
           start == [inputs EXCEPT !.conn = MosaicMix]
           g1 == IF "video" \in cfg.media THEN MosaicConverter(start, "video") ELSE start
           g2 == IF "audio" \in cfg.media THEN MosaicConverter(g1, "audio") ELSE g1
<1>1. MosaicPipeline = Outputs(g2)
  BY DEF MosaicPipeline, ForMedia, MosaicInputs, MosaicMixers
<1>2. n \in Nat
  BY DEF Config
<1>3. \A k \in 1 .. n : k - 1 \in Inputs /\ k - 1 \in Int
  BY <1>2 DEF Inputs
<1>4. Proper(mixers) /\ Entered(mixers) /\ Mixed(mixers)
  <2> DEFINE a == ElementAdd(EmptyGraph, VMix)
             b == ElementAdd(a, AMix)
  <2>1. VMix \in Plain /\ AMix \in Plain
    <3>1. 0 \in Int /\ "video" \in Media
      BY DEF Media
    <3> QED  BY <3>1, PlainMosaic
  <2>2. Grows(EmptyGraph, a)
    BY <2>1, EmptyIsProper, AddGrows
  <2> HIDE DEF a
  <2>3. Proper(a)
    BY <2>2 DEF Grows
  <2>4. Grows(a, b)
    BY <2>1, <2>3, AddGrows
  <2>5. mixers = b
    BY DEF a, MosaicMixers
  <2> HIDE DEF b, mixers
  <2>6. Grows(EmptyGraph, b)
    BY <2>2, <2>4, GrowsTransitive
  <2>7. Entered(b)
    <3>1. Entered(EmptyGraph)
      BY EmptyIsProper DEF Entered
    <3> QED  BY <2>6, <3>1, GrowsKeeps
  <2>8. \A m \in Media : Entries(b, m) = {}
    <3>1. \A m \in Media : Entries(EmptyGraph, m) = {}
      BY EmptyIsProper DEF Entries
    <3> QED  BY <2>6, <3>1, GrowsKeeps
  <2>9. Mixed(b)
    BY <2>8 DEF Mixed, Config
  <2> QED  BY <2>5, <2>6, <2>7, <2>9 DEF Grows
<1> HIDE DEF mixers, inputs
<1>5. PICK p : /\ p[0] = mixers /\ inputs = p[n]
               /\ \A k \in 1 .. n : p[k] = MosaicInput(p[k - 1], k - 1)
  BY MosaicInputsSteps DEF mixers, inputs
<1>6. inputs = p[n]
  BY <1>5
<1> HIDE DEF n
<1> DEFINE Done(k) == /\ Proper(p[k]) /\ Entered(p[k]) /\ Mixed(p[k])
                      /\ p[k].ok => \A j \in 0 .. k - 1 : HasSource(j)
           Bad == {k \in 0 .. n : ~ Done(k)}
<1>7. Done(0)
  <2>1. 0 .. 0 - 1 = {}
    OBVIOUS
  <2> QED  BY <1>4, <1>5, <2>1
<1>8. ASSUME NEW k \in 1 .. n, Done(k - 1)  PROVE Done(k)
  <2> DEFINE s == p[k - 1]
             i == k - 1
             x == MosaicInput(s, i)
  <2>1. p[k] = x /\ i \in Inputs /\ i \in Int
    BY <1>3, <1>5
  <2>2. Proper(s) /\ Entered(s) /\ Mixed(s) /\ (s.ok => \A j \in 0 .. i - 1 : HasSource(j))
    BY <1>8
  <2>a. \A j : j \in 0 .. k - 1 => j \in 0 .. i - 1 \/ j = i
    BY <1>2
  <2> HIDE DEF s, i
  <2>3. Proper(x) /\ Entered(x) /\ Mixed(x) /\ (x.ok => s.ok /\ HasSource(i))
    BY <2>1, <2>2, MosaicInputFacts
  <2> HIDE DEF x
  <2> QED  BY <2>1, <2>2, <2>3, <2>a
<1>9. Bad = {}
  <2> SUFFICES ASSUME Bad # {}  PROVE FALSE
    OBVIOUS
  <2>1. Bad \in SUBSET Nat
    BY <1>2
  <2>2. PICK k \in Bad : \A j \in Bad : k <= j
    <3> HIDE DEF Bad
    <3> QED  BY <2>1, Chained!LeastNumber
  <2>3. k \in 0 .. n /\ ~ Done(k)
    BY <2>2
  <2>4. k # 0
    BY <1>7, <2>3
  <2>5. k \in 1 .. n /\ k - 1 \in 0 .. n /\ ~(k <= k - 1)
    BY <1>2, <2>3, <2>4
  <2>6. Done(k - 1)
    BY <2>2, <2>5
  <2> QED  BY <1>8, <2>3, <2>5, <2>6
<1>10. /\ Proper(inputs) /\ Entered(inputs) /\ Mixed(inputs)
       /\ inputs.ok => \A j \in 0 .. n - 1 : HasSource(j)
  <2>1. n \in 0 .. n
    BY <1>2
  <2>2. n \notin Bad
    BY <1>9
  <2>3. Done(n)
    <3> HIDE DEF Done
    <3> QED  BY <2>1, <2>2
  <2> QED  BY <1>6, <2>3
<1>a. inputs.ok => Sourced
  BY <1>10 DEF Sourced, n
<1>11. Fine(start) /\ (start.ok => inputs.ok)
  <2>1. /\ DOMAIN start = DOMAIN inputs /\ start.offers = inputs.offers
        /\ start.links = inputs.links /\ start.ok = inputs.ok /\ start.conn = MosaicMix
    BY <1>10 DEF Proper
  <2>2. DOMAIN MosaicMix = Media
    BY DEF MosaicMix, Media
  <2> HIDE DEF start
  <2>3. Elements(start) = Elements(inputs)
    BY <2>1 DEF Elements
  <2>4. Proper(start) /\ Entered(start)
    BY <1>10, <2>1, <2>2, <2>3 DEF Proper, Entered
  <2>5. Joined(start)
    <3> SUFFICES ASSUME start.ok, NEW m \in cfg.media, NEW e \in Entries(start, m)
                 PROVE  Path(start, e, MosaicMix[m])
      BY <2>1 DEF Joined
    <3>1. e \in Entries(inputs, m)
      BY <2>3 DEF Entries
    <3>2. Path(inputs, e, MosaicMix[m])
      BY <1>10, <2>1, <3>1 DEF Mixed
    <3> QED  BY <2>1, <3>2, PathFacts
  <2> QED  BY <2>1, <2>4, <2>5 DEF Fine
<1> HIDE DEF start
<1>12. ASSUME NEW s, Fine(s), NEW m \in Media
       PROVE  Fine(MosaicConverter(s, m)) /\ (MosaicConverter(s, m).ok => s.ok)
  <2> DEFINE cs == (IF m = "video"
                    THEN <<Element("cairo", 0, "cairooverlay")>> \o VideoConvert
                    ELSE AudioConverters) \o Tee(m)
  <2>1. MosaicConverter(s, m) = Extend(s, m, cs)
    BY DEF MosaicConverter
  <2>2. 0 \in Int
    OBVIOUS
  <2>3. <<Element("cairo", 0, "cairooverlay")>> \in Seq(Plain)
    <3>1. Element("cairo", 0, "cairooverlay") \in Plain
      BY <2>2, PlainElement DEF PlainNames, PlainPlugins, RawFilters
    <3> QED  BY <3>1, PlainSequences
  <2>4. VideoConvert \in Seq(Plain) /\ AudioConverters \in Seq(Plain) /\ Tee(m) \in Seq(Plain)
    BY <2>2, PlainParts
  <2>5. cs \in Seq(Plain)
    BY <2>3, <2>4, PlainSequences
  <2> HIDE DEF cs
  <2> QED  BY <1>12, <2>1, <2>5, ExtendFine
<1>13. Fine(g1) /\ (g1.ok => start.ok)
  BY <1>11, <1>12 DEF Media
<1> HIDE DEF g1
<1>14. Fine(g2) /\ (g2.ok => g1.ok)
  BY <1>12, <1>13 DEF Media
<1> HIDE DEF g2
<1>15. cfg.kind \notin {"test_life", "recorder"}
  BY DEF IsMosaic
<1>16. MosaicPipeline.ok => g2.ok
  BY <1>1, <1>14, OutputsFacts DEF Fine, Grows
<1> QED  BY <1>1, <1>a, <1>11, <1>13, <1>14, <1>15, <1>16, OutputsReached

(***************************************************************************)
(* Reachability                                                            *)
(***************************************************************************)

\* One more step of Reach, given the steps before.
ReachStep(g, via, e, R, n) ==
    IF n = 0 THEN {e} ELSE R[n - 1] \cup Successors(g, R[n - 1] \cap via)

\* The recursion of Reach has a solution for any number of steps.
LEMMA ReachExists ==
    ASSUME NEW g, NEW via, NEW e, NEW N \in Nat
    PROVE  \E R : R = [n \in 0 .. N |-> ReachStep(g, via, e, R, n)]
<1> DEFINE Solved(k) == \E R : R = [n \in 0 .. k |-> ReachStep(g, via, e, R, n)]
           Open == {k \in Nat : ~ Solved(k)}
<1>1. Solved(0)
  <2> DEFINE R == [n \in 0 .. 0 |-> {e}]
  <2>1. \A n \in 0 .. 0 : ReachStep(g, via, e, R, n) = {e}
    BY DEF ReachStep
  <2>2. R = [n \in 0 .. 0 |-> ReachStep(g, via, e, R, n)]
    BY <2>1
  <2> QED  BY <2>2
<1>2. ASSUME NEW k \in Nat, k # 0, Solved(k - 1)  PROVE Solved(k)
  <2>1. PICK P : P = [n \in 0 .. k - 1 |-> ReachStep(g, via, e, P, n)]
    BY <1>2
  <2> DEFINE R == [n \in 0 .. k |-> ReachStep(g, via, e, P, n)]
  <2>2. ASSUME NEW n \in 0 .. k - 1  PROVE R[n] = P[n]
    <3>1. n \in 0 .. k
      BY <1>2
    <3>2. P[n] = ReachStep(g, via, e, P, n)
      BY <2>1
    <3> QED  BY <3>1, <3>2
  <2>3. ASSUME NEW n \in 0 .. k  PROVE ReachStep(g, via, e, R, n) = ReachStep(g, via, e, P, n)
    <3>1. CASE n = 0
      BY <3>1 DEF ReachStep
    <3>2. CASE n # 0
      <4>1. n - 1 \in 0 .. k - 1
        BY <1>2, <3>2
      <4>2. R[n - 1] = P[n - 1]
        BY <2>2, <4>1
      <4> HIDE DEF R
      <4> QED  BY <3>2, <4>2 DEF ReachStep
    <3> QED  BY <3>1, <3>2
  <2>4. R = [n \in 0 .. k |-> ReachStep(g, via, e, R, n)]
    BY <2>3
  <2> QED  BY <2>4
<1>3. Open = {}
  <2> SUFFICES ASSUME Open # {}  PROVE FALSE
    OBVIOUS
  <2>1. PICK k \in Open : \A j \in Open : k <= j
    BY Chained!LeastNumber
  <2>2. k \in Nat /\ k # 0
    BY <1>1
  <2>3. k - 1 \in Nat /\ ~(k <= k - 1)
    BY <2>2
  <2>4. Solved(k - 1)
    BY <2>1, <2>3
  <2> QED  BY <1>2, <2>2, <2>4
<1> QED  BY <1>3

\* As many steps as there are elements reach all that can be reached: a step
\* that adds nothing is the last one.
LEMMA ReachFacts ==
    ASSUME NEW g, Proper(g), NEW via, NEW e \in Elements(g)
    PROVE  LET T == Reach(g, via, e) IN
           e \in T /\ T \subseteq Elements(g) /\ Successors(g, T \cap via) \subseteq T
<1> DEFINE N == Cardinality(Elements(g))
           R == CHOOSE F : F = [n \in 0 .. N |-> ReachStep(g, via, e, F, n)]
           More(S) == S \cup Successors(g, S \cap via)
<1>1. N \in Nat /\ IsFiniteSet(Elements(g))
  BY FS_CardinalityType DEF Proper
<1>2. R = [n \in 0 .. N |-> ReachStep(g, via, e, R, n)]
  <2>1. N \in Nat
    BY <1>1
  <2> HIDE DEF N, More
  <2> QED  BY <2>1, ReachExists
<1>3. Reach(g, via, e) = R[N]
  BY DEF Reach, ReachStep
<1> HIDE DEF R, N
<1>4. R[0] = {e} /\ \A n \in 1 .. N : R[n] = More(R[n - 1])
  <2>1. 0 \in 0 .. N /\ \A n \in 1 .. N : n \in 0 .. N /\ n # 0
    BY <1>1
  <2> QED  BY <1>2, <2>1 DEF ReachStep
<1>5. \A S : Successors(g, S) \subseteq Elements(g)
  BY DEF Successors, Proper
<1> DEFINE Closed(S) == Successors(g, S \cap via) \subseteq S
           Good(n) == /\ e \in R[n] /\ R[n] \subseteq Elements(g)
                      /\ Closed(R[n]) \/ Cardinality(R[n]) >= n + 1
           Bad == {n \in 0 .. N : ~ Good(n)}
<1>6. Good(0)
  <2>1. Cardinality({e}) = 1
    BY FS_Singleton
  <2> QED  BY <1>4, <2>1
<1>7. ASSUME NEW n \in 1 .. N, Good(n - 1)  PROVE Good(n)
  <2> DEFINE S == R[n - 1]
  <2>1. R[n] = More(S) /\ n - 1 + 1 = n
    BY <1>4
  <2>2. e \in S /\ S \subseteq Elements(g) /\ (Closed(S) \/ Cardinality(S) >= n)
    BY <1>7, <2>1
  <2> HIDE DEF S
  <2>3. e \in More(S) /\ More(S) \subseteq Elements(g) /\ S \subseteq More(S)
    BY <1>5, <2>2
  <2>4. CASE Closed(S)
    <3>1. More(S) = S
      BY <2>4
    <3> QED  BY <2>1, <2>2, <2>4, <3>1
  <2>5. CASE ~ Closed(S)
    <3>1. More(S) # S
      BY <2>5
    <3>2. IsFiniteSet(More(S)) /\ IsFiniteSet(S)
      BY <1>1, <2>2, <2>3, FS_Subset
    <3>3. /\ Cardinality(S) \in Nat /\ Cardinality(More(S)) \in Nat
      BY <3>2, FS_CardinalityType
    <3>4. Cardinality(S) < Cardinality(More(S))
      <4> HIDE DEF More
      <4>1. /\ Cardinality(S) <= Cardinality(More(S))
            /\ Cardinality(S) = Cardinality(More(S)) => S = More(S)
        BY <2>3, <3>2, FS_Subset
      <4> QED  BY <3>1, <3>3, <4>1
    <3>5. Cardinality(S) >= n
      BY <2>2, <2>5
    <3>6. Cardinality(More(S)) >= n + 1
      BY <3>3, <3>4, <3>5
    <3> QED  BY <2>1, <2>3, <3>6
  <2> QED  BY <2>4, <2>5
<1>8. Bad = {}
  <2> SUFFICES ASSUME Bad # {}  PROVE FALSE
    OBVIOUS
  <2>1. Bad \in SUBSET Nat
    BY <1>1
  <2>2. PICK k \in Bad : \A j \in Bad : k <= j
    <3> HIDE DEF Bad
    <3> QED  BY <2>1, Chained!LeastNumber
  <2>3. k \in 0 .. N /\ ~ Good(k)
    BY <2>2
  <2>4. k # 0
    BY <1>6, <2>3
  <2>5. k \in 1 .. N /\ k - 1 \in 0 .. N /\ ~(k <= k - 1)
    BY <1>1, <2>3, <2>4
  <2>6. Good(k - 1)
    BY <2>2, <2>5
  <2> QED  BY <1>7, <2>3, <2>5, <2>6
<1>9. Good(N)
  <2>1. N \in 0 .. N
    BY <1>1
  <2>2. N \notin Bad
    BY <1>8
  <2> HIDE DEF Good
  <2> QED  BY <2>1, <2>2
<1>10. Closed(R[N])
  <2>1. R[N] \subseteq Elements(g)
    BY <1>9
  <2>2. Cardinality(R[N]) <= N /\ Cardinality(R[N]) \in Nat
    BY <1>1, <2>1, FS_Subset, FS_CardinalityType DEF N
  <2>3. ~(Cardinality(R[N]) >= N + 1)
    BY <1>1, <2>2
  <2> QED  BY <1>9, <2>3
<1> QED  BY <1>3, <1>9, <1>10

\* What there is a way to lies behind.
LEMMA PathBehind ==
    ASSUME NEW g, Proper(g), NEW e \in Elements(g), NEW y, Path(g, e, y)
    PROVE  y \in Behind(g, e)
<1> DEFINE T == Reach(g, Elements(g), e)
<1>1. e \in T /\ T \subseteq Elements(g) /\ Successors(g, T \cap Elements(g)) \subseteq T
  BY ReachFacts
<1>2. T \cap Elements(g) = T
  BY <1>1
<1> HIDE DEF T
<1>3. Successors(g, T) \subseteq T
  BY <1>1, <1>2
<1>4. y \in T
  BY <1>1, <1>3 DEF Path
<1> QED  BY <1>4 DEF Behind, T

(***************************************************************************)
(* The invariant                                                           *)
(***************************************************************************)

\* What each stage finds.
StageInv ==
    /\ pc \in {"input", "mosaic"} => graph = EmptyGraph
    /\ pc \in {"input", "udb", "postproc", "converter", "output"} => ~ IsMosaic
    /\ pc = "mosaic" => IsMosaic
    /\ pc = "udb" => Proper(graph) /\ (cfg.kind = "test_input" => Fine(graph))
    /\ pc \in {"postproc", "converter", "output"} => Fine(graph)
    /\ pc = "running" => Fine(graph) /\ Reached(graph)

\* Before the pipeline runs no pad was added.
Quiet == pc # "running" => DOMAIN caps = {} /\ added = {} /\ DOMAIN fed = {} /\ inited = {}

\* The track that the configuration may take, and the element it is meant for.
Selected(t) == t.medium = "video" \/ IsMosaic \/ cfg.select \in {NoSelect, t.id}
Wanted(t) == t.medium \in cfg.media /\ Selected(t)
Dest(t) == Entry(t.medium, IF IsMosaic THEN t.input ELSE 0)

CapsInv ==
    /\ DOMAIN caps \subseteq Present /\ added \subseteq DOMAIN caps
    /\ \A t \in DOMAIN caps : caps[t] = IF StopsAutoplug(t) THEN t.codec ELSE "raw"

\* What feeds an element was added, is wanted, was meant for it and fits.
FedInv ==
    \A e \in DOMAIN fed :
        /\ fed[e] \in added /\ Wanted(fed[e])
        /\ e = Dest(fed[e]) /\ PadLinks(fed[e], e)

\* A flag is set by a wanted track that feeds its element if it fits, and every
\* wanted track that was added finds its flag set; in a mosaic there are no
\* flags, and every one that fits finds its element fed.
FlagsInv ==
    /\ inited \subseteq cfg.media /\ (IsMosaic => inited = {})
    /\ \A m \in inited : \E t \in added :
           /\ t.medium = m /\ Wanted(t)
           /\ PadLinks(t, Dest(t)) => Dest(t) \in DOMAIN fed
    /\ ~ IsMosaic => \A t \in added : Wanted(t) => t.medium \in inited
    /\ IsMosaic => \A t \in added :
           Wanted(t) /\ PadLinks(t, Dest(t)) => Dest(t) \in DOMAIN fed

\* The meters of an input: enough for the audio that it is fed with.
MetersInv ==
    /\ meters \in [0 .. cfg.inputs - 1 -> Nat]
    /\ IsMosaic /\ "video" \in cfg.media =>
           \A e \in DOMAIN fed :
               fed[e].medium = "audio" => meters[fed[e].input] >= fed[e].channels

Base == TypeOK /\ StageInv /\ Quiet /\ CapsInv
PipelineInv == Base /\ FedInv /\ FlagsInv /\ MetersInv

\* Before CreatePipeLine and before any pad.
LEMMA InitInv == Init => PipelineInv
<1> SUFFICES ASSUME Init  PROVE PipelineInv
  OBVIOUS
<1> USE DEF Init
<1>1. cfg \in Config /\ tracks \subseteq Track
  BY ConfigsAssumption, TracksAssumption
<1>2. graph.ok = TRUE /\ Elements(graph) = {}
  BY EmptyIsProper DEF EmptyGraph
<1>3. DOMAIN caps = {} /\ DOMAIN fed = {}
  OBVIOUS
<1>4. TypeOK
  BY <1>1, <1>2, <1>3 DEF TypeOK
<1>5. StageInv
  BY DEF StageInv
<1>6. Quiet /\ CapsInv /\ FedInv /\ FlagsInv
  BY <1>3 DEF Quiet, CapsInv, FedInv, FlagsInv
<1>7. MetersInv
  BY <1>3 DEF MetersInv
<1> QED  BY <1>4, <1>5, <1>6, <1>7 DEF PipelineInv, Base

\* A stage of the builder: the graph that it leaves is in order.
LEMMA StageStep ==
    ASSUME PipelineInv, NEW here, NEW g, NEW next, Stage(here, g, next),
           here # "running", here # "crashed",
           g.ok \in BOOLEAN,
           next \in {"udb", "postproc", "converter", "output", "running"},
           next # "running" => ~ IsMosaic,
           next = "udb" => Proper(g) /\ (cfg.kind = "test_input" => Fine(g)),
           next \in {"postproc", "converter", "output"} /\ g.ok => Fine(g),
           next = "running" => Fine(g) /\ Reached(g)
    PROVE  PipelineInv'
<1> USE DEF Stage
<1>1. pc' = IF g.ok THEN next ELSE "crashed"
  OBVIOUS
<1>2. DOMAIN caps = {} /\ added = {} /\ DOMAIN fed = {} /\ inited = {}
  BY DEF PipelineInv, Base, Quiet
<1>3. UNCHANGED <<cfg, tracks, caps, added, fed, inited, meters>> /\ graph' = g
  OBVIOUS
<1>4. TypeOK'
  BY <1>1, <1>2, <1>3 DEF TypeOK, PipelineInv, Base
<1>5. StageInv'
  <2>1. (cfg.kind = "test_input")' <=> cfg.kind = "test_input"
    BY <1>3
  <2>2. IsMosaic' <=> IsMosaic
    BY <1>3 DEF IsMosaic
  <2>3. (Proper(graph))' <=> Proper(g)
    BY <1>3 DEF Proper, Part, Inputs, IsMosaic, IsRelay, Parser
  <2>4. (Fine(graph))' <=> Fine(g)
    BY <1>3, <2>3 DEF Fine, Entered, Joined, Entries
  <2>5. (Reached(graph))' <=> Reached(g)
    BY <1>3 DEF Reached, SinksOf, IsMosaic
  <2> QED  BY <1>1, <2>1, <2>2, <2>3, <2>4, <2>5 DEF StageInv
<1>6. Quiet' /\ CapsInv' /\ FedInv' /\ FlagsInv'
  BY <1>2, <1>3 DEF Quiet, CapsInv, FedInv, FlagsInv
<1>7. MetersInv'
  BY <1>2, <1>3 DEF MetersInv, PipelineInv
<1> QED  BY <1>4, <1>5, <1>6, <1>7 DEF PipelineInv, Base

\* Every stage of the builder, the mosaic's included.
LEMMA BuildStep ==
    ASSUME PipelineInv,
           InputStage \/ UdbStage \/ PostProcStage \/ ConverterStage \/ OutputStage \/ MosaicStage
    PROVE  PipelineInv'
<1>1. cfg \in Config /\ StageInv
  BY DEF PipelineInv, Base, TypeOK
<1>2. CASE InputStage
  <2>1. pc = "input" /\ ~ IsMosaic /\ graph = EmptyGraph
    BY <1>1, <1>2 DEF InputStage, Stage, StageInv
  <2> DEFINE g == BuildInput(EmptyGraph)
  <2>2. Proper(g) /\ (cfg.kind = "test_input" => Fine(g))
    BY <1>1, <2>1, InputFacts
  <2>3. Stage("input", g, "udb")
    BY <1>2, <2>1 DEF InputStage
  <2>4. g.ok \in BOOLEAN
    BY <2>2 DEF Proper
  <2> HIDE DEF g
  <2> QED  BY <2>1, <2>2, <2>3, <2>4, StageStep
<1>3. CASE UdbStage
  <2> DEFINE g == BuildUdbConnections(graph)
  <2>1. pc = "udb" /\ ~ IsMosaic /\ Proper(graph) /\ (cfg.kind = "test_input" => Fine(graph))
    BY <1>1, <1>3 DEF UdbStage, Stage, StageInv
  <2>2. g.ok => Fine(g)
    BY <1>1, <2>1, UdbStageFine
  <2>3. g.ok \in BOOLEAN
    <3>1. Abort(graph).ok = FALSE /\ graph.ok \in BOOLEAN
      BY <2>1 DEF Abort, Proper
    <3>2. cfg.kind # "test_input" => Fine(ForMedia(UdbConnection, graph))
      BY <1>1, <2>1, UdbFine
    <3>3. cfg.kind # "test_input" => ForMedia(UdbConnection, graph).ok \in BOOLEAN
      BY <3>2 DEF Fine, Proper
    <3> QED  BY <3>1, <3>3 DEF BuildUdbConnections
  <2>4. Stage("udb", g, "postproc")
    BY <1>3 DEF UdbStage
  <2> HIDE DEF g
  <2> QED  BY <2>1, <2>2, <2>3, <2>4, StageStep
<1>4. CASE PostProcStage
  <2> DEFINE g == BuildPostProc(graph)
  <2>1. pc = "postproc" /\ ~ IsMosaic /\ Fine(graph)
    BY <1>1, <1>4 DEF PostProcStage, Stage, StageInv
  <2>2. Fine(g)
    BY <1>1, <2>1, PostProcFine
  <2>3. Stage("postproc", g, "converter")
    BY <1>4 DEF PostProcStage
  <2>4. g.ok \in BOOLEAN
    BY <2>2 DEF Fine, Proper
  <2> HIDE DEF g
  <2> QED  BY <2>1, <2>2, <2>3, <2>4, StageStep
<1>5. CASE ConverterStage
  <2> DEFINE g == BuildConverter(graph)
  <2>1. pc = "converter" /\ ~ IsMosaic /\ Fine(graph)
    BY <1>1, <1>5 DEF ConverterStage, Stage, StageInv
  <2>2. Fine(g)
    BY <1>1, <2>1, ConverterFine
  <2>3. Stage("converter", g, "output")
    BY <1>5 DEF ConverterStage
  <2>4. g.ok \in BOOLEAN
    BY <2>2 DEF Fine, Proper
  <2> HIDE DEF g
  <2> QED  BY <2>1, <2>2, <2>3, <2>4, StageStep
<1>6. CASE OutputStage
  <2> DEFINE g == BuildOutput(graph)
  <2>1. pc = "output" /\ ~ IsMosaic /\ Fine(graph)
    BY <1>1, <1>6 DEF OutputStage, Stage, StageInv
  <2>2. Fine(g) /\ Reached(g)
    BY <1>1, <2>1, OutputFine
  <2>3. Stage("output", g, "running")
    BY <1>6 DEF OutputStage
  <2>4. g.ok \in BOOLEAN
    BY <2>2 DEF Fine, Proper
  <2> HIDE DEF g
  <2> QED  BY <2>1, <2>2, <2>3, <2>4, StageStep
<1>7. CASE MosaicStage
  <2> DEFINE g == MosaicPipeline
  <2>1. pc = "mosaic" /\ IsMosaic
    BY <1>1, <1>7 DEF MosaicStage, Stage, StageInv
  <2>2. Fine(g) /\ Reached(g)
    BY <1>1, <2>1, MosaicFine
  <2>3. Stage("mosaic", g, "running")
    BY <1>7 DEF MosaicStage
  <2>4. g.ok \in BOOLEAN
    BY <2>2 DEF Fine, Proper
  <2> HIDE DEF g
  <2> QED  BY <2>1, <2>2, <2>3, <2>4, StageStep
<1> QED  BY <1>2, <1>3, <1>4, <1>5, <1>6, <1>7

\* Nothing that the builder made changes once it is done.
LEMMA SameGraph ==
    ASSUME UNCHANGED <<cfg, tracks, graph>>
    PROVE  /\ IsMosaic' = IsMosaic /\ IsRelay' = IsRelay
           /\ Present' = Present
           /\ (Fine(graph))' <=> Fine(graph)
           /\ (Proper(graph))' <=> Proper(graph)
           /\ (Reached(graph))' <=> Reached(graph)
<1>1. IsMosaic' = IsMosaic /\ IsRelay' = IsRelay
  BY DEF IsMosaic, IsRelay
<1>2. Present' = Present
  BY DEF Present
<1>3. (Proper(graph))' <=> Proper(graph)
  BY <1>1 DEF Proper, Part, Inputs, Parser
<1>4. (Fine(graph))' <=> Fine(graph)
  BY <1>3 DEF Fine, Entered, Joined, Entries
<1>5. (Reached(graph))' <=> Reached(graph)
  BY <1>1 DEF Reached, SinksOf
<1> QED  BY <1>1, <1>2, <1>3, <1>4, <1>5

\* Nor what the tracks are wanted for.
LEMMA SameTrack ==
    ASSUME UNCHANGED <<cfg, tracks, graph>>, NEW t
    PROVE  /\ Wanted(t)' <=> Wanted(t)
           /\ Dest(t)' = Dest(t)
           /\ StopsAutoplug(t)' <=> StopsAutoplug(t)
           /\ \A e : caps[t]' = caps[t] => (PadLinks(t, e)' <=> PadLinks(t, e))
<1>1. IsMosaic' = IsMosaic /\ IsRelay' = IsRelay
  BY DEF IsMosaic, IsRelay
<1>2. Wanted(t)' <=> Wanted(t)
  BY <1>1 DEF Wanted, Selected
<1>3. Dest(t)' = Dest(t)
  BY <1>1 DEF Dest, Entry
<1>4. StopsAutoplug(t)' <=> StopsAutoplug(t)
  BY <1>1 DEF StopsAutoplug, RelayStops, OnlyAudioStops, OnlyVideoStops, EncodingStops, MosaicStops
<1>5. ASSUME NEW e, caps[t]' = caps[t]  PROVE PadLinks(t, e)' <=> PadLinks(t, e)
  <2>1. (Deciding(graph, e))' = Deciding(graph, e)
    OBVIOUS
  <2> QED  BY <1>5, <2>1 DEF PadLinks
<1> QED  BY <1>2, <1>3, <1>4, <1>5

\* A track that is present in a running pipeline has an entry, if its medium is
\* configured, and only that one is meant for it.
LEMMA EntryFacts ==
    ASSUME Base, pc = "running", NEW t \in Present, t.medium \in cfg.media
    PROVE  /\ Dest(t) \in Elements(graph)
           /\ Dest(t).name = UdbName[t.medium] /\ Dest(t).id = t.input
           /\ t.input \in Inputs
<1>1. Proper(graph) /\ Entered(graph) /\ cfg \in Config /\ t \in Track
  BY DEF Base, StageInv, Fine, TypeOK, Present
<1>2. Element("decodebin", t.input, "decodebin") \in Elements(graph)
  BY DEF Present
<1>3. t.input \in Inputs
  <2>1. Part(Element("decodebin", t.input, "decodebin"))
    BY <1>1, <1>2 DEF Proper
  <2> QED  BY <2>1 DEF Part, Element
<1>4. (IF IsMosaic THEN t.input ELSE 0) = t.input
  BY <1>3 DEF Inputs
<1>5. \E e \in Elements(graph) : e.name = UdbName[t.medium] /\ e.id = t.input
  BY <1>1, <1>2 DEF Entered
<1>6. Dest(t) = CHOOSE e \in Elements(graph) : e.name = UdbName[t.medium] /\ e.id = t.input
  BY <1>4 DEF Dest, Entry
<1> QED  BY <1>3, <1>5, <1>6

\* The pads of a running pipeline leave what was built alone.
LEMMA PadBase ==
    ASSUME Base, pc = "running", UNCHANGED <<cfg, tracks, pc, graph>>,
           CapsInv', DOMAIN fed' \subseteq Elements(graph), inited' \subseteq cfg.media
    PROVE  Base'
<1>1. /\ IsMosaic' = IsMosaic /\ Present' = Present
      /\ (Fine(graph))' <=> Fine(graph)
      /\ (Proper(graph))' <=> Proper(graph)
      /\ (Reached(graph))' <=> Reached(graph)
  BY SameGraph
<1>2. added' \subseteq DOMAIN caps' /\ DOMAIN caps' \subseteq tracks
  BY <1>1 DEF CapsInv, Present
<1>3. TypeOK'
  BY <1>2 DEF TypeOK, Base
<1>4. StageInv'
  BY <1>1 DEF StageInv, Base
<1>5. Quiet'
  BY DEF Quiet
<1> QED  BY <1>3, <1>4, <1>5 DEF Base

\* decodebin asks about a track: what it will expose is settled for that one.
LEMMA AutoplugStep ==
    ASSUME PipelineInv, NEW t \in tracks, Autoplug(t)
    PROVE  PipelineInv'
<1> USE DEF Autoplug
<1>1. /\ UNCHANGED <<cfg, tracks, pc, graph, added, fed, inited, meters>>
      /\ pc = "running" /\ t \in Present \ DOMAIN caps
  OBVIOUS
<1>2. Base /\ CapsInv /\ FedInv /\ FlagsInv /\ MetersInv /\ TypeOK
  BY DEF PipelineInv, Base
<1>3. IsMosaic' = IsMosaic /\ Present' = Present
  BY <1>1, SameGraph
<1>4. DOMAIN caps' = DOMAIN caps \cup {t} /\ \A x \in DOMAIN caps : caps'[x] = caps[x]
  BY <1>1
<1>5. \A x \in added : caps'[x] = caps[x]
  BY <1>2, <1>4 DEF CapsInv
<1>6. CapsInv'
  <2>1. DOMAIN caps' \subseteq Present' /\ added' \subseteq DOMAIN caps'
    BY <1>1, <1>2, <1>3, <1>4 DEF CapsInv
  <2>2. ASSUME NEW x, x \in DOMAIN caps'
        PROVE  (caps[x] = IF StopsAutoplug(x) THEN x.codec ELSE "raw")'
    <3>1. StopsAutoplug(x)' <=> StopsAutoplug(x)
      BY <1>1, SameTrack
    <3>2. caps'[x] = IF StopsAutoplug(x) THEN x.codec ELSE "raw"
      BY <1>2, <1>4, <2>2 DEF CapsInv
    <3> QED  BY <3>1, <3>2
  <2> QED  BY <2>1, <2>2 DEF CapsInv
<1>7. Base'
  BY <1>1, <1>2, <1>6, PadBase DEF TypeOK
<1>8. \A x \in added : /\ Wanted(x)' <=> Wanted(x)
                       /\ Dest(x)' = Dest(x)
                       /\ \A e : PadLinks(x, e)' <=> PadLinks(x, e)
  BY <1>1, <1>5, SameTrack
<1>9. FedInv'
  <2>1. ASSUME NEW e, e \in DOMAIN fed'
        PROVE  /\ fed'[e] \in added' /\ (Wanted(fed[e]))'
               /\ e = (Dest(fed[e]))' /\ (PadLinks(fed[e], e))'
    <3>1. PICK x : x = fed[e]
      OBVIOUS
    <3>2. x \in added /\ Wanted(x) /\ e = Dest(x) /\ PadLinks(x, e)
      BY <1>1, <1>2, <2>1, <3>1 DEF FedInv
    <3>3. Wanted(x)' /\ e = Dest(x)' /\ PadLinks(x, e)'
      BY <1>8, <3>2
    <3>4. fed'[e] = x
      BY <1>1, <3>1
    <3> QED  BY <1>1, <3>2, <3>3, <3>4 DEF Wanted, Selected, Dest, PadLinks
  <2> QED  BY <2>1 DEF FedInv
<1>10. FlagsInv'
  <2>1. ASSUME NEW x \in added
        PROVE  (PadLinks(x, Dest(x)))' <=> PadLinks(x, Dest(x))
    <3>1. PICK d : d = Dest(x)
      OBVIOUS
    <3>2. PadLinks(x, d)' <=> PadLinks(x, d)
      BY <1>8
    <3>3. d = Dest(x)'
      BY <1>8, <3>1
    <3> QED  BY <3>1, <3>2, <3>3 DEF PadLinks
  <2>2. \A x \in added : (Dest(x) \in DOMAIN fed)' <=> Dest(x) \in DOMAIN fed
    BY <1>1, <1>8
  <2> QED  BY <1>1, <1>2, <1>3, <1>8, <2>1, <2>2 DEF FlagsInv
<1>11. MetersInv'
  BY <1>1, <1>2, <1>3 DEF MetersInv
<1> QED  BY <1>7, <1>9, <1>10, <1>11 DEF PipelineInv

\* A wanted pad is added: if it fits, its element is fed by it or was already.
LEMMA PadStep ==
    ASSUME PipelineInv, pc = "running", UNCHANGED <<cfg, tracks, pc, graph, caps>>,
           NEW t \in DOMAIN caps, Wanted(t), added' = added \cup {t},
           fed' = LinkPad(t, Dest(t))
    PROVE  /\ FedInv' /\ DOMAIN fed \subseteq DOMAIN fed'
           /\ DOMAIN fed' \subseteq Elements(graph)
           /\ PadLinks(t, Dest(t)) => Dest(t) \in DOMAIN fed'
           /\ \A e \in DOMAIN fed' : fed'[e] = t \/ (e \in DOMAIN fed /\ fed'[e] = fed[e])
<1>1. PICK d : d = Dest(t)
  OBVIOUS
<1>2. Base /\ CapsInv /\ FedInv /\ TypeOK
  BY DEF PipelineInv, Base
<1>3. d \in Elements(graph)
  BY <1>1, <1>2, EntryFacts DEF CapsInv, Wanted
<1>4. /\ DOMAIN fed \subseteq DOMAIN fed' /\ DOMAIN fed' \subseteq Elements(graph)
      /\ PadLinks(t, d) => d \in DOMAIN fed'
      /\ \A e \in DOMAIN fed' : \/ fed'[e] = t /\ e = d /\ PadLinks(t, d)
                                \/ e \in DOMAIN fed /\ fed'[e] = fed[e]
  BY <1>1, <1>2, <1>3 DEF LinkPad, TypeOK
<1>5. FedInv'
  <2>1. ASSUME NEW e, e \in DOMAIN fed'
        PROVE  /\ fed'[e] \in added' /\ (Wanted(fed[e]))'
               /\ e = (Dest(fed[e]))' /\ (PadLinks(fed[e], e))'
    <3>1. PICK x : x = fed'[e]
      OBVIOUS
    <3>2. x \in added \cup {t} /\ Wanted(x) /\ e = Dest(x) /\ PadLinks(x, e)
      BY <1>1, <1>2, <1>4, <2>1, <3>1 DEF FedInv
    <3>3. Wanted(x)' /\ e = Dest(x)' /\ PadLinks(x, e)'
      BY <3>2, SameTrack
    <3> QED  BY <3>1, <3>2, <3>3 DEF Wanted, Selected, Dest, PadLinks
  <2> QED  BY <2>1 DEF FedInv
<1> QED  BY <1>1, <1>4, <1>5

\* What was said of a track that was added stays true when more is fed.
LEMMA FlagsKept ==
    ASSUME UNCHANGED <<cfg, tracks, graph, caps>>, DOMAIN fed \subseteq DOMAIN fed', NEW x
    PROVE  /\ Wanted(x)' <=> Wanted(x)
           /\ (PadLinks(x, Dest(x)))' <=> PadLinks(x, Dest(x))
           /\ Dest(x) \in DOMAIN fed => (Dest(x) \in DOMAIN fed)'
<1>1. PICK d : d = Dest(x)
  OBVIOUS
<1>2. Wanted(x)' <=> Wanted(x)
  BY SameTrack
<1>3. Dest(x)' = d /\ (PadLinks(x, d)' <=> PadLinks(x, d))
  BY <1>1, SameTrack
<1> QED  BY <1>1, <1>2, <1>3 DEF PadLinks

\* A pad of a stream other than a mosaic.
LEMMA PadAddedStep ==
    ASSUME PipelineInv, NEW t \in tracks, PadAdded(t)
    PROVE  PipelineInv'
<1>1. /\ UNCHANGED <<cfg, tracks, pc, graph, caps, meters>> /\ ~ IsMosaic
      /\ pc = "running" /\ t \in DOMAIN caps \ added /\ added' = added \cup {t}
      /\ fed' = IF WantsPad(t) THEN LinkPad(t, Entry(t.medium, 0)) ELSE fed
      /\ inited' = IF WantsPad(t) THEN inited \cup {t.medium} ELSE inited
  BY DEF PadAdded, Added
<1>2. Base /\ CapsInv /\ FedInv /\ FlagsInv /\ MetersInv /\ TypeOK
  BY DEF PipelineInv, Base
<1>3. IsMosaic' = IsMosaic /\ Present' = Present
  BY <1>1, SameGraph
<1>4. WantsPad(t) <=> Wanted(t) /\ t.medium \notin inited
  BY <1>1 DEF WantsPad, Wanted, Selected
<1>5. Entry(t.medium, 0) = Dest(t)
  BY <1>1 DEF Dest
<1>6. CapsInv'
  <2>1. \A x : StopsAutoplug(x)' <=> StopsAutoplug(x)
    BY <1>1, SameTrack
  <2> QED  BY <1>1, <1>2, <1>3, <2>1 DEF CapsInv
<1>7. /\ FedInv' /\ DOMAIN fed \subseteq DOMAIN fed' /\ DOMAIN fed' \subseteq Elements(graph)
      /\ WantsPad(t) /\ PadLinks(t, Dest(t)) => Dest(t) \in DOMAIN fed'
  <2>1. CASE WantsPad(t)
    BY <1>1, <1>4, <1>5, <2>1, PadStep
  <2>2. CASE ~ WantsPad(t)
    <3>1. ASSUME NEW e, e \in DOMAIN fed'
          PROVE  /\ fed'[e] \in added' /\ (Wanted(fed[e]))'
                 /\ e = (Dest(fed[e]))' /\ (PadLinks(fed[e], e))'
      <4>1. PICK x : x = fed[e]
        OBVIOUS
      <4>2. x \in added /\ Wanted(x) /\ e = Dest(x) /\ PadLinks(x, e)
        BY <1>1, <1>2, <2>2, <3>1, <4>1 DEF FedInv
      <4>3. Wanted(x)' /\ e = Dest(x)' /\ PadLinks(x, e)'
        BY <1>1, <4>2, SameTrack
      <4>4. fed'[e] = x
        BY <1>1, <2>2, <4>1
      <4> QED  BY <1>1, <4>2, <4>3, <4>4 DEF Wanted, Selected, Dest, PadLinks
    <3>2. FedInv'
      BY <3>1 DEF FedInv
    <3> QED  BY <1>1, <1>2, <2>2, <3>2 DEF TypeOK
  <2> QED  BY <2>1, <2>2
<1>8. inited' \subseteq cfg.media
  BY <1>1, <1>2 DEF FlagsInv, WantsPad
<1>9. Base'
  BY <1>1, <1>2, <1>6, <1>7, <1>8, PadBase
<1>10. \A x : /\ Wanted(x)' <=> Wanted(x)
              /\ (PadLinks(x, Dest(x)))' <=> PadLinks(x, Dest(x))
              /\ Dest(x) \in DOMAIN fed => (Dest(x) \in DOMAIN fed)'
  BY <1>1, <1>7, FlagsKept
<1>11. FlagsInv'
  <2>1. (Dest(t) \in DOMAIN fed)' <=> Dest(t) \in DOMAIN fed'
    BY <1>1, SameTrack
  <2>2. ASSUME NEW m, m \in inited'
        PROVE  \E x \in added' : /\ x.medium = m /\ Wanted(x)'
                                 /\ (PadLinks(x, Dest(x)))' => (Dest(x) \in DOMAIN fed)'
    <3>1. CASE m \in inited
      <4>1. PICK x \in added : /\ x.medium = m /\ Wanted(x)
                               /\ PadLinks(x, Dest(x)) => Dest(x) \in DOMAIN fed
        BY <1>2, <3>1 DEF FlagsInv
      <4>2. x \in added' /\ Wanted(x)'
            /\ ((PadLinks(x, Dest(x)))' => (Dest(x) \in DOMAIN fed)')
        BY <1>1, <1>10, <4>1
      <4> QED  BY <4>1, <4>2
    <3>2. CASE m \notin inited
      <4>1. WantsPad(t) /\ m = t.medium
        BY <1>1, <2>2, <3>2
      <4>2. t \in added' /\ Wanted(t)'
            /\ ((PadLinks(t, Dest(t)))' => (Dest(t) \in DOMAIN fed)')
        BY <1>1, <1>4, <1>7, <1>10, <2>1, <4>1
      <4> QED  BY <4>1, <4>2
    <3> QED  BY <3>1, <3>2
  <2>3. \A x \in added' : Wanted(x)' => x.medium \in inited'
    BY <1>1, <1>2, <1>4, <1>10 DEF FlagsInv
  <2>4. inited' \subseteq cfg'.media
    BY <1>1, <1>8
  <2> QED  BY <1>1, <1>3, <2>2, <2>3, <2>4 DEF FlagsInv
<1>12. MetersInv'
  BY <1>1, <1>2, <1>3 DEF MetersInv
<1> QED  BY <1>7, <1>9, <1>11, <1>12 DEF PipelineInv

\* A pad of a mosaic: its meters are counted before it is linked.
LEMMA MosaicPadAddedStep ==
    ASSUME PipelineInv, NEW t \in tracks, MosaicPadAdded(t)
    PROVE  PipelineInv'
<1>1. /\ UNCHANGED <<cfg, tracks, pc, graph, caps, inited>> /\ IsMosaic
      /\ pc = "running" /\ t \in DOMAIN caps \ added /\ added' = added \cup {t}
      /\ fed' = IF MosaicWantsPad(t) THEN LinkPad(t, Entry(t.medium, t.input)) ELSE fed
      /\ meters' = CountMeters(t)
  BY DEF MosaicPadAdded, Added
<1>2. Base /\ CapsInv /\ FedInv /\ FlagsInv /\ MetersInv /\ TypeOK
  BY DEF PipelineInv, Base
<1>3. IsMosaic' = IsMosaic /\ Present' = Present
  BY <1>1, SameGraph
<1>4. MosaicWantsPad(t) <=> Wanted(t)
  BY <1>1, <1>2 DEF MosaicWantsPad, Wanted, Selected, FlagsInv
<1>5. Entry(t.medium, t.input) = Dest(t)
  BY <1>1 DEF Dest
<1>6. CapsInv'
  <2>1. \A x : StopsAutoplug(x)' <=> StopsAutoplug(x)
    BY <1>1, SameTrack
  <2> QED  BY <1>1, <1>2, <1>3, <2>1 DEF CapsInv
<1>7. /\ FedInv' /\ DOMAIN fed \subseteq DOMAIN fed' /\ DOMAIN fed' \subseteq Elements(graph)
      /\ Wanted(t) /\ PadLinks(t, Dest(t)) => Dest(t) \in DOMAIN fed'
      /\ \A e \in DOMAIN fed' : \/ fed'[e] = t /\ Wanted(t)
                                \/ e \in DOMAIN fed /\ fed'[e] = fed[e]
  <2>1. CASE Wanted(t)
    BY <1>1, <1>4, <1>5, <2>1, PadStep
  <2>2. CASE ~ Wanted(t)
    <3>1. ASSUME NEW e, e \in DOMAIN fed'
          PROVE  /\ fed'[e] \in added' /\ (Wanted(fed[e]))'
                 /\ e = (Dest(fed[e]))' /\ (PadLinks(fed[e], e))'
      <4>1. PICK x : x = fed[e]
        OBVIOUS
      <4>2. x \in added /\ Wanted(x) /\ e = Dest(x) /\ PadLinks(x, e)
        BY <1>1, <1>2, <1>4, <2>2, <3>1, <4>1 DEF FedInv
      <4>3. Wanted(x)' /\ e = Dest(x)' /\ PadLinks(x, e)'
        BY <1>1, <4>2, SameTrack
      <4>4. fed'[e] = x
        BY <1>1, <1>4, <2>2, <4>1
      <4> QED  BY <1>1, <4>2, <4>3, <4>4 DEF Wanted, Selected, Dest, PadLinks
    <3>2. FedInv'
      BY <3>1 DEF FedInv
    <3> QED  BY <1>1, <1>2, <1>4, <2>2, <3>2 DEF TypeOK
  <2> QED  BY <2>1, <2>2
<1>8. inited' \subseteq cfg.media
  BY <1>1, <1>2 DEF FlagsInv
<1>9. Base'
  BY <1>1, <1>2, <1>6, <1>7, <1>8, PadBase
<1>10. \A x : /\ Wanted(x)' <=> Wanted(x)
              /\ (PadLinks(x, Dest(x)))' <=> PadLinks(x, Dest(x))
              /\ Dest(x) \in DOMAIN fed => (Dest(x) \in DOMAIN fed)'
  BY <1>1, <1>7, FlagsKept
<1>11. FlagsInv'
  <2>1. (Dest(t) \in DOMAIN fed)' <=> Dest(t) \in DOMAIN fed'
    BY <1>1, SameTrack
  <2>2. \A x \in added' : Wanted(x)' /\ (PadLinks(x, Dest(x)))' => (Dest(x) \in DOMAIN fed)'
    BY <1>1, <1>2, <1>7, <1>10, <2>1 DEF FlagsInv
  <2>3. inited' = {} /\ inited' \subseteq cfg'.media
    BY <1>1, <1>2 DEF FlagsInv
  <2> QED  BY <1>1, <1>3, <2>2, <2>3 DEF FlagsInv
<1>12. MetersInv'
  <2>1. t \in Track /\ cfg \in Config /\ t \in Present
    BY <1>1, <1>2 DEF TypeOK, CapsInv
  <2>2. t.channels \in Nat
    BY <2>1 DEF Track
  <2>3. MosaicWantsPad(t) => t.input \in 0 .. cfg.inputs - 1
    BY <1>1, <1>2, <2>1, EntryFacts DEF MosaicWantsPad, Inputs
  <2>4. meters' \in [0 .. cfg.inputs - 1 -> Nat]
        /\ \A i \in 0 .. cfg.inputs - 1 : meters'[i] >= meters[i]
    BY <1>1, <1>2, <2>2, <2>3 DEF MetersInv, CountMeters
  <2>5. ASSUME "video" \in cfg.media, NEW e \in DOMAIN fed', fed'[e].medium = "audio"
        PROVE  meters'[fed'[e].input] >= fed'[e].channels
    <3>1. CASE fed'[e] = t /\ Wanted(t)
      <4>1. meters' = [meters EXCEPT ![t.input] = @ + t.channels]
        BY <1>1, <1>4, <2>5, <3>1 DEF CountMeters
      <4> QED  BY <1>2, <1>4, <2>2, <2>3, <3>1, <4>1 DEF MetersInv
    <3>2. CASE e \in DOMAIN fed /\ fed'[e] = fed[e]
      <4>1. PICK x : x = fed[e]
        OBVIOUS
      <4>2. x \in added /\ x \in Present /\ x.medium \in cfg.media
        BY <1>2, <3>2, <4>1 DEF FedInv, Wanted, CapsInv
      <4>3. x.input \in 0 .. cfg.inputs - 1
        BY <1>1, <1>2, <4>2, EntryFacts DEF Inputs
      <4>4. x.channels \in Nat
        BY <1>2, <4>2 DEF TypeOK, Present, Track
      <4>5. meters[x.input] >= x.channels
        BY <1>1, <1>2, <2>5, <3>2, <4>1 DEF MetersInv
      <4>6. meters[x.input] \in Nat /\ meters'[x.input] \in Nat /\ meters'[x.input] >= meters[x.input]
        BY <1>2, <2>4, <4>3 DEF MetersInv
      <4>7. meters'[x.input] >= x.channels
        BY <4>4, <4>5, <4>6
      <4> QED  BY <3>2, <4>1, <4>7
    <3> QED  BY <1>7, <2>5, <3>1, <3>2
  <2> QED  BY <1>1, <2>4, <2>5 DEF MetersInv
<1> QED  BY <1>7, <1>9, <1>11, <1>12 DEF PipelineInv

\* A step that changes none of the variables.
LEMMA StutterStep ==
    ASSUME PipelineInv, UNCHANGED vars
    PROVE  PipelineInv'
<1>1. UNCHANGED <<cfg, tracks, pc, graph, caps, added, fed, inited, meters>>
  BY DEF vars
<1>2. Base /\ CapsInv /\ FedInv /\ FlagsInv /\ MetersInv /\ TypeOK
  BY DEF PipelineInv, Base
<1>3. /\ IsMosaic' = IsMosaic /\ Present' = Present
      /\ (Fine(graph))' <=> Fine(graph)
      /\ (Proper(graph))' <=> Proper(graph)
      /\ (Reached(graph))' <=> Reached(graph)
  BY <1>1, SameGraph
<1>4. TypeOK' /\ StageInv' /\ Quiet'
  BY <1>1, <1>2, <1>3 DEF TypeOK, StageInv, Quiet, Base
<1>5. CapsInv'
  <2>1. \A x : StopsAutoplug(x)' <=> StopsAutoplug(x)
    BY <1>1, SameTrack
  <2> QED  BY <1>1, <1>2, <1>3, <2>1 DEF CapsInv
<1>6. FedInv'
  <2>1. ASSUME NEW e, e \in DOMAIN fed'
        PROVE  /\ fed'[e] \in added' /\ (Wanted(fed[e]))'
               /\ e = (Dest(fed[e]))' /\ (PadLinks(fed[e], e))'
    <3>1. PICK x : x = fed[e]
      OBVIOUS
    <3>2. x \in added /\ Wanted(x) /\ e = Dest(x) /\ PadLinks(x, e)
      BY <1>1, <1>2, <2>1, <3>1 DEF FedInv
    <3>3. Wanted(x)' /\ e = Dest(x)' /\ PadLinks(x, e)'
      BY <1>1, <3>2, SameTrack
    <3>4. fed'[e] = x
      BY <1>1, <3>1
    <3> QED  BY <1>1, <3>2, <3>3, <3>4 DEF Wanted, Selected, Dest, PadLinks
  <2> QED  BY <2>1 DEF FedInv
<1>7. FlagsInv'
  <2>1. \A x : /\ Wanted(x)' <=> Wanted(x)
               /\ (PadLinks(x, Dest(x)))' <=> PadLinks(x, Dest(x))
               /\ Dest(x) \in DOMAIN fed => (Dest(x) \in DOMAIN fed)'
    BY <1>1, FlagsKept
  <2> QED  BY <1>1, <1>2, <1>3, <2>1 DEF FlagsInv
<1>8. MetersInv'
  BY <1>1, <1>2, <1>3 DEF MetersInv
<1> QED  BY <1>4, <1>5, <1>6, <1>7, <1>8 DEF PipelineInv, Base

\* A mosaic of a number of inputs that no layout is known for is not built.
LEMMA NoLayoutStep ==
    ASSUME PipelineInv, MosaicWithoutLayout
    PROVE  PipelineInv'
<1>1. /\ UNCHANGED <<cfg, tracks, graph, caps, added, fed, inited, meters>>
      /\ pc = "mosaic" /\ pc' = "failed"
  BY DEF MosaicWithoutLayout
<1>2. DOMAIN caps = {} /\ added = {} /\ DOMAIN fed = {} /\ inited = {}
  BY <1>1 DEF PipelineInv, Base, Quiet
<1>3. TypeOK'
  BY <1>1, <1>2 DEF TypeOK, PipelineInv, Base
<1>4. StageInv'
  BY <1>1 DEF StageInv
<1>5. Quiet' /\ CapsInv' /\ FedInv' /\ FlagsInv'
  BY <1>1, <1>2 DEF Quiet, CapsInv, FedInv, FlagsInv
<1>6. MetersInv'
  BY <1>1, <1>2 DEF MetersInv, PipelineInv
<1> QED  BY <1>3, <1>4, <1>5, <1>6 DEF PipelineInv, Base

-----------------------------------------------------------------------------
(* Theorems.                                                               *)

\* The inductive invariant: through every stage of CreatePipeLine, and through
\* the callbacks of decodebin in any order, the graph is in order, everything
\* that feeds an entry was meant for it and fits, and the flags and the meters
\* agree with the pads that were added.
THEOREM PipelineInvariant == Spec => []PipelineInv
<1>1. Init => PipelineInv
  BY InitInv
<1>2. PipelineInv /\ [Next]_vars => PipelineInv'
  <2> SUFFICES ASSUME PipelineInv, [Next]_vars  PROVE PipelineInv'
    OBVIOUS
  <2>1. CASE InputStage \/ UdbStage \/ PostProcStage \/ ConverterStage \/ OutputStage \/ MosaicStage
    BY <2>1, BuildStep
  <2>2. CASE MosaicWithoutLayout
    BY <2>2, NoLayoutStep
  <2>3. CASE \E t \in tracks : Autoplug(t)
    BY <2>3, AutoplugStep
  <2>4. CASE \E t \in tracks : PadAdded(t) \/ MosaicPadAdded(t)
    BY <2>4, PadAddedStep, MosaicPadAddedStep
  <2>5. CASE Finished \/ UNCHANGED vars
    <3>1. UNCHANGED vars
      BY <2>5 DEF Finished
    <3> QED  BY <3>1, StutterStep
  <2> QED  BY <2>1, <2>2, <2>3, <2>4, <2>5 DEF Next
<1> QED  BY <1>1, <1>2, PTL DEF Spec

\* The graph is intact unless the process crashed, and only elements of the
\* pipeline are fed, whatever the configuration and the tracks of the source.
THEOREM PipelineType == Spec => []TypeOK
<1>1. PipelineInv => TypeOK
  BY DEF PipelineInv, Base
<1> QED  BY <1>1, PipelineInvariant, PTL

\* Every stream that is built, with any number of outputs and inputs and any
\* filters, encoders and muxers in between, has a way from every source of a
\* configured medium to every output of the configuration.
THEOREM PipelineOutputsFed == Spec => []OutputsFed
<1>1. PipelineInv => OutputsFed
  <2> SUFFICES ASSUME PipelineInv, pc = "running", NEW m \in cfg.media,
                      NEW e \in Entries(graph, m), NEW S \in SinksOf(graph, m)
               PROVE  Behind(graph, e) \cap S # {}
    BY DEF OutputsFed
  <2>1. graph.ok /\ Fine(graph) /\ Reached(graph)
    BY DEF PipelineInv, Base, TypeOK, StageInv
  <2>2. graph.conn[m] # Null
    BY <2>1 DEF Reached
  <2>3. PICK y \in S : Path(graph, graph.conn[m], y)
    BY <2>1 DEF Reached
  <2>4. Path(graph, e, graph.conn[m])
    BY <2>1, <2>2 DEF Fine, Joined
  <2>5. Path(graph, e, y)
    BY <2>3, <2>4 DEF Path
  <2>6. e \in Elements(graph) /\ Proper(graph)
    BY <2>1 DEF Entries, Fine
  <2>7. y \in Behind(graph, e)
    BY <2>5, <2>6, PathBehind
  <2> QED  BY <2>3, <2>7
<1> QED  BY <1>1, PipelineInvariant, PTL

\* What a parser offers is what it takes, and never decoded media.
LEMMA ParserFacts ==
    ASSUME cfg \in Config, NEW m \in Media
    PROVE  Offers(Parser(m)) = Takes(Parser(m)) /\ "raw" \notin Takes(Parser(m))
<1>1. Parser(m) \in {"tsparse", "h264parse", "h265parse", "mpegaudioparse", "aacparse", "ac3parse"}
  BY DEF Parser, Config, VideoParsers, AudioParsers
<1>2. PICK p : p = Parser(m)
  OBVIOUS
<1>3. p \in {"tsparse", "h264parse", "h265parse", "mpegaudioparse", "aacparse", "ac3parse"}
  BY <1>1, <1>2
<1>4. Offers(p) = Takes(p)
  BY <1>3 DEF Offers, VideoParsers, AudioParsers, RawFilters
<1>5. "raw" \notin Takes(p)
  BY <1>3 DEF Takes, RawFilters, VideoEncoders, AudioEncoders
<1> QED  BY <1>2, <1>4, <1>5

\* The medium of every entry is fed by a track of that medium and input, the
\* chosen one, encoded as the parser of a relay expects; and in whatever order
\* decodebin adds its pads, a medium whose tracks all fit ends up fed.
THEOREM PipelineFedRightly == Spec => []FedRightly
<1>1. PipelineInv => FedRightly
  <2> SUFFICES ASSUME PipelineInv  PROVE FedRightly
    OBVIOUS
  <2>1. Base /\ CapsInv /\ FedInv /\ FlagsInv /\ TypeOK /\ Quiet /\ cfg \in Config
    BY DEF PipelineInv, Base, TypeOK
  <2>2. ASSUME NEW e \in DOMAIN fed
        PROVE  /\ fed[e] \in Eligible(fed[e].medium, e.id)
               /\ e.name = UdbName[fed[e].medium]
               /\ IsRelay => fed[e].codec \in Offers(Parser(fed[e].medium))
    <3>1. PICK t : t = fed[e]
      OBVIOUS
    <3>2. /\ t \in DOMAIN caps /\ t \in Present /\ Wanted(t) /\ e = Dest(t) /\ PadLinks(t, e)
          /\ pc = "running"
      BY <2>1, <3>1 DEF FedInv, CapsInv, Quiet
    <3>3. e \in Elements(graph) /\ e.name = UdbName[t.medium] /\ e.id = t.input
      BY <2>1, <3>2, EntryFacts DEF Wanted
    <3>4. t \in Eligible(t.medium, e.id)
      BY <3>2, <3>3 DEF Eligible, Wanted, Selected
    <3>5. ASSUME IsRelay  PROVE t.codec \in Offers(Parser(t.medium))
      <4>1. Proper(graph) /\ t.medium \in Media
        BY <2>1, <3>2 DEF Base, StageInv, Fine, TypeOK, Config, Wanted
      <4>2. e.plugin = Parser(t.medium)
        BY <3>3, <3>5, <4>1 DEF Proper, Part
      <4>3. e \in Deciding(graph, e)
        BY <3>3, <4>1, ReachFacts DEF Deciding
      <4>4. caps[t] \in Takes(Parser(t.medium))
        BY <3>2, <4>2, <4>3 DEF PadLinks
      <4>5. caps[t] = t.codec \/ caps[t] = "raw"
        BY <2>1, <3>2 DEF CapsInv
      <4> QED  BY <2>1, <4>1, <4>4, <4>5, ParserFacts
    <3> QED  BY <3>1, <3>3, <3>4, <3>5
  <2>3. ASSUME pc = "running", added = Present, cfg.kind # "test_input",
               NEW m \in cfg.media, NEW e \in Entries(graph, m),
               Eligible(m, e.id) # {}, \A t \in Eligible(m, e.id) : PadLinks(t, e)
        PROVE  e \in DOMAIN fed
    <3>1. Proper(graph)
      BY <2>1, <2>3 DEF Base, StageInv, Fine
    <3>2. e \in Elements(graph) /\ e.name = UdbName[m]
      BY <2>3 DEF Entries
    <3>3. PICK t \in Eligible(m, e.id) : TRUE
      BY <2>3
    <3>4. t \in Present /\ t.medium = m /\ t.input = e.id /\ Wanted(t)
      BY <3>3 DEF Eligible, Wanted, Selected
    <3>5. ASSUME NEW x \in Present, x.medium = m, x.input = e.id  PROVE Dest(x) = e
      <4>1. Dest(x) \in Elements(graph) /\ Dest(x).name = UdbName[m] /\ Dest(x).id = e.id
        BY <2>1, <2>3, <3>5, EntryFacts
      <4> QED  BY <3>1, <3>2, <4>1 DEF Proper
    <3>6. CASE IsMosaic
      <4>1. Wanted(t) /\ PadLinks(t, Dest(t)) => Dest(t) \in DOMAIN fed
        BY <2>1, <2>3, <3>4, <3>6 DEF FlagsInv
      <4> QED  BY <2>3, <3>3, <3>4, <3>5, <4>1
    <3>7. CASE ~ IsMosaic
      <4>1. m \in inited
        BY <2>1, <2>3, <3>4, <3>7 DEF FlagsInv
      <4>2. PICK x \in added : /\ x.medium = m /\ Wanted(x)
                               /\ PadLinks(x, Dest(x)) => Dest(x) \in DOMAIN fed
        BY <2>1, <4>1 DEF FlagsInv
      <4>3. x.input = e.id
        <5>1. x.input \in Inputs /\ t.input \in Inputs
          BY <2>1, <2>3, <3>4, <4>2, EntryFacts
        <5> QED  BY <3>4, <3>7, <5>1 DEF Inputs
      <4>4. x \in Eligible(m, e.id)
        BY <2>3, <4>2, <4>3 DEF Eligible, Wanted, Selected
      <4> QED  BY <2>3, <3>5, <4>2, <4>3, <4>4
    <3> QED  BY <3>6, <3>7
  <2> QED  BY <2>2, <2>3 DEF FedRightly
<1> QED  BY <1>1, PipelineInvariant, PTL

\* In a mosaic of any number of inputs, an audio pad that feeds an input has a
\* meter for each of its channels, whatever pads came before it.
THEOREM PipelineLevelsHaveMeters == Spec => []LevelsHaveMeters
<1>1. PipelineInv => LevelsHaveMeters
  <2> SUFFICES ASSUME PipelineInv, IsMosaic, "video" \in cfg.media,
                      NEW e \in DOMAIN fed, fed[e].medium = "audio"
               PROVE  meters[e.id] >= fed[e].channels
    BY DEF LevelsHaveMeters
  <2>1. PICK t : t = fed[e]
    OBVIOUS
  <2>2. Base /\ t \in Present /\ Wanted(t) /\ e = Dest(t) /\ pc = "running"
    BY <2>1 DEF PipelineInv, Base, FedInv, CapsInv, Quiet
  <2>3. e.id = t.input
    BY <2>2, EntryFacts DEF Wanted
  <2>4. meters[t.input] >= t.channels
    BY <2>1 DEF PipelineInv, MetersInv
  <2> QED  BY <2>1, <2>3, <2>4
<1> QED  BY <1>1, PipelineInvariant, PTL

(***************************************************************************)
(* What can be built: elements and links                                   *)
(***************************************************************************)

\* An element whose next link does not fail for want of a pad.
Open(g, x) == x \in Elements(g) /\ (x.plugin = "tee" \/ \A l \in g.links : l[1] # x)

\* It offers c.
Ready(g, x, c) == Open(g, x) /\ g.offers[x] = c /\ c # {}

\* A graph nothing has failed in, whose links begin at elements as well.
Sound(g) == Proper(g) /\ g.ok /\ \A l \in g.links : l[1] \in Elements(g)

\* No element has a name of S with the number i.
FreeNames(g, i, S) == \A x \in Elements(g) : ~(x.id = i /\ x.name \in S)

\* h is g with elements of the names S and number i, linked to g by way of from.
After(g, h, i, S, from) ==
    /\ Sound(h) /\ Elements(g) \subseteq Elements(h)
    /\ \A x \in Elements(h) : x \in Elements(g) \/ (x.id = i /\ x.name \in S)
    /\ \A x \in Elements(g) : h.offers[x] = g.offers[x]
    /\ \A x : Open(g, x) /\ (x # from \/ x.plugin = "tee") => Open(h, x)

\* ElementAdd of an element whose name is free.
LEMMA AddExact ==
    ASSUME NEW g, Sound(g), NEW e, Part(e), e.name # "nullptr", FreeNames(g, e.id, {e.name})
    PROVE  LET h == ElementAdd(g, e) IN
           /\ After(g, h, e.id, {e.name}, Null) /\ h.conn = g.conn /\ h.links = g.links
           /\ Open(h, e) /\ e \notin Elements(g) /\ h.offers[e] = Offers(e.plugin)
           /\ \A l \in h.links : l[2] # e
<1> DEFINE h == ElementAdd(g, e)
           o == [x \in Elements(g) \cup {e} |->
                     IF x = e THEN Offers(e.plugin) ELSE g.offers[x]]
<1>1. e # Null
  BY DEF Null, Element
<1>2. ~ \E x \in Elements(g) : x.name = e.name /\ x.id = e.id
  BY DEF FreeNames
<1>3. e \notin Elements(g)
  BY <1>2
<1>4. h = [g EXCEPT !.offers = o]
  BY <1>1, <1>2 DEF ElementAdd
<1>5. DOMAIN o = Elements(g) \cup {e} /\ o[e] = Offers(e.plugin)
      /\ \A x \in Elements(g) : o[x] = g.offers[x]
  BY <1>3
<1> HIDE DEF o
<1>6. h.conn = g.conn /\ h.links = g.links /\ h.offers = o /\ h.ok = g.ok
  BY <1>4 DEF Proper, Sound
<1>7. Elements(h) = Elements(g) \cup {e}
  BY <1>5, <1>6 DEF Elements
<1>8. Proper(h)
  BY AddFacts DEF Sound
<1> HIDE DEF h
<1>9. Sound(h)
  BY <1>6, <1>7, <1>8 DEF Sound
<1>10. \A x : Open(g, x) => Open(h, x)
  BY <1>6, <1>7 DEF Open
<1>11. Open(h, e) /\ \A l \in h.links : l[2] # e
  BY <1>3, <1>6, <1>7 DEF Open, Sound, Proper
<1>12. After(g, h, e.id, {e.name}, Null)
  BY <1>5, <1>6, <1>7, <1>9, <1>10 DEF After
<1> QED  BY <1>3, <1>5, <1>6, <1>11, <1>12 DEF h

\* ElementLink between elements whose pads are free: it is a matter of their
\* capabilities.
LEMMA LinkExact ==
    ASSUME NEW g, Sound(g), NEW src, Open(g, src), NEW dest, dest \in Elements(g), dest # src,
           dest.plugin \in Joins \/ \A l \in g.links : l[2] # dest
    PROVE  LET h == ElementLink(g, src, dest)
               fits == g.offers[src] \cap Takes(dest.plugin) # {}
           IN  /\ h.conn = g.conn /\ (h.ok <=> fits)
               /\ fits =>
                    /\ Sound(h) /\ Elements(h) = Elements(g)
                    /\ h.offers[dest] = IF dest.plugin \in Transparent THEN g.offers[src]
                                        ELSE g.offers[dest]
                    /\ \A x \in Elements(g) : x # dest => h.offers[x] = g.offers[x]
                    /\ \A x : Open(g, x) /\ (x # src \/ x.plugin = "tee") => Open(h, x)
<1> DEFINE h == ElementLink(g, src, dest)
           fits == g.offers[src] \cap Takes(dest.plugin) # {}
           c == IF dest.plugin \in Transparent THEN g.offers[src] ELSE g.offers[dest]
           o == [g.offers EXCEPT ![dest] = c]
           k == g.links \cup {<<src, dest>>}
<1>1. CanLink(g, src, dest) <=> fits
  BY DEF CanLink, Open
<1>2. Proper(h) /\ h.conn = g.conn /\ Elements(h) = Elements(g)
  BY LinkFacts DEF Sound
<1>3. CASE ~ fits
  <2>1. h = [g EXCEPT !.ok = FALSE]
    BY <1>1, <1>3 DEF ElementLink, Abort
  <2>2. h.ok = FALSE
    BY <2>1 DEF Sound, Proper
  <2> QED  BY <1>2, <1>3, <2>2
<1>4. CASE fits
  <2>1. h = [g EXCEPT !.links = k, !.offers = o]
    BY <1>1, <1>4 DEF ElementLink, Sound, Proper
  <2>2. src \in Elements(g) /\ DOMAIN g.offers = Elements(g)
    BY DEF Open, Elements
  <2>3. o[dest] = c /\ \A x \in Elements(g) : x # dest => o[x] = g.offers[x]
    BY <2>2
  <2>4. \A l \in k : l[1] \in Elements(g)
    BY <2>2 DEF Sound
  <2>5. \A x : Open(g, x) /\ x # src => \A l \in k : x.plugin = "tee" \/ l[1] # x
    BY DEF Open
  <2> HIDE DEF o, k
  <2>6. h.links = k /\ h.offers = o /\ h.ok = g.ok
    BY <2>1 DEF Sound, Proper
  <2> HIDE DEF h
  <2>7. Sound(h)
    BY <1>2, <2>4, <2>6 DEF Sound
  <2>8. \A x : Open(g, x) /\ (x # src \/ x.plugin = "tee") => Open(h, x)
    BY <1>2, <2>5, <2>6 DEF Open
  <2> QED  BY <1>2, <1>4, <2>3, <2>6, <2>7, <2>8 DEF h, Sound
<1> QED  BY <1>3, <1>4

\* What comes out of an element, with nothing for a link that fails.
Flow(c, e) ==
    IF c \cap Takes(e.plugin) = {} THEN {}
    ELSE IF e.plugin \in Transparent THEN c ELSE Offers(e.plugin)

\* Every element offers something.
LEMMA OffersSome == \A plugin : Offers(plugin) # {} /\ Takes(plugin) # {}
BY DEF Offers, Takes, AnyCaps, Codecs

\* Two sets of names added one after the other.
LEMMA AfterAfter ==
    ASSUME NEW f, NEW g, NEW h, NEW i, NEW S, NEW T, NEW x, NEW y,
           After(f, g, i, S, x), After(g, h, i, T, y), y \notin Elements(f) \/ y = x
    PROVE  After(f, h, i, S \cup T, x)
<1>1. /\ Sound(h) /\ Elements(f) \subseteq Elements(h)
      /\ \A z \in Elements(h) : z \in Elements(f) \/ (z.id = i /\ z.name \in S \cup T)
      /\ \A z \in Elements(f) : h.offers[z] = f.offers[z]
  BY DEF After
<1>2. ASSUME NEW z, Open(f, z), z # x \/ z.plugin = "tee"  PROVE Open(h, z)
  <2>1. z \in Elements(f) /\ Open(g, z)
    BY <1>2 DEF After, Open
  <2>2. z # y \/ z.plugin = "tee"
    BY <1>2, <2>1
  <2> QED  BY <2>1, <2>2 DEF After
<1> QED  BY <1>1, <1>2 DEF After

\* One step of Chain, from an element with a free pad to one with a free name.
LEMMA StepExact ==
    ASSUME NEW s, Sound(s.g), Open(s.g, s.at), NEW e, Part(e), e.name # "nullptr",
           FreeNames(s.g, e.id, {e.name})
    PROVE  LET r == ChainStep(s, e)
               d == Flow(s.g.offers[s.at], e)
           IN  /\ r.at = e /\ r.g.conn = s.g.conn /\ (r.g.ok <=> d # {})
               /\ d # {} => /\ After(s.g, r.g, e.id, {e.name}, s.at)
                            /\ Open(r.g, e) /\ r.g.offers[e] = d
<1> DEFINE a == ElementAdd(s.g, e)
           h == ElementLink(a, s.at, e)
           r == ChainStep(s, e)
           d == Flow(s.g.offers[s.at], e)
           fits == a.offers[s.at] \cap Takes(e.plugin) # {}
<1>1. r.g = h /\ r.at = e
  BY DEF ChainStep
<1>2. /\ After(s.g, a, e.id, {e.name}, Null) /\ a.conn = s.g.conn
      /\ Open(a, e) /\ e \notin Elements(s.g) /\ a.offers[e] = Offers(e.plugin)
      /\ \A l \in a.links : l[2] # e
  BY AddExact
<1>3. s.at \in Elements(s.g) /\ s.at # Null
  BY DEF Open, Sound, Proper
<1> HIDE DEF a
<1>4. Sound(a) /\ Open(a, s.at) /\ e \in Elements(a) /\ e # s.at
      /\ a.offers[s.at] = s.g.offers[s.at]
  BY <1>2, <1>3 DEF After, Open
<1>5. /\ h.conn = a.conn /\ (h.ok <=> fits)
      /\ fits =>
           /\ Sound(h) /\ Elements(h) = Elements(a)
           /\ h.offers[e] = IF e.plugin \in Transparent THEN a.offers[s.at] ELSE a.offers[e]
           /\ \A x \in Elements(a) : x # e => h.offers[x] = a.offers[x]
           /\ \A x : Open(a, x) /\ (x # s.at \/ x.plugin = "tee") => Open(h, x)
  BY <1>2, <1>4, LinkExact
<1> HIDE DEF h, r
<1>6. fits <=> d # {}
  BY <1>4, OffersSome DEF Flow
<1>7. ASSUME fits
      PROVE  After(s.g, h, e.id, {e.name}, s.at) /\ Open(h, e) /\ h.offers[e] = d
  <2>1. Open(h, e)
    BY <1>2, <1>4, <1>5, <1>7
  <2>2. h.offers[e] = d
    BY <1>2, <1>4, <1>5, <1>7 DEF Flow
  <2>3. \A x \in Elements(s.g) : x # e /\ h.offers[x] = s.g.offers[x]
    BY <1>2, <1>5, <1>7 DEF After
  <2>4. \A x : Open(s.g, x) /\ (x # s.at \/ x.plugin = "tee") => Open(h, x)
    <3>1. \A x : Open(s.g, x) => x # Null /\ Open(a, x)
      BY <1>2 DEF After, Open, Sound, Proper
    <3> QED  BY <1>5, <1>7, <3>1
  <2>5. After(s.g, h, e.id, {e.name}, s.at)
    BY <1>2, <1>5, <1>7, <2>3, <2>4 DEF After
  <2> QED  BY <2>1, <2>2, <2>5
<1> QED  BY <1>1, <1>2, <1>5, <1>6, <1>7 DEF r, h

\* The elements es have names of S and the number i, each its own, and make d of c.
Carries(es, c, d) ==
    \E C : /\ C[0] = c /\ C[Len(es)] = d
           /\ \A k \in 1 .. Len(es) : C[k] = Flow(C[k - 1], es[k])
Branch(es, i, S, c, d) ==
    /\ es \in Seq(Plain) /\ Carries(es, c, d)
    /\ \A k \in 1 .. Len(es) : es[k].id = i /\ es[k].name \in S /\ es[k].name # "nullptr"
    /\ \A j, k \in 1 .. Len(es) : es[j].name = es[k].name => j = k

\* A whole chain of elements with free names: it can be built if something
\* comes out of it, and only then.
LEMMA ChainExact ==
    ASSUME NEW g, Sound(g), NEW from, NEW o, Ready(g, from, o),
           NEW es, NEW i, NEW S, NEW d, Branch(es, i, S, o, d), FreeNames(g, i, S)
    PROVE  LET r == Chain(g, from, es) IN
           /\ r.g.conn = g.conn /\ (r.g.ok <=> d # {})
           /\ r.at = IF es = <<>> THEN from ELSE es[Len(es)]
           /\ d # {} => /\ After(g, r.g, i, S, from) /\ Ready(r.g, r.at, d)
                        /\ es # <<>> => r.at \notin Elements(g)
<1> DEFINE n == Len(es)
           base == [g |-> g, at |-> from]
           r == Chain(g, from, es)
<1>1. /\ n \in Nat /\ DOMAIN es = 1 .. n /\ \A k \in 1 .. n : es[k] \in Plain
      /\ es \in Seq(Plain)
  BY LenProperties, ElementOfSeq DEF Branch
<1>2. PICK C : /\ C[0] = o /\ C[n] = d
               /\ \A k \in 1 .. n : C[k] = Flow(C[k - 1], es[k])
  BY DEF Branch, Carries
<1>3. /\ \A k \in 1 .. n : es[k].id = i /\ es[k].name \in S /\ es[k].name # "nullptr"
      /\ \A j, k \in 1 .. n : es[j].name = es[k].name => j = k
  BY DEF Branch
<1>4. n = 0 <=> es = <<>>
  BY <1>1, EmptySeq
<1>5. PICK p : /\ p[0] = base
               /\ \A k \in 1 .. n : p[k] = ChainStep(p[k - 1], es[k])
               /\ Chained!Fold(base, es) = p[n]
  <2> HIDE DEF n, base
  <2> QED  BY <1>1, Chained!FoldSteps
<1>6. r = p[n]
  <2>1. r = Chained!Fold(base, es)
    BY DEF Chain, Chained!Fold, FoldLeft, Chained!FoldLeft, MapThenFoldSet,
           Chained!MapThenFoldSet, Max, Chained!Max
  <2> HIDE DEF r, base
  <2> QED  BY <1>5, <2>1
<1> HIDE DEF n, r
<1> DEFINE T(k) == {es[j].name : j \in 1 .. k}
           Done(k) ==
               /\ p[k].g.conn = g.conn /\ Proper(p[k].g) /\ (p[k].g.ok <=> C[k] # {})
               /\ p[k].at = IF k = 0 THEN from ELSE es[k]
               /\ C[k] # {} => /\ After(g, p[k].g, i, T(k), from)
                               /\ Ready(p[k].g, p[k].at, C[k])
                               /\ k # 0 => p[k].at \notin Elements(g)
           Bad == {k \in 0 .. n : ~ Done(k)}
<1>7. Done(0)
  <2>1. p[0].g = g /\ p[0].at = from
    BY <1>5
  <2>2. After(g, g, i, T(0), from)
    BY DEF After
  <2> HIDE DEF T
  <2> QED  BY <1>2, <2>1, <2>2 DEF Sound, Ready
<1>8. ASSUME NEW k \in 1 .. n, Done(k - 1)  PROVE Done(k)
  <2> DEFINE s == p[k - 1]
             e == es[k]
             c == C[k - 1]
  <2>1. k - 1 \in Nat /\ p[k] = ChainStep(s, e) /\ e \in Plain /\ C[k] = Flow(c, e)
    BY <1>1, <1>2, <1>5
  <2>2. /\ s.g.conn = g.conn /\ Proper(s.g) /\ (s.g.ok <=> c # {})
        /\ s.at = IF k - 1 = 0 THEN from ELSE es[k - 1]
        /\ c # {} => /\ After(g, s.g, i, T(k - 1), from)
                     /\ Ready(s.g, s.at, c)
                     /\ k - 1 # 0 => s.at \notin Elements(g)
    BY <1>8
  <2>3. e.id = i /\ e.name \in S /\ e.name # "nullptr" /\ Part(e)
    BY <1>3, <2>1, PlainIsPart
  <2>4. T(k) = T(k - 1) \cup {e.name}
    <3>1. 1 .. k = (1 .. k - 1) \cup {k}
      OBVIOUS
    <3> QED  BY <3>1
  <2>5. e.name \notin T(k - 1)
    <3>1. \A j \in 1 .. k - 1 : j \in 1 .. n /\ j # k
      BY <1>1
    <3> QED  BY <1>3, <3>1
  <2> HIDE DEF s, e, c, T
  <2>6. CASE c = {}
    <3>1. ~ s.g.ok
      BY <2>2, <2>6
    <3>2. C[k] = {}
      BY <2>1, <2>6 DEF Flow
    <3>3. Grows(s.g, p[k].g) /\ p[k].g.conn = s.g.conn /\ p[k].at = e
      BY <2>1, <2>2, ChainStepFacts
    <3>4. Proper(p[k].g) /\ p[k].g.ok = FALSE
      BY <3>1, <3>3 DEF Grows, Proper
    <3> QED  BY <2>2, <3>2, <3>3, <3>4 DEF e
  <2>7. CASE c # {}
    <3>1. FreeNames(s.g, e.id, {e.name})
      BY <2>2, <2>3, <2>5, <2>7 DEF After, FreeNames
    <3>2. Sound(s.g) /\ Open(s.g, s.at) /\ s.g.offers[s.at] = c
      BY <2>2, <2>7 DEF After, Ready
    <3> DEFINE t == ChainStep(s, e)
               f == Flow(s.g.offers[s.at], e)
    <3>a. /\ t.at = e /\ t.g.conn = s.g.conn /\ (t.g.ok <=> f # {})
          /\ f # {} => /\ After(s.g, t.g, e.id, {e.name}, s.at)
                       /\ Open(t.g, e) /\ t.g.offers[e] = f
      BY <2>3, <3>1, <3>2, StepExact
    <3>b. p[k] = t /\ C[k] = f
      BY <2>1, <3>2
    <3> HIDE DEF t, f
    <3>3. /\ p[k].at = e /\ p[k].g.conn = s.g.conn /\ (p[k].g.ok <=> C[k] # {})
          /\ C[k] # {} => /\ After(s.g, p[k].g, i, {e.name}, s.at)
                          /\ Ready(p[k].g, e, C[k])
      BY <2>3, <3>a, <3>b DEF Ready
    <3>4. Proper(p[k].g)
      BY <2>1, <2>2, ChainStepFacts DEF Grows
    <3>5. C[k] # {} => After(g, p[k].g, i, T(k), from)
      BY <2>2, <2>4, <2>7, <3>3, AfterAfter
    <3>6. e \notin Elements(g)
      BY <2>3 DEF FreeNames
    <3> QED  BY <2>2, <3>3, <3>4, <3>5, <3>6 DEF e
  <2> QED  BY <2>6, <2>7
<1>9. Bad = {}
  <2> SUFFICES ASSUME Bad # {}  PROVE FALSE
    OBVIOUS
  <2>1. Bad \in SUBSET Nat
    BY <1>1
  <2>2. PICK k \in Bad : \A j \in Bad : k <= j
    <3> HIDE DEF Bad
    <3> QED  BY <2>1, Chained!LeastNumber
  <2>3. k \in 0 .. n /\ ~ Done(k)
    BY <2>2
  <2>4. k # 0
    BY <1>7, <2>3
  <2>5. k \in 1 .. n /\ k - 1 \in 0 .. n /\ ~(k <= k - 1)
    BY <1>1, <2>3, <2>4
  <2>6. Done(k - 1)
    BY <2>2, <2>5
  <2> HIDE DEF Done
  <2> QED  BY <1>8, <2>3, <2>5, <2>6
<1>10. Done(n)
  <2>1. n \in 0 .. n
    BY <1>1
  <2>2. n \notin Bad
    BY <1>9
  <2> HIDE DEF Done
  <2> QED  BY <2>1, <2>2
<1>11. T(n) \subseteq S
  BY <1>3
<1>12. After(g, p[n].g, i, T(n), from) => After(g, p[n].g, i, S, from)
  <2> HIDE DEF T
  <2> QED  BY <1>11 DEF After
<1> HIDE DEF T
<1> QED  BY <1>2, <1>4, <1>6, <1>10, <1>12 DEF r, n

\* A chain with an element whose name is taken is not built.
LEMMA ChainClash ==
    ASSUME NEW g, Proper(g), NEW from, NEW q \in Plain, NEW e \in Plain,
           ~ FreeNames(g, e.id, {e.name})
    PROVE  ~ Chain(g, from, <<q, e>>).g.ok
<1> DEFINE n == 2
           es == <<q, e>>
           base == [g |-> g, at |-> from]
           r == Chain(g, from, es)
<1>1. n \in Nat /\ DOMAIN es = 1 .. n /\ 1 \in 1 .. n /\ 2 \in 1 .. n /\ es[1] = q /\ es[2] = e
  OBVIOUS
<1>2. PICK p : /\ p[0] = base
               /\ \A k \in 1 .. n : p[k] = ChainStep(p[k - 1], es[k])
               /\ Chained!Fold(base, es) = p[n]
  <2>1. n \in Nat /\ DOMAIN es = 1 .. n
    BY <1>1
  <2> HIDE DEF n, base, es
  <2> QED  BY <2>1, Chained!FoldSteps
<1>3. r = p[2]
  <2>1. r = Chained!Fold(base, es)
    BY DEF Chain, Chained!Fold, FoldLeft, Chained!FoldLeft, MapThenFoldSet,
           Chained!MapThenFoldSet, Max, Chained!Max
  <2> HIDE DEF r, base
  <2> QED  BY <1>2, <2>1
<1>4. p[0].g = g
  BY <1>2
<1>5. p[1] = ChainStep(p[0], q) /\ p[2] = ChainStep(p[1], e)
  <2> HIDE DEF base, es, n
  <2>1. 1 - 1 = 0 /\ 2 - 1 = 1
    OBVIOUS
  <2>2. p[1] = ChainStep(p[1 - 1], es[1]) /\ p[2] = ChainStep(p[2 - 1], es[2])
    BY <1>1, <1>2
  <2> QED  BY <1>1, <2>1, <2>2
<1> HIDE DEF r, es, base, n
<1>6. Grows(g, p[1].g)
  BY <1>4, <1>5, ChainStepFacts
<1>7. Proper(p[1].g) /\ \E x \in Elements(p[1].g) : x.name = e.name /\ x.id = e.id
  BY <1>6 DEF Grows, FreeNames
<1> DEFINE a == ElementAdd(p[1].g, e)
<1>8. a.ok = FALSE /\ Proper(a)
  <2>1. a = [p[1].g EXCEPT !.ok = FALSE]
    BY <1>7 DEF ElementAdd, Abort
  <2>2. Part(e)
    BY PlainIsPart
  <2>3. Proper(a)
    BY <1>7, <2>2, AddFacts
  <2> QED  BY <1>7, <2>1, <2>3 DEF Proper
<1> HIDE DEF a
<1>9. p[2].g = ElementLink(a, p[1].at, e)
  BY <1>5 DEF ChainStep, a
<1>10. ~ p[2].g.ok
  <2> DEFINE k == ElementLink(a, p[1].at, e)
  <2>1. k.ok => a.ok
    BY <1>8, LinkFacts
  <2> HIDE DEF k
  <2> QED  BY <1>8, <1>9, <2>1 DEF k
<1> QED  BY <1>3, <1>10 DEF r, es

\* The connector of a medium goes on to the last of the elements.
LEMMA ExtendExact ==
    ASSUME NEW g, Sound(g), NEW m \in Media, NEW c, Ready(g, g.conn[m], c),
           NEW es, NEW i, NEW S, NEW d, Branch(es, i, S, c, d), FreeNames(g, i, S)
    PROVE  LET h == Extend(g, m, es) IN
           /\ h.ok <=> d # {}
           /\ \A w \in Media : w # m => h.conn[w] = g.conn[w]
           /\ d # {} => /\ After(g, h, i, S, g.conn[m]) /\ Ready(h, h.conn[m], d)
                        /\ h.conn[m] = g.conn[m] \/ h.conn[m] \notin Elements(g)
                        /\ es # <<>> => h.conn[m] = es[Len(es)]
<1> DEFINE r == Chain(g, g.conn[m], es)
           h == Extend(g, m, es)
<1>1. /\ r.g.conn = g.conn /\ (r.g.ok <=> d # {})
      /\ r.at = IF es = <<>> THEN g.conn[m] ELSE es[Len(es)]
      /\ d # {} => /\ After(g, r.g, i, S, g.conn[m]) /\ Ready(r.g, r.at, d)
                   /\ es # <<>> => r.at \notin Elements(g)
  BY ChainExact
<1>2. h = [r.g EXCEPT !.conn[m] = r.at]
  BY DEF Extend
<1>3. es \in Seq(Plain)
  BY DEF Branch
<1>4. Proper(r.g)
  BY <1>3, ChainFacts DEF Sound, Grows
<1> HIDE DEF r
<1>5. /\ DOMAIN h = DOMAIN r.g /\ h.offers = r.g.offers /\ h.links = r.g.links
      /\ h.ok = r.g.ok /\ h.conn = [r.g.conn EXCEPT ![m] = r.at]
  BY <1>2, <1>4 DEF Proper
<1> HIDE DEF h
<1>6. h.conn[m] = r.at /\ \A w \in Media : w # m => h.conn[w] = g.conn[w]
  BY <1>1, <1>4, <1>5 DEF Proper
<1>7. Elements(h) = Elements(r.g) /\ DOMAIN h.conn = DOMAIN r.g.conn
  BY <1>5 DEF Elements
<1>8. Proper(h)
  BY <1>4, <1>5, <1>7 DEF Proper
<1>9. \A x : Open(h, x) <=> Open(r.g, x)
  BY <1>5, <1>7 DEF Open
<1>10. d # {} => After(g, h, i, S, g.conn[m])
  BY <1>1, <1>5, <1>7, <1>8, <1>9 DEF After, Sound
<1> QED  BY <1>1, <1>5, <1>6, <1>9, <1>10 DEF h, Ready

\* Nothing, one after the other, and with more names than needed.
LEMMA BranchJoin ==
    ASSUME NEW a, NEW b, NEW i, NEW S, NEW T, NEW c, NEW d, NEW e,
           Branch(a, i, S, c, d), Branch(b, i, T, d, e), S \cap T = {}
    PROVE  Branch(a \o b, i, S \cup T, c, e)
<1> DEFINE n == Len(a)
           l == Len(b)
           ab == a \o b
<1>1. a \in Seq(Plain) /\ b \in Seq(Plain) /\ n \in Nat /\ l \in Nat
  BY LenProperties DEF Branch
<1>2. /\ ab \in Seq(Plain) /\ Len(ab) = n + l
      /\ \A k \in 1 .. n : ab[k] = a[k]
      /\ \A k \in n + 1 .. n + l : ab[k] = b[k - n]
  <2>1. /\ Len(ab) = n + l
        /\ \A k \in 1 .. n + l : ab[k] = IF k <= n THEN a[k] ELSE b[k - n]
    BY <1>1, ConcatProperties
  <2>2. ab \in Seq(Plain)
    BY <1>1, ConcatProperties
  <2> HIDE DEF n, l, ab
  <2> QED  BY <1>1, <2>1, <2>2
<1> HIDE DEF ab
<1>3. PICK A : A[0] = c /\ A[n] = d /\ \A k \in 1 .. n : A[k] = Flow(A[k - 1], a[k])
  BY DEF Branch, Carries
<1>4. PICK B : B[0] = d /\ B[l] = e /\ \A k \in 1 .. l : B[k] = Flow(B[k - 1], b[k])
  BY DEF Branch, Carries
<1>5. /\ \A k \in 1 .. n : a[k].id = i /\ a[k].name \in S /\ a[k].name # "nullptr"
      /\ \A j, k \in 1 .. n : a[j].name = a[k].name => j = k
      /\ \A k \in 1 .. l : b[k].id = i /\ b[k].name \in T /\ b[k].name # "nullptr"
      /\ \A j, k \in 1 .. l : b[j].name = b[k].name => j = k
  BY DEF Branch
<1> HIDE DEF n, l
<1>6. \A k \in 1 .. n + l : k \in 1 .. n \/ (k \in n + 1 .. n + l /\ k - n \in 1 .. l)
  BY <1>1
<1> DEFINE C == [k \in 0 .. n + l |-> IF k <= n THEN A[k] ELSE B[k - n]]
<1>7. C[0] = c /\ C[n + l] = e
  <2>1. 0 \in 0 .. n + l /\ 0 <= n /\ n + l \in 0 .. n + l /\ (n + l <= n => l = 0)
        /\ n + l - n = l
    BY <1>1
  <2>2. l = 0 => C[n + l] = A[n + l] /\ n + l = n
    BY <1>1, <2>1
  <2>3. l # 0 => C[n + l] = B[l]
    BY <1>1, <2>1
  <2>4. C[0] = A[0]
    BY <2>1
  <2> HIDE DEF C
  <2> QED  BY <1>3, <1>4, <2>2, <2>3, <2>4
<1>8. ASSUME NEW k \in 1 .. n + l  PROVE C[k] = Flow(C[k - 1], ab[k])
  <2>1. CASE k \in 1 .. n
    <3>1. C[k] = A[k] /\ C[k - 1] = A[k - 1] /\ ab[k] = a[k]
      BY <1>1, <1>2, <2>1
    <3> HIDE DEF C
    <3> QED  BY <1>3, <2>1, <3>1
  <2>2. CASE k \in n + 1 .. n + l /\ k - n \in 1 .. l
    <3>1. ab[k] = b[k - n] /\ C[k] = B[k - n]
      BY <1>1, <1>2, <2>2
    <3>2. C[k - 1] = B[k - n - 1]
      <4>1. CASE k - 1 = n
        <5>1. C[k - 1] = A[n] /\ k - n - 1 = 0
          BY <1>1, <4>1
        <5> HIDE DEF C
        <5> QED  BY <1>3, <1>4, <5>1
      <4>2. CASE k - 1 # n
        <5>1. k - 1 \in 0 .. n + l /\ ~(k - 1 <= n) /\ k - 1 - n = k - n - 1
          BY <1>1, <2>2, <4>2
        <5> QED  BY <5>1
      <4> QED  BY <4>1, <4>2
    <3>3. B[k - n] = Flow(B[k - n - 1], b[k - n])
      BY <1>4, <2>2
    <3> HIDE DEF C
    <3> QED  BY <3>1, <3>2, <3>3
  <2> QED  BY <1>6, <2>1, <2>2
<1>9. Carries(ab, c, e)
  <2> HIDE DEF C
  <2> QED  BY <1>2, <1>7, <1>8 DEF Carries
<1>10. \A k \in 1 .. n + l :
           /\ ab[k].id = i /\ ab[k].name \in S \cup T /\ ab[k].name # "nullptr"
           /\ k \in 1 .. n => ab[k].name \in S
           /\ k \notin 1 .. n => ab[k].name \in T
  BY <1>2, <1>5, <1>6
<1>11. ASSUME NEW j \in 1 .. n + l, NEW k \in 1 .. n + l, ab[j].name = ab[k].name  PROVE j = k
  <2>1. j \in 1 .. n <=> k \in 1 .. n
    BY <1>10, <1>11
  <2>2. CASE j \in 1 .. n
    BY <1>2, <1>5, <1>11, <2>1, <2>2
  <2>3. CASE j \notin 1 .. n
    <3>1. /\ j - n \in 1 .. l /\ k - n \in 1 .. l
          /\ ab[j] = b[j - n] /\ ab[k] = b[k - n]
      BY <1>2, <1>6, <2>1, <2>3
    <3>2. j - n = k - n
      BY <1>5, <1>11, <3>1
    <3> QED  BY <1>1, <3>2
  <2> QED  BY <2>2, <2>3
<1> QED  BY <1>2, <1>9, <1>10, <1>11 DEF Branch, ab

\* A branch without elements passes on what it gets.
LEMMA BranchNone == \A i, S, c : Branch(<<>>, i, S, c, c)
<1> TAKE i, S, c
<1>1. Len(<<>>) = 0 /\ <<>> \in Seq(Plain)
  BY EmptySeq
<1> DEFINE C == [k \in {0} |-> c]
<1>2. Carries(<<>>, c, c)
  <2>1. C[0] = c /\ C[Len(<<>>)] = c /\ 1 .. Len(<<>>) = {}
    BY <1>1
  <2> HIDE DEF C
  <2> QED  BY <2>1 DEF Carries
<1> QED  BY <1>1, <1>2 DEF Branch

\* The names of a branch may be taken for more than they are.
LEMMA BranchMore ==
    \A es, i, S, T, c, d : Branch(es, i, S, c, d) /\ S \subseteq T => Branch(es, i, T, c, d)
BY DEF Branch

\* A branch of one element.
LEMMA BranchOne ==
    ASSUME NEW e \in Plain, e.name # "nullptr", NEW c
    PROVE  Branch(<<e>>, e.id, {e.name}, c, Flow(c, e))
<1> DEFINE es == <<e>>
           C == [k \in 0 .. 1 |-> IF k = 0 THEN c ELSE Flow(c, e)]
<1>1. es \in Seq(Plain) /\ Len(es) = 1 /\ es[1] = e /\ 1 .. 1 = {1}
  OBVIOUS
<1>2. C[0] = c /\ C[1] = Flow(c, e) /\ 1 - 1 = 0
  OBVIOUS
<1> HIDE DEF es, C
<1>3. Carries(es, c, Flow(c, e))
  <2>1. \A k \in 1 .. 1 : C[k] = Flow(C[k - 1], es[k])
    <3> SUFFICES ASSUME NEW k \in 1 .. 1  PROVE C[k] = Flow(C[k - 1], es[k])
      OBVIOUS
    <3>1. k = 1
      OBVIOUS
    <3> QED  BY <1>1, <1>2, <3>1
  <2> QED  BY <1>1, <1>2, <2>1 DEF Carries
<1>4. Branch(es, e.id, {e.name}, c, Flow(c, e))
  BY <1>1, <1>3 DEF Branch
<1> QED  BY <1>4 DEF es

\* What filters, and what elements that pass on whatever comes, make of media.
LEMMA FlowFacts ==
    /\ \A c, e : e.plugin \in RawFilters /\ "raw" \in c => Flow(c, e) = {"raw"}
    /\ \A c, e : e.plugin \in Transparent /\ c \cap AnyCaps # {} => Flow(c, e) = c
<1>1. ASSUME NEW c, NEW e, e.plugin \in RawFilters, "raw" \in c  PROVE Flow(c, e) = {"raw"}
  <2>1. Takes(e.plugin) = {"raw"}
    BY <1>1 DEF Takes, RawFilters, VideoEncoders, AudioEncoders
  <2>2. e.plugin \notin Transparent /\ Offers(e.plugin) = {"raw"}
    BY <1>1 DEF Offers, RawFilters, Transparent, VideoParsers, AudioParsers
  <2> QED  BY <1>1, <2>1, <2>2 DEF Flow
<1>2. ASSUME NEW c, NEW e, e.plugin \in Transparent, c \cap AnyCaps # {}  PROVE Flow(c, e) = c
  <2>1. Takes(e.plugin) = AnyCaps
    BY <1>2 DEF Takes, Transparent, RawFilters, VideoEncoders, AudioEncoders
  <2> QED  BY <1>2, <2>1 DEF Flow
<1> QED  BY <1>1, <1>2

\* An element of a name and plugin that the builders know.
LEMMA BranchElement ==
    ASSUME NEW name \in PlainNames \ {"nullptr"}, NEW i \in Int, NEW plugin \in PlainPlugins, NEW c
    PROVE  LET es == <<Element(name, i, plugin)>> IN
           /\ Branch(es, i, {name}, c, Flow(c, Element(name, i, plugin)))
           /\ plugin \in RawFilters /\ "raw" \in c => Branch(es, i, {name}, c, {"raw"})
           /\ plugin \in Transparent /\ c \cap AnyCaps # {} => Branch(es, i, {name}, c, c)
<1> DEFINE e == Element(name, i, plugin)
<1>1. e \in Plain
  BY PlainElement
<1>2. e.name = name /\ e.id = i /\ e.plugin = plugin /\ e.name # "nullptr"
  BY DEF Element
<1>3. Branch(<<e>>, i, {name}, c, Flow(c, e))
  <2> HIDE DEF e
  <2>1. Branch(<<e>>, e.id, {e.name}, c, Flow(c, e))
    BY <1>1, <1>2, BranchOne
  <2> QED  BY <1>2, <2>1
<1> HIDE DEF e
<1>4. /\ plugin \in RawFilters /\ "raw" \in c => Flow(c, e) = {"raw"}
      /\ plugin \in Transparent /\ c \cap AnyCaps # {} => Flow(c, e) = c
  BY <1>2, FlowFacts
<1> QED  BY <1>3, <1>4 DEF e

\* Elements that an option asks for.
LEMMA BranchOpt ==
    ASSUME NEW o, NEW es, NEW i, NEW S, NEW c, Branch(es, i, S, c, c)
    PROVE  Branch(Opt(o, es), i, S, c, c)
BY BranchNone DEF Opt

\* Elements one after the other.
LEMMA PairsAndTriples ==
    /\ \A x, y : <<x, y>> = <<x>> \o <<y>>
    /\ \A x, y, z : <<x, y, z>> = <<x>> \o <<y>> \o <<z>>
<1>1. ASSUME NEW x, NEW y  PROVE <<x, y>> = <<x>> \o <<y>>
  <2> DEFINE S == {x, y}
             s == <<x>>
             t == <<y>>
             u == <<x, y>>
             w == s \o t
  <2>1. /\ s \in Seq(S) /\ Len(s) = 1 /\ s[1] = x /\ t \in Seq(S) /\ Len(t) = 1 /\ t[1] = y
        /\ u \in Seq(S) /\ Len(u) = 2 /\ u[1] = x /\ u[2] = y
    OBVIOUS
  <2> HIDE DEF s, t, u, S
  <2>2. /\ w \in Seq(S) /\ Len(w) = Len(s) + Len(t)
        /\ \A k \in 1 .. Len(s) + Len(t) : w[k] = IF k <= Len(s) THEN s[k] ELSE t[k - Len(s)]
    BY <2>1, ConcatProperties
  <2> HIDE DEF w
  <2>3. Len(w) = 2 /\ w[1] = x /\ w[2] = y
    BY <2>1, <2>2
  <2>4. \A k \in 1 .. Len(u) : u[k] = w[k]
    <3>1. \A k \in 1 .. Len(u) : k = 1 \/ k = 2
      BY <2>1
    <3> QED  BY <2>1, <2>3, <3>1
  <2>5. u = w
    BY <2>1, <2>2, <2>3, <2>4, SeqEqual
  <2> QED  BY <2>5 DEF u, w, s, t
<1>2. ASSUME NEW x, NEW y, NEW z  PROVE <<x, y, z>> = <<x>> \o <<y>> \o <<z>>
  <2> DEFINE S == {x, y, z}
             s == <<x, y>>
             t == <<z>>
             u == <<x, y, z>>
             w == s \o t
  <2>1. /\ s \in Seq(S) /\ Len(s) = 2 /\ s[1] = x /\ s[2] = y
        /\ t \in Seq(S) /\ Len(t) = 1 /\ t[1] = z
        /\ u \in Seq(S) /\ Len(u) = 3 /\ u[1] = x /\ u[2] = y /\ u[3] = z
    OBVIOUS
  <2>a. s = <<x>> \o <<y>>
    BY <1>1
  <2> HIDE DEF s, t, u, S
  <2>2. /\ w \in Seq(S) /\ Len(w) = Len(s) + Len(t)
        /\ \A k \in 1 .. Len(s) + Len(t) : w[k] = IF k <= Len(s) THEN s[k] ELSE t[k - Len(s)]
    BY <2>1, ConcatProperties
  <2> HIDE DEF w
  <2>3. Len(w) = 3 /\ w[1] = x /\ w[2] = y /\ w[3] = z
    BY <2>1, <2>2
  <2>4. \A k \in 1 .. Len(u) : u[k] = w[k]
    <3>1. \A k \in 1 .. Len(u) : k = 1 \/ k = 2 \/ k = 3
      BY <2>1
    <3> QED  BY <2>1, <2>3, <3>1
  <2>5. u = w
    BY <2>1, <2>2, <2>3, <2>4, SeqEqual
  <2> QED  BY <2>a, <2>5 DEF u, w, t
<1> QED  BY <1>1, <1>2

\* What encoders and parsers offer, and what comes to the ends of a pipeline.
LEMMA PluginFacts ==
    /\ Offers("x264enc") = {"h264"} /\ Offers("x265enc") = {"h265"}
    /\ Offers("vaapih264enc") = {"h264"} /\ Offers("mfxh264enc") = {"h264"}
    /\ Offers("faac") = {"aac"} /\ Offers("lamemp3enc") = {"mp3"}
    /\ Offers("tsparse") = {"mpegts"} /\ Offers("h264parse") = {"h264"}
    /\ Offers("h265parse") = {"h265"} /\ Offers("mpegaudioparse") = {"mp3"}
    /\ Offers("aacparse") = {"aac"} /\ Offers("ac3parse") = {"ac3"}
    /\ Offers("rtph264pay") = {"rtp"} /\ Offers("rtph265pay") = {"rtp"}
    /\ Offers("rtpmp2tpay") = {"rtp"} /\ Offers("rtpmp4apay") = {"rtp"}
    /\ Offers("rtpac3pay") = {"rtp"} /\ Offers("queue") = AnyCaps
    /\ Offers("videotestsrc") = {"raw"} /\ Offers("audiotestsrc") = {"raw"}
    /\ Offers("videomixer") = {"raw"} /\ Offers("audiomixer") = {"raw"}
    /\ Offers("filesrc") = AnyCaps /\ Takes("decodebin") = AnyCaps
    /\ Offers("rtpmux") = AnyCaps /\ Offers("flvmux") = AnyCaps /\ Offers("mpegtsmux") = AnyCaps
    /\ Takes("rtph264pay") = {"h264"} /\ Takes("rtph265pay") = {"h265"}
    /\ Takes("rtpmp2tpay") = {"mpegts"} /\ Takes("rtpmp4apay") = {"aac"}
    /\ Takes("rtpac3pay") = {"ac3"} /\ Takes("rtpmux") = {"rtp"}
    /\ Takes("flvmux") = {"h264", "aac", "mp3"} /\ Takes("mpegtsmux") = Codecs
    /\ Takes("sink") = AnyCaps /\ Takes("testsink") = AnyCaps /\ Takes("splitmuxsink") = AnyCaps
    /\ Takes("autovideosink") = {"raw"} /\ Takes("autoaudiosink") = {"raw"}
    /\ Takes("videomixer") = {"raw"} /\ Takes("audiomixer") = {"raw"}
<1>1. /\ Takes("tsparse") = {"mpegts"} /\ Takes("h264parse") = {"h264"}
      /\ Takes("h265parse") = {"h265"} /\ Takes("mpegaudioparse") = {"mp3"}
      /\ Takes("aacparse") = {"aac"} /\ Takes("ac3parse") = {"ac3"}
  BY DEF Takes, RawFilters, VideoEncoders, AudioEncoders
<1>2. /\ Takes("rtph264pay") = {"h264"} /\ Takes("rtph265pay") = {"h265"}
      /\ Takes("rtpmp2tpay") = {"mpegts"} /\ Takes("rtpmp4apay") = {"aac"}
      /\ Takes("rtpac3pay") = {"ac3"} /\ Takes("rtpmux") = {"rtp"}
  BY DEF Takes, RawFilters, VideoEncoders, AudioEncoders
<1>3. /\ Takes("flvmux") = {"h264", "aac", "mp3"} /\ Takes("mpegtsmux") = Codecs
      /\ Takes("sink") = AnyCaps /\ Takes("testsink") = AnyCaps /\ Takes("splitmuxsink") = AnyCaps
      /\ Takes("decodebin") = AnyCaps
  BY DEF Takes, RawFilters, VideoEncoders, AudioEncoders
<1>4. /\ Takes("autovideosink") = {"raw"} /\ Takes("autoaudiosink") = {"raw"}
      /\ Takes("videomixer") = {"raw"} /\ Takes("audiomixer") = {"raw"}
  BY DEF Takes, RawFilters, VideoEncoders, AudioEncoders
<1>5. /\ Offers("x264enc") = {"h264"} /\ Offers("x265enc") = {"h265"}
      /\ Offers("vaapih264enc") = {"h264"} /\ Offers("mfxh264enc") = {"h264"}
      /\ Offers("faac") = {"aac"} /\ Offers("lamemp3enc") = {"mp3"}
  BY DEF Offers, RawFilters, VideoParsers, AudioParsers
<1>6. /\ Offers("tsparse") = {"mpegts"} /\ Offers("h264parse") = {"h264"}
      /\ Offers("h265parse") = {"h265"} /\ Offers("mpegaudioparse") = {"mp3"}
      /\ Offers("aacparse") = {"aac"} /\ Offers("ac3parse") = {"ac3"}
  BY <1>1 DEF Offers, RawFilters, VideoParsers, AudioParsers
<1>7. /\ Offers("rtph264pay") = {"rtp"} /\ Offers("rtph265pay") = {"rtp"}
      /\ Offers("rtpmp2tpay") = {"rtp"} /\ Offers("rtpmp4apay") = {"rtp"}
      /\ Offers("rtpac3pay") = {"rtp"} /\ Offers("queue") = AnyCaps
  BY DEF Offers, RawFilters, VideoParsers, AudioParsers
<1>8. /\ Offers("videotestsrc") = {"raw"} /\ Offers("audiotestsrc") = {"raw"}
      /\ Offers("videomixer") = {"raw"} /\ Offers("audiomixer") = {"raw"}
      /\ Offers("filesrc") = AnyCaps
  BY DEF Offers, RawFilters, VideoParsers, AudioParsers
<1>9. Offers("rtpmux") = AnyCaps /\ Offers("flvmux") = AnyCaps /\ Offers("mpegtsmux") = AnyCaps
  BY DEF Offers, RawFilters, VideoParsers, AudioParsers
<1> QED  BY <1>2, <1>3, <1>4, <1>5, <1>6, <1>7, <1>8, <1>9

\* Encoded media are something, and what an encoder makes is one of them.
LEMMA EncoderFacts ==
    ASSUME cfg \in Config
    PROVE  /\ Offers(cfg.vcodec) = IF IsH264Encoder THEN {"h264"} ELSE {"h265"}
           /\ Offers(cfg.acodec) = IF IsAACEncoder THEN {"aac"} ELSE {"mp3"}
<1>1. cfg.vcodec \in {"x264enc", "x265enc", "vaapih264enc", "mfxh264enc"}
  BY DEF Config, VideoEncoders
<1>2. cfg.acodec \in {"faac", "lamemp3enc"}
  BY DEF Config, AudioEncoders
<1>3. Offers(cfg.vcodec) = IF IsH264Encoder THEN {"h264"} ELSE {"h265"}
  <2>1. IsH264Encoder <=> cfg.vcodec # "x265enc"
    BY <1>1 DEF IsH264Encoder
  <2> QED  BY <1>1, <2>1, PluginFacts
<1>4. Offers(cfg.acodec) = IF IsAACEncoder THEN {"aac"} ELSE {"mp3"}
  BY <1>2, PluginFacts DEF IsAACEncoder
<1> QED  BY <1>3, <1>4

(***************************************************************************)
(* What can be built: the parts of a chain                                 *)
(***************************************************************************)

\* What comes out of the filters, encoders and parsers.
Raw == {"raw"}
Parsed(c, takes) == IF takes \in c THEN {takes} ELSE {}

\* The parts that the builders put together, and what each of them makes of what it
\* gets: filters raw media, encoders their codec, parsers what they take, tees all.
LEMMA Parts ==
    ASSUME cfg \in Config, NEW i \in Int
    PROVE  /\ \A c : "raw" \in c =>
                 Branch(VideoConvert, 0, {"video_convert", "deinterlace"}, c, Raw)
           /\ Branch(AspectRatio(i), i, {"aspect_ratio"}, Raw, Raw)
           /\ Branch(VideoFramerate(i), i, {"videorate", "videorate_capsfilter"}, Raw, Raw)
           /\ Branch(Logo, 0, {"videologo"}, Raw, Raw)
           /\ \A c : "raw" \in c =>
                 Branch(AudioConverters, 0,
                        {"audio_convert", "audio_convert_capsfilter", "volume"}, c, Raw)
           /\ Branch(VideoEncoder(i), i, {"video_codec", "x264enc_capsfilter_profile"},
                     Raw, Offers(cfg.vcodec))
           /\ Branch(AudioEncoder(i), i, {"audioresample", "audio_codec", "mpegaudioparse"},
                     Raw, Offers(cfg.acodec))
           /\ \A c : Branch(VideoParser(i), i, {"video_parser"}, c,
                            IF IsH264Encoder THEN Parsed(c, "h264") ELSE c)
           /\ \A c : Branch(AudioParser(i), i, {"audio_parser"}, c,
                            IF IsAACEncoder THEN Parsed(c, "aac") ELSE c)
           /\ \A m \in Media : \A c : c \cap AnyCaps # {} => Branch(Tee(m), 0, {TeeName[m]}, c, c)
<1>1. /\ {"videoconvert", "avdeinterlace", "aspectratiocrop", "videorate",
          "gdkpixbufoverlay", "audioconvert", "volume", "audioresample"} \subseteq RawFilters
      /\ {"capsfilter", "tee"} \subseteq Transparent
      /\ RawFilters \subseteq PlainPlugins /\ Transparent \subseteq PlainPlugins
      /\ {"mpegaudioparse", "h264parse", "aacparse"} \subseteq PlainPlugins
      /\ cfg.vcodec \in PlainPlugins /\ cfg.acodec \in PlainPlugins
  BY DEF PlainPlugins, RawFilters, Transparent, AudioParsers, VideoParsers, Config,
         VideoEncoders, AudioEncoders
<1>2. 0 \in Int /\ "raw" \in Raw /\ Raw \cap AnyCaps # {}
  BY DEF Raw, AnyCaps
<1>3. ASSUME NEW c, "raw" \in c
      PROVE  Branch(VideoConvert, 0, {"video_convert", "deinterlace"}, c, Raw)
  <2>1. Branch(<<Element("video_convert", 0, "videoconvert")>>, 0, {"video_convert"}, c, Raw)
    BY <1>1, <1>2, <1>3, BranchElement DEF PlainNames, Raw
  <2>2. Branch(<<Element("deinterlace", 0, "avdeinterlace")>>, 0, {"deinterlace"}, Raw, Raw)
    BY <1>1, <1>2, BranchElement DEF PlainNames, Raw
  <2>3. Branch(Opt("deinterlace", <<Element("deinterlace", 0, "avdeinterlace")>>), 0,
               {"deinterlace"}, Raw, Raw)
    BY <2>2, BranchOpt
  <2>4. Branch(VideoConvert, 0, {"video_convert"} \cup {"deinterlace"}, c, Raw)
    BY <2>1, <2>3, BranchJoin DEF VideoConvert
  <2> QED  BY <2>4, BranchMore
<1>4. Branch(AspectRatio(i), i, {"aspect_ratio"}, Raw, Raw)
  <2>1. Branch(<<Element("aspect_ratio", i, "aspectratiocrop")>>, i, {"aspect_ratio"}, Raw, Raw)
    BY <1>1, <1>2, BranchElement DEF PlainNames, Raw
  <2> QED  BY <2>1, BranchOpt DEF AspectRatio
<1>5. Branch(VideoFramerate(i), i, {"videorate", "videorate_capsfilter"}, Raw, Raw)
  <2> DEFINE x == Element("videorate", i, "videorate")
             y == Element("videorate_capsfilter", i, "capsfilter")
  <2>1. Branch(<<x>>, i, {"videorate"}, Raw, Raw)
    BY <1>1, <1>2, BranchElement DEF PlainNames, Raw
  <2>2. Branch(<<y>>, i, {"videorate_capsfilter"}, Raw, Raw)
    BY <1>1, <1>2, BranchElement DEF PlainNames, Raw
  <2>3. Branch(<<x>> \o <<y>>, i, {"videorate"} \cup {"videorate_capsfilter"}, Raw, Raw)
    <3> HIDE DEF x, y
    <3> QED  BY <2>1, <2>2, BranchJoin
  <2>4. Branch(<<x, y>>, i, {"videorate", "videorate_capsfilter"}, Raw, Raw)
    <3> HIDE DEF x, y
    <3>1. <<x, y>> = <<x>> \o <<y>>
      BY PairsAndTriples
    <3>2. Branch(<<x, y>>, i, {"videorate"} \cup {"videorate_capsfilter"}, Raw, Raw)
      BY <2>3, <3>1
    <3> QED  BY <3>2, BranchMore
  <2> QED  BY <2>4, BranchOpt DEF VideoFramerate
<1>6. Branch(Logo, 0, {"videologo"}, Raw, Raw)
  <2>1. Branch(<<Element("videologo", 0, "gdkpixbufoverlay")>>, 0, {"videologo"}, Raw, Raw)
    BY <1>1, <1>2, BranchElement DEF PlainNames, Raw
  <2> QED  BY <2>1, BranchOpt DEF Logo
<1>7. ASSUME NEW c, "raw" \in c
      PROVE  Branch(AudioConverters, 0,
                    {"audio_convert", "audio_convert_capsfilter", "volume"}, c, Raw)
  <2> DEFINE x == <<Element("audio_convert", 0, "audioconvert")>>
             y == Opt("channels", <<Element("audio_convert_capsfilter", 0, "capsfilter")>>)
             z == Opt("volume", <<Element("volume", 0, "volume")>>)
  <2>1. Branch(x, 0, {"audio_convert"}, c, Raw)
    BY <1>1, <1>2, <1>7, BranchElement DEF PlainNames, Raw
  <2>2. Branch(y, 0, {"audio_convert_capsfilter"}, Raw, Raw)
    <3>1. Branch(<<Element("audio_convert_capsfilter", 0, "capsfilter")>>, 0,
                 {"audio_convert_capsfilter"}, Raw, Raw)
      BY <1>1, <1>2, BranchElement DEF PlainNames, Raw
    <3> QED  BY <3>1, BranchOpt
  <2>3. Branch(z, 0, {"volume"}, Raw, Raw)
    <3>1. Branch(<<Element("volume", 0, "volume")>>, 0, {"volume"}, Raw, Raw)
      BY <1>1, <1>2, BranchElement DEF PlainNames, Raw
    <3> QED  BY <3>1, BranchOpt
  <2>4. AudioConverters = x \o y \o z
    BY DEF AudioConverters
  <2> HIDE DEF x, y, z
  <2>5. Branch(x \o y, 0, {"audio_convert"} \cup {"audio_convert_capsfilter"}, c, Raw)
    BY <2>1, <2>2, BranchJoin
  <2>6. Branch(x \o y, 0, {"audio_convert", "audio_convert_capsfilter"}, c, Raw)
    BY <2>5, BranchMore
  <2>7. Branch(x \o y \o z, 0, {"audio_convert", "audio_convert_capsfilter"} \cup {"volume"}, c, Raw)
    BY <2>3, <2>6, BranchJoin
  <2> QED  BY <2>4, <2>7, BranchMore
<1>8. Branch(VideoEncoder(i), i, {"video_codec", "x264enc_capsfilter_profile"},
             Raw, Offers(cfg.vcodec))
  <2> DEFINE x == Element("video_codec", i, cfg.vcodec)
             y == Element("x264enc_capsfilter_profile", i, "capsfilter")
             z == IF cfg.vcodec # "x264enc" THEN <<>> ELSE Opt("profile", <<y>>)
             o == Offers(cfg.vcodec)
  <2>1. Branch(<<x>>, i, {"video_codec"}, Raw, Flow(Raw, x))
    BY <1>1, BranchElement DEF PlainNames
  <2>2. Flow(Raw, x) = o
    <3>1. x.plugin = cfg.vcodec /\ cfg.vcodec \in VideoEncoders
      BY DEF Element, Config
    <3>2. Takes(cfg.vcodec) = {"raw"} /\ cfg.vcodec \notin Transparent
      BY <3>1 DEF Takes, VideoEncoders, Transparent, RawFilters, AudioEncoders
    <3> QED  BY <3>1, <3>2 DEF Flow, Raw
  <2>3. o \cap AnyCaps # {}
    <3>1. "h264" \in AnyCaps /\ "h265" \in AnyCaps
      BY DEF AnyCaps, Codecs
    <3>2. "h264" \in o \/ "h265" \in o
      BY EncoderFacts
    <3> QED  BY <3>1, <3>2
  <2> HIDE DEF o
  <2>4. Branch(<<y>>, i, {"x264enc_capsfilter_profile"}, o, o)
    BY <1>1, <2>3, BranchElement DEF PlainNames
  <2>5. Branch(z, i, {"x264enc_capsfilter_profile"}, o, o)
    BY <2>4, BranchOpt, BranchNone
  <2>6. VideoEncoder(i) = <<x>> \o z
    BY DEF VideoEncoder
  <2> HIDE DEF x, z
  <2>7. Branch(<<x>> \o z, i, {"video_codec"} \cup {"x264enc_capsfilter_profile"}, Raw, o)
    BY <2>1, <2>2, <2>5, BranchJoin
  <2> QED  BY <2>6, <2>7, BranchMore DEF o
<1>9. Branch(AudioEncoder(i), i, {"audioresample", "audio_codec", "mpegaudioparse"},
             Raw, Offers(cfg.acodec))
  <2> DEFINE x == Element("audioresample", i, "audioresample")
             y == Element("audio_codec", i, cfg.acodec)
             z == Element("mpegaudioparse", i, "mpegaudioparse")
             o == Offers(cfg.acodec)
             N == {"audioresample", "audio_codec", "mpegaudioparse"}
  <2>1. Branch(<<y>>, i, {"audio_codec"}, Raw, Flow(Raw, y))
    BY <1>1, BranchElement DEF PlainNames
  <2>2. Flow(Raw, y) = o
    <3>1. y.plugin = cfg.acodec /\ cfg.acodec \in AudioEncoders
      BY DEF Element, Config
    <3>2. Takes(cfg.acodec) = {"raw"} /\ cfg.acodec \notin Transparent
      BY <3>1 DEF Takes, VideoEncoders, Transparent, RawFilters, AudioEncoders
    <3> QED  BY <3>1, <3>2 DEF Flow, Raw
  <2>3. CASE cfg.acodec # "lamemp3enc"
    <3>1. AudioEncoder(i) = <<y>>
      BY <2>3 DEF AudioEncoder
    <3> HIDE DEF y, o
    <3>2. Branch(<<y>>, i, {"audio_codec"}, Raw, o)
      BY <2>1, <2>2
    <3> QED  BY <3>1, <3>2, BranchMore DEF o
  <2>4. CASE cfg.acodec = "lamemp3enc"
    <3>1. o = {"mp3"}
      BY <2>4, PluginFacts
    <3>2. Branch(<<x>>, i, {"audioresample"}, Raw, Raw)
      BY <1>1, <1>2, BranchElement DEF PlainNames, Raw
    <3>3. Branch(<<z>>, i, {"mpegaudioparse"}, o, Flow(o, z))
      BY <1>1, BranchElement DEF PlainNames
    <3>4. Flow(o, z) = o
      <4>1. z.plugin = "mpegaudioparse"
        BY DEF Element
      <4>2. Takes("mpegaudioparse") = {"mp3"}
        BY DEF Takes, VideoEncoders, RawFilters, AudioEncoders
      <4>3. Offers("mpegaudioparse") = {"mp3"}
        BY <4>2 DEF Offers, RawFilters, VideoParsers, AudioParsers
      <4>4. "mpegaudioparse" \notin Transparent
        BY DEF Transparent
      <4> HIDE DEF z
      <4> QED  BY <3>1, <4>1, <4>2, <4>3, <4>4 DEF Flow
    <3>5. AudioEncoder(i) = <<x, y, z>>
      BY <2>4 DEF AudioEncoder
    <3> HIDE DEF x, y, z, o
    <3>6. <<x, y, z>> = <<x>> \o <<y>> \o <<z>>
      BY PairsAndTriples
    <3>7. Branch(<<x>> \o <<y>>, i, {"audioresample"} \cup {"audio_codec"}, Raw, o)
      BY <2>1, <2>2, <3>2, BranchJoin
    <3>8. Branch(<<x>> \o <<y>>, i, {"audioresample", "audio_codec"}, Raw, o)
      BY <3>7, BranchMore
    <3>9. Branch(<<x>> \o <<y>> \o <<z>>, i,
                 {"audioresample", "audio_codec"} \cup {"mpegaudioparse"}, Raw, o)
      BY <3>3, <3>4, <3>8, BranchJoin
    <3> QED  BY <3>5, <3>6, <3>9, BranchMore DEF o
  <2> QED  BY <2>3, <2>4
<1>10. ASSUME NEW c
       PROVE  Branch(VideoParser(i), i, {"video_parser"}, c,
                     IF IsH264Encoder THEN Parsed(c, "h264") ELSE c)
  <2> DEFINE x == Element("video_parser", i, "h264parse")
  <2>1. Branch(<<x>>, i, {"video_parser"}, c, Flow(c, x))
    BY <1>1, BranchElement DEF PlainNames
  <2>2. Flow(c, x) = Parsed(c, "h264")
    <3>1. x.plugin = "h264parse"
      BY DEF Element
    <3>2. Takes("h264parse") = {"h264"}
      BY DEF Takes, VideoEncoders, RawFilters, AudioEncoders
    <3>3. Offers("h264parse") = {"h264"} /\ "h264parse" \notin Transparent
      BY <3>2 DEF Offers, RawFilters, VideoParsers, AudioParsers, Transparent
    <3> HIDE DEF x
    <3> QED  BY <3>1, <3>2, <3>3 DEF Flow, Parsed
  <2> HIDE DEF x
  <2>3. VideoParser(i) = IF IsH264Encoder THEN <<x>> ELSE <<>>
    BY DEF VideoParser, x
  <2> QED  BY <2>1, <2>2, <2>3, BranchNone
<1>11. ASSUME NEW c
       PROVE  Branch(AudioParser(i), i, {"audio_parser"}, c,
                     IF IsAACEncoder THEN Parsed(c, "aac") ELSE c)
  <2> DEFINE x == Element("audio_parser", i, "aacparse")
  <2>1. Branch(<<x>>, i, {"audio_parser"}, c, Flow(c, x))
    BY <1>1, BranchElement DEF PlainNames
  <2>2. Flow(c, x) = Parsed(c, "aac")
    <3>1. x.plugin = "aacparse"
      BY DEF Element
    <3>2. Takes("aacparse") = {"aac"}
      BY DEF Takes, VideoEncoders, RawFilters, AudioEncoders
    <3>3. Offers("aacparse") = {"aac"} /\ "aacparse" \notin Transparent
      BY <3>2 DEF Offers, RawFilters, VideoParsers, AudioParsers, Transparent
    <3> HIDE DEF x
    <3> QED  BY <3>1, <3>2, <3>3 DEF Flow, Parsed
  <2> HIDE DEF x
  <2>3. AudioParser(i) = IF IsAACEncoder THEN <<x>> ELSE <<>>
    BY DEF AudioParser, x
  <2> QED  BY <2>1, <2>2, <2>3, BranchNone
<1>12. ASSUME NEW m \in Media, NEW c, c \cap AnyCaps # {}
       PROVE  Branch(Tee(m), 0, {TeeName[m]}, c, c)
  <2>1. TeeName[m] \in PlainNames \ {"nullptr"}
    BY DEF TeeName, Media, PlainNames
  <2> QED  BY <1>1, <1>2, <1>12, <2>1, BranchElement DEF Tee
<1> QED  BY <1>3, <1>4, <1>5, <1>6, <1>7, <1>8, <1>9, <1>10, <1>11, <1>12

(***************************************************************************)
(* What can be built: the stages up to the outputs                         *)
(***************************************************************************)

\* The names of the elements that each stage adds.
InputNames == {"src", "decodebin", "video_src", "audio_src"}
UdbNames == InputNames \cup {"udb_conn_video", "udb_conn_audio"}
PostNames ==
    UdbNames \cup {"video_convert", "deinterlace", "videoscale", "videoscale_capsfilter",
                   "aspect_ratio", "videorate", "videorate_capsfilter", "videologo",
                   "audio_convert", "audio_convert_capsfilter", "volume"}
ConvNames ==
    PostNames \cup {"video_codec", "x264enc_capsfilter_profile", "audioresample", "audio_codec",
                    "mpegaudioparse", "video_parser", "audio_parser", "video_tee", "audio_tee"}
NamesIn(g, S) == \A x \in Elements(g) : x.name \in S

\* The connectors of the configured media offer c, and are two.
Conns(g, c) ==
    /\ \A m \in cfg.media : Ready(g, g.conn[m], c[m])
    /\ cfg.media = Media => g.conn["video"] # g.conn["audio"]
\* Those of the others are null.
Rest(g) == \A m \in Media : m \notin cfg.media => g.conn[m] = Null

\* What the connectors offer once that of m offers d.
Becomes(c, e, m, d) == d # {} /\ e[m] = d /\ \A w \in Media : w # m => e[w] = c[w]

\* The last of some elements.
EndsAt(x, es) == es # <<>> => x = es[Len(es)]

\* The connectors of the other media are what they were.
Others(g, h, m) == \A w \in Media : w # m => h.conn[w] = g.conn[w]

\* The branch of one medium goes on.
LEMMA ExtendConn ==
    ASSUME NEW g, Sound(g), cfg \in Config, NEW c, Conns(g, c),
           NEW m \in cfg.media, NEW es, NEW S, NEW d, Branch(es, 0, S, c[m], d),
           FreeNames(g, 0, S), NEW e, Becomes(c, e, m, d)
    PROVE  LET h == Extend(g, m, es) IN
           /\ Sound(h) /\ Conns(h, e)
           /\ Others(g, h, m)
           /\ \A x \in Elements(h) : x \in Elements(g) \/ x.name \in S
           /\ EndsAt(h.conn[m], es)
<1> DEFINE h == Extend(g, m, es)
<1>1. m \in Media /\ Ready(g, g.conn[m], c[m])
  BY DEF Conns, Config
<1>2. /\ \A w \in Media : w # m => h.conn[w] = g.conn[w]
      /\ After(g, h, 0, S, g.conn[m]) /\ Ready(h, h.conn[m], d)
      /\ h.conn[m] = g.conn[m] \/ h.conn[m] \notin Elements(g)
      /\ EndsAt(h.conn[m], es)
  BY <1>1, ExtendExact DEF Becomes, EndsAt
<1>3. d # {} /\ e[m] = d /\ \A w \in Media : w # m => e[w] = c[w]
  BY DEF Becomes
<1> HIDE DEF h
<1>4. ASSUME NEW w \in cfg.media, w # m
      PROVE  Ready(h, h.conn[w], e[w]) /\ h.conn[w] # h.conn[m]
  <2>1. w \in Media /\ h.conn[w] = g.conn[w] /\ Ready(g, g.conn[w], c[w])
    BY <1>2, <1>4 DEF Conns, Config
  <2>2. cfg.media = Media
    BY <1>1, <1>4, <2>1 DEF Config, Media
  <2>3. g.conn[w] # g.conn[m]
    BY <1>1, <1>4, <2>1, <2>2 DEF Conns, Media
  <2>4. g.conn[w] \in Elements(g)
    BY <2>1 DEF Ready, Open
  <2> QED  BY <1>2, <1>3, <1>4, <2>1, <2>3, <2>4 DEF After, Ready
<1>5. Conns(h, e)
  <2>1. \A w \in cfg.media : Ready(h, h.conn[w], e[w])
    BY <1>2, <1>3, <1>4
  <2>2. cfg.media = Media => h.conn["video"] # h.conn["audio"]
    BY <1>1, <1>4 DEF Media
  <2> QED  BY <2>1, <2>2 DEF Conns
<1> QED  BY <1>2, <1>5 DEF h, After, Others

\* An entry, or a test source, of a medium that has none.
LEMMA StartConn ==
    ASSUME NEW g, Sound(g), cfg \in Config, NEW m \in Media, NEW e, Part(e), e.name # "nullptr",
           FreeNames(g, e.id, {e.name})
    PROVE  LET h == Start(g, m, e) IN
           /\ Sound(h) /\ h.conn[m] = e /\ Ready(h, e, Offers(e.plugin))
           /\ \A w \in Media : w # m => h.conn[w] = g.conn[w]
           /\ \A x \in Elements(h) : x \in Elements(g) \/ x = e
           /\ \A x, c : Ready(g, x, c) => Ready(h, x, c) /\ x # e
<1> DEFINE a == ElementAdd(g, e)
           h == Start(g, m, e)
<1>1. /\ After(g, a, e.id, {e.name}, Null) /\ a.conn = g.conn
      /\ Open(a, e) /\ e \notin Elements(g) /\ a.offers[e] = Offers(e.plugin)
  BY AddExact
<1>2. Elements(a) \subseteq Elements(g) \cup {e}
  BY AddFacts DEF Sound
<1>3. h = [a EXCEPT !.conn[m] = e]
  BY DEF Start
<1> HIDE DEF a
<1>4. Sound(a)
  BY <1>1 DEF After
<1>5. /\ DOMAIN h = DOMAIN a /\ h.offers = a.offers /\ h.links = a.links
      /\ h.ok = a.ok /\ h.conn = [a.conn EXCEPT ![m] = e]
  BY <1>3, <1>4 DEF Sound, Proper
<1> HIDE DEF h
<1>6. Elements(h) = Elements(a) /\ DOMAIN h.conn = DOMAIN a.conn
  BY <1>5 DEF Elements
<1>7. Sound(h)
  BY <1>4, <1>5, <1>6 DEF Sound, Proper
<1>8. h.conn[m] = e /\ \A w \in Media : w # m => h.conn[w] = g.conn[w]
  BY <1>1, <1>4, <1>5 DEF Sound, Proper
<1>9. \A x : Open(h, x) <=> Open(a, x)
  BY <1>5, <1>6 DEF Open
<1>10. Ready(h, e, Offers(e.plugin))
  BY <1>1, <1>5, <1>9, OffersSome DEF Ready
<1>11. ASSUME NEW x, NEW c, Ready(g, x, c)  PROVE Ready(h, x, c) /\ x # e
  <2>1. x \in Elements(g) /\ Open(g, x) /\ x # Null
    BY <1>11 DEF Ready, Open, Sound, Proper
  <2>2. Open(a, x) /\ a.offers[x] = g.offers[x]
    BY <1>1, <2>1 DEF After
  <2> QED  BY <1>1, <1>5, <1>9, <1>11, <2>1, <2>2 DEF Ready
<1> QED  BY <1>2, <1>6, <1>7, <1>8, <1>10, <1>11 DEF h

\* What a stage is left with: a device stream with any media goes no further
\* than to its entries, and on a GPU the video is lost on the way.
NoDevice == ~(cfg.kind = "device" /\ cfg.media # {})
FilterFails ==
    /\ cfg.kind \in {"encoding", "only_video", "test_input"} /\ "video" \in cfg.media
    /\ IsGpu \/ LogoAborts
FromUdb == [m \in Media |-> IF cfg.kind = "test_input" THEN Raw
                            ELSE IF IsRelay THEN Offers(Parser(m)) ELSE AnyCaps]
Passed(m) == (cfg.kind = "only_audio" /\ m = "video") \/ (cfg.kind = "only_video" /\ m = "audio")
FromPost == [m \in Media |-> IF IsRelay THEN Offers(Parser(m))
                             ELSE IF Passed(m) THEN AnyCaps ELSE Raw]
FromConv == [m \in Media |-> Carried(m)]

AtUdb(g) ==
    IF NoDevice
    THEN /\ Sound(g) /\ NamesIn(g, InputNames) /\ Rest(g)
         /\ IF cfg.kind = "test_input" THEN Conns(g, FromUdb)
            ELSE \A m \in Media : g.conn[m] = Null
    ELSE \E m \in Media : g.conn[m] # Null
AtPost(g) == NoDevice /\ Sound(g) /\ NamesIn(g, UdbNames) /\ Rest(g) /\ Conns(g, FromUdb)
AtConv(g) ==
    /\ NoDevice
    /\ IF FilterFails THEN g.conn["video"] = Null
       ELSE Sound(g) /\ NamesIn(g, PostNames) /\ Rest(g) /\ Conns(g, FromPost)
AtOut(g) ==
    /\ NoDevice /\ ~ FilterFails
    /\ Sound(g) /\ NamesIn(g, ConvNames) /\ Rest(g) /\ Conns(g, FromConv)
    /\ cfg.kind # "recorder" => \A m \in cfg.media : g.conn[m].plugin = "tee"

\* The builder begins with a sound graph and no connectors.
LEMMA EmptyIsSound ==
    Sound(EmptyGraph) /\ \A m \in Media : EmptyGraph.conn[m] = Null
<1>1. EmptyGraph.ok = TRUE /\ EmptyGraph.links = {} /\ EmptyGraph.conn = [m \in Media |-> Null]
  BY DEF EmptyGraph
<1> QED  BY <1>1, EmptyIsProper DEF Sound

\* A source that can be made is built with its decodebin, if their names are free.
LEMMA DecodedExact ==
    ASSUME NEW g, Sound(g), NEW i \in Inputs, i \in Int, HasSource(i), cfg.kind # "test_input",
           FreeNames(g, i, {"src", "decodebin"})
    PROVE  LET h == DecodedInput(g, i) IN
           /\ h.conn = g.conn /\ After(g, h, i, {"src", "decodebin"}, Null)
<1> DEFINE src == Element("src", i, "filesrc")
           bin == Element("decodebin", i, "decodebin")
           a == ElementAdd(g, src)
           st == [g |-> a, at |-> src]
           r == ChainStep(st, bin)
           h == DecodedInput(g, i)
<1>1. /\ src.name = "src" /\ src.id = i /\ src.plugin = "filesrc"
      /\ bin.name = "decodebin" /\ bin.id = i /\ bin.plugin = "decodebin"
  BY DEF Element
<1>2. Part(src) /\ Part(bin)
  <2>1. \A m \in Media : UdbName[m] \in {"udb_conn_video", "udb_conn_audio"}
    BY DEF Media, UdbName
  <2> HIDE DEF src, bin
  <2> QED  BY <1>1, <2>1 DEF Part
<1>3. h = r.g
  <2>1. Chain(a, src, <<bin>>) = r
    BY ChainOfOne
  <2> QED  BY <2>1 DEF DecodedInput
<1> HIDE DEF src, bin, h
<1>4. FreeNames(g, src.id, {src.name}) /\ FreeNames(g, bin.id, {bin.name})
      /\ src.name # "nullptr" /\ bin.name # "nullptr"
  BY <1>1 DEF FreeNames
<1>5. /\ After(g, a, i, {"src"}, Null) /\ a.conn = g.conn
      /\ Open(a, src) /\ src \notin Elements(g) /\ a.offers[src] = AnyCaps
  <2>1. /\ After(g, a, src.id, {src.name}, Null) /\ a.conn = g.conn
        /\ Open(a, src) /\ src \notin Elements(g) /\ a.offers[src] = Offers(src.plugin)
    BY <1>2, <1>4, AddExact
  <2> HIDE DEF a
  <2> QED  BY <1>1, <2>1, PluginFacts
<1> HIDE DEF a
<1>6. st.g = a /\ st.at = src
  OBVIOUS
<1> HIDE DEF st
<1>7. Sound(a) /\ FreeNames(a, bin.id, {bin.name})
  BY <1>1, <1>4, <1>5 DEF After, FreeNames
<1> DEFINE d == Flow(st.g.offers[st.at], bin)
<1>8. d # {}
  <2>1. Takes(bin.plugin) = AnyCaps /\ Offers(bin.plugin) # {} /\ AnyCaps # {}
    BY <1>1, PluginFacts, OffersSome DEF AnyCaps
  <2> QED  BY <1>5, <1>6, <2>1 DEF Flow
<1>9. r.g.conn = st.g.conn /\ (d # {} => After(st.g, r.g, bin.id, {bin.name}, st.at))
  BY <1>2, <1>4, <1>5, <1>6, <1>7, StepExact
<1> HIDE DEF d, r
<1>10. After(a, r.g, i, {"decodebin"}, src) /\ r.g.conn = g.conn
  BY <1>1, <1>5, <1>6, <1>8, <1>9
<1>11. After(g, r.g, i, {"src"} \cup {"decodebin"}, Null)
  BY <1>5, <1>10, AfterAfter
<1>12. {"src"} \cup {"decodebin"} = {"src", "decodebin"}
  OBVIOUS
<1> QED  BY <1>3, <1>10, <1>11, <1>12 DEF h

\* The input stage gets through if there is a source, unless the stream reads a
\* device: its connectors are set then.
LEMMA InputExact ==
    ASSUME cfg \in Config, ~ IsMosaic
    PROVE  LET h == BuildInput(EmptyGraph) IN
           (h.ok => Sourced /\ AtUdb(h)) /\ (NoDevice /\ Sourced => h.ok)
<1> DEFINE h == BuildInput(EmptyGraph)
<1>0. cfg.kind \in {"device", "test_input"} => Sourced
  BY DEF Sourced
<1>1. CASE cfg.kind = "device"
  <2> DEFINE g1 == IF "video" \in cfg.media THEN DeviceInput(EmptyGraph, "video") ELSE EmptyGraph
             h1 == IF "audio" \in cfg.media THEN DeviceInput(g1, "audio") ELSE g1
  <2>1. h = h1
    BY <1>1 DEF BuildInput, ForMedia
  <2>2. CASE cfg.media = {}
    <3>1. h = EmptyGraph
      BY <2>1, <2>2
    <3>2. NoDevice /\ NamesIn(EmptyGraph, InputNames) /\ Rest(EmptyGraph) /\ EmptyGraph.ok
      BY <2>2, EmptyIsSound, EmptyIsProper DEF NoDevice, NamesIn, Rest, Sound
    <3> QED  BY <1>0, <1>1, <3>1, <3>2, EmptyIsSound DEF AtUdb
  <2>3. CASE cfg.media # {}
    <3>1. ~ NoDevice
      BY <1>1, <2>3 DEF NoDevice
    <3>2. "video" \in Media /\ "audio" \in Media
      BY DEF Media
    <3>3. "video" \in cfg.media => g1.conn["video"] # Null /\ Proper(g1)
      <4> DEFINE src == Element("src", 0, "v4l2src")
                 cps == Element("video_caps_device", 0, "capsfilter")
                 s == Start(EmptyGraph, "video", src)
                 r == Chain(s, s.conn["video"], <<cps>>)
                 x == [r.g EXCEPT !.conn["video"] = r.at]
      <4>1. src \in Plain /\ cps \in Plain
        BY PlainElement DEF PlainNames, PlainPlugins, Transparent
      <4>2. Part(src) /\ src # Null /\ cps # Null
        BY <4>1, PlainIsPart DEF Element, Null
      <4>3. Proper(s)
        BY <3>2, <4>2, EmptyIsProper, StartFacts
      <4>4. DeviceInput(EmptyGraph, "video") = x
        BY DEF DeviceInput, Extend
      <4> HIDE DEF s, cps
      <4>5. r = ChainStep([g |-> s, at |-> s.conn["video"]], cps)
        BY ChainOfOne
      <4>6. r.at = cps
        BY <4>5 DEF ChainStep
      <4>7. <<cps>> \in Seq(Plain)
        BY <4>1, PlainSequences
      <4>8. Proper(r.g)
        BY <4>3, <4>7, ChainFacts DEF Grows
      <4> HIDE DEF r
      <4>9. /\ DOMAIN x = DOMAIN r.g /\ x.offers = r.g.offers /\ x.links = r.g.links
            /\ x.ok = r.g.ok /\ x.conn = [r.g.conn EXCEPT !["video"] = r.at]
        BY <4>8 DEF Proper
      <4> HIDE DEF x
      <4>10. x.conn["video"] = cps /\ DOMAIN x.conn = DOMAIN r.g.conn
        BY <3>2, <4>6, <4>8, <4>9 DEF Proper
      <4>11. Elements(x) = Elements(r.g)
        BY <4>9 DEF Elements
      <4>12. Proper(x)
        BY <4>8, <4>9, <4>10, <4>11 DEF Proper
      <4> QED  BY <4>2, <4>4, <4>10, <4>12
    <3>4. Proper(g1)
      BY <3>3, EmptyIsProper
    <3> HIDE DEF g1
    <3>5. "audio" \in cfg.media => h1.conn["audio"] # Null
      <4> DEFINE src == Element("src", 1, "alsasrc")
      <4>1. src \in Plain
        BY PlainElement DEF PlainNames, PlainPlugins
      <4>2. Part(src) /\ src # Null
        BY <4>1, PlainIsPart DEF Element, Null
      <4>3. DeviceInput(g1, "audio") = Start(g1, "audio", src)
        BY DEF DeviceInput
      <4> HIDE DEF src
      <4>4. Start(g1, "audio", src).conn = [g1.conn EXCEPT !["audio"] = src]
        BY <3>2, <3>4, <4>2, StartFacts
      <4>5. DOMAIN g1.conn = Media
        BY <3>4 DEF Proper
      <4> QED  BY <3>2, <4>2, <4>3, <4>4, <4>5
    <3>6. "audio" \notin cfg.media => "video" \in cfg.media /\ h1 = g1
      BY <2>3 DEF Config, Media
    <3> HIDE DEF h1
    <3>7. \E m \in Media : h1.conn[m] # Null
      BY <3>2, <3>3, <3>5, <3>6
    <3> QED  BY <1>0, <1>1, <2>1, <3>1, <3>7 DEF AtUdb
  <2> QED  BY <2>2, <2>3
<1>2. CASE cfg.kind = "test_input"
  <2> DEFINE v == TestSource("video")
             w == TestSource("audio")
             g1 == IF "video" \in cfg.media THEN Start(EmptyGraph, "video", v) ELSE EmptyGraph
  <2>1. h = IF "audio" \in cfg.media THEN Start(g1, "audio", w) ELSE g1
    BY <1>2 DEF BuildInput, ForMedia, TestInput
  <2>2. /\ v.name = "video_src" /\ w.name = "audio_src"
        /\ v.plugin = "videotestsrc" /\ w.plugin = "audiotestsrc"
    BY DEF TestSource, Element
  <2>3. Part(v) /\ Part(w) /\ v.name # "nullptr" /\ w.name # "nullptr"
    <3>1. \A m \in Media : UdbName[m] \in {"udb_conn_video", "udb_conn_audio"}
      BY DEF Media, UdbName
    <3> HIDE DEF v, w
    <3> QED  BY <2>2, <3>1 DEF Part
  <2>4. "video" \in Media /\ "audio" \in Media /\ "video" # "audio"
    BY DEF Media
  <2> HIDE DEF v, w
  <2>5. Offers(v.plugin) = Raw /\ Offers(w.plugin) = Raw
    BY <2>2, PluginFacts DEF Raw
  <2>6. /\ Sound(g1) /\ \A x \in Elements(g1) : x = v
        /\ "video" \in cfg.media => g1.conn["video"] = v /\ Ready(g1, v, Raw)
        /\ "video" \notin cfg.media => g1.conn["video"] = Null
        /\ g1.conn["audio"] = Null
    <3> DEFINE k == Start(EmptyGraph, "video", v)
    <3>1. FreeNames(EmptyGraph, v.id, {v.name})
      BY EmptyIsProper DEF FreeNames
    <3>2. /\ Sound(k) /\ k.conn["video"] = v /\ Ready(k, v, Offers(v.plugin))
          /\ \A u \in Media : u # "video" => k.conn[u] = EmptyGraph.conn[u]
          /\ \A x \in Elements(k) : x \in Elements(EmptyGraph) \/ x = v
      BY <2>3, <2>4, <3>1, EmptyIsSound, StartConn
    <3> HIDE DEF k
    <3> QED  BY <2>4, <2>5, <3>2, EmptyIsSound, EmptyIsProper DEF k
  <2> HIDE DEF g1, h
  <2>7. /\ Sound(h) /\ \A x \in Elements(h) : x = v \/ x = w
        /\ "video" \in cfg.media => h.conn["video"] = v /\ Ready(h, v, Raw)
        /\ "video" \notin cfg.media => h.conn["video"] = Null
        /\ "audio" \in cfg.media => h.conn["audio"] = w /\ Ready(h, w, Raw)
        /\ "audio" \notin cfg.media => h.conn["audio"] = Null
    <3> DEFINE k == Start(g1, "audio", w)
    <3>1. FreeNames(g1, w.id, {w.name})
      BY <2>2, <2>6 DEF FreeNames
    <3>2. /\ Sound(k) /\ k.conn["audio"] = w /\ Ready(k, w, Offers(w.plugin))
          /\ \A u \in Media : u # "audio" => k.conn[u] = g1.conn[u]
          /\ \A x \in Elements(k) : x \in Elements(g1) \/ x = w
          /\ \A x, c : Ready(g1, x, c) => Ready(k, x, c)
      BY <2>3, <2>4, <2>6, <3>1, StartConn
    <3> HIDE DEF k
    <3> QED  BY <2>1, <2>4, <2>5, <2>6, <3>2 DEF k
  <2>8. NamesIn(h, InputNames)
    BY <2>2, <2>7 DEF NamesIn, InputNames
  <2>9. Conns(h, FromUdb)
    <3>1. \A m \in Media : FromUdb[m] = Raw
      BY <1>2 DEF FromUdb
    <3>2. \A m \in cfg.media : m = "video" \/ m = "audio"
      BY DEF Config, Media
    <3>3. v # w
      BY <2>2
    <3> QED  BY <2>4, <2>7, <3>1, <3>2, <3>3 DEF Conns
  <2>10. Rest(h)
    BY <2>7 DEF Rest, Media
  <2>11. NoDevice
    BY <1>2 DEF NoDevice
  <2> QED  BY <1>0, <1>2, <2>7, <2>8, <2>9, <2>10, <2>11 DEF AtUdb, Sound, h
<1>3. CASE cfg.kind \notin {"device", "test_input"}
  <2>1. h = DecodedInput(EmptyGraph, 0)
    BY <1>3 DEF BuildInput
  <2>2. 0 \in Inputs /\ 0 \in Int /\ FreeNames(EmptyGraph, 0, {"src", "decodebin"})
    BY EmptyIsProper DEF Inputs, FreeNames, IsMosaic
  <2>3. Sourced <=> HasSource(0)
    BY <1>3 DEF Sourced
  <2> DEFINE k == DecodedInput(EmptyGraph, 0)
  <2>4. CASE ~ HasSource(0)
    <3>1. ~ k.ok
      <4>1. k = Abort(EmptyGraph)
        BY <2>4 DEF DecodedInput
      <4> QED  BY <4>1, EmptyIsProper, AbortFacts
    <3> HIDE DEF k
    <3> QED  BY <2>1, <2>3, <2>4, <3>1 DEF k
  <2>5. CASE HasSource(0)
    <3>3. k.conn = EmptyGraph.conn /\ After(EmptyGraph, k, 0, {"src", "decodebin"}, Null)
      BY <1>3, <2>2, <2>5, EmptyIsSound, DecodedExact
    <3> HIDE DEF k, h
    <3>4. NamesIn(k, InputNames) /\ Sound(k)
      BY <3>3, EmptyIsProper DEF After, NamesIn, InputNames
    <3>5. NoDevice /\ \A m \in Media : k.conn[m] = Null
      BY <1>3, <3>3, EmptyIsSound DEF NoDevice
    <3> QED  BY <1>3, <2>1, <2>3, <2>5, <3>4, <3>5 DEF AtUdb, Rest, Sound, k, h
  <2> QED  BY <2>4, <2>5
<1> QED  BY <1>1, <1>2, <1>3

\* The second stage crashes exactly if it finds a connector set by a device.
LEMMA UdbExact ==
    ASSUME NEW g, cfg \in Config, ~ IsMosaic, Proper(g), AtUdb(g)
    PROVE  LET h == BuildUdbConnections(g) IN
           (h.ok <=> NoDevice) /\ (NoDevice => AtPost(h))
<1> DEFINE h == BuildUdbConnections(g)
<1>1. CASE ~ NoDevice
  <2>1. cfg.kind # "test_input" /\ \E m \in Media : g.conn[m] # Null
    BY <1>1 DEF AtUdb, NoDevice
  <2>2. h = [g EXCEPT !.ok = FALSE]
    BY <2>1 DEF BuildUdbConnections, Abort
  <2>3. h.ok = FALSE
    BY <2>2 DEF Proper
  <2> QED  BY <1>1, <2>3
<1>2. CASE NoDevice /\ cfg.kind = "test_input"
  <2>1. h = g
    BY <1>2 DEF BuildUdbConnections
  <2>2. Sound(g) /\ NamesIn(g, InputNames) /\ Rest(g) /\ Conns(g, FromUdb)
    BY <1>2 DEF AtUdb
  <2>3. NamesIn(g, UdbNames)
    BY <2>2 DEF NamesIn, UdbNames
  <2> QED  BY <1>2, <2>1, <2>2, <2>3 DEF AtPost, Sound
<1>3. CASE NoDevice /\ cfg.kind # "test_input"
  <2> DEFINE U(m) == Element(UdbName[m], 0,
                             IF ~ IsRelay THEN "queue"
                             ELSE IF m = "video" THEN cfg.vparser ELSE cfg.aparser)
             v == U("video")
             w == U("audio")
             g1 == IF "video" \in cfg.media THEN Start(g, "video", v) ELSE g
             k == IF "audio" \in cfg.media THEN Start(g1, "audio", w) ELSE g1
  <2>1. Sound(g) /\ NamesIn(g, InputNames) /\ Rest(g) /\ \A m \in Media : g.conn[m] = Null
    BY <1>3 DEF AtUdb
  <2>2. h = k
    BY <1>3, <2>1 DEF BuildUdbConnections, ForMedia, UdbConnection
  <2>3. /\ v.name = "udb_conn_video" /\ v.id = 0 /\ (IsRelay => v.plugin = Parser("video"))
        /\ w.name = "udb_conn_audio" /\ w.id = 0 /\ (IsRelay => w.plugin = Parser("audio"))
        /\ ~ IsRelay => v.plugin = "queue" /\ w.plugin = "queue"
    BY DEF Element, Parser, UdbName
  <2>4. "video" \in Media /\ "audio" \in Media /\ "video" # "audio"
        /\ \A m \in Media : m = "video" \/ m = "audio"
    BY DEF Media
  <2> HIDE DEF U, v, w
  <2>5. Part(v) /\ Part(w) /\ v.name # "nullptr" /\ w.name # "nullptr"
    <3>1. UdbName["video"] = "udb_conn_video" /\ UdbName["audio"] = "udb_conn_audio"
      BY DEF UdbName
    <3>2. 0 \in Inputs
      BY DEF Inputs
    <3>3. Part(v)
      BY <1>3, <2>3, <2>4, <3>1, <3>2 DEF Part
    <3>4. Part(w)
      BY <1>3, <2>3, <2>4, <3>1, <3>2 DEF Part
    <3> QED  BY <2>3, <3>3, <3>4
  <2>6. Offers(v.plugin) = FromUdb["video"] /\ Offers(w.plugin) = FromUdb["audio"]
    BY <1>3, <2>3, <2>4, PluginFacts DEF FromUdb
  <2> DEFINE cv == FromUdb["video"]
             cw == FromUdb["audio"]
  <2> HIDE DEF cv, cw
  <2>7. /\ Sound(g1) /\ \A x \in Elements(g1) : x \in Elements(g) \/ x = v
        /\ "video" \in cfg.media => g1.conn["video"] = v /\ Ready(g1, v, cv)
        /\ "video" \notin cfg.media => g1.conn["video"] = Null
        /\ g1.conn["audio"] = Null
    <3> DEFINE q == Start(g, "video", v)
    <3>1. FreeNames(g, v.id, {v.name})
      BY <2>1, <2>3 DEF FreeNames, NamesIn, InputNames
    <3>2. /\ Sound(q) /\ q.conn["video"] = v /\ Ready(q, v, Offers(v.plugin))
          /\ \A u \in Media : u # "video" => q.conn[u] = g.conn[u]
          /\ \A x \in Elements(q) : x \in Elements(g) \/ x = v
      BY <2>1, <2>4, <2>5, <3>1, StartConn
    <3> HIDE DEF q
    <3> QED  BY <2>1, <2>4, <2>6, <3>2 DEF q, cv
  <2> HIDE DEF g1, k
  <2>8. /\ Sound(k) /\ \A x \in Elements(k) : x \in Elements(g) \/ x = v \/ x = w
        /\ "video" \in cfg.media => k.conn["video"] = v /\ Ready(k, v, cv)
        /\ "video" \notin cfg.media => k.conn["video"] = Null
        /\ "audio" \in cfg.media => k.conn["audio"] = w /\ Ready(k, w, cw)
        /\ "audio" \notin cfg.media => k.conn["audio"] = Null
    <3> DEFINE q == Start(g1, "audio", w)
    <3>1. FreeNames(g1, w.id, {w.name})
      BY <2>1, <2>3, <2>7 DEF FreeNames, NamesIn, InputNames
    <3>2. /\ Sound(q) /\ q.conn["audio"] = w /\ Ready(q, w, Offers(w.plugin))
          /\ \A u \in Media : u # "audio" => q.conn[u] = g1.conn[u]
          /\ \A x \in Elements(q) : x \in Elements(g1) \/ x = w
          /\ \A x, c : Ready(g1, x, c) => Ready(q, x, c)
      BY <2>4, <2>5, <2>7, <3>1, StartConn
    <3> HIDE DEF q
    <3>3. k = IF "audio" \in cfg.media THEN q ELSE g1
      BY DEF k, q
    <3>4. CASE "audio" \in cfg.media
      <4>1. k = q
        BY <3>3, <3>4
      <4>2. Ready(q, w, cw)
        BY <2>6, <3>2 DEF cw
      <4> QED  BY <2>4, <2>7, <3>2, <3>4, <4>1, <4>2
    <3>5. CASE "audio" \notin cfg.media
      BY <2>7, <3>3, <3>5
    <3> QED  BY <3>4, <3>5
  <2>9. NamesIn(k, UdbNames)
    BY <2>1, <2>3, <2>8 DEF NamesIn, UdbNames
  <2>10. Conns(k, FromUdb)
    <3>1. \A m \in cfg.media : m = "video" \/ m = "audio"
      BY DEF Config, Media
    <3>2. v # w
      BY <2>3
    <3> QED  BY <2>4, <2>8, <3>1, <3>2 DEF Conns, cv, cw
  <2>11. Rest(k)
    BY <2>4, <2>8 DEF Rest
  <2> QED  BY <1>3, <2>2, <2>8, <2>9, <2>10, <2>11 DEF AtPost, Sound
<1> QED  BY <1>1, <1>2, <1>3

\* The two elements of the filters of a video without a GPU.
LEMMA VideoFilters ==
    ASSUME cfg \in Config, NEW c, "raw" \in c
    PROVE  Branch(VideoConvert
                  \o Opt("size", <<Element("videoscale", 0, "videoscale"),
                                   Element("videoscale_capsfilter", 0, "capsfilter")>>)
                  \o AspectRatio(0) \o VideoFramerate(0) \o Logo, 0,
                  {"video_convert", "deinterlace", "videoscale", "videoscale_capsfilter",
                   "aspect_ratio", "videorate", "videorate_capsfilter", "videologo"}, c, Raw)
<1> DEFINE x == Element("videoscale", 0, "videoscale")
           y == Element("videoscale_capsfilter", 0, "capsfilter")
           z == Opt("size", <<x, y>>)
           a == VideoConvert
           b == AspectRatio(0)
           d == VideoFramerate(0)
           e == Logo
<1>1. 0 \in Int /\ "raw" \in Raw /\ Raw \cap AnyCaps # {}
  BY DEF Raw, AnyCaps
<1>2. /\ Branch(a, 0, {"video_convert", "deinterlace"}, c, Raw)
      /\ Branch(b, 0, {"aspect_ratio"}, Raw, Raw)
      /\ Branch(d, 0, {"videorate", "videorate_capsfilter"}, Raw, Raw)
      /\ Branch(e, 0, {"videologo"}, Raw, Raw)
  BY <1>1, Parts
<1>3. Branch(<<x>>, 0, {"videoscale"}, Raw, Raw)
  BY <1>1, BranchElement DEF PlainNames, PlainPlugins, RawFilters, Raw
<1>4. Branch(<<y>>, 0, {"videoscale_capsfilter"}, Raw, Raw)
  BY <1>1, BranchElement DEF PlainNames, PlainPlugins, Transparent, Raw
<1> HIDE DEF x, y, a, b, d, e
<1>5. Branch(z, 0, {"videoscale", "videoscale_capsfilter"}, Raw, Raw)
  <2>1. Branch(<<x>> \o <<y>>, 0, {"videoscale"} \cup {"videoscale_capsfilter"}, Raw, Raw)
    BY <1>3, <1>4, BranchJoin
  <2>2. <<x, y>> = <<x>> \o <<y>>
    BY PairsAndTriples
  <2>3. Branch(<<x, y>>, 0, {"videoscale", "videoscale_capsfilter"}, Raw, Raw)
    BY <2>1, <2>2, BranchMore
  <2> QED  BY <2>3, BranchOpt
<1> HIDE DEF z
<1>6. Branch(a \o z, 0, {"video_convert", "deinterlace"}
                        \cup {"videoscale", "videoscale_capsfilter"}, c, Raw)
  BY <1>2, <1>5, BranchJoin
<1>7. Branch(a \o z \o b, 0, {"video_convert", "deinterlace"}
                        \cup {"videoscale", "videoscale_capsfilter"} \cup {"aspect_ratio"}, c, Raw)
  BY <1>2, <1>6, BranchJoin
<1>8. Branch(a \o z \o b \o d, 0, {"video_convert", "deinterlace"}
                        \cup {"videoscale", "videoscale_capsfilter"} \cup {"aspect_ratio"}
                        \cup {"videorate", "videorate_capsfilter"}, c, Raw)
  BY <1>2, <1>7, BranchJoin
<1>9. Branch(a \o z \o b \o d \o e, 0, {"video_convert", "deinterlace"}
                        \cup {"videoscale", "videoscale_capsfilter"} \cup {"aspect_ratio"}
                        \cup {"videorate", "videorate_capsfilter"} \cup {"videologo"}, c, Raw)
  BY <1>2, <1>8, BranchJoin
<1> QED  BY <1>9, BranchMore DEF a, b, d, e, x, y, z

\* The filters are always built, except that a logo behind a GPU filter is linked to
\* null; without a logo the connector is left null for the encoder.
LEMMA PostExact ==
    ASSUME NEW g, cfg \in Config, ~ IsMosaic, Proper(g), AtPost(g)
    PROVE  LET h == BuildPostProc(g) IN
           (h.ok => AtConv(h)) /\ (~ FilterFails => h.ok)
<1> DEFINE h == BuildPostProc(g)
           N == {"video_convert", "deinterlace", "videoscale", "videoscale_capsfilter",
                 "aspect_ratio", "videorate", "videorate_capsfilter", "videologo"}
           M == {"audio_convert", "audio_convert_capsfilter", "volume"}
<1>1. NoDevice /\ Sound(g) /\ NamesIn(g, UdbNames) /\ Rest(g) /\ Conns(g, FromUdb)
  BY DEF AtPost
<1>2. CASE IsRelay
  <2>1. h = g
    BY <1>2 DEF BuildPostProc
  <2>2. ~ FilterFails
    BY <1>2 DEF FilterFails, IsRelay, Relays
  <2>3. \A m \in Media : FromUdb[m] = FromPost[m]
    BY <1>2 DEF FromUdb, FromPost, IsRelay, Relays
  <2>4. Conns(g, FromPost) /\ NamesIn(g, PostNames)
    BY <1>1, <2>3 DEF Conns, Config, NamesIn, PostNames
  <2> QED  BY <1>1, <2>1, <2>2, <2>4 DEF AtConv, Sound
<1>3. CASE ~ IsRelay
  <2> DEFINE g1 == IF "video" \in cfg.media THEN PostProc(g, "video") ELSE g
             g2 == IF "audio" \in cfg.media THEN PostProc(g1, "audio") ELSE g1
  <2>1. h = g2
    BY <1>3 DEF BuildPostProc, ForMedia
  <2>2. "video" \in Media /\ "audio" \in Media /\ "video" # "audio"
        /\ \A m \in Media : m = "video" \/ m = "audio"
    BY DEF Media
  <2>3. DOMAIN FromUdb = Media /\ \A m \in Media : "raw" \in FromUdb[m]
    BY <1>3 DEF FromUdb, Raw, AnyCaps
  <2>a. "video" \in cfg.media => (FilterFails <=> (IsGpu \/ LogoAborts) /\ cfg.kind # "only_audio")
    <3>1. cfg.media # {} /\ NoDevice => cfg.kind # "device"
      BY DEF NoDevice
    <3>2. cfg.kind \in {"encoding", "only_audio", "only_video", "test_input", "device"}
      BY <1>3 DEF Config, Kinds, IsRelay, Relays, IsMosaic
    <3> QED  BY <1>1, <3>1, <3>2 DEF FilterFails
  <2>4. CASE FilterFails
    <3>1. "video" \in cfg.media /\ (IsGpu \/ LogoAborts) /\ cfg.kind # "only_audio"
      BY <2>a, <2>4 DEF FilterFails
    <3>2. g1 = VideoPostProc(g)
      BY <3>1 DEF PostProc
    <3>a. ASSUME LogoAborts
          PROVE  Proper(g1) /\ (g1.ok => g1.conn["video"] = Null)
      <4>1. g1 = Abort(g)
        BY <3>2, <3>a DEF VideoPostProc
      <4> HIDE DEF g1
      <4> QED  BY <4>1, AbortFacts DEF Grows
    <3>b. ASSUME ~ LogoAborts
          PROVE  Proper(g1) /\ (g1.ok => g1.conn["video"] = Null)
      <4> DEFINE plugin == IF cfg.vcodec = "mfxh264enc" THEN "mfxvpp" ELSE "vaapipostproc"
                 post == Extend(g, "video", <<Element("post_proc", 0, plugin)>>)
                 p1 == [post EXCEPT !.conn["video"] = Null]
                 r == Chain(p1, p1.conn["video"], Logo)
                 x == [r.g EXCEPT !.conn["video"] = r.at]
      <4>1. g1 = x
        BY <3>1, <3>2, <3>b DEF VideoPostProc, Extend
      <4>2. Proper(post)
        <5> DEFINE es == <<Element("post_proc", 0, plugin)>>
                   q == Chain(g, g.conn["video"], es)
                   y == [q.g EXCEPT !.conn["video"] = q.at]
        <5>1. es \in Seq(Plain)
          <6>1. Element("post_proc", 0, plugin) \in Plain
            BY PlainElement DEF PlainNames, PlainPlugins, RawFilters
          <6> QED  BY <6>1, PlainSequences
        <5>2. post = y
          BY DEF Extend
        <5> HIDE DEF es, post
        <5>3. Proper(q.g)
          BY <5>1, ChainFacts DEF Grows
        <5> HIDE DEF q
        <5>4. /\ DOMAIN y = DOMAIN q.g /\ y.offers = q.g.offers /\ y.links = q.g.links
              /\ y.ok = q.g.ok /\ DOMAIN y.conn = DOMAIN q.g.conn
          BY <5>3 DEF Proper
        <5> HIDE DEF y
        <5>5. Elements(y) = Elements(q.g)
          BY <5>4 DEF Elements
        <5>6. Proper(y)
          BY <5>3, <5>4, <5>5 DEF Proper
        <5> QED  BY <5>2, <5>6
      <4> HIDE DEF post
      <4>3. Proper(p1) /\ p1.conn["video"] = Null
        <5>1. /\ DOMAIN p1 = DOMAIN post /\ p1.offers = post.offers /\ p1.links = post.links
              /\ p1.ok = post.ok /\ DOMAIN p1.conn = DOMAIN post.conn /\ p1.conn["video"] = Null
          BY <2>2, <4>2 DEF Proper
        <5> HIDE DEF p1
        <5>2. Elements(p1) = Elements(post)
          BY <5>1 DEF Elements
        <5> QED  BY <4>2, <5>1, <5>2 DEF Proper
      <4> HIDE DEF p1
      <4>4. Logo \in Seq(Plain)
        BY PlainParts
      <4>5. /\ Grows(p1, r.g) /\ r.at = IF Logo = <<>> THEN p1.conn["video"] ELSE Logo[Len(Logo)]
            /\ r.g.ok /\ Logo # <<>> => p1.conn["video"] # Null
        BY <4>3, <4>4, ChainFacts
      <4> HIDE DEF r
      <4>6. Proper(r.g)
        BY <4>5 DEF Grows
      <4>7. /\ DOMAIN x = DOMAIN r.g /\ x.offers = r.g.offers /\ x.links = r.g.links
            /\ x.ok = r.g.ok /\ DOMAIN x.conn = DOMAIN r.g.conn /\ x.conn["video"] = r.at
        BY <2>2, <4>6 DEF Proper
      <4> HIDE DEF x
      <4>8. Elements(x) = Elements(r.g)
        BY <4>7 DEF Elements
      <4>9. Proper(x)
        BY <4>6, <4>7, <4>8 DEF Proper
      <4> QED  BY <4>1, <4>3, <4>5, <4>7, <4>9
    <3>3. Proper(g1) /\ (g1.ok => g1.conn["video"] = Null)
      BY <3>a, <3>b
    <3> HIDE DEF g1
    <3>4. (g2.ok => g1.ok) /\ g2.conn["video"] = g1.conn["video"]
      <4>1. AudioConverters \in Seq(Plain)
        BY PlainParts
      <4> DEFINE r == Chain(g1, g1.conn["audio"], AudioConverters)
                 x == [r.g EXCEPT !.conn["audio"] = r.at]
      <4>2. Grows(g1, r.g) /\ r.g.conn = g1.conn
        BY <3>3, <4>1, ChainFacts
      <4>3. PostProc(g1, "audio") = IF cfg.kind # "only_video" THEN x ELSE g1
        BY <2>2 DEF PostProc, Extend
      <4> HIDE DEF r
      <4>4. x.ok = r.g.ok /\ x.conn = [r.g.conn EXCEPT !["audio"] = r.at]
        BY <4>2 DEF Grows, Proper
      <4>5. x.conn["video"] = r.g.conn["video"]
        BY <2>2, <4>2, <4>4 DEF Grows, Proper
      <4> HIDE DEF x
      <4> QED  BY <4>2, <4>3, <4>4, <4>5 DEF Grows
    <3> HIDE DEF g2
    <3> QED  BY <1>1, <2>1, <2>4, <3>3, <3>4 DEF AtConv
  <2>5. CASE ~ FilterFails
    <3> DEFINE c1 == [FromUdb EXCEPT !["video"] =
                        IF "video" \in cfg.media /\ cfg.kind # "only_audio" THEN Raw ELSE @]
               c2 == [c1 EXCEPT !["audio"] =
                        IF "audio" \in cfg.media /\ cfg.kind # "only_video" THEN Raw ELSE @]
    <3>1. DOMAIN c1 = Media /\ c1["audio"] = FromUdb["audio"]
          /\ c1["video"] = IF "video" \in cfg.media /\ cfg.kind # "only_audio" THEN Raw ELSE FromUdb["video"]
      BY <2>2, <2>3
    <3>2. /\ Sound(g1) /\ Conns(g1, c1) /\ g1.conn["audio"] = g.conn["audio"]
          /\ "video" \notin cfg.media => g1.conn["video"] = g.conn["video"]
          /\ \A x \in Elements(g1) : x \in Elements(g) \/ x.name \in N
      <4>1. CASE "video" \in cfg.media /\ cfg.kind # "only_audio"
        <5> DEFINE es == VideoConvert
                         \o Opt("size", <<Element("videoscale", 0, "videoscale"),
                                          Element("videoscale_capsfilter", 0, "capsfilter")>>)
                         \o AspectRatio(0) \o VideoFramerate(0) \o Logo
                   c == FromUdb
                   k == Extend(g, "video", es)
        <5>1. ~ IsGpu /\ ~ LogoAborts
          BY <2>a, <2>5, <4>1
        <5>2. g1 = k
          BY <4>1, <5>1 DEF PostProc, VideoPostProc
        <5>3. "raw" \in c["video"]
          BY <2>2, <2>3
        <5>4. Branch(es, 0, N, c["video"], Raw)
          <6> HIDE DEF c
          <6> QED  BY <5>3, VideoFilters
        <5>5. FreeNames(g, 0, N)
          BY <1>1 DEF FreeNames, NamesIn, UdbNames, InputNames
        <5>6. Becomes(c, c1, "video", Raw)
          <6>1. Raw # {}
            BY DEF Raw
          <6>2. c1["video"] = Raw /\ \A w \in Media : w # "video" => c1[w] = c[w]
            BY <2>2, <3>1, <4>1
          <6> HIDE DEF c, c1
          <6> QED  BY <6>1, <6>2 DEF Becomes
        <5> HIDE DEF es, c, c1, N
        <5>8. /\ Sound(k) /\ Conns(k, c1)
              /\ Others(g, k, "video")
              /\ \A x \in Elements(k) : x \in Elements(g) \/ x.name \in N
          <6>1. Conns(g, c)
            BY <1>1 DEF c
          <6> QED  BY <1>1, <4>1, <5>4, <5>5, <5>6, <6>1, ExtendConn
        <5> HIDE DEF k, g1
        <5> QED  BY <2>2, <4>1, <5>2, <5>8 DEF Others
      <4>2. CASE ~("video" \in cfg.media /\ cfg.kind # "only_audio")
        <5>1. g1 = g
          BY <2>2, <4>2 DEF PostProc
        <5>2. \A m \in Media : c1[m] = FromUdb[m]
          BY <2>2, <3>1, <4>2
        <5> HIDE DEF c1, g1
        <5>3. Conns(g, c1)
          BY <1>1, <5>2 DEF Conns, Config
        <5> QED  BY <1>1, <5>1, <5>3
      <4> QED  BY <4>1, <4>2
    <3>3. DOMAIN c2 = Media /\ c2["video"] = c1["video"]
          /\ c2["audio"] = IF "audio" \in cfg.media /\ cfg.kind # "only_video" THEN Raw ELSE FromUdb["audio"]
      <4> HIDE DEF c1
      <4> QED  BY <2>2, <3>1
    <3> HIDE DEF g1, c1, N
    <3>4. /\ Sound(g2) /\ Conns(g2, c2) /\ g2.conn["video"] = g1.conn["video"]
          /\ "audio" \notin cfg.media => g2.conn["audio"] = g1.conn["audio"]
          /\ \A x \in Elements(g2) : x \in Elements(g1) \/ x.name \in M
      <4>1. CASE "audio" \in cfg.media /\ cfg.kind # "only_video"
        <5> DEFINE es == AudioConverters
                   k == Extend(g1, "audio", es)
        <5>2. g2 = k
          BY <2>2, <4>1 DEF PostProc
        <5>3. "raw" \in c1["audio"]
          BY <2>2, <2>3, <3>1
        <5>4. Branch(es, 0, M, c1["audio"], Raw)
          <6>1. 0 \in Int
            OBVIOUS
          <6> QED  BY <5>3, <6>1, Parts
        <5>5. FreeNames(g1, 0, M)
          BY <1>1, <3>2 DEF FreeNames, NamesIn, UdbNames, InputNames, N
        <5>6. Becomes(c1, c2, "audio", Raw)
          <6>1. Raw # {}
            BY DEF Raw
          <6>2. c2["audio"] = Raw /\ \A w \in Media : w # "audio" => c2[w] = c1[w]
            BY <2>2, <3>3, <4>1
          <6> HIDE DEF c2
          <6> QED  BY <6>1, <6>2 DEF Becomes
        <5> HIDE DEF es, c2, M
        <5>8. /\ Sound(k) /\ Conns(k, c2)
              /\ Others(g1, k, "audio")
              /\ \A x \in Elements(k) : x \in Elements(g1) \/ x.name \in M
          BY <3>1, <3>2, <4>1, <5>4, <5>5, <5>6, ExtendConn
        <5> HIDE DEF k, g2
        <5> QED  BY <2>2, <4>1, <5>2, <5>8 DEF Others
      <4>2. CASE ~("audio" \in cfg.media /\ cfg.kind # "only_video")
        <5>1. g2 = g1
          BY <2>2, <4>2 DEF PostProc
        <5>2. \A m \in Media : c2[m] = c1[m]
          BY <2>2, <3>1, <3>3, <4>2
        <5> HIDE DEF c2, g2
        <5>3. Conns(g1, c2)
          BY <3>2, <5>2 DEF Conns, Config
        <5> QED  BY <3>2, <5>1, <5>3
      <4> QED  BY <4>1, <4>2
    <3> HIDE DEF g2, c2, M
    <3>5. \A m \in cfg.media : c2[m] = FromPost[m]
      <4> SUFFICES ASSUME NEW m \in cfg.media  PROVE c2[m] = FromPost[m]
        OBVIOUS
      <4>1. m \in Media /\ (m = "video" \/ m = "audio")
        BY <2>2 DEF Config
      <4>2. FromPost[m] = IF Passed(m) THEN AnyCaps ELSE Raw
        BY <1>3, <4>1 DEF FromPost
      <4>3. FromUdb[m] = IF cfg.kind = "test_input" THEN Raw ELSE AnyCaps
        BY <1>3, <4>1 DEF FromUdb
      <4> QED  BY <2>2, <3>1, <3>3, <4>1, <4>2, <4>3 DEF Passed
    <3>6. Conns(g2, FromPost)
      BY <3>4, <3>5 DEF Conns
    <3>7. NamesIn(g2, PostNames)
      BY <1>1, <3>2, <3>4 DEF NamesIn, PostNames, N, M
    <3>8. Rest(g2)
      BY <1>1, <2>2, <3>2, <3>4 DEF Rest
    <3> QED  BY <1>1, <2>1, <2>5, <3>4, <3>6, <3>7, <3>8 DEF AtConv, Sound
  <2> QED  BY <2>4, <2>5
<1> QED  BY <1>2, <1>3

\* The branches of both media go on, each by elements of its own names.
LEMMA BothExtend ==
    ASSUME NEW g, Sound(g), cfg \in Config, NEW c, Conns(g, c), NEW es, NEW N, NEW d,
           \A m \in cfg.media : Branch(es[m], 0, N[m], c[m], d[m]) /\ d[m] # {},
           FreeNames(g, 0, N["video"]), FreeNames(g, 0, N["audio"]),
           N["video"] \cap N["audio"] = {}
    PROVE  LET g1 == IF "video" \in cfg.media THEN Extend(g, "video", es["video"]) ELSE g
               h == IF "audio" \in cfg.media THEN Extend(g1, "audio", es["audio"]) ELSE g1
           IN  /\ Sound(h) /\ Conns(h, d)
               /\ \A m \in Media : m \notin cfg.media => h.conn[m] = g.conn[m]
               /\ \A x \in Elements(h) : x \in Elements(g) \/ x.name \in N["video"] \cup N["audio"]
               /\ \A m \in cfg.media : EndsAt(h.conn[m], es[m])
<1> DEFINE a == es["video"]
           b == es["audio"]
           g1 == IF "video" \in cfg.media THEN Extend(g, "video", a) ELSE g
           h == IF "audio" \in cfg.media THEN Extend(g1, "audio", b) ELSE g1
           c1 == [m \in Media |-> IF m = "video" /\ m \in cfg.media THEN d[m] ELSE c[m]]
           c2 == [m \in Media |-> IF m \in cfg.media THEN d[m] ELSE c[m]]
<1>1. "video" \in Media /\ "audio" \in Media /\ "video" # "audio"
      /\ (\A m \in Media : m = "video" \/ m = "audio") /\ cfg.media \subseteq Media
  BY DEF Media, Config
<1>2. /\ Sound(g1) /\ Conns(g1, c1) /\ g1.conn["audio"] = g.conn["audio"]
      /\ "video" \notin cfg.media => g1.conn["video"] = g.conn["video"]
      /\ \A x \in Elements(g1) : x \in Elements(g) \/ x.name \in N["video"]
      /\ "video" \in cfg.media => EndsAt(g1.conn["video"], a)
  <2>1. CASE "video" \in cfg.media
    <3> DEFINE k == Extend(g, "video", a)
    <3>1. Becomes(c, c1, "video", d["video"])
      BY <1>1, <2>1 DEF Becomes
    <3>2. Branch(a, 0, N["video"], c["video"], d["video"])
      BY <2>1
    <3> HIDE DEF a, c1
    <3>3. /\ Sound(k) /\ Conns(k, c1) /\ Others(g, k, "video")
          /\ \A x \in Elements(k) : x \in Elements(g) \/ x.name \in N["video"]
          /\ EndsAt(k.conn["video"], a)
      BY <2>1, <3>1, <3>2, ExtendConn
    <3>4. g1 = k
      BY <2>1
    <3> HIDE DEF k, g1
    <3> QED  BY <1>1, <2>1, <3>3, <3>4 DEF Others
  <2>2. CASE "video" \notin cfg.media
    <3>1. g1 = g
      BY <2>2
    <3>2. \A m \in Media : c1[m] = c[m]
      BY <2>2
    <3> HIDE DEF g1, c1
    <3>3. Conns(g, c1)
      BY <1>1, <3>2 DEF Conns
    <3> QED  BY <2>2, <3>1, <3>3
  <2> QED  BY <2>1, <2>2
<1> HIDE DEF g1
<1>3. /\ Sound(h) /\ Conns(h, c2) /\ h.conn["video"] = g1.conn["video"]
      /\ "audio" \notin cfg.media => h.conn["audio"] = g1.conn["audio"]
      /\ \A x \in Elements(h) : x \in Elements(g1) \/ x.name \in N["audio"]
      /\ "audio" \in cfg.media => EndsAt(h.conn["audio"], b)
  <2>1. CASE "audio" \in cfg.media
    <3> DEFINE k == Extend(g1, "audio", b)
    <3>1. Becomes(c1, c2, "audio", d["audio"])
      BY <1>1, <2>1 DEF Becomes
    <3>2. Branch(b, 0, N["audio"], c1["audio"], d["audio"])
      BY <1>1, <2>1
    <3>3. FreeNames(g1, 0, N["audio"])
      BY <1>2 DEF FreeNames
    <3> HIDE DEF b, c1, c2
    <3>4. /\ Sound(k) /\ Conns(k, c2) /\ Others(g1, k, "audio")
          /\ \A x \in Elements(k) : x \in Elements(g1) \/ x.name \in N["audio"]
          /\ EndsAt(k.conn["audio"], b)
      BY <1>2, <2>1, <3>1, <3>2, <3>3, ExtendConn
    <3>5. h = k
      BY <2>1
    <3> HIDE DEF k, h
    <3> QED  BY <1>1, <2>1, <3>4, <3>5 DEF Others
  <2>2. CASE "audio" \notin cfg.media
    <3>1. h = g1
      BY <2>2
    <3>2. \A m \in Media : c2[m] = c1[m]
      BY <1>1, <2>2
    <3> HIDE DEF h, c1, c2
    <3>3. Conns(g1, c2)
      BY <1>1, <1>2, <3>2 DEF Conns
    <3> QED  BY <1>2, <2>2, <3>1, <3>3
  <2> QED  BY <2>1, <2>2
<1>4. \A m \in cfg.media : c2[m] = d[m]
  BY <1>1
<1> HIDE DEF h, c1, c2
<1>5. Conns(h, d)
  BY <1>3, <1>4 DEF Conns
<1>6. \A m \in cfg.media : EndsAt(h.conn[m], es[m])
  BY <1>1, <1>2, <1>3 DEF a, b
<1>7. \A m \in Media : m \notin cfg.media => h.conn[m] = g.conn[m]
  BY <1>1, <1>2, <1>3
<1> QED  BY <1>2, <1>3, <1>5, <1>6, <1>7 DEF h, g1

\* What the converter adds for a medium: its encoder and parser, and its tee.
CodecPart(m) ==
    CASE cfg.kind = "only_audio" /\ m = "video" -> <<>>
      [] cfg.kind = "only_video" /\ m = "audio" -> <<>>
      [] cfg.kind # "only_audio" /\ m = "video" -> VideoEncoder(0)
      [] OTHER -> AudioEncoder(0)
ParserPart(m) == IF m = "video" THEN VideoParser(0) ELSE AudioParser(0)
ConvElements(m) == IF IsRelay THEN Tee(m) ELSE CodecPart(m) \o ParserPart(m) \o Tee(m)
ConvOwn == [video |-> {"video_codec", "x264enc_capsfilter_profile"} \cup {"video_parser"}
                      \cup {"video_tee"},
            audio |-> {"audioresample", "audio_codec", "mpegaudioparse"} \cup {"audio_parser"}
                      \cup {"audio_tee"}]

\* The tee comes last.
LEMMA EndsWithTee ==
    ASSUME NEW s \in Seq(Plain), NEW m \in Media
    PROVE  /\ \A x : EndsAt(x, s \o Tee(m)) => x.plugin = "tee"
           /\ \A x : EndsAt(x, Tee(m)) => x.plugin = "tee"
<1> DEFINE t == Tee(m)
           st == s \o t
<1>0. 0 \in Int
  OBVIOUS
<1>1. t \in Seq(Plain) /\ Len(t) = 1 /\ t[1].plugin = "tee" /\ t # <<>>
  <2>1. t = <<Element(TeeName[m], 0, "tee")>>
    BY DEF Tee
  <2>2. Element(TeeName[m], 0, "tee").plugin = "tee"
    BY DEF Element
  <2>3. Element(TeeName[m], 0, "tee") \in Plain
    BY <1>0, PlainElement DEF PlainNames, PlainPlugins, Transparent, TeeName, Media
  <2>4. t \in Seq(Plain)
    BY <2>1, <2>3, PlainSequences
  <2> HIDE DEF t
  <2> QED  BY <2>1, <2>2, <2>4
<1> HIDE DEF t
<1>2. /\ Len(s) \in Nat /\ Len(st) = Len(s) + Len(t) /\ st \in Seq(Plain)
      /\ \A k \in 1 .. Len(s) + Len(t) : st[k] = IF k <= Len(s) THEN s[k] ELSE t[k - Len(s)]
  BY <1>1, ConcatProperties, LenProperties
<1> HIDE DEF st
<1>3. st[Len(s) + 1] = t[1] /\ Len(st) = Len(s) + 1 /\ Len(st) # 0
  BY <1>1, <1>2
<1>4. st # <<>>
  BY <1>3, EmptySeq
<1> QED  BY <1>1, <1>3, <1>4 DEF EndsAt, st, t

\* What the parsers of a relay offer.
LEMMA ParsersOffer ==
    ASSUME cfg \in Config, NEW m \in Media
    PROVE  /\ Offers(Parser("video")) = IF cfg.vparser = "tsparse" THEN {"mpegts"}
                                        ELSE IF cfg.vparser = "h265parse" THEN {"h265"} ELSE {"h264"}
           /\ Offers(Parser("audio")) = IF cfg.aparser = "mpegaudioparse" THEN {"mp3"}
                                        ELSE IF cfg.aparser = "ac3parse" THEN {"ac3"} ELSE {"aac"}
           /\ Offers(Parser(m)) \cap AnyCaps # {}
<1>1. cfg.vparser \in {"tsparse", "h264parse", "h265parse"}
  BY DEF Config, VideoParsers
<1>2. cfg.aparser \in {"mpegaudioparse", "aacparse", "ac3parse"}
  BY DEF Config, AudioParsers
<1>3. Offers(Parser("video")) = IF cfg.vparser = "tsparse" THEN {"mpegts"}
                                ELSE IF cfg.vparser = "h265parse" THEN {"h265"} ELSE {"h264"}
  BY <1>1, PluginFacts DEF Parser
<1>4. Offers(Parser("audio")) = IF cfg.aparser = "mpegaudioparse" THEN {"mp3"}
                                ELSE IF cfg.aparser = "ac3parse" THEN {"ac3"} ELSE {"aac"}
  BY <1>2, PluginFacts DEF Parser
<1>5. {"mpegts", "h264", "h265", "mp3", "ac3", "aac"} \subseteq AnyCaps
  BY DEF AnyCaps, Codecs
<1>6. m = "video" \/ m = "audio"
  BY DEF Media
<1> QED  BY <1>3, <1>4, <1>5, <1>6

\* What a stream carries to its outputs is made by these elements.
LEMMA ConvBranch ==
    ASSUME cfg \in Config, ~ IsMosaic, ~ FilterFails, cfg.kind # "recorder", NEW m \in cfg.media
    PROVE  /\ Branch(ConvElements(m), 0, ConvOwn[m], FromPost[m], Carried(m)) /\ Carried(m) # {}
           /\ \A x : EndsAt(x, ConvElements(m)) => x.plugin = "tee"
<1>1. m \in Media /\ (m = "video" \/ m = "audio") /\ 0 \in Int
  BY DEF Config, Media
<1>2. /\ ConvOwn["video"] = {"video_codec", "x264enc_capsfilter_profile"} \cup {"video_parser"}
                            \cup {"video_tee"}
      /\ ConvOwn["audio"] = {"audioresample", "audio_codec", "mpegaudioparse"} \cup {"audio_parser"}
                            \cup {"audio_tee"}
      /\ TeeName["video"] = "video_tee" /\ TeeName["audio"] = "audio_tee"
  BY DEF ConvOwn, TeeName
<1>3. CASE IsRelay
  <2>1. ConvElements(m) = Tee(m)
    BY <1>3 DEF ConvElements
  <2>2. Carried(m) = Offers(Parser(m)) /\ FromPost[m] = Offers(Parser(m))
    <3>1. cfg.kind \notin {"only_audio", "only_video"}
      BY <1>3 DEF IsRelay, Relays
    <3> QED  BY <1>1, <1>3, <3>1 DEF Carried, FromPost
  <2>3. Offers(Parser(m)) \cap AnyCaps # {}
    BY <1>1, ParsersOffer
  <2>4. Branch(Tee(m), 0, {TeeName[m]}, Carried(m), Carried(m)) /\ Carried(m) # {}
    BY <1>1, <2>2, <2>3, Parts
  <2>5. {TeeName[m]} \subseteq ConvOwn[m]
    BY <1>1, <1>2
  <2>6. Branch(Tee(m), 0, ConvOwn[m], FromPost[m], Carried(m))
    BY <2>2, <2>4, <2>5, BranchMore
  <2>7. \A x : EndsAt(x, Tee(m)) => x.plugin = "tee"
    <3>1. <<>> \in Seq(Plain)
      BY EmptySeq
    <3> QED  BY <1>1, <3>1, EndsWithTee
  <2> QED  BY <2>1, <2>4, <2>6, <2>7
<1>4. CASE ~ IsRelay
  <2> DEFINE a == CodecPart(m)
             b == ParserPart(m)
             t == Tee(m)
             e == IF Passed(m) THEN AnyCaps ELSE Offers(Encoder(m))
             d == Carried(m)
             A == IF m = "video" THEN {"video_codec", "x264enc_capsfilter_profile"}
                  ELSE {"audioresample", "audio_codec", "mpegaudioparse"}
             B == IF m = "video" THEN {"video_parser"} ELSE {"audio_parser"}
  <2>1. ConvElements(m) = a \o b \o t
    BY <1>4 DEF ConvElements
  <2>2. FromPost[m] = IF Passed(m) THEN AnyCaps ELSE Raw
    BY <1>1, <1>4 DEF FromPost
  <2>3. Branch(a, 0, A, FromPost[m], e)
    <3>1. CASE Passed(m)
      <4>1. a = <<>>
        BY <1>1, <3>1 DEF CodecPart, Passed
      <4>2. FromPost[m] = e
        BY <2>2, <3>1
      <4> HIDE DEF a, e
      <4> QED  BY <4>1, <4>2, BranchNone
    <3>2. CASE ~ Passed(m)
      <4>1. a = IF m = "video" THEN VideoEncoder(0) ELSE AudioEncoder(0)
        BY <1>1, <3>2 DEF CodecPart, Passed
      <4>2. FromPost[m] = Raw /\ e = IF m = "video" THEN Offers(cfg.vcodec) ELSE Offers(cfg.acodec)
        BY <2>2, <3>2 DEF Encoder
      <4> HIDE DEF a, e
      <4>3. CASE m = "video"
        BY <1>1, <4>1, <4>2, <4>3, Parts
      <4>4. CASE m = "audio"
        BY <1>1, <4>1, <4>2, <4>4, Parts
      <4> QED  BY <1>1, <4>3, <4>4
    <3> QED  BY <3>1, <3>2
  <2>4. d = IF m = "video" THEN IF IsH264Encoder THEN Parsed(e, "h264") ELSE e
            ELSE IF IsAACEncoder THEN Parsed(e, "aac") ELSE e
    <3>1. d = IF Passed(m) THEN IF m = "video" THEN IF IsH264Encoder THEN {"h264"} ELSE AnyCaps
                                ELSE IF IsAACEncoder THEN {"aac"} ELSE AnyCaps
              ELSE Offers(Encoder(m))
      BY <1>1, <1>4 DEF Carried, Passed
    <3>2. "h264" \in AnyCaps /\ "aac" \in AnyCaps
      BY DEF AnyCaps, Codecs
    <3>3. /\ Offers(Encoder("video")) = IF IsH264Encoder THEN {"h264"} ELSE {"h265"}
          /\ Offers(Encoder("audio")) = IF IsAACEncoder THEN {"aac"} ELSE {"mp3"}
      BY EncoderFacts DEF Encoder
    <3> HIDE DEF d
    <3> QED  BY <1>1, <3>1, <3>2, <3>3 DEF Parsed
  <2>5. d \cap AnyCaps # {} /\ d # {}
    <3>1. {"h264", "h265", "aac", "mp3"} \subseteq AnyCaps
      BY DEF AnyCaps, Codecs
    <3>3. /\ Offers(Encoder("video")) = IF IsH264Encoder THEN {"h264"} ELSE {"h265"}
          /\ Offers(Encoder("audio")) = IF IsAACEncoder THEN {"aac"} ELSE {"mp3"}
      BY EncoderFacts DEF Encoder
    <3> HIDE DEF d
    <3> QED  BY <1>1, <2>4, <3>1, <3>3 DEF Parsed
  <2>6. Branch(b, 0, B, e, d)
    <3> DEFINE dv == IF IsH264Encoder THEN Parsed(e, "h264") ELSE e
               da == IF IsAACEncoder THEN Parsed(e, "aac") ELSE e
    <3>1. b = IF m = "video" THEN VideoParser(0) ELSE AudioParser(0)
      BY DEF ParserPart
    <3>2. Branch(VideoParser(0), 0, {"video_parser"}, e, dv)
          /\ Branch(AudioParser(0), 0, {"audio_parser"}, e, da)
      <4> HIDE DEF e
      <4> QED  BY <1>1, Parts
    <3> HIDE DEF b, e, d
    <3>3. d = IF m = "video" THEN dv ELSE da
      BY <2>4
    <3> HIDE DEF dv, da
    <3> QED  BY <3>1, <3>2, <3>3
  <2>7. Branch(t, 0, {TeeName[m]}, d, d)
    <3> HIDE DEF d
    <3> QED  BY <1>1, <2>5, Parts
  <2>8. ConvOwn[m] = A \cup B \cup {TeeName[m]} /\ A \cap B = {} /\ (A \cup B) \cap {TeeName[m]} = {}
    BY <1>1, <1>2
  <2> HIDE DEF a, b, t, d, e, A, B
  <2>9. Branch(a \o b, 0, A \cup B, FromPost[m], d)
    BY <2>3, <2>6, <2>8, BranchJoin
  <2>10. Branch(a \o b \o t, 0, A \cup B \cup {TeeName[m]}, FromPost[m], d)
    BY <2>7, <2>8, <2>9, BranchJoin
  <2>11. a \o b \in Seq(Plain)
    BY <2>9 DEF Branch
  <2>12. \A x : EndsAt(x, a \o b \o t) => x.plugin = "tee"
    BY <1>1, <2>11, EndsWithTee DEF t
  <2> QED  BY <2>1, <2>5, <2>8, <2>10, <2>12 DEF d
<1> QED  BY <1>3, <1>4

\* The converter fails without the connector that a GPU lost, and only then.
LEMMA ConvExact ==
    ASSUME NEW g, cfg \in Config, ~ IsMosaic, Proper(g), AtConv(g)
    PROVE  LET h == BuildConverter(g) IN
           (h.ok <=> ~ FilterFails) /\ (~ FilterFails => AtOut(h))
<1> DEFINE h == BuildConverter(g)
           es == [m \in Media |-> ConvElements(m)]
           g1 == IF "video" \in cfg.media THEN Extend(g, "video", ConvElements("video")) ELSE g
           k == IF "audio" \in cfg.media THEN Extend(g1, "audio", ConvElements("audio")) ELSE g1
<1>1. "video" \in Media /\ "audio" \in Media /\ (\A m \in Media : m = "video" \/ m = "audio")
      /\ cfg.media \subseteq Media /\ 0 \in Int
  BY DEF Media, Config
<1>2. cfg.kind # "recorder" => h = k
  <2>1. CASE IsRelay
    BY <2>1 DEF BuildConverter, ForMedia, RelayConverter, ConvElements
  <2>2. CASE ~ IsRelay
    <3>1. \A x, m : EncodingConverter(x, m) = Extend(x, m, ConvElements(m))
      BY <2>2 DEF EncodingConverter, ConvElements, CodecPart, ParserPart
    <3> QED  BY <2>2, <3>1 DEF BuildConverter, ForMedia
  <2> QED  BY <2>1, <2>2
<1>3. CASE FilterFails
  <2>1. /\ cfg.kind # "recorder" /\ ~ IsRelay /\ "video" \in cfg.media /\ cfg.kind # "only_audio"
        /\ g.conn["video"] = Null
    BY <1>3 DEF FilterFails, IsRelay, Relays, AtConv
  <2> DEFINE a == ConvElements("video")
             b == ConvElements("audio")
             r == Chain(g, g.conn["video"], a)
             x == [r.g EXCEPT !.conn["video"] = r.at]
             q == Chain(g1, g1.conn["audio"], b)
             y == [q.g EXCEPT !.conn["audio"] = q.at]
  <2>2. a \in Seq(Plain) /\ b \in Seq(Plain)
    <3>1. /\ VideoEncoder(0) \in Seq(Plain) /\ AudioEncoder(0) \in Seq(Plain)
          /\ VideoParser(0) \in Seq(Plain) /\ AudioParser(0) \in Seq(Plain)
          /\ Tee("video") \in Seq(Plain) /\ Tee("audio") \in Seq(Plain) /\ <<>> \in Seq(Plain)
      BY <1>1, PlainParts, EmptySeq
    <3>2. CodecPart("video") \in Seq(Plain) /\ CodecPart("audio") \in Seq(Plain)
      BY <2>1, <3>1 DEF CodecPart
    <3>3. ParserPart("video") \in Seq(Plain) /\ ParserPart("audio") \in Seq(Plain)
      BY <3>1 DEF ParserPart
    <3> QED  BY <2>1, <3>1, <3>2, <3>3, ConcatProperties DEF ConvElements
  <2>3. a # <<>>
    <3>1. EndsAt(Null, a) => Null.plugin = "tee"
      <4> DEFINE s == CodecPart("video") \o ParserPart("video")
      <4>1. a = s \o Tee("video")
        BY <2>1 DEF ConvElements
      <4>2. s \in Seq(Plain)
        <5>1. /\ VideoEncoder(0) \in Seq(Plain) /\ VideoParser(0) \in Seq(Plain)
          BY <1>1, PlainParts
        <5>2. CodecPart("video") \in Seq(Plain) /\ ParserPart("video") \in Seq(Plain)
          BY <2>1, <5>1 DEF CodecPart, ParserPart
        <5> QED  BY <5>2, ConcatProperties
      <4> HIDE DEF a, s
      <4> QED  BY <1>1, <4>1, <4>2, EndsWithTee
    <3>2. Null.plugin # "tee"
      BY DEF Null, Element
    <3> HIDE DEF a
    <3> QED  BY <3>1, <3>2 DEF EndsAt
  <2> HIDE DEF a, b
  <2>4. Grows(g, r.g) /\ (r.g.ok /\ a # <<>> => g.conn["video"] # Null)
    BY <2>2, ChainFacts
  <2>5. g1 = x
    BY <2>1 DEF Extend, a
  <2> HIDE DEF r
  <2>6. Proper(r.g) /\ ~ r.g.ok
    BY <2>1, <2>3, <2>4 DEF Grows
  <2>7. /\ DOMAIN x = DOMAIN r.g /\ x.offers = r.g.offers /\ x.links = r.g.links
        /\ x.ok = r.g.ok /\ DOMAIN x.conn = DOMAIN r.g.conn
    BY <2>6 DEF Proper
  <2> HIDE DEF x
  <2>8. Elements(x) = Elements(r.g)
    BY <2>7 DEF Elements
  <2>9. Proper(g1) /\ ~ g1.ok
    BY <2>5, <2>6, <2>7, <2>8 DEF Proper
  <2> HIDE DEF g1
  <2>10. Grows(g1, q.g)
    BY <2>2, <2>9, ChainFacts
  <2>11. k = IF "audio" \in cfg.media THEN y ELSE g1
    BY DEF Extend, b
  <2> HIDE DEF q
  <2>12. y.ok = q.g.ok
    BY <2>10 DEF Grows, Proper
  <2> HIDE DEF y
  <2>13. ~ k.ok
    BY <2>9, <2>10, <2>11, <2>12 DEF Grows
  <2> HIDE DEF k, h
  <2> QED  BY <1>2, <1>3, <2>1, <2>13 DEF h
<1>4. CASE ~ FilterFails /\ cfg.kind = "recorder"
  <2>1. h = g
    BY <1>4 DEF BuildConverter
  <2>2. NoDevice /\ Sound(g) /\ NamesIn(g, PostNames) /\ Rest(g) /\ Conns(g, FromPost)
    BY <1>4 DEF AtConv
  <2>3. \A m \in Media : FromPost[m] = FromConv[m]
    <3>1. IsRelay /\ cfg.kind \notin {"only_audio", "only_video"}
      BY <1>4 DEF IsRelay, Relays
    <3> QED  BY <3>1 DEF FromPost, FromConv, Carried
  <2>4. Conns(g, FromConv) /\ NamesIn(g, ConvNames)
    BY <1>1, <2>2, <2>3 DEF Conns, NamesIn, ConvNames
  <2> QED  BY <1>4, <2>1, <2>2, <2>4 DEF AtOut, Sound
<1>5. CASE ~ FilterFails /\ cfg.kind # "recorder"
  <2> DEFINE c == FromPost
             d == FromConv
  <2>1. NoDevice /\ Sound(g) /\ NamesIn(g, PostNames) /\ Rest(g) /\ Conns(g, c)
    BY <1>5 DEF AtConv
  <2>2. \A m \in cfg.media : /\ Branch(es[m], 0, ConvOwn[m], c[m], d[m]) /\ d[m] # {}
                             /\ \A x : EndsAt(x, es[m]) => x.plugin = "tee"
    <3> SUFFICES ASSUME NEW m \in cfg.media
                 PROVE  /\ Branch(es[m], 0, ConvOwn[m], c[m], d[m]) /\ d[m] # {}
                        /\ \A x : EndsAt(x, es[m]) => x.plugin = "tee"
      OBVIOUS
    <3>1. m \in Media /\ es[m] = ConvElements(m) /\ d[m] = Carried(m)
      BY <1>1 DEF FromConv
    <3> HIDE DEF es, d
    <3> QED  BY <1>5, <3>1, ConvBranch
  <2>3. /\ FreeNames(g, 0, ConvOwn["video"]) /\ FreeNames(g, 0, ConvOwn["audio"])
        /\ ConvOwn["video"] \cap ConvOwn["audio"] = {}
        /\ ConvOwn["video"] \cup ConvOwn["audio"] \subseteq ConvNames
    <3>1. /\ ConvOwn["video"] = {"video_codec", "x264enc_capsfilter_profile", "video_parser",
                                 "video_tee"}
          /\ ConvOwn["audio"] = {"audioresample", "audio_codec", "mpegaudioparse", "audio_parser",
                                 "audio_tee"}
      BY DEF ConvOwn
    <3>2. \A n \in PostNames : n \notin ConvOwn["video"] /\ n \notin ConvOwn["audio"]
      BY <3>1 DEF PostNames, UdbNames, InputNames
    <3>3. ConvOwn["video"] \cup ConvOwn["audio"] \subseteq ConvNames
      BY <3>1 DEF ConvNames
    <3>4. ConvOwn["video"] \cap ConvOwn["audio"] = {}
      BY <3>1
    <3> QED  BY <2>1, <3>2, <3>3, <3>4 DEF FreeNames, NamesIn
  <2>4. es["video"] = ConvElements("video") /\ es["audio"] = ConvElements("audio")
    BY <1>1
  <2> HIDE DEF es, c, d
  <2>5. /\ Sound(k) /\ Conns(k, d)
        /\ \A m \in Media : m \notin cfg.media => k.conn[m] = g.conn[m]
        /\ \A x \in Elements(k) : x \in Elements(g) \/ x.name \in ConvOwn["video"] \cup ConvOwn["audio"]
        /\ \A m \in cfg.media : EndsAt(k.conn[m], es[m])
    <3> DEFINE f1 == IF "video" \in cfg.media THEN Extend(g, "video", es["video"]) ELSE g
               f == IF "audio" \in cfg.media THEN Extend(f1, "audio", es["audio"]) ELSE f1
    <3>1. f = k
      BY <2>4
    <3>2. /\ Sound(f) /\ Conns(f, d)
          /\ \A m \in Media : m \notin cfg.media => f.conn[m] = g.conn[m]
          /\ \A x \in Elements(f) : x \in Elements(g) \/ x.name \in ConvOwn["video"] \cup ConvOwn["audio"]
          /\ \A m \in cfg.media : EndsAt(f.conn[m], es[m])
      BY <2>1, <2>2, <2>3, BothExtend
    <3> HIDE DEF f, k
    <3> QED  BY <3>1, <3>2
  <2> HIDE DEF k, h
  <2>6. \A m \in cfg.media : k.conn[m].plugin = "tee"
    BY <2>2, <2>5
  <2>7. NamesIn(k, ConvNames)
    BY <2>1, <2>3, <2>5 DEF NamesIn, ConvNames
  <2>8. Rest(k)
    BY <2>1, <2>5 DEF Rest
  <2> QED  BY <1>2, <1>5, <2>1, <2>5, <2>6, <2>7, <2>8 DEF AtOut, Sound, d, h
<1> QED  BY <1>3, <1>4, <1>5

\* A tee has pads to spare.
LEMMA AfterTee ==
    ASSUME NEW g, NEW h, NEW i, NEW S, NEW x, After(g, h, i, S, x), x.plugin = "tee"
    PROVE  After(g, h, i, S, Null)
BY DEF After

\* What was ready still is.
LEMMA AfterReady ==
    ASSUME NEW g, Proper(g), NEW h, NEW i, NEW S, After(g, h, i, S, Null), NEW x, NEW c, Ready(g, x, c)
    PROVE  Ready(h, x, c)
<1>1. x \in Elements(g) /\ x # Null /\ Open(g, x) /\ g.offers[x] = c /\ c # {}
  BY DEF Ready, Open, Proper
<1> QED  BY <1>1 DEF After, Ready

\* More names than needed.
LEMMA AfterMore ==
    ASSUME NEW g, NEW h, NEW i, NEW S, NEW T, After(g, h, i, S, Null), S \subseteq T
    PROVE  After(g, h, i, T, Null)
BY DEF After

(***************************************************************************)
(* What can be built: branches to a muxer                                  *)
(***************************************************************************)

\* The elements of an output of one medium, and their link to the muxer.
JoinFrom(s, from, es, mux) == LET r == Chain(s, from, es) IN ElementLink(r.g, r.at, mux)
JoinAt(s, m, es, mux) == JoinFrom(s, s.conn[m], es, mux)
Joining(s, mux) == mux \in Elements(s) /\ mux.plugin \in Joins
Fits(d, mux) == d \cap Takes(mux.plugin) # {}
Some(es) == es # <<>>

\* They are linked if what comes out of them fits the muxer, and only then.
LEMMA JoinFromExact ==
    ASSUME NEW s, Sound(s), NEW from, NEW c, Ready(s, from, c), NEW es, NEW i, NEW S, NEW d,
           Branch(es, i, S, c, d), Some(es), FreeNames(s, i, S), NEW mux, Joining(s, mux)
    PROVE  LET k == JoinFrom(s, from, es, mux) IN
           /\ k.ok <=> Fits(d, mux)
           /\ k.ok => After(s, k, i, S, from) /\ es[Len(es)] \in Elements(k)
<1> DEFINE r == Chain(s, from, es)
           k == ElementLink(r.g, r.at, mux)
<1>1. JoinFrom(s, from, es, mux) = k
  BY DEF JoinFrom
<1>2. /\ r.g.ok <=> d # {}
      /\ r.at = IF es = <<>> THEN from ELSE es[Len(es)]
      /\ d # {} => /\ After(s, r.g, i, S, from) /\ Ready(r.g, r.at, d)
                   /\ es # <<>> => r.at \notin Elements(s)
  BY ChainExact
<1>3. es \in Seq(Plain) /\ es # <<>>
  BY DEF Branch, Some
<1>4. Proper(r.g)
  BY <1>3, ChainFacts DEF Sound, Grows
<1>5. r.at = es[Len(es)] /\ (d # {} => r.at \notin Elements(s))
  BY <1>2, <1>3
<1> HIDE DEF r
<1>6. CASE d = {}
  <2>1. k.ok => r.g.ok
    BY <1>4, LinkFacts
  <2>2. ~ Fits(d, mux)
    BY <1>6 DEF Fits
  <2> HIDE DEF k
  <2> QED  BY <1>1, <1>2, <1>6, <2>1, <2>2
<1>7. CASE d # {}
  <2> DEFINE fits == r.g.offers[r.at] \cap Takes(mux.plugin) # {}
  <2>1. /\ Sound(r.g) /\ Open(r.g, r.at) /\ r.g.offers[r.at] = d
        /\ mux \in Elements(r.g) /\ mux # r.at /\ mux.plugin \in Joins
        /\ After(s, r.g, i, S, from)
    BY <1>2, <1>5, <1>7 DEF After, Ready, Joining
  <2>2. mux.plugin \notin Transparent
    BY <2>1 DEF Joins, Transparent
  <2>3. /\ k.conn = r.g.conn /\ (k.ok <=> fits)
        /\ fits =>
             /\ Sound(k) /\ Elements(k) = Elements(r.g)
             /\ k.offers[mux] = IF mux.plugin \in Transparent THEN r.g.offers[r.at]
                                ELSE r.g.offers[mux]
             /\ \A x \in Elements(r.g) : x # mux => k.offers[x] = r.g.offers[x]
             /\ \A x : Open(r.g, x) /\ (x # r.at \/ x.plugin = "tee") => Open(k, x)
    BY <2>1, LinkExact
  <2>4. fits <=> Fits(d, mux)
    BY <2>1 DEF Fits
  <2> HIDE DEF k, fits
  <2>5. ASSUME fits
        PROVE  After(s, k, i, S, from) /\ r.at \in Elements(k)
    <3>1. \A x \in Elements(r.g) : k.offers[x] = r.g.offers[x]
      BY <2>2, <2>3, <2>5
    <3>2. \A x : Open(s, x) => x \in Elements(s) /\ x # r.at
      BY <1>5, <1>7 DEF Open
    <3>3. \A x : Open(s, x) /\ (x # from \/ x.plugin = "tee") => Open(k, x)
      BY <2>1, <2>3, <2>5, <3>2 DEF After
    <3>4. r.at \in Elements(k)
      BY <2>1, <2>3, <2>5 DEF Open
    <3> QED  BY <2>1, <2>3, <2>5, <3>1, <3>3, <3>4 DEF After
  <2> QED  BY <1>1, <1>5, <2>3, <2>4, <2>5
<1> QED  BY <1>6, <1>7

\* The branch of an output begins at the medium's connector.
LEMMA JoinExact ==
    ASSUME NEW s, Sound(s), NEW m, NEW c, Ready(s, s.conn[m], c), NEW es, NEW i, NEW S, NEW d,
           Branch(es, i, S, c, d), Some(es), FreeNames(s, i, S), NEW mux, Joining(s, mux)
    PROVE  LET k == JoinAt(s, m, es, mux) IN
           /\ k.ok <=> Fits(d, mux)
           /\ k.ok => After(s, k, i, S, s.conn[m]) /\ es[Len(es)] \in Elements(k)
<1> DEFINE from == s.conn[m]
<1>1. Ready(s, from, c) /\ JoinAt(s, m, es, mux) = JoinFrom(s, from, es, mux)
  BY DEF JoinAt, JoinFrom
<1> HIDE DEF from
<1>2. LET k == JoinFrom(s, from, es, mux) IN
      /\ k.ok <=> Fits(d, mux)
      /\ k.ok => After(s, k, i, S, from) /\ es[Len(es)] \in Elements(k)
  BY <1>1, JoinFromExact
<1> QED  BY <1>1, <1>2 DEF from

\* Whatever happens, a failure stays.
LEMMA JoinKeeps ==
    ASSUME NEW s, Proper(s), NEW m, NEW es \in Seq(Plain), NEW mux
    PROVE  LET k == JoinAt(s, m, es, mux) IN
           Grows(s, k) /\ Proper(k) /\ k.conn = s.conn /\ (k.ok => s.ok)
<1> DEFINE r == Chain(s, s.conn[m], es)
           k == ElementLink(r.g, r.at, mux)
<1>1. JoinAt(s, m, es, mux) = k
  BY DEF JoinAt, JoinFrom
<1>2. Grows(s, r.g) /\ r.g.conn = s.conn
  BY ChainFacts
<1> HIDE DEF r
<1>3. Proper(r.g)
  BY <1>2 DEF Grows
<1>4. Grows(r.g, k) /\ k.conn = r.g.conn
  BY <1>3, LinkGrows
<1> HIDE DEF k
<1>5. Grows(s, k)
  BY <1>2, <1>4, GrowsTransitive
<1> QED  BY <1>1, <1>2, <1>4, <1>5 DEF Grows

\* The tees of the configured media offer T.
Teed(g, T) == \A m \in cfg.media : g.conn[m].plugin = "tee" /\ Ready(g, g.conn[m], T[m])

\* The elements of an output of a medium, the queue first.
Queued(m, i, branch) == <<Element(TeeQueueName[m], i, "queue")>> \o branch[m]

\* Each medium is added by elements of its own names.
Apart(N, S) ==
    /\ cfg.media = Media => N["video"] \cap N["audio"] = {}
    /\ \A m \in cfg.media : N[m] \subseteq S /\ "muxer" \notin N[m] /\ "sink" \notin N[m]
    /\ {"muxer", "sink"} \subseteq S

\* A muxed output can be built if what comes to the muxer from each medium fits.
LEMMA MuxedExact ==
    ASSUME NEW g, Sound(g), cfg \in Config, NEW i \in Int, cfg.outs[i + 1] \in {"rtmp", "udp", "http"},
           NEW branch, \A m \in Media : branch[m] \in Seq(Plain),
           NEW T, Teed(g, T), NEW N, NEW S, Apart(N, S), FreeNames(g, i, S), NEW d,
           \A m \in cfg.media : Branch(Queued(m, i, branch), i, N[m], T[m], d[m])
    PROVE  LET h == BuildMuxedOutput(g, i, branch) IN
           /\ h.ok <=> HasSink(i) /\ \A m \in cfg.media : Fits(d[m], Muxer(cfg.outs[i + 1], i))
           /\ h.ok => After(g, h, i, S, Null)
<1> DEFINE mux == Muxer(cfg.outs[i + 1], i)
           sink == Element("sink", i, "sink")
           es(m) == Queued(m, i, branch)
           a == ElementAdd(g, mux)
           g1 == IF "video" \in cfg.media THEN JoinAt(a, "video", es("video"), mux) ELSE a
           g2 == IF "audio" \in cfg.media THEN JoinAt(g1, "audio", es("audio"), mux) ELSE g1
           h == Chain(g2, mux, <<sink>>).g
<1>1. BuildMuxedOutput(g, i, branch) = IF HasSink(i) THEN h ELSE Abort(g2)
  BY DEF BuildMuxedOutput, GenericOutput, ForMedia, JoinAt, JoinFrom, Queued
<1>2. mux \in Plain /\ sink \in Plain
  BY PlainOutputs
<1>3. /\ mux.name = "muxer" /\ mux.id = i /\ mux.plugin \in {"flvmux", "rtpmux", "mpegtsmux"}
      /\ sink.name = "sink" /\ sink.id = i /\ sink.plugin = "sink"
  BY DEF Muxer, Element
<1>4. "video" \in Media /\ "audio" \in Media /\ (\A m \in Media : m = "video" \/ m = "audio")
      /\ cfg.media \subseteq Media
  BY DEF Media, Config
<1>5. ASSUME NEW m \in Media  PROVE es(m) \in Seq(Plain) /\ Some(es(m))
  <2>1. Element(TeeQueueName[m], i, "queue") \in Plain
    BY PlainParts
  <2> QED  BY <2>1, QueueFirst DEF Some, Queued
<1>6. mux.plugin \in Joins /\ mux.plugin # "tee" /\ Offers(mux.plugin) = AnyCaps
  BY <1>3, PluginFacts DEF Joins
<1> HIDE DEF mux, sink, es
<1>7. Part(mux) /\ mux.name # "nullptr" /\ FreeNames(g, mux.id, {mux.name})
  BY <1>2, <1>3, PlainIsPart DEF Apart, FreeNames
<1>8. /\ After(g, a, i, {"muxer"}, Null) /\ a.conn = g.conn
      /\ Open(a, mux) /\ mux \notin Elements(g) /\ a.offers[mux] = AnyCaps
  <2>1. /\ After(g, a, mux.id, {mux.name}, Null) /\ a.conn = g.conn
        /\ Open(a, mux) /\ mux \notin Elements(g) /\ a.offers[mux] = Offers(mux.plugin)
    BY <1>7, AddExact
  <2> HIDE DEF a
  <2> QED  BY <1>3, <1>6, <2>1
<1> HIDE DEF a
<1>9. Sound(a) /\ Proper(a) /\ a.ok /\ Proper(g) /\ Null \notin Elements(g)
  BY <1>8 DEF After, Sound, Proper
<1>10. Ready(a, mux, AnyCaps)
  BY <1>8 DEF Ready, AnyCaps
<1> DEFINE fv == "video" \in cfg.media => Fits(d["video"], mux)
           fa == "audio" \in cfg.media => Fits(d["audio"], mux)
           S1 == IF "video" \in cfg.media THEN {"muxer"} \cup N["video"] ELSE {"muxer"}
           S2 == IF "audio" \in cfg.media THEN S1 \cup N["audio"] ELSE S1
<1>11. ASSUME NEW k, Sound(k), NEW w, After(g, k, i, w, Null), k.conn = g.conn, Ready(k, mux, AnyCaps),
              NEW m \in cfg.media, N[m] \cap w = {}
       PROVE  LET q == JoinAt(k, m, es(m), mux) IN
              /\ q.ok <=> Fits(d[m], mux)
              /\ q.ok => After(g, q, i, w \cup N[m], Null) /\ Ready(q, mux, AnyCaps) /\ Sound(q)
  <2> DEFINE q == JoinAt(k, m, es(m), mux)
  <2>1. m \in Media /\ g.conn[m].plugin = "tee" /\ Ready(g, g.conn[m], T[m])
    BY <1>4 DEF Teed
  <2>2. Ready(k, k.conn[m], T[m]) /\ k.conn[m].plugin = "tee"
    BY <1>9, <1>11, <2>1, AfterReady
  <2>3. FreeNames(k, i, N[m])
    BY <1>11 DEF After, FreeNames, Apart
  <2>4. Joining(k, mux)
    BY <1>6, <1>11 DEF Joining, Ready, Open
  <2>5. Branch(es(m), i, N[m], T[m], d[m]) /\ Some(es(m))
    BY <1>5, <2>1 DEF es
  <2>6. /\ q.ok <=> Fits(d[m], mux)
        /\ q.ok => After(k, q, i, N[m], k.conn[m])
    BY <1>11, <2>2, <2>3, <2>4, <2>5, JoinExact
  <2> HIDE DEF q
  <2>7. q.ok => After(k, q, i, N[m], Null)
    BY <2>2, <2>6, AfterTee
  <2>8. q.ok => After(g, q, i, w \cup N[m], Null)
    BY <1>11, <2>7, AfterAfter
  <2>9. q.ok => Ready(q, mux, AnyCaps)
    BY <1>11, <2>7, AfterReady DEF Sound
  <2> QED  BY <2>6, <2>7, <2>8, <2>9 DEF q, After
<1>12. /\ Proper(g1) /\ g1.conn = g.conn /\ (g1.ok <=> fv)
       /\ g1.ok => Sound(g1) /\ After(g, g1, i, S1, Null) /\ Ready(g1, mux, AnyCaps)
  <2>1. CASE "video" \notin cfg.media
    <3>1. g1 = a /\ S1 = {"muxer"} /\ fv
      BY <2>1
    <3> HIDE DEF g1, S1, fv
    <3> QED  BY <1>8, <1>9, <1>10, <3>1
  <2>2. CASE "video" \in cfg.media
    <3> DEFINE q == JoinAt(a, "video", es("video"), mux)
    <3>1. N["video"] \cap {"muxer"} = {}
      BY <2>2 DEF Apart
    <3>2. /\ q.ok <=> Fits(d["video"], mux)
          /\ q.ok => After(g, q, i, {"muxer"} \cup N["video"], Null) /\ Ready(q, mux, AnyCaps) /\ Sound(q)
      BY <1>8, <1>9, <1>10, <1>11, <2>2, <3>1
    <3>3. Proper(q) /\ q.conn = a.conn
      BY <1>4, <1>5, <1>9, JoinKeeps
    <3> HIDE DEF q
    <3>4. g1 = q /\ S1 = {"muxer"} \cup N["video"] /\ (fv <=> Fits(d["video"], mux))
      BY <2>2 DEF q
    <3> HIDE DEF g1, S1, fv
    <3> QED  BY <1>8, <3>2, <3>3, <3>4
  <2> QED  BY <2>1, <2>2
<1>13. "audio" \in cfg.media => N["audio"] \cap S1 = {}
  <2>1. "video" \in cfg.media /\ "audio" \in cfg.media => cfg.media = Media
    BY <1>4
  <2> QED  BY <2>1 DEF Apart
<1> HIDE DEF g1, S1, fv
<1>14. /\ Proper(g2) /\ g2.conn = g.conn /\ (g2.ok <=> fv /\ fa)
       /\ g2.ok => Sound(g2) /\ After(g, g2, i, S2, Null) /\ Ready(g2, mux, AnyCaps)
  <2>1. CASE "audio" \notin cfg.media
    <3>1. g2 = g1 /\ S2 = S1 /\ fa
      BY <2>1
    <3> HIDE DEF g2, S2, fa
    <3> QED  BY <1>12, <3>1
  <2>2. CASE "audio" \in cfg.media
    <3> DEFINE q == JoinAt(g1, "audio", es("audio"), mux)
    <3>1. g1.ok => /\ q.ok <=> Fits(d["audio"], mux)
                   /\ q.ok => After(g, q, i, S1 \cup N["audio"], Null) /\ Ready(q, mux, AnyCaps) /\ Sound(q)
      <4> SUFFICES ASSUME g1.ok
                   PROVE  /\ q.ok <=> Fits(d["audio"], mux)
                          /\ q.ok => After(g, q, i, S1 \cup N["audio"], Null) /\ Ready(q, mux, AnyCaps) /\ Sound(q)
        OBVIOUS
      <4> QED  BY <1>11, <1>12, <1>13, <2>2
    <3>2. Proper(q) /\ q.conn = g1.conn /\ (q.ok => g1.ok)
      BY <1>4, <1>5, <1>12, JoinKeeps
    <3> HIDE DEF q
    <3>3. g2 = q /\ S2 = S1 \cup N["audio"] /\ (fa <=> Fits(d["audio"], mux))
      BY <2>2 DEF q
    <3> HIDE DEF g2, S2, fa
    <3> QED  BY <1>12, <3>1, <3>2, <3>3
  <2> QED  BY <2>1, <2>2
<1>15. S2 \subseteq S /\ "sink" \notin S2 /\ S2 \cup {"sink"} \subseteq S
  BY DEF Apart, S1
<1>16. (\A m \in cfg.media : Fits(d[m], mux)) <=> fv /\ fa
  BY <1>4 DEF fv
<1> HIDE DEF g2, S2, fa
<1>0. CASE ~ HasSink(i)
  <2>1. BuildMuxedOutput(g, i, branch) = Abort(g2)
    BY <1>0, <1>1
  <2>2. ~ Abort(g2).ok
    BY <1>14, AbortFacts
  <2> QED  BY <1>0, <2>1, <2>2
<1>17. CASE HasSink(i) /\ ~ g2.ok
  <2>1. h.ok => g2.ok
    BY <1>2, <1>14, ChainOneFacts DEF Grows
  <2> HIDE DEF h
  <2>2. BuildMuxedOutput(g, i, branch) = h
    BY <1>1, <1>17
  <2> QED  BY <1>14, <1>16, <1>17, <2>1, <2>2 DEF mux
<1>18. CASE HasSink(i) /\ g2.ok
  <2> DEFINE one == <<sink>>
             r == Chain(g2, mux, one)
             e == Flow(AnyCaps, sink)
  <2>1. Branch(one, i, {"sink"}, AnyCaps, e)
    <3>1. Branch(<<sink>>, sink.id, {sink.name}, AnyCaps, Flow(AnyCaps, sink))
      BY <1>2, <1>3, BranchOne
    <3> QED  BY <1>3, <3>1
  <2>2. e # {}
    <3>1. Takes(sink.plugin) = AnyCaps /\ AnyCaps # {}
      BY <1>3, PluginFacts DEF AnyCaps
    <3> QED  BY <3>1, OffersSome DEF Flow
  <2>3. FreeNames(g2, i, {"sink"})
    <3>1. \A x \in Elements(g) : ~(x.id = i /\ x.name = "sink")
      BY DEF FreeNames, Apart
    <3> QED  BY <1>14, <1>15, <1>18, <3>1 DEF FreeNames, After
  <2> HIDE DEF one, e
  <2>4. /\ r.g.ok <=> e # {}
        /\ e # {} => After(g2, r.g, i, {"sink"}, mux)
    BY <1>14, <1>18, <2>1, <2>3, ChainExact
  <2>5. h = r.g
    BY DEF one
  <2> HIDE DEF r, h
  <2>6. h.ok /\ After(g2, h, i, {"sink"}, mux)
    BY <2>2, <2>4, <2>5
  <2>7. After(g, h, i, S2 \cup {"sink"}, Null)
    BY <1>8, <1>14, <1>18, <2>6, AfterAfter
  <2>8. After(g, h, i, S, Null)
    BY <1>15, <2>7, AfterMore
  <2>9. BuildMuxedOutput(g, i, branch) = h
    BY <1>1, <1>18
  <2> QED  BY <1>14, <1>16, <1>18, <2>6, <2>8, <2>9 DEF mux
<1> QED  BY <1>0, <1>17, <1>18

\* What the streams of each kind carry to their outputs.
LEMMA CarriedIs ==
    ASSUME cfg \in Config, NEW m \in Media
    PROVE  /\ IsRelay => Carried(m) = Offers(Parser(m))
           /\ ~ IsRelay /\ Passed(m) =>
                Carried(m) = IF m = "video" THEN IF IsH264Encoder THEN {"h264"} ELSE AnyCaps
                             ELSE IF IsAACEncoder THEN {"aac"} ELSE AnyCaps
           /\ ~ IsRelay /\ ~ Passed(m) => Carried(m) = Offers(Encoder(m))
           /\ Offers(Encoder("video")) = IF IsH264Encoder THEN {"h264"} ELSE {"h265"}
           /\ Offers(Encoder("audio")) = IF IsAACEncoder THEN {"aac"} ELSE {"mp3"}
           /\ Carried(m) \cap AnyCaps # {}
<1>1. m = "video" \/ m = "audio"
  BY DEF Media
<1>2. IsRelay => ~ Passed(m) /\ Carried(m) = Offers(Parser(m))
  <2>1. IsRelay => cfg.kind \notin {"only_audio", "only_video"}
    BY DEF IsRelay, Relays
  <2> QED  BY <2>1 DEF Carried, Passed
<1>3. ~ IsRelay /\ Passed(m) =>
          Carried(m) = IF m = "video" THEN IF IsH264Encoder THEN {"h264"} ELSE AnyCaps
                       ELSE IF IsAACEncoder THEN {"aac"} ELSE AnyCaps
  BY <1>1 DEF Carried, Passed
<1>4. ~ IsRelay /\ ~ Passed(m) => Carried(m) = Offers(Encoder(m))
  BY <1>1 DEF Carried, Passed
<1>5. /\ Offers(Encoder("video")) = IF IsH264Encoder THEN {"h264"} ELSE {"h265"}
      /\ Offers(Encoder("audio")) = IF IsAACEncoder THEN {"aac"} ELSE {"mp3"}
  BY EncoderFacts DEF Encoder
<1>6. {"h264", "h265", "aac", "mp3"} \subseteq AnyCaps
  BY DEF AnyCaps, Codecs
<1>7. Offers(Parser(m)) \cap AnyCaps # {}
  BY ParsersOffer
<1>8. Carried(m) \cap AnyCaps # {}
  <2>1. CASE IsRelay
    BY <1>2, <1>7, <2>1
  <2>2. CASE ~ IsRelay /\ Passed(m)
    BY <1>1, <1>3, <1>6, <2>2
  <2>3. CASE ~ IsRelay /\ ~ Passed(m)
    BY <1>1, <1>4, <1>5, <1>6, <2>3
  <2> QED  BY <2>1, <2>2, <2>3
<1> QED  BY <1>2, <1>3, <1>4, <1>5, <1>8

\* A payloader makes RTP of what it takes.
LEMMA PayFlow ==
    ASSUME NEW c, NEW p
    PROVE  /\ p.plugin = "rtph264pay" => Flow(c, p) = IF "h264" \in c THEN {"rtp"} ELSE {}
           /\ p.plugin = "rtph265pay" => Flow(c, p) = IF "h265" \in c THEN {"rtp"} ELSE {}
           /\ p.plugin = "rtpmp2tpay" => Flow(c, p) = IF "mpegts" \in c THEN {"rtp"} ELSE {}
           /\ p.plugin = "rtpmp4apay" => Flow(c, p) = IF "aac" \in c THEN {"rtp"} ELSE {}
           /\ p.plugin = "rtpac3pay" => Flow(c, p) = IF "ac3" \in c THEN {"rtp"} ELSE {}
<1>1. \A x, t : x.plugin \notin Transparent /\ Takes(x.plugin) = {t} /\ Offers(x.plugin) = {"rtp"}
             => Flow(c, x) = IF t \in c THEN {"rtp"} ELSE {}
  BY DEF Flow
<1>2. {"rtph264pay", "rtph265pay", "rtpmp2tpay", "rtpmp4apay", "rtpac3pay"} \cap Transparent = {}
  BY DEF Transparent
<1> QED  BY <1>1, <1>2, PluginFacts

\* The payloader of a medium fits what the stream carries, but for MPEG audio.
LEMMA PaidExact ==
    ASSUME cfg \in Config, NEW i \in Int, NEW m \in Media
    PROVE  LET p == Pay(m, i) IN
           /\ Flow(Carried(m), p) = IF m = "audio" /\ MpegAudio /\ "mpegts" \notin Carried("audio")
                                    THEN {} ELSE {"rtp"}
           /\ p.id = i
           /\ p.name = IF m = "video" \/ MpegAudio THEN "video_pay" ELSE "audio_pay"
<1> DEFINE p == Pay(m, i)
           c == Carried(m)
<1>1. CASE m = "video"
  <2> DEFINE v == CASE IsRelay /\ cfg.vparser = "tsparse" -> "rtpmp2tpay"
                    [] IsRelay /\ cfg.vparser = "h265parse" -> "rtph265pay"
                    [] ~ IsRelay /\ ~ IsH264Encoder -> "rtph265pay"
                    [] OTHER -> "rtph264pay"
  <2>1. p.name = "video_pay" /\ p.id = i /\ p.plugin = v
    BY <1>1 DEF Pay, Element
  <2>2. v = IF IsRelay THEN IF cfg.vparser = "tsparse" THEN "rtpmp2tpay"
                            ELSE IF cfg.vparser = "h265parse" THEN "rtph265pay" ELSE "rtph264pay"
            ELSE IF IsH264Encoder THEN "rtph264pay" ELSE "rtph265pay"
    <3>1. CASE IsRelay
      BY <3>1
    <3>2. CASE ~ IsRelay
      BY <3>2
    <3> QED  BY <3>1, <3>2
  <2>3. CASE IsRelay
    <3>1. c = IF cfg.vparser = "tsparse" THEN {"mpegts"}
              ELSE IF cfg.vparser = "h265parse" THEN {"h265"} ELSE {"h264"}
      BY <1>1, <2>3, CarriedIs, ParsersOffer
    <3> HIDE DEF p, c, v
    <3>2. Flow(c, p) = {"rtp"}
      BY <2>1, <2>2, <2>3, <3>1, PayFlow
    <3> QED  BY <1>1, <2>1, <3>2 DEF p, c
  <2>4. CASE ~ IsRelay
    <3>1. (IsH264Encoder => "h264" \in c) /\ (~ IsH264Encoder => "h265" \in c)
      <4>1. "h265" \in AnyCaps
        BY DEF AnyCaps, Codecs
      <4> QED  BY <1>1, <2>4, <4>1, CarriedIs
    <3> HIDE DEF p, c, v
    <3>2. Flow(c, p) = {"rtp"}
      BY <2>1, <2>2, <2>4, <3>1, PayFlow
    <3> QED  BY <1>1, <2>1, <3>2 DEF p, c
  <2> QED  BY <2>3, <2>4
<1>2. CASE m = "audio"
  <2>1. /\ MpegAudio => p.name = "video_pay" /\ p.id = i /\ p.plugin = "rtpmp2tpay"
        /\ ~ MpegAudio => /\ p.name = "audio_pay" /\ p.id = i
                          /\ p.plugin = IF IsRelay /\ cfg.aparser = "ac3parse" THEN "rtpac3pay"
                                        ELSE "rtpmp4apay"
    <3>1. CASE IsRelay
      BY <1>2, <3>1 DEF Pay, MpegAudio, Element
    <3>2. CASE ~ IsRelay
      BY <1>2, <3>2 DEF Pay, MpegAudio, Element
    <3> QED  BY <3>1, <3>2
  <2>2. ~ MpegAudio => IF IsRelay /\ cfg.aparser = "ac3parse" THEN "ac3" \in c ELSE "aac" \in c
    <3>1. CASE IsRelay
      BY <1>2, <3>1, CarriedIs, ParsersOffer DEF MpegAudio
    <3>2. CASE ~ IsRelay
      BY <1>2, <3>2, CarriedIs DEF MpegAudio
    <3> QED  BY <3>1, <3>2
  <2> HIDE DEF p, c
  <2>3. ~ MpegAudio => Flow(c, p) = {"rtp"}
    BY <2>1, <2>2, PayFlow
  <2>4. MpegAudio => Flow(c, p) = IF "mpegts" \in c THEN {"rtp"} ELSE {}
    BY <2>1, PayFlow
  <2> QED  BY <1>2, <2>1, <2>3, <2>4 DEF p, c
<1> QED  BY <1>1, <1>2 DEF Media

\* The queue behind a tee, and the elements behind the queue.
LEMMA QueuedExact ==
    ASSUME cfg \in Config, NEW i \in Int, NEW m \in Media, NEW branch, NEW c, c \cap AnyCaps # {},
           NEW M, NEW d, Branch(branch[m], i, M, c, d), TeeQueueName[m] \notin M
    PROVE  Branch(Queued(m, i, branch), i, {TeeQueueName[m]} \cup M, c, d)
<1>1. TeeQueueName[m] \in PlainNames \ {"nullptr"} /\ "queue" \in PlainPlugins \cap Transparent
  BY DEF TeeQueueName, Media, PlainNames, PlainPlugins, Transparent
<1>2. Branch(<<Element(TeeQueueName[m], i, "queue")>>, i, {TeeQueueName[m]}, c, c)
  BY <1>1, BranchElement
<1>3. {TeeQueueName[m]} \cap M = {}
  OBVIOUS
<1> QED  BY <1>2, <1>3, BranchJoin DEF Queued

\* What an output of a stream other than a mosaic makes of each medium.
OutEnd(m, i) == IF cfg.outs[i + 1] = "udp" THEN Flow(Carried(m), Pay(m, i)) ELSE Carried(m)
OutOwn(m, i) ==
    {TeeQueueName[m]} \cup IF cfg.outs[i + 1] = "udp" THEN {Pay(m, i).name} ELSE {}

\* An output of a stream that is no mosaic: a queue, and a payloader for RTP.
LEMMA OutputBranchExact ==
    ASSUME cfg \in Config, NEW i \in Int, NEW m \in Media, NEW branch, branch[m] = OutputBranch(m, i)
    PROVE  Branch(Queued(m, i, branch), i, OutOwn(m, i), Carried(m), OutEnd(m, i))
<1> DEFINE p == Pay(m, i)
           c == Carried(m)
<1>1. p \in Plain /\ p.id = i /\ p.name \in {"video_pay", "audio_pay"}
  <2>1. p \in Plain
    BY PlainOutputs
  <2> QED  BY <2>1, PaidExact
<1>2. c \cap AnyCaps # {}
  BY CarriedIs
<1> HIDE DEF p, c
<1>3. Branch(<<p>>, i, {p.name}, c, Flow(c, p))
  <2>1. p.name # "nullptr"
    BY <1>1
  <2>2. Branch(<<p>>, p.id, {p.name}, c, Flow(c, p))
    BY <1>1, <2>1, BranchOne
  <2> QED  BY <1>1, <2>2
<1>4. branch[m] = IF cfg.outs[i + 1] = "udp" THEN <<p>> ELSE <<>>
  BY DEF OutputBranch, p
<1>5. OutEnd(m, i) = IF cfg.outs[i + 1] = "udp" THEN Flow(c, p) ELSE c
  BY DEF OutEnd, c, p
<1> DEFINE M == IF cfg.outs[i + 1] = "udp" THEN {p.name} ELSE {}
<1>6. Branch(branch[m], i, M, c, OutEnd(m, i))
  BY <1>3, <1>4, <1>5, BranchNone
<1>7. TeeQueueName[m] \notin M
  BY <1>1 DEF TeeQueueName, Media
<1>8. OutOwn(m, i) = {TeeQueueName[m]} \cup M
  BY DEF OutOwn, p
<1> HIDE DEF M
<1>9. Branch(Queued(m, i, branch), i, {TeeQueueName[m]} \cup M, c, OutEnd(m, i))
  BY <1>2, <1>6, <1>7, QueuedExact
<1> QED  BY <1>8, <1>9 DEF c

\* What an output of a mosaic makes of each medium.
MosaicEnd(m, i) ==
    IF cfg.outs[i + 1] # "udp" THEN Offers(Encoder(m))
    ELSE IF (IF m = "video" THEN ~ IsH264Encoder ELSE IsAACEncoder) THEN {"rtp"} ELSE {}
MosaicOwn ==
    [video |-> {"video_tee_queue"} \cup
               {"aspect_ratio", "videorate", "videorate_capsfilter", "video_codec",
                "x264enc_capsfilter_profile", "video_pay", "video_parser"},
     audio |-> {"audio_tee_queue"} \cup
               {"audioresample", "audio_codec", "mpegaudioparse", "audio_pay"}]

\* An output of a mosaic: a queue, the filters, the encoder, and for RTP a payloader
\* in front of the parser.
LEMMA MosaicBranchExact ==
    ASSUME cfg \in Config, NEW i \in Int, NEW m \in Media, NEW branch, branch[m] = MosaicBranch(m, i)
    PROVE  Branch(Queued(m, i, branch), i, MosaicOwn[m], Raw, MosaicEnd(m, i))
<1>1. Raw \cap AnyCaps # {} /\ "raw" \in Raw
  BY DEF Raw, AnyCaps
<1>2. MosaicOwn["video"] = {"video_tee_queue"} \cup
               {"aspect_ratio", "videorate", "videorate_capsfilter", "video_codec",
                "x264enc_capsfilter_profile", "video_pay", "video_parser"}
      /\ MosaicOwn["audio"] = {"audio_tee_queue"} \cup
               {"audioresample", "audio_codec", "mpegaudioparse", "audio_pay"}
      /\ TeeQueueName["video"] = "video_tee_queue" /\ TeeQueueName["audio"] = "audio_tee_queue"
  BY DEF MosaicOwn, TeeQueueName
<1> DEFINE rtp == cfg.outs[i + 1] = "udp"
           ov == Offers(cfg.vcodec)
           oa == Offers(cfg.acodec)
<1>3. ov = (IF IsH264Encoder THEN {"h264"} ELSE {"h265"}) /\ oa = IF IsAACEncoder THEN {"aac"} ELSE {"mp3"}
  BY EncoderFacts
<1>4. CASE m = "video"
  <2> DEFINE plugin == IF IsH264Encoder THEN "rtph264pay" ELSE "rtph265pay"
             p == Element("video_pay", i, plugin)
             a == AspectRatio(i)
             f == IF cfg.vcodec # "mfxh264enc" THEN VideoFramerate(i) ELSE <<>>
             e == VideoEncoder(i)
             y == IF rtp THEN <<p>> ELSE <<>>
             r == VideoParser(i)
             paid == IF rtp THEN {"rtp"} ELSE ov
             end == IF IsH264Encoder THEN Parsed(paid, "h264") ELSE paid
  <2>1. MosaicBranch(m, i) = a \o f \o e \o y \o r
    BY <1>4 DEF MosaicBranch
  <2>2. /\ Branch(a, i, {"aspect_ratio"}, Raw, Raw)
        /\ Branch(f, i, {"videorate", "videorate_capsfilter"}, Raw, Raw)
        /\ Branch(e, i, {"video_codec", "x264enc_capsfilter_profile"}, Raw, ov)
    BY Parts, BranchNone
  <2>3. Branch(y, i, {"video_pay"}, ov, paid)
    <3>1. p.plugin = plugin /\ plugin \in PlainPlugins /\ "video_pay" \in PlainNames \ {"nullptr"}
      BY DEF Element, PlainPlugins, PlainNames
    <3>2. Branch(<<p>>, i, {"video_pay"}, ov, Flow(ov, p))
      <4> HIDE DEF plugin
      <4> QED  BY <3>1, BranchElement
    <3>3. Flow(ov, p) = {"rtp"}
      <4> HIDE DEF p, ov
      <4> QED  BY <1>3, <3>1, PayFlow
    <3> HIDE DEF p, ov, rtp
    <3> QED  BY <3>2, <3>3, BranchNone
  <2>4. Branch(r, i, {"video_parser"}, paid, end)
    <3> HIDE DEF paid
    <3> QED  BY Parts
  <2>5. end = MosaicEnd(m, i)
    <3>1. MosaicEnd(m, i) = IF ~ rtp THEN ov ELSE IF ~ IsH264Encoder THEN {"rtp"} ELSE {}
      BY <1>4 DEF MosaicEnd, Encoder
    <3> HIDE DEF ov, rtp
    <3> QED  BY <1>3, <3>1 DEF Parsed
  <2> HIDE DEF a, f, e, y, r, paid, end, ov
  <2>6. Branch(a \o f, i, {"aspect_ratio"} \cup {"videorate", "videorate_capsfilter"}, Raw, Raw)
    BY <2>2, BranchJoin
  <2>7. Branch(a \o f \o e, i, {"aspect_ratio"} \cup {"videorate", "videorate_capsfilter"}
                               \cup {"video_codec", "x264enc_capsfilter_profile"}, Raw, ov)
    BY <2>2, <2>6, BranchJoin
  <2>8. Branch(a \o f \o e \o y, i, {"aspect_ratio"} \cup {"videorate", "videorate_capsfilter"}
                               \cup {"video_codec", "x264enc_capsfilter_profile"}
                               \cup {"video_pay"}, Raw, paid)
    BY <2>3, <2>7, BranchJoin
  <2>9. Branch(a \o f \o e \o y \o r, i, {"aspect_ratio"} \cup {"videorate", "videorate_capsfilter"}
                               \cup {"video_codec", "x264enc_capsfilter_profile"}
                               \cup {"video_pay"} \cup {"video_parser"}, Raw, end)
    BY <2>4, <2>8, BranchJoin
  <2> DEFINE M == {"aspect_ratio", "videorate", "videorate_capsfilter", "video_codec",
                   "x264enc_capsfilter_profile", "video_pay", "video_parser"}
  <2>10. Branch(branch[m], i, M, Raw, MosaicEnd(m, i))
    BY <2>1, <2>5, <2>9, BranchMore
  <2>11. TeeQueueName[m] \notin M /\ MosaicOwn[m] = {TeeQueueName[m]} \cup M
    BY <1>2, <1>4
  <2> HIDE DEF M
  <2>12. Branch(Queued(m, i, branch), i, {TeeQueueName[m]} \cup M, Raw, MosaicEnd(m, i))
    BY <1>1, <2>10, <2>11, QueuedExact
  <2> QED  BY <2>11, <2>12
<1>5. CASE m = "audio"
  <2> DEFINE p == Element("audio_pay", i, "rtpmp4apay")
             e == AudioEncoder(i)
             y == IF rtp THEN <<p>> ELSE <<>>
             end == IF rtp THEN Flow(oa, p) ELSE oa
  <2>1. MosaicBranch(m, i) = e \o y
    BY <1>5 DEF MosaicBranch
  <2>2. Branch(e, i, {"audioresample", "audio_codec", "mpegaudioparse"}, Raw, oa)
    BY Parts
  <2>3. p.plugin = "rtpmp4apay" /\ "rtpmp4apay" \in PlainPlugins /\ "audio_pay" \in PlainNames \ {"nullptr"}
    BY DEF Element, PlainPlugins, PlainNames
  <2>4. Branch(y, i, {"audio_pay"}, oa, end)
    <3>1. Branch(<<p>>, i, {"audio_pay"}, oa, Flow(oa, p))
      BY <2>3, BranchElement
    <3> HIDE DEF p, oa, rtp
    <3> QED  BY <3>1, BranchNone
  <2>5. end = MosaicEnd(m, i)
    <3>1. MosaicEnd(m, i) = IF ~ rtp THEN oa ELSE IF IsAACEncoder THEN {"rtp"} ELSE {}
      BY <1>5 DEF MosaicEnd, Encoder
    <3>2. Flow(oa, p) = IF "aac" \in oa THEN {"rtp"} ELSE {}
      <4> HIDE DEF p, oa
      <4> QED  BY <2>3, PayFlow
    <3> HIDE DEF oa, rtp, p
    <3> QED  BY <1>3, <3>1, <3>2
  <2> HIDE DEF e, y, end, oa
  <2>6. Branch(e \o y, i, {"audioresample", "audio_codec", "mpegaudioparse"} \cup {"audio_pay"}, Raw, end)
    BY <2>2, <2>4, BranchJoin
  <2> DEFINE M == {"audioresample", "audio_codec", "mpegaudioparse", "audio_pay"}
  <2>7. Branch(branch[m], i, M, Raw, MosaicEnd(m, i))
    BY <2>1, <2>5, <2>6, BranchMore
  <2>8. TeeQueueName[m] \notin M /\ MosaicOwn[m] = {TeeQueueName[m]} \cup M
    BY <1>2, <1>5
  <2> HIDE DEF M
  <2>9. Branch(Queued(m, i, branch), i, {TeeQueueName[m]} \cup M, Raw, MosaicEnd(m, i))
    BY <1>1, <2>7, <2>8, QueuedExact
  <2> QED  BY <2>8, <2>9
<1> QED  BY <1>4, <1>5 DEF Media

(***************************************************************************)
(* What can be built: the outputs                                          *)
(***************************************************************************)

\* The names of the elements of outputs, and what the tees offer them.
OutNames ==
    {"muxer", "sink", "video_tee_queue", "audio_tee_queue", "video_pay", "audio_pay"}
    \cup IF IsMosaic THEN {"aspect_ratio", "videorate", "videorate_capsfilter", "video_codec",
                           "x264enc_capsfilter_profile", "video_parser", "audioresample",
                           "audio_codec", "mpegaudioparse", "video_sink", "audio_sink"}
         ELSE {}
TeeCaps == [m \in Media |-> IF IsMosaic THEN Raw ELSE Carried(m)]

\* Outputs from number i on can be added.
OutReady(g, i) ==
    Sound(g) /\ Teed(g, TeeCaps) /\ \A j \in Int : j >= i => FreeNames(g, j, OutNames)

\* Output i takes nothing away from the next ones.
LEMMA NextOutput ==
    ASSUME NEW g, NEW i \in Int, OutReady(g, i), NEW h, h.conn = g.conn,
           After(g, h, i, OutNames, Null)
    PROVE  OutReady(h, i + 1)
<1>1. Sound(h)
  BY DEF After
<1>2. Teed(h, TeeCaps)
  <2> SUFFICES ASSUME NEW m \in cfg.media
               PROVE  h.conn[m].plugin = "tee" /\ Ready(h, h.conn[m], TeeCaps[m])
    BY DEF Teed
  <2>1. g.conn[m].plugin = "tee" /\ Ready(g, g.conn[m], TeeCaps[m]) /\ Proper(g)
    BY DEF OutReady, Teed, Sound
  <2> QED  BY <2>1, AfterReady
<1>3. ASSUME NEW j \in Int, j >= i + 1  PROVE FreeNames(h, j, OutNames)
  <2>1. j >= i /\ j # i
    BY <1>3
  <2>2. FreeNames(g, j, OutNames)
    BY <2>1 DEF OutReady
  <2> QED  BY <2>1, <2>2 DEF After, FreeNames
<1> QED  BY <1>1, <1>2, <1>3 DEF OutReady

\* The steps of a muxed output, of which none repairs what an earlier one did.
MuxedFirst(g, i, branch) ==
    LET mux == Muxer(cfg.outs[i + 1], i)
        a == ElementAdd(g, mux)
    IN  IF "video" \in cfg.media THEN JoinAt(a, "video", Queued("video", i, branch), mux) ELSE a
MuxedSecond(g, i, branch) ==
    LET mux == Muxer(cfg.outs[i + 1], i)
        g1 == MuxedFirst(g, i, branch)
    IN  IF "audio" \in cfg.media THEN JoinAt(g1, "audio", Queued("audio", i, branch), mux) ELSE g1

\* A step of an output that fails makes the output fail.
LEMMA MuxedSteps ==
    ASSUME NEW g, Proper(g), cfg \in Config, NEW i \in Int, NEW branch,
           \A m \in Media : branch[m] \in Seq(Plain)
    PROVE  LET a == ElementAdd(g, Muxer(cfg.outs[i + 1], i))
               g1 == MuxedFirst(g, i, branch)
               g2 == MuxedSecond(g, i, branch)
               h == BuildMuxedOutput(g, i, branch)
           IN  /\ Proper(a) /\ a.conn = g.conn /\ Proper(g1) /\ g1.conn = g.conn
               /\ (h.ok => g2.ok) /\ (g2.ok => g1.ok) /\ (g1.ok => a.ok)
<1> DEFINE mux == Muxer(cfg.outs[i + 1], i)
           sink == Element("sink", i, "sink")
           ev == Queued("video", i, branch)
           ea == Queued("audio", i, branch)
           a == ElementAdd(g, mux)
           g1 == IF "video" \in cfg.media THEN JoinAt(a, "video", ev, mux) ELSE a
           g2 == IF "audio" \in cfg.media THEN JoinAt(g1, "audio", ea, mux) ELSE g1
           h == Chain(g2, mux, <<sink>>).g
<1>1. BuildMuxedOutput(g, i, branch) = (IF HasSink(i) THEN h ELSE Abort(g2))
      /\ MuxedFirst(g, i, branch) = g1
      /\ MuxedSecond(g, i, branch) = g2
  BY DEF BuildMuxedOutput, GenericOutput, ForMedia, JoinAt, JoinFrom, Queued, MuxedFirst, MuxedSecond
<1>2. mux \in Plain /\ sink \in Plain
  BY PlainOutputs
<1>3. ev \in Seq(Plain) /\ ea \in Seq(Plain)
  <2>1. "video" \in Media /\ "audio" \in Media
    BY DEF Media
  <2>2. /\ Element(TeeQueueName["video"], i, "queue") \in Plain
        /\ Element(TeeQueueName["audio"], i, "queue") \in Plain
    BY <2>1, PlainParts
  <2> QED  BY <2>1, <2>2, QueueFirst DEF Queued
<1>4. ElementAdd(g, Muxer(cfg.outs[i + 1], i)) = a
  OBVIOUS
<1> HIDE DEF mux, sink, ev, ea
<1>5. Proper(a) /\ a.conn = g.conn
  BY <1>2, AddGrows DEF Grows
<1> HIDE DEF a
<1>6. Proper(g1) /\ g1.conn = g.conn /\ (g1.ok => a.ok)
  <2> DEFINE q == JoinAt(a, "video", ev, mux)
  <2>1. Proper(q) /\ q.conn = a.conn /\ (q.ok => a.ok)
    BY <1>3, <1>5, JoinKeeps
  <2>2. g1 = IF "video" \in cfg.media THEN q ELSE a
    OBVIOUS
  <2> HIDE DEF q, g1
  <2> QED  BY <1>5, <2>1, <2>2
<1> HIDE DEF g1
<1>7. Proper(g2) /\ (g2.ok => g1.ok)
  <2> DEFINE q == JoinAt(g1, "audio", ea, mux)
  <2>1. Proper(q) /\ (q.ok => g1.ok)
    BY <1>3, <1>6, JoinKeeps
  <2>2. g2 = IF "audio" \in cfg.media THEN q ELSE g1
    OBVIOUS
  <2> HIDE DEF q, g2
  <2> QED  BY <1>6, <2>1, <2>2
<1> HIDE DEF g2
<1>8. (h.ok => g2.ok) /\ ~ Abort(g2).ok
  BY <1>2, <1>7, AbortFacts, ChainOneFacts DEF Grows
<1> HIDE DEF h
<1>9. BuildMuxedOutput(g, i, branch).ok => g2.ok
  BY <1>1, <1>8
<1> QED  BY <1>1, <1>4, <1>5, <1>6, <1>7, <1>9

\* An output without a muxer ends the process.
LEMMA OtherFails ==
    ASSUME NEW g, Proper(g), cfg \in Config, NEW i \in Int, cfg.outs[i + 1] = "other", NEW branch,
           \A m \in Media : branch[m] \in Seq(Plain)
    PROVE  ~ BuildMuxedOutput(g, i, branch).ok
<1> DEFINE a == ElementAdd(g, Muxer(cfg.outs[i + 1], i))
           h == BuildMuxedOutput(g, i, branch)
<1>1. Muxer(cfg.outs[i + 1], i) = Null
  BY DEF Muxer
<1>2. a = [g EXCEPT !.ok = FALSE]
  BY <1>1 DEF ElementAdd, Abort
<1>3. a.ok = FALSE
  BY <1>2 DEF Proper
<1>4. h.ok => a.ok
  BY MuxedSteps
<1> HIDE DEF a, h
<1> QED  BY <1>3, <1>4 DEF h

\* The payloader of MPEG audio has the name of the video's: a stream with both
\* media has no RTP output.
LEMMA PayClash ==
    ASSUME NEW g, Sound(g), cfg \in Config, NEW i \in Int, cfg.outs[i + 1] = "udp", ~ IsMosaic,
           OutReady(g, i), cfg.media = Media, MpegAudio,
           NEW branch, \A m \in Media : branch[m] = OutputBranch(m, i)
    PROVE  ~ BuildMuxedOutput(g, i, branch).ok
<1> DEFINE mux == Muxer(cfg.outs[i + 1], i)
           a == ElementAdd(g, mux)
           g1 == MuxedFirst(g, i, branch)
           g2 == MuxedSecond(g, i, branch)
           h == BuildMuxedOutput(g, i, branch)
           ev == Queued("video", i, branch)
           ea == Queued("audio", i, branch)
           pv == Pay("video", i)
           pa == Pay("audio", i)
           qv == Element(TeeQueueName["video"], i, "queue")
           qa == Element(TeeQueueName["audio"], i, "queue")
<1>1. "video" \in Media /\ "audio" \in Media
  BY DEF Media
<1>2. \A m \in Media : branch[m] \in Seq(Plain)
  BY PlainOutputs
<1>3. /\ Proper(a) /\ a.conn = g.conn /\ Proper(g1) /\ g1.conn = g.conn
      /\ (h.ok => g2.ok) /\ (g2.ok => g1.ok) /\ (g1.ok => a.ok)
  BY <1>2, MuxedSteps DEF Sound
<1>4. pv \in Plain /\ pa \in Plain /\ qv \in Plain /\ qa \in Plain
  BY <1>1, PlainOutputs, PlainParts
<1>5. pv.name = "video_pay" /\ pv.id = i /\ pa.name = "video_pay" /\ pa.id = i
  BY <1>1, PaidExact
<1>6. mux.name = "muxer" /\ mux.id = i /\ mux.plugin = "rtpmux"
  BY DEF Muxer, Element
<1>7. mux \in Plain
  BY PlainOutputs
<1>8. g1 = JoinAt(a, "video", ev, mux) /\ g2 = JoinAt(g1, "audio", ea, mux)
  BY <1>1 DEF MuxedFirst, MuxedSecond
<1>9. branch["video"] = <<pv>> /\ branch["audio"] = <<pa>>
  BY <1>1 DEF OutputBranch
<1>10. ev = <<qv>> \o <<pv>> /\ ea = <<qa>> \o <<pa>>
  BY <1>9 DEF Queued
<1>11. Branch(ev, i, OutOwn("video", i), Carried("video"), OutEnd("video", i))
  BY <1>1, OutputBranchExact
<1>12. OutOwn("video", i) = {"video_tee_queue", "video_pay"}
  BY <1>5 DEF OutOwn, TeeQueueName
<1> HIDE DEF pv, pa, qv, qa, ev, ea, h, g1, g2, mux
<1>13. ev = <<qv, pv>> /\ ea = <<qa, pa>>
  BY <1>10, PairsAndTriples
<1>14. Some(ev) /\ ev[Len(ev)] = pv
  <2>1. Len(<<qv, pv>>) = 2 /\ <<qv, pv>>[2] = pv
    OBVIOUS
  <2>2. <<qv, pv>> # <<>>
    BY <2>1, EmptySeq
  <2> QED  BY <1>13, <2>1, <2>2 DEF Some
<1>15. /\ After(g, a, i, {"muxer"}, Null) /\ Open(a, mux) /\ Sound(a)
  <2>1. Part(mux) /\ mux.name # "nullptr"
    BY <1>6, <1>7, PlainIsPart
  <2>2. FreeNames(g, mux.id, {mux.name})
    <3>1. FreeNames(g, i, OutNames)
      BY DEF OutReady
    <3> QED  BY <1>6, <3>1 DEF FreeNames, OutNames
  <2>3. After(g, a, mux.id, {mux.name}, Null) /\ Open(a, mux)
    BY <2>1, <2>2, AddExact
  <2> HIDE DEF a
  <2> QED  BY <1>6, <2>3 DEF After
<1> HIDE DEF a
<1>16. g1.ok => pv \in Elements(g1)
  <2>1. Joining(a, mux)
    BY <1>6, <1>15 DEF Joining, Open, Joins
  <2>2. FreeNames(a, i, OutOwn("video", i))
    <3>1. FreeNames(g, i, OutNames)
      BY DEF OutReady
    <3>2. OutOwn("video", i) \subseteq OutNames /\ "muxer" \notin OutOwn("video", i)
      BY <1>12 DEF OutNames
    <3> QED  BY <1>15, <3>1, <3>2 DEF FreeNames, After
  <2>3. Ready(a, a.conn["video"], Carried("video"))
    <3>1. TeeCaps["video"] = Carried("video")
      BY <1>1 DEF TeeCaps
    <3>2. Ready(g, g.conn["video"], Carried("video"))
      BY <1>1, <3>1 DEF OutReady, Teed
    <3>3. Proper(g)
      BY DEF Sound
    <3> QED  BY <1>3, <1>15, <3>2, <3>3, AfterReady
  <2> DEFINE q == JoinAt(a, "video", ev, mux)
  <2>4. q.ok => ev[Len(ev)] \in Elements(q)
    BY <1>11, <1>14, <1>15, <2>1, <2>2, <2>3, JoinExact
  <2> HIDE DEF q
  <2> QED  BY <1>8, <1>14, <2>4 DEF q
<1>17. g1.ok => ~ g2.ok
  <2> SUFFICES ASSUME g1.ok  PROVE ~ g2.ok
    OBVIOUS
  <2>1. ~ FreeNames(g1, pa.id, {pa.name})
    BY <1>5, <1>16 DEF FreeNames
  <2> DEFINE r == Chain(g1, g1.conn["audio"], ea)
             k == ElementLink(r.g, r.at, mux)
  <2>2. ~ r.g.ok
    BY <1>3, <1>4, <1>13, <2>1, ChainClash
  <2>3. ea \in Seq(Plain)
    BY <1>4, <1>13, PlainSequences
  <2>4. Proper(r.g)
    BY <1>3, <2>3, ChainFacts DEF Grows
  <2>5. g2 = k
    BY <1>8 DEF JoinAt, JoinFrom
  <2> HIDE DEF r
  <2>6. k.ok => r.g.ok
    BY <2>4, LinkFacts
  <2> HIDE DEF k
  <2> QED  BY <2>2, <2>5, <2>6
<1> QED  BY <1>3, <1>17 DEF h

\* CanOutput, scheme by scheme.
LEMMA CanOutputIs ==
    /\ CanOutput("device") /\ ~ CanOutput("other")
    /\ CanOutput("rtmp") <=> \A m \in cfg.media : Carried(m) \cap {"h264", "aac", "mp3"} # {}
    /\ CanOutput("http") <=> \A m \in cfg.media : Carried(m) \cap Codecs # {}
    /\ IsMosaic => (CanOutput("udp") <=> /\ "video" \in cfg.media => ~ IsH264Encoder
                                         /\ "audio" \in cfg.media => IsAACEncoder)
    /\ ~ IsMosaic => (CanOutput("udp") <=>
                        (MpegAudio /\ "audio" \in cfg.media
                           => cfg.media = {"audio"} /\ "mpegts" \in Carried("audio")))
<1>1. CanOutput("device") /\ ~ CanOutput("other")
  BY DEF CanOutput
<1>2. CanOutput("rtmp") <=> \A m \in cfg.media : Carried(m) \cap {"h264", "aac", "mp3"} # {}
  BY DEF CanOutput
<1>3. CanOutput("http") <=> \A m \in cfg.media : Carried(m) \cap Codecs # {}
  BY DEF CanOutput
<1>4. IsMosaic => (CanOutput("udp") <=> /\ "video" \in cfg.media => ~ IsH264Encoder
                                        /\ "audio" \in cfg.media => IsAACEncoder)
  BY DEF CanOutput
<1>5. ~ IsMosaic => (CanOutput("udp") <=>
                       (MpegAudio /\ "audio" \in cfg.media
                          => cfg.media = {"audio"} /\ "mpegts" \in Carried("audio")))
  BY DEF CanOutput
<1> QED  BY <1>1, <1>2, <1>3, <1>4, <1>5

\* What fits the muxer of each scheme.
LEMMA MuxerTakes ==
    ASSUME NEW d, NEW i
    PROVE  /\ Fits(d, Muxer("rtmp", i)) <=> d \cap {"h264", "aac", "mp3"} # {}
           /\ Fits(d, Muxer("http", i)) <=> d \cap Codecs # {}
           /\ Fits(d, Muxer("udp", i)) <=> "rtp" \in d
<1>1. /\ Muxer("rtmp", i).plugin = "flvmux" /\ Muxer("http", i).plugin = "mpegtsmux"
      /\ Muxer("udp", i).plugin = "rtpmux"
  BY DEF Muxer, Element
<1>2. Takes("rtpmux") = {"rtp"} /\ Takes("flvmux") = {"h264", "aac", "mp3"} /\ Takes("mpegtsmux") = Codecs
  BY PluginFacts
<1>3. d \cap {"rtp"} # {} <=> "rtp" \in d
  OBVIOUS
<1> QED  BY <1>1, <1>2, <1>3 DEF Fits

\* A muxed output of a stream other than a mosaic.
LEMMA SchemeExact ==
    ASSUME NEW g, cfg \in Config, NEW i \in Int, ~ IsMosaic, OutReady(g, i),
           cfg.outs[i + 1] \in {"rtmp", "udp", "http"},
           NEW branch, \A m \in Media : branch[m] = OutputBranch(m, i)
    PROVE  LET h == BuildMuxedOutput(g, i, branch) IN
           /\ h.ok <=> HasSink(i) /\ CanOutput(cfg.outs[i + 1])
           /\ h.ok => After(g, h, i, OutNames, Null)
<1> DEFINE h == BuildMuxedOutput(g, i, branch)
           o == cfg.outs[i + 1]
           N == [m \in Media |-> OutOwn(m, i)]
           d == [m \in Media |-> OutEnd(m, i)]
<1>1. "video" \in Media /\ "audio" \in Media /\ (\A m \in Media : m = "video" \/ m = "audio")
      /\ cfg.media \subseteq Media
  BY DEF Media, Config
<1>2. Sound(g) /\ Teed(g, TeeCaps) /\ FreeNames(g, i, OutNames)
  BY DEF OutReady
<1>3. \A m \in Media : branch[m] \in Seq(Plain)
  BY PlainOutputs
<1>4. \A m \in Media : N[m] = OutOwn(m, i) /\ d[m] = OutEnd(m, i) /\ TeeCaps[m] = Carried(m)
  BY DEF TeeCaps
<1>5. CASE o = "udp" /\ cfg.media = Media /\ MpegAudio
  <2>1. ~ h.ok
    BY <1>2, <1>5, PayClash
  <2>2. ~ CanOutput(o)
    <3>1. cfg.media # {"audio"} /\ "audio" \in cfg.media
      BY <1>1, <1>5
    <3>2. o = "udp"
      BY <1>5
    <3> HIDE DEF o
    <3> QED  BY <1>5, <3>1, <3>2, CanOutputIs
  <2> QED  BY <2>1, <2>2
<1>6. CASE ~(o = "udp" /\ cfg.media = Media /\ MpegAudio)
  <2>1. Apart(N, OutNames)
    <3>1. \A m \in Media : /\ Pay(m, i).name \in {"video_pay", "audio_pay"}
                           /\ Pay("video", i).name = "video_pay"
                           /\ ~ MpegAudio => Pay("audio", i).name = "audio_pay"
      BY <1>1, PaidExact
    <3>2. TeeQueueName["video"] = "video_tee_queue" /\ TeeQueueName["audio"] = "audio_tee_queue"
      BY DEF TeeQueueName
    <3>3. \A m \in Media : N[m] \subseteq {"video_tee_queue", "audio_tee_queue", "video_pay", "audio_pay"}
      BY <1>1, <1>4, <3>1, <3>2 DEF OutOwn
    <3>4. {"muxer", "sink", "video_tee_queue", "audio_tee_queue", "video_pay", "audio_pay"} \subseteq OutNames
      BY DEF OutNames
    <3>5. cfg.media = Media => N["video"] \cap N["audio"] = {}
      <4> SUFFICES ASSUME cfg.media = Media  PROVE N["video"] \cap N["audio"] = {}
        OBVIOUS
      <4>1. CASE o = "udp"
        <5>1. N["video"] = {"video_tee_queue", "video_pay"} /\ N["audio"] = {"audio_tee_queue", "audio_pay"}
          BY <1>1, <1>4, <1>6, <3>1, <3>2, <4>1 DEF OutOwn
        <5> QED  BY <5>1
      <4>2. CASE o # "udp"
        <5>1. N["video"] = {"video_tee_queue"} /\ N["audio"] = {"audio_tee_queue"}
          BY <1>1, <1>4, <3>2, <4>2 DEF OutOwn
        <5> QED  BY <5>1
      <4> QED  BY <4>1, <4>2
    <3> HIDE DEF N
    <3> QED  BY <1>1, <3>3, <3>4, <3>5 DEF Apart
  <2>2. \A m \in cfg.media : Branch(Queued(m, i, branch), i, N[m], TeeCaps[m], d[m])
    <3> SUFFICES ASSUME NEW m \in cfg.media
                 PROVE  Branch(Queued(m, i, branch), i, N[m], TeeCaps[m], d[m])
      OBVIOUS
    <3>1. m \in Media
      BY <1>1
    <3>2. Branch(Queued(m, i, branch), i, OutOwn(m, i), Carried(m), OutEnd(m, i))
      BY <3>1, OutputBranchExact
    <3> HIDE DEF N, d
    <3> QED  BY <1>4, <3>1, <3>2
  <2> DEFINE mux == Muxer(cfg.outs[i + 1], i)
             fit == \A m \in cfg.media : Fits(d[m], mux)
  <2> HIDE DEF N, d
  <2>3. /\ h.ok <=> HasSink(i) /\ \A m \in cfg.media : Fits(d[m], Muxer(cfg.outs[i + 1], i))
        /\ h.ok => After(g, h, i, OutNames, Null)
    BY <1>2, <1>3, <2>1, <2>2, MuxedExact
  <2>4. fit <=> CanOutput(o)
    <3>1. CASE o = "rtmp"
      <4>1. \A m \in cfg.media : d[m] = Carried(m)
        BY <1>1, <1>4, <3>1 DEF OutEnd
      <4>2. \A m \in cfg.media : Fits(d[m], mux) <=> Carried(m) \cap {"h264", "aac", "mp3"} # {}
        BY <3>1, <4>1, MuxerTakes
      <4>3. CanOutput(o) <=> \A m \in cfg.media : Carried(m) \cap {"h264", "aac", "mp3"} # {}
        BY <3>1, CanOutputIs
      <4> HIDE DEF mux, o
      <4> QED  BY <4>2, <4>3
    <3>2. CASE o = "http"
      <4>1. \A m \in cfg.media : d[m] = Carried(m)
        BY <1>1, <1>4, <3>2 DEF OutEnd
      <4>2. \A m \in cfg.media : Fits(d[m], mux) <=> Carried(m) \cap Codecs # {}
        BY <3>2, <4>1, MuxerTakes
      <4>3. CanOutput(o) <=> \A m \in cfg.media : Carried(m) \cap Codecs # {}
        BY <3>2, CanOutputIs
      <4> HIDE DEF mux, o
      <4> QED  BY <4>2, <4>3
    <3>3. CASE o = "udp"
      <4>1. \A m \in cfg.media : d[m] = Flow(Carried(m), Pay(m, i))
        BY <1>1, <1>4, <3>3 DEF OutEnd
      <4>2. \A m \in cfg.media : d[m] = IF m = "audio" /\ MpegAudio /\ "mpegts" \notin Carried("audio")
                                        THEN {} ELSE {"rtp"}
        <5> SUFFICES ASSUME NEW m \in cfg.media
                     PROVE  d[m] = IF m = "audio" /\ MpegAudio /\ "mpegts" \notin Carried("audio")
                                   THEN {} ELSE {"rtp"}
          OBVIOUS
        <5>1. m \in Media /\ d[m] = Flow(Carried(m), Pay(m, i))
          BY <1>1, <4>1
        <5>2. Flow(Carried(m), Pay(m, i)) = IF m = "audio" /\ MpegAudio /\ "mpegts" \notin Carried("audio")
                                            THEN {} ELSE {"rtp"}
          BY <5>1, PaidExact
        <5> QED  BY <5>1, <5>2
      <4>3. \A m \in cfg.media : Fits(d[m], mux) <=>
                                 ~(m = "audio" /\ MpegAudio /\ "mpegts" \notin Carried("audio"))
        <5>1. \A m \in cfg.media : Fits(d[m], mux) <=> "rtp" \in d[m]
          BY <3>3, MuxerTakes
        <5> HIDE DEF mux
        <5> QED  BY <4>2, <5>1
      <4>4. CanOutput(o) <=> (MpegAudio /\ "audio" \in cfg.media
                                => cfg.media = {"audio"} /\ "mpegts" \in Carried("audio"))
        BY <3>3, CanOutputIs
      <4>5. MpegAudio /\ "audio" \in cfg.media => cfg.media = {"audio"}
        <5>1. "video" \in cfg.media /\ "audio" \in cfg.media => cfg.media = Media
          BY <1>1
        <5>2. "video" \notin cfg.media /\ "audio" \in cfg.media => cfg.media = {"audio"}
          BY <1>1
        <5> QED  BY <1>6, <3>3, <5>1, <5>2
      <4> HIDE DEF mux, o
      <4> QED  BY <4>3, <4>4, <4>5
    <3> QED  BY <3>1, <3>2, <3>3
  <2> HIDE DEF h
  <2> QED  BY <2>3, <2>4 DEF h, mux, o
<1> QED  BY <1>5, <1>6

\* A muxed output of a mosaic.
LEMMA MosaicSchemeExact ==
    ASSUME NEW g, cfg \in Config, NEW i \in Int, IsMosaic, OutReady(g, i),
           cfg.outs[i + 1] \in {"rtmp", "udp", "http"},
           NEW branch, \A m \in Media : branch[m] = MosaicBranch(m, i)
    PROVE  LET h == BuildMuxedOutput(g, i, branch) IN
           /\ h.ok <=> HasSink(i) /\ CanOutput(cfg.outs[i + 1])
           /\ h.ok => After(g, h, i, OutNames, Null)
<1> DEFINE h == BuildMuxedOutput(g, i, branch)
           o == cfg.outs[i + 1]
           N == MosaicOwn
           d == [m \in Media |-> MosaicEnd(m, i)]
           mux == Muxer(cfg.outs[i + 1], i)
           fit == \A m \in cfg.media : Fits(d[m], mux)
<1>1. "video" \in Media /\ "audio" \in Media /\ (\A m \in Media : m = "video" \/ m = "audio")
      /\ cfg.media \subseteq Media
  BY DEF Media, Config
<1>2. Sound(g) /\ Teed(g, TeeCaps) /\ FreeNames(g, i, OutNames)
  BY DEF OutReady
<1>3. \A m \in Media : branch[m] \in Seq(Plain)
  BY PlainOutputs
<1>4. \A m \in Media : d[m] = MosaicEnd(m, i) /\ TeeCaps[m] = Raw /\ Carried(m) = Offers(Encoder(m))
  <2>1. ~ IsRelay /\ \A m \in Media : ~ Passed(m)
    BY DEF IsMosaic, IsRelay, Relays, Passed
  <2>2. \A m \in Media : Carried(m) = Offers(Encoder(m))
    BY <2>1, CarriedIs
  <2> QED  BY <2>2 DEF TeeCaps
<1>5. Apart(N, OutNames)
  <2>1. /\ N["video"] = {"video_tee_queue", "aspect_ratio", "videorate", "videorate_capsfilter",
                         "video_codec", "x264enc_capsfilter_profile", "video_pay", "video_parser"}
        /\ N["audio"] = {"audio_tee_queue", "audioresample", "audio_codec", "mpegaudioparse", "audio_pay"}
    BY DEF MosaicOwn
  <2>2. N["video"] \subseteq OutNames /\ N["audio"] \subseteq OutNames /\ {"muxer", "sink"} \subseteq OutNames
    BY <2>1 DEF OutNames
  <2>3. \A m \in Media : "muxer" \notin N[m] /\ "sink" \notin N[m]
    BY <1>1, <2>1
  <2>4. N["video"] \cap N["audio"] = {}
    BY <2>1
  <2> HIDE DEF N
  <2> QED  BY <1>1, <2>2, <2>3, <2>4 DEF Apart
<1>6. \A m \in cfg.media : Branch(Queued(m, i, branch), i, N[m], TeeCaps[m], d[m])
  <2> SUFFICES ASSUME NEW m \in cfg.media
               PROVE  Branch(Queued(m, i, branch), i, N[m], TeeCaps[m], d[m])
    OBVIOUS
  <2>1. m \in Media
    BY <1>1
  <2>2. Branch(Queued(m, i, branch), i, MosaicOwn[m], Raw, MosaicEnd(m, i))
    BY <2>1, MosaicBranchExact
  <2> HIDE DEF d
  <2> QED  BY <1>4, <2>1, <2>2
<1> HIDE DEF N, d
<1>7. /\ h.ok <=> HasSink(i) /\ \A m \in cfg.media : Fits(d[m], Muxer(cfg.outs[i + 1], i))
      /\ h.ok => After(g, h, i, OutNames, Null)
  BY <1>2, <1>3, <1>5, <1>6, MuxedExact
<1>8. fit <=> CanOutput(o)
  <2>1. CASE o = "rtmp"
    <3>1. \A m \in cfg.media : d[m] = Carried(m)
      BY <1>1, <1>4, <2>1 DEF MosaicEnd
    <3>2. \A m \in cfg.media : Fits(d[m], mux) <=> Carried(m) \cap {"h264", "aac", "mp3"} # {}
      BY <2>1, <3>1, MuxerTakes
    <3>3. CanOutput(o) <=> \A m \in cfg.media : Carried(m) \cap {"h264", "aac", "mp3"} # {}
      BY <2>1, CanOutputIs
    <3> HIDE DEF mux, o
    <3> QED  BY <3>2, <3>3
  <2>2. CASE o = "http"
    <3>1. \A m \in cfg.media : d[m] = Carried(m)
      BY <1>1, <1>4, <2>2 DEF MosaicEnd
    <3>2. \A m \in cfg.media : Fits(d[m], mux) <=> Carried(m) \cap Codecs # {}
      BY <2>2, <3>1, MuxerTakes
    <3>3. CanOutput(o) <=> \A m \in cfg.media : Carried(m) \cap Codecs # {}
      BY <2>2, CanOutputIs
    <3> HIDE DEF mux, o
    <3> QED  BY <3>2, <3>3
  <2>3. CASE o = "udp"
    <3>1. \A m \in cfg.media :
              d[m] = IF (IF m = "video" THEN ~ IsH264Encoder ELSE IsAACEncoder) THEN {"rtp"} ELSE {}
      BY <1>1, <1>4, <2>3 DEF MosaicEnd
    <3>2. \A m \in cfg.media : Fits(d[m], mux) <=> IF m = "video" THEN ~ IsH264Encoder ELSE IsAACEncoder
      BY <2>3, <3>1, MuxerTakes
    <3>3. CanOutput(o) <=> /\ "video" \in cfg.media => ~ IsH264Encoder
                           /\ "audio" \in cfg.media => IsAACEncoder
      BY <2>3, CanOutputIs
    <3> HIDE DEF mux, o
    <3> QED  BY <1>1, <3>2, <3>3
  <2> QED  BY <2>1, <2>2, <2>3
<1> HIDE DEF h
<1> QED  BY <1>7, <1>8 DEF h, mux, o

\* An output of a mosaic to a device, for one medium.
ShowAt(s, m, i) ==
    Chain(s, s.conn[m], <<Element(TeeQueueName[m], i, "queue"), [DeviceSink[m] EXCEPT !.id = i]>>).g
ShowOwn == [video |-> {"video_tee_queue"} \cup {"video_sink"},
            audio |-> {"audio_tee_queue"} \cup {"audio_sink"}]

\* A device takes the raw media of a mosaic.
LEMMA ShowExact ==
    ASSUME NEW s, Sound(s), cfg \in Config, NEW i \in Int, NEW m \in Media,
           Ready(s, s.conn[m], Raw), s.conn[m].plugin = "tee", FreeNames(s, i, ShowOwn[m])
    PROVE  LET h == ShowAt(s, m, i) IN h.ok /\ After(s, h, i, ShowOwn[m], Null) /\ h.conn = s.conn
<1> DEFINE q == Element(TeeQueueName[m], i, "queue")
           sink == [DeviceSink[m] EXCEPT !.id = i]
           branch == [w \in Media |-> <<sink>>]
           es == Queued(m, i, branch)
           d == Flow(Raw, sink)
           r == Chain(s, s.conn[m], es)
<1>1. sink \in Plain
  BY PlainOutputs
<1>2. /\ sink.id = i /\ sink.name = IF m = "video" THEN "video_sink" ELSE "audio_sink"
      /\ sink.plugin = IF m = "video" THEN "autovideosink" ELSE "autoaudiosink"
  BY DEF DeviceSink, Element, Media
<1>3. branch[m] = <<sink>> /\ es = <<q>> \o <<sink>>
  BY DEF Queued
<1> HIDE DEF sink, q
<1>4. <<q>> \o <<sink>> = <<q, sink>>
  BY PairsAndTriples
<1>5. Branch(branch[m], i, {sink.name}, Raw, d)
  <2>1. sink.name # "nullptr"
    BY <1>2
  <2>2. Branch(<<sink>>, sink.id, {sink.name}, Raw, d)
    BY <1>1, <2>1, BranchOne
  <2> HIDE DEF branch, d
  <2> QED  BY <1>2, <1>3, <2>2
<1>6. d # {}
  <2>1. Takes(sink.plugin) = {"raw"}
    BY <1>2, PluginFacts
  <2>2. sink.plugin \notin Transparent
    BY <1>2 DEF Transparent
  <2> QED  BY <2>1, <2>2, OffersSome DEF Flow, Raw
<1>7. TeeQueueName[m] \notin {sink.name} /\ ShowOwn[m] = {TeeQueueName[m]} \cup {sink.name}
  BY <1>2 DEF TeeQueueName, Media, ShowOwn
<1>8. Raw \cap AnyCaps # {}
  BY DEF Raw, AnyCaps
<1> HIDE DEF branch, d, es
<1>9. Branch(es, i, {TeeQueueName[m]} \cup {sink.name}, Raw, d)
  <2>1. Branch(Queued(m, i, branch), i, {TeeQueueName[m]} \cup {sink.name}, Raw, d)
    BY <1>5, <1>7, <1>8, QueuedExact
  <2> QED  BY <2>1 DEF es
<1>10. Branch(es, i, ShowOwn[m], Raw, d)
  BY <1>7, <1>9
<1>11. /\ r.g.ok <=> d # {}
       /\ r.g.conn = s.conn
       /\ d # {} => After(s, r.g, i, ShowOwn[m], s.conn[m])
  BY <1>10, ChainExact
<1>12. ShowAt(s, m, i) = r.g
  <2>1. es = <<q, sink>>
    BY <1>3, <1>4
  <2> QED  BY <2>1 DEF ShowAt, q, sink
<1> HIDE DEF r
<1>13. r.g.ok /\ After(s, r.g, i, ShowOwn[m], Null) /\ r.g.conn = s.conn
  BY <1>6, <1>11, AfterTee
<1> QED  BY <1>12, <1>13

\* An output of a mosaic to a device can always be built.
LEMMA DeviceExact ==
    ASSUME NEW g, cfg \in Config, NEW i \in Int, IsMosaic, OutReady(g, i), cfg.outs[i + 1] = "device"
    PROVE  LET h == OutputStep(g, i) IN h.ok /\ After(g, h, i, OutNames, Null)
<1> DEFINE h == OutputStep(g, i)
           g1 == IF "video" \in cfg.media THEN ShowAt(g, "video", i) ELSE g
           g2 == IF "audio" \in cfg.media THEN ShowAt(g1, "audio", i) ELSE g1
<1>1. h = g2
  BY DEF OutputStep, MosaicOutput, ForMedia, ShowAt
<1>2. "video" \in Media /\ "audio" \in Media
  BY DEF Media
<1>3. /\ Sound(g) /\ Proper(g) /\ Null \notin Elements(g) /\ FreeNames(g, i, OutNames)
      /\ \A m \in Media \cap cfg.media : g.conn[m].plugin = "tee" /\ Ready(g, g.conn[m], Raw)
  <2>1. \A m \in Media : TeeCaps[m] = Raw
    BY DEF TeeCaps
  <2> QED  BY <2>1 DEF OutReady, Teed, Sound, Proper
<1>4. /\ ShowOwn["video"] = {"video_tee_queue", "video_sink"}
      /\ ShowOwn["audio"] = {"audio_tee_queue", "audio_sink"}
  BY DEF ShowOwn
<1>5. {"video_tee_queue", "video_sink", "audio_tee_queue", "audio_sink"} \subseteq OutNames
  BY DEF OutNames
<1>6. After(g, g, i, {}, Null)
  BY <1>3 DEF After
<1>7. g1.ok /\ g1.conn = g.conn /\ After(g, g1, i, ShowOwn["video"], Null)
  <2>1. CASE "video" \in cfg.media
    <3> DEFINE k == ShowAt(g, "video", i)
    <3>1. FreeNames(g, i, ShowOwn["video"])
      BY <1>3, <1>4, <1>5 DEF FreeNames
    <3>2. k.ok /\ After(g, k, i, ShowOwn["video"], Null) /\ k.conn = g.conn
      BY <1>2, <1>3, <2>1, <3>1, ShowExact
    <3> HIDE DEF k
    <3> QED  BY <2>1, <3>2 DEF k
  <2>2. CASE "video" \notin cfg.media
    <3>1. g1 = g
      BY <2>2
    <3> HIDE DEF g1
    <3> QED  BY <1>3, <1>6, <3>1, AfterMore DEF Sound
  <2> QED  BY <2>1, <2>2
<1> HIDE DEF g1
<1>8. g2.ok /\ After(g, g2, i, ShowOwn["video"] \cup ShowOwn["audio"], Null)
  <2>1. CASE "audio" \in cfg.media
    <3> DEFINE k == ShowAt(g1, "audio", i)
    <3>1. FreeNames(g1, i, ShowOwn["audio"]) /\ Sound(g1)
      BY <1>3, <1>4, <1>5, <1>7 DEF FreeNames, After
    <3>2. Ready(g1, g1.conn["audio"], Raw) /\ g1.conn["audio"].plugin = "tee"
      BY <1>2, <1>3, <1>7, <2>1, AfterReady
    <3>3. k.ok /\ After(g1, k, i, ShowOwn["audio"], Null)
      BY <1>2, <3>1, <3>2, ShowExact
    <3> HIDE DEF k
    <3>4. After(g, k, i, ShowOwn["video"] \cup ShowOwn["audio"], Null)
      BY <1>7, <3>3, AfterAfter
    <3>5. g2 = k
      BY <2>1 DEF k
    <3> HIDE DEF g2
    <3> QED  BY <3>3, <3>4, <3>5
  <2>2. CASE "audio" \notin cfg.media
    <3>1. g2 = g1
      BY <2>2
    <3> HIDE DEF g2
    <3> QED  BY <1>7, <3>1, AfterMore
  <2> QED  BY <2>1, <2>2
<1>9. ShowOwn["video"] \cup ShowOwn["audio"] \subseteq OutNames
  BY <1>4, <1>5
<1> HIDE DEF g2, h
<1> QED  BY <1>1, <1>8, <1>9, AfterMore DEF h

\* Output i can be built exactly if its url has a sink and CanOutput says so, and leaves the others theirs.
LEMMA OutputExact ==
    ASSUME NEW g, cfg \in Config, NEW i \in Int, OutReady(g, i), cfg.outs[i + 1] \in Schemes
    PROVE  LET h == OutputStep(g, i) IN
           /\ h.ok <=> HasSink(i) /\ CanOutput(cfg.outs[i + 1])
           /\ h.ok => OutReady(h, i + 1)
<1> DEFINE h == OutputStep(g, i)
           o == cfg.outs[i + 1]
           B == [m \in Media |-> IF IsMosaic THEN MosaicBranch(m, i) ELSE OutputBranch(m, i)]
           k == BuildMuxedOutput(g, i, B)
<1>1. Sound(g) /\ Proper(g) /\ g.ok
  BY DEF OutReady, Sound
<1>2. h.conn = g.conn
  BY <1>1, OutputStepFacts
<1>3. \A m \in Media : B[m] \in Seq(Plain)
  BY PlainOutputs
<1>a. o = "device" => HasSink(i)
  BY DEF HasSink
<1>4. (h.ok <=> HasSink(i) /\ CanOutput(o)) /\ (h.ok => After(g, h, i, OutNames, Null))
  <2>1. CASE o = "device" /\ IsMosaic
    <3>1. h.ok /\ After(g, h, i, OutNames, Null)
      BY <2>1, DeviceExact
    <3> QED  BY <1>a, <2>1, <3>1, CanOutputIs
  <2>2. CASE o = "device" /\ ~ IsMosaic
    <3>1. h = g
      BY <2>2 DEF OutputStep, BuildSchemeOutput
    <3>2. After(g, g, i, OutNames, Null)
      BY <1>1 DEF After
    <3> QED  BY <1>1, <1>a, <2>2, <3>1, <3>2, CanOutputIs
  <2>3. CASE o # "device"
    <3>1. h = k
      <4>1. CASE IsMosaic
        <5>1. B = [m \in Media |-> MosaicBranch(m, i)]
          BY <4>1
        <5>2. h = BuildMuxedOutput(g, i, [m \in Media |-> MosaicBranch(m, i)])
          BY <2>3, <4>1 DEF OutputStep, MosaicOutput
        <5> HIDE DEF B, h
        <5> QED  BY <5>1, <5>2
      <4>2. CASE ~ IsMosaic
        <5>1. B = [m \in Media |-> OutputBranch(m, i)]
          BY <4>2
        <5>2. h = BuildMuxedOutput(g, i, [m \in Media |-> OutputBranch(m, i)])
          BY <2>3, <4>2 DEF OutputStep, BuildSchemeOutput
        <5> HIDE DEF B, h
        <5> QED  BY <5>1, <5>2
      <4> QED  BY <4>1, <4>2
    <3>2. \A m \in Media : B[m] = IF IsMosaic THEN MosaicBranch(m, i) ELSE OutputBranch(m, i)
      OBVIOUS
    <3> HIDE DEF B, h
    <3>3. CASE o = "other"
      <4>1. ~ k.ok
        BY <1>1, <1>3, <3>3, OtherFails
      <4> QED  BY <3>1, <3>3, <4>1, CanOutputIs
    <3>4. CASE o \in {"rtmp", "udp", "http"}
      <4>1. CASE IsMosaic
        <5>1. \A m \in Media : B[m] = MosaicBranch(m, i)
          BY <3>2, <4>1
        <5>2. (k.ok <=> HasSink(i) /\ CanOutput(o)) /\ (k.ok => After(g, k, i, OutNames, Null))
          BY <3>4, <4>1, <5>1, MosaicSchemeExact
        <5> QED  BY <3>1, <5>2
      <4>2. CASE ~ IsMosaic
        <5>1. \A m \in Media : B[m] = OutputBranch(m, i)
          BY <3>2, <4>2
        <5>2. (k.ok <=> HasSink(i) /\ CanOutput(o)) /\ (k.ok => After(g, k, i, OutNames, Null))
          BY <3>4, <4>2, <5>1, SchemeExact
        <5> QED  BY <3>1, <5>2
      <4> QED  BY <4>1, <4>2
    <3> QED  BY <2>3, <3>3, <3>4 DEF Schemes
  <2> QED  BY <2>1, <2>2, <2>3
<1> HIDE DEF h
<1>5. h.ok => OutReady(h, i + 1)
  BY <1>2, <1>4, NextOutput
<1> QED  BY <1>4, <1>5 DEF h, o

\* The loop over the outputs gets to its end exactly if each of them can be built.
LEMMA OutputsExact ==
    ASSUME NEW g, cfg \in Config, OutReady(g, 0)
    PROVE  Outputs(g).ok <=> \A j \in DOMAIN cfg.outs : CanOutput(cfg.outs[j]) /\ HasSink(j - 1)
<1> DEFINE n == Len(cfg.outs)
           h == Outputs(g)
<1>1. n \in Nat /\ DOMAIN cfg.outs = 1 .. n /\ \A k \in 1 .. n : cfg.outs[k] \in Schemes
  <2>1. cfg.outs \in Seq(Schemes)
    BY DEF Config
  <2> QED  BY <2>1, LenProperties, ElementOfSeq
<1> HIDE DEF n
<1>2. PICK p : p[0] = g /\ h = p[n] /\ \A k \in 1 .. n : p[k] = OutputStep(p[k - 1], k - 1)
  BY OutputsSteps DEF n
<1> HIDE DEF h
<1> DEFINE can(j) == CanOutput(cfg.outs[j]) /\ HasSink(j - 1)
<1> HIDE DEF can
<1> DEFINE Done(k) == /\ Proper(p[k]) /\ (p[k].ok <=> \A j \in 1 .. k : can(j))
                      /\ p[k].ok => OutReady(p[k], k)
           Bad == {k \in 0 .. n : ~ Done(k)}
<1>5. Done(0)
  <2>1. Proper(g) /\ g.ok
    BY DEF OutReady, Sound
  <2>2. 1 .. 0 = {}
    OBVIOUS
  <2> QED  BY <1>2, <2>1, <2>2
<1>6. ASSUME NEW k \in 1 .. n, Done(k - 1)  PROVE Done(k)
  <2> DEFINE s == p[k - 1]
             i == k - 1
             x == OutputStep(s, i)
  <2>1. p[k] = x /\ i \in Int /\ i + 1 = k
    BY <1>1, <1>2
  <2>2. Proper(s) /\ (s.ok <=> \A j \in 1 .. k - 1 : can(j)) /\ (s.ok => OutReady(s, i))
    BY <1>6
  <2>3. cfg.outs[i + 1] \in Schemes /\ (can(k) <=> HasSink(i) /\ CanOutput(cfg.outs[i + 1]))
    BY <1>1, <2>1 DEF can
  <2>4. (\A j \in 1 .. k : can(j)) <=> (\A j \in 1 .. k - 1 : can(j)) /\ can(k)
    <3>1. \A j : j \in 1 .. k <=> j \in 1 .. k - 1 \/ j = k
      OBVIOUS
    <3> QED  BY <3>1
  <2> HIDE DEF s, i
  <2>5. Proper(x) /\ (x.ok => s.ok)
    BY <2>1, <2>2, OutputStepFacts DEF Grows
  <2>6. s.ok => (x.ok <=> HasSink(i) /\ CanOutput(cfg.outs[i + 1])) /\ (x.ok => OutReady(x, i + 1))
    BY <2>1, <2>2, <2>3, OutputExact
  <2> HIDE DEF x
  <2> QED  BY <2>1, <2>2, <2>3, <2>4, <2>5, <2>6
<1>7. Bad = {}
  <2> SUFFICES ASSUME Bad # {}  PROVE FALSE
    OBVIOUS
  <2>1. Bad \in SUBSET Nat
    BY <1>1
  <2>2. PICK k \in Bad : \A j \in Bad : k <= j
    <3> HIDE DEF Bad
    <3> QED  BY <2>1, Chained!LeastNumber
  <2>3. k \in 0 .. n /\ ~ Done(k)
    BY <2>2
  <2>4. k # 0
    BY <1>5, <2>3
  <2>5. k \in 1 .. n /\ k - 1 \in 0 .. n /\ ~(k <= k - 1)
    BY <1>1, <2>3, <2>4
  <2>6. Done(k - 1)
    BY <2>2, <2>5
  <2> HIDE DEF Done
  <2> QED  BY <1>6, <2>3, <2>5, <2>6
<1>8. Done(n)
  <2>1. n \in 0 .. n
    BY <1>1
  <2>2. n \notin Bad
    BY <1>7
  <2> HIDE DEF Done
  <2> QED  BY <2>1, <2>2
<1> QED  BY <1>1, <1>2, <1>8 DEF h, can

\* After the converter the tees are there, and no name of an output is taken.
LEMMA ConvertedReady ==
    ASSUME NEW g, cfg \in Config, ~ IsMosaic, cfg.kind # "recorder", AtOut(g)
    PROVE  OutReady(g, 0)
<1>1. OutNames \cap ConvNames = {}
  BY DEF OutNames, ConvNames, PostNames, UdbNames, InputNames
<1>2. \A j \in Int : FreeNames(g, j, OutNames)
  BY <1>1 DEF AtOut, NamesIn, FreeNames
<1>3. \A m \in cfg.media : m \in Media /\ TeeCaps[m] = FromConv[m]
  BY DEF TeeCaps, FromConv, Config
<1>4. Teed(g, TeeCaps)
  BY <1>3 DEF AtOut, Conns, Teed
<1> QED  BY <1>2, <1>4 DEF OutReady, AtOut

\* The sink of a test stream takes whatever a medium carries.
TestAt(s, m) ==
    Chain(s, s.conn[m], <<Element("sink", IF m = "video" THEN 0 ELSE 1, "testsink")>>).g

\* It is linked, whatever the medium carries.
LEMMA TestSinkExact ==
    ASSUME NEW s, Sound(s), cfg \in Config, NEW m \in Media, NEW i \in Int,
           i = (IF m = "video" THEN 0 ELSE 1),
           NEW c, Ready(s, s.conn[m], c), c \cap AnyCaps # {},
           s.conn[m].plugin = "tee", FreeNames(s, i, {"sink"})
    PROVE  LET h == TestAt(s, m) IN h.ok /\ After(s, h, i, {"sink"}, Null) /\ h.conn = s.conn
<1> DEFINE e == Element("sink", i, "testsink")
           es == <<e>>
           d == Flow(c, e)
           r == Chain(s, s.conn[m], es)
<1>1. e \in Plain /\ e.id = i /\ e.name = "sink" /\ e.plugin = "testsink"
  BY PlainOutputs DEF Element
<1>2. TestAt(s, m) = r.g
  BY DEF TestAt
<1> HIDE DEF e
<1>3. Branch(es, i, {"sink"}, c, d)
  <2>1. e.name # "nullptr"
    BY <1>1
  <2>2. Branch(<<e>>, e.id, {e.name}, c, d)
    BY <1>1, <2>1, BranchOne
  <2> HIDE DEF d
  <2> QED  BY <1>1, <2>2
<1>4. d # {}
  <2>1. Takes(e.plugin) = AnyCaps /\ e.plugin \notin Transparent
    BY <1>1, PluginFacts DEF Transparent
  <2> QED  BY <2>1, OffersSome DEF Flow
<1> HIDE DEF d, es
<1>5. /\ r.g.ok <=> d # {}
      /\ r.g.conn = s.conn
      /\ d # {} => After(s, r.g, i, {"sink"}, s.conn[m])
  BY <1>3, ChainExact
<1> HIDE DEF r
<1> QED  BY <1>2, <1>4, <1>5, AfterTee

\* The output of a test stream is always built.
LEMMA TestOutputExact ==
    ASSUME NEW g, cfg \in Config, cfg.kind = "test_life", AtOut(g)
    PROVE  BuildOutput(g).ok
<1> DEFINE h == BuildOutput(g)
           g1 == IF "video" \in cfg.media THEN TestAt(g, "video") ELSE g
           g2 == IF "audio" \in cfg.media THEN TestAt(g1, "audio") ELSE g1
<1>1. h = g2
  BY DEF BuildOutput, ForMedia, TestOutput, TestAt
<1>2. ~ IsMosaic /\ "video" \in Media /\ "audio" \in Media /\ 0 \in Int /\ 1 \in Int
  BY DEF IsMosaic, Media
<1>3. OutReady(g, 0)
  BY <1>2, ConvertedReady
<1>4. "sink" \in OutNames
  BY DEF OutNames
<1>5. /\ Sound(g) /\ Proper(g) /\ g.ok /\ FreeNames(g, 0, {"sink"}) /\ FreeNames(g, 1, {"sink"})
      /\ \A m \in cfg.media : g.conn[m].plugin = "tee" /\ Ready(g, g.conn[m], TeeCaps[m])
  BY <1>3, <1>4 DEF OutReady, Teed, FreeNames, Sound
<1>6. \A m \in Media : TeeCaps[m] \cap AnyCaps # {}
  <2> SUFFICES ASSUME NEW m \in Media  PROVE TeeCaps[m] \cap AnyCaps # {}
    OBVIOUS
  <2>1. TeeCaps[m] = Carried(m)
    BY <1>2 DEF TeeCaps
  <2>2. Carried(m) \cap AnyCaps # {}
    BY CarriedIs
  <2> QED  BY <2>1, <2>2
<1>7. g1.ok /\ g1.conn = g.conn /\ Sound(g1) /\ FreeNames(g1, 1, {"sink"})
      /\ \A x, c : Ready(g, x, c) => Ready(g1, x, c)
  <2>1. CASE "video" \in cfg.media
    <3> DEFINE k == TestAt(g, "video")
    <3>1. k.ok /\ After(g, k, 0, {"sink"}, Null) /\ k.conn = g.conn
      BY <1>2, <1>5, <1>6, <2>1, TestSinkExact
    <3>2. g1 = k
      BY <2>1
    <3> HIDE DEF k, g1
    <3>3. Sound(k) /\ FreeNames(k, 1, {"sink"})
      BY <1>5, <3>1 DEF After, FreeNames
    <3>4. \A x, c : Ready(g, x, c) => Ready(k, x, c)
      BY <1>5, <3>1, AfterReady
    <3> QED  BY <3>1, <3>2, <3>3, <3>4
  <2>2. CASE "video" \notin cfg.media
    BY <1>5, <2>2
  <2> QED  BY <2>1, <2>2
<1> HIDE DEF g1
<1>8. g2.ok
  <2>1. CASE "audio" \in cfg.media
    <3> DEFINE k == TestAt(g1, "audio")
    <3>1. g1.conn["audio"].plugin = "tee" /\ Ready(g1, g1.conn["audio"], TeeCaps["audio"])
      BY <1>5, <1>7, <2>1
    <3>2. k.ok
      BY <1>2, <1>6, <1>7, <3>1, TestSinkExact
    <3> HIDE DEF k
    <3> QED  BY <2>1, <3>2 DEF k
  <2>2. CASE "audio" \notin cfg.media
    BY <1>7, <2>2
  <2> QED  BY <2>1, <2>2
<1> HIDE DEF g2, h
<1> QED  BY <1>1, <1>8 DEF h

\* A recorder needs both media: the sink is linked to the connectors of both.
LEMMA RecorderExact ==
    ASSUME NEW g, cfg \in Config, cfg.kind = "recorder", AtOut(g)
    PROVE  BuildOutput(g).ok <=> cfg.media = Media
<1> DEFINE sink == Element("splitmuxsink", 0, "splitmuxsink")
           ca == g.conn["audio"]
           cv == g.conn["video"]
           a == ElementAdd(g, sink)
           b == ElementLink(a, ca, sink)
           h == ElementLink(b, cv, sink)
<1>1. BuildOutput(g) = h
  BY DEF BuildOutput, RecorderOutput
<1>2. /\ sink \in Plain /\ sink.name = "splitmuxsink" /\ sink.id = 0
      /\ sink.plugin = "splitmuxsink"
  <2>1. 0 \in Int
    OBVIOUS
  <2>2. sink \in Plain
    BY <2>1, PlainOutputs
  <2> QED  BY <2>2 DEF Element
<1>3. Part(sink) /\ sink.name # "nullptr"
  BY <1>2, PlainIsPart
<1>4. Sound(g) /\ Proper(g) /\ NamesIn(g, ConvNames) /\ Rest(g) /\ Conns(g, FromConv)
  BY DEF AtOut, Sound
<1>5. FreeNames(g, 0, {"splitmuxsink"})
  <2>1. "splitmuxsink" \notin ConvNames
    BY DEF ConvNames, PostNames, UdbNames, InputNames
  <2> QED  BY <1>4, <2>1 DEF NamesIn, FreeNames
<1> HIDE DEF sink
<1>6. /\ After(g, a, 0, {"splitmuxsink"}, Null)
      /\ sink \in Elements(a) /\ sink \notin Elements(g)
  BY <1>2, <1>3, <1>4, <1>5, AddExact DEF Open
<1> HIDE DEF a
<1>7. Sound(a) /\ Proper(a)
  BY <1>6 DEF After, Sound
<1>8. sink.plugin \in Joins /\ sink.plugin \notin Transparent /\ Takes(sink.plugin) = AnyCaps
  BY <1>2, PluginFacts DEF Joins, Transparent
<1>9. CASE cfg.media = Media
  <2>1. /\ Ready(g, ca, FromConv["audio"]) /\ Ready(g, cv, FromConv["video"]) /\ ca # cv
        /\ FromConv["audio"] \cap AnyCaps # {} /\ FromConv["video"] \cap AnyCaps # {}
    <3>1. FromConv["audio"] = Carried("audio") /\ FromConv["video"] = Carried("video")
          /\ "audio" \in Media /\ "video" \in Media
      BY DEF FromConv, Media
    <3>2. Carried("audio") \cap AnyCaps # {} /\ Carried("video") \cap AnyCaps # {}
      BY <3>1, CarriedIs
    <3>3. Ready(g, ca, FromConv["audio"]) /\ Ready(g, cv, FromConv["video"]) /\ ca # cv
      BY <1>4, <1>9, <3>1 DEF Conns
    <3> QED  BY <3>1, <3>2, <3>3
  <2> HIDE DEF ca, cv
  <2>2. Ready(a, ca, FromConv["audio"]) /\ Ready(a, cv, FromConv["video"])
    BY <1>4, <1>6, <2>1, AfterReady
  <2>3. /\ Open(a, ca) /\ Open(a, cv) /\ ca # sink /\ cv # sink
        /\ a.offers[ca] = FromConv["audio"] /\ a.offers[cv] = FromConv["video"]
        /\ cv \in Elements(a)
    BY <1>6, <2>1, <2>2 DEF Ready, Open
  <2>4. a.offers[ca] \cap Takes(sink.plugin) # {}
    BY <1>8, <2>1, <2>3
  <2>5. /\ Sound(b) /\ Elements(b) = Elements(a)
        /\ \A x \in Elements(a) : x # sink => b.offers[x] = a.offers[x]
        /\ \A x : Open(a, x) /\ (x # ca \/ x.plugin = "tee") => Open(b, x)
    BY <1>6, <1>7, <1>8, <2>3, <2>4, LinkExact
  <2> HIDE DEF b
  <2>6. Open(b, cv) /\ b.offers[cv] = FromConv["video"] /\ sink \in Elements(b)
    BY <1>6, <2>1, <2>3, <2>5
  <2>7. b.offers[cv] \cap Takes(sink.plugin) # {}
    BY <1>8, <2>1, <2>6
  <2>8. h.ok
    BY <1>8, <2>3, <2>5, <2>6, <2>7, LinkExact
  <2> HIDE DEF h
  <2> QED  BY <1>1, <1>9, <2>8
<1>10. CASE cfg.media # Media
  <2>1. Null \notin Elements(a)
    BY <1>7 DEF Proper
  <2>2. Proper(b) /\ Elements(b) = Elements(a) /\ (b.ok => ca \in Elements(a))
    BY <1>7, LinkFacts
  <2> HIDE DEF b
  <2>3. h.ok => b.ok /\ cv \in Elements(b)
    BY <2>2, LinkFacts
  <2> HIDE DEF h
  <2>4. PICK m \in Media : m \notin cfg.media
    BY <1>10 DEF Config
  <2>5. g.conn[m] = Null
    BY <1>4, <2>4 DEF Rest
  <2>6. ca = Null \/ cv = Null
    BY <2>5 DEF Media
  <2> QED  BY <1>1, <1>10, <2>1, <2>2, <2>3, <2>6
<1> QED  BY <1>9, <1>10

\* The last stage ends the process exactly for what cannot be built.
LEMMA OutExact ==
    ASSUME NEW g, cfg \in Config, ~ IsMosaic, Sourced, AtOut(g)
    PROVE  BuildOutput(g).ok <=> Buildable
<1>1. NoDevice /\ ~ FilterFails
  BY DEF AtOut
<1>2. CASE cfg.kind = "test_life"
  <2>1. Buildable
    BY <1>2 DEF Buildable
  <2> QED  BY <1>2, <2>1, TestOutputExact
<1>3. CASE cfg.kind = "recorder"
  <2>1. Buildable <=> cfg.media = Media
    BY <1>3 DEF Buildable
  <2> QED  BY <1>3, <2>1, RecorderExact
<1>4. CASE cfg.kind \notin {"test_life", "recorder"}
  <2>1. Buildable <=> \A j \in DOMAIN cfg.outs : CanOutput(cfg.outs[j]) /\ HasSink(j - 1)
    BY <1>1, <1>4 DEF Buildable, NoDevice, FilterFails, Filtered
  <2>2. BuildOutput(g) = Outputs(g)
    BY <1>4 DEF BuildOutput
  <2>3. OutReady(g, 0)
    BY <1>4, ConvertedReady
  <2> QED  BY <2>1, <2>2, <2>3, OutputsExact
<1> QED  BY <1>2, <1>3, <1>4

(***************************************************************************)
(* What can be built: the inputs of a mosaic                               *)
(***************************************************************************)

\* The names of the elements of one input of a mosaic.
MixOwn == [video |-> {"udb_conn_video"} \cup
                     {"mux_videoscale", "mux_videoscale_capsfilter", "videobox"},
           audio |-> {"udb_conn_audio"} \cup {"level"}]
MosaicInNames == {"src", "decodebin"} \cup MixOwn["video"] \cup MixOwn["audio"]
MixerNames == {"videomixer", "interlive"}

\* The filters between an entry and its mixer make raw media of what comes.
LEMMA MosaicFiltersExact ==
    ASSUME cfg \in Config, NEW i \in Int, NEW m \in Media
    PROVE  /\ Branch(MosaicFilters(m, i), i, MixOwn[m] \ {UdbName[m]}, AnyCaps, Raw)
           /\ Some(MosaicFilters(m, i))
<1>1. {"mux_videoscale", "mux_videoscale_capsfilter", "videobox", "level"}
        \subseteq PlainNames \ {"nullptr"}
  BY DEF PlainNames
<1>2. {"videoscale", "capsfilter", "videobox", "level"} \subseteq PlainPlugins
  BY DEF PlainPlugins, RawFilters, Transparent
<1>3. {"videoscale", "videobox", "level"} \subseteq RawFilters /\ "capsfilter" \in Transparent
  BY DEF RawFilters, Transparent
<1>4. "raw" \in AnyCaps /\ "raw" \in Raw /\ Raw \cap AnyCaps # {}
  BY DEF AnyCaps, Raw
<1>5. CASE m = "video"
  <2> DEFINE a == <<Element("mux_videoscale", i, "videoscale")>>
             b == <<Element("mux_videoscale_capsfilter", i, "capsfilter")>>
             c == <<Element("videobox", i, "videobox")>>
  <2>1. Branch(a, i, {"mux_videoscale"}, AnyCaps, Raw)
    BY <1>1, <1>2, <1>3, <1>4, BranchElement DEF Raw
  <2>2. Branch(b, i, {"mux_videoscale_capsfilter"}, Raw, Raw)
    BY <1>1, <1>2, <1>3, <1>4, BranchElement
  <2>3. Branch(c, i, {"videobox"}, Raw, Raw)
    BY <1>1, <1>2, <1>3, <1>4, BranchElement DEF Raw
  <2>4. MosaicFilters(m, i) = a \o b \o c
    BY <1>5, PairsAndTriples DEF MosaicFilters
  <2>5. Some(MosaicFilters(m, i))
    BY <1>5 DEF MosaicFilters, Some
  <2> HIDE DEF a, b, c
  <2>6. Branch(a \o b, i, {"mux_videoscale"} \cup {"mux_videoscale_capsfilter"}, AnyCaps, Raw)
    BY <2>1, <2>2, BranchJoin
  <2>7. Branch(a \o b \o c, i, ({"mux_videoscale"} \cup {"mux_videoscale_capsfilter"})
                               \cup {"videobox"}, AnyCaps, Raw)
    BY <2>3, <2>6, BranchJoin
  <2>8. ({"mux_videoscale"} \cup {"mux_videoscale_capsfilter"}) \cup {"videobox"}
          = MixOwn[m] \ {UdbName[m]}
    BY <1>5 DEF MixOwn, UdbName
  <2> QED  BY <2>4, <2>5, <2>7, <2>8
<1>6. CASE m = "audio"
  <2> DEFINE a == <<Element("level", i, "level")>>
  <2>1. Branch(a, i, {"level"}, AnyCaps, Raw)
    BY <1>1, <1>2, <1>3, <1>4, BranchElement DEF Raw
  <2>2. MosaicFilters(m, i) = a
    BY <1>6 DEF MosaicFilters
  <2>3. Some(MosaicFilters(m, i))
    BY <1>6 DEF MosaicFilters, Some
  <2>4. {"level"} = MixOwn[m] \ {UdbName[m]}
    BY <1>6 DEF MixOwn, UdbName
  <2> HIDE DEF a
  <2> QED  BY <2>1, <2>2, <2>3, <2>4
<1> QED  BY <1>5, <1>6 DEF Media

\* The branch of a medium of an input of a mosaic is always built.
LEMMA MixExact ==
    ASSUME NEW s, Sound(s), cfg \in Config, IsMosaic, NEW m \in Media, NEW i \in Inputs, i \in Int,
           Joining(s, MosaicMix[m]), FreeNames(s, i, MixOwn[m])
    PROVE  LET h == MixBranch(s, m, i) IN After(s, h, i, MixOwn[m], Null)
<1> DEFINE q == Element(UdbName[m], i, "queue")
           a == ElementAdd(s, q)
           es == MosaicFilters(m, i)
           mix == MosaicMix[m]
           S == MixOwn[m] \ {UdbName[m]}
           k == JoinFrom(a, q, es, mix)
<1>1. MixBranch(s, m, i) = k
  BY DEF MixBranch, JoinFrom
<1>2. q.name = UdbName[m] /\ q.id = i /\ q.plugin = "queue"
  BY DEF Element
<1>3. UdbName[m] \in {"udb_conn_video", "udb_conn_audio"} /\ UdbName[m] \in MixOwn[m]
  BY DEF Media, UdbName, MixOwn
<1>4. Part(q) /\ q.name # "nullptr"
  <2>1. ~ IsRelay /\ cfg.kind # "test_input"
    BY DEF IsMosaic, IsRelay, Relays
  <2> HIDE DEF q
  <2> QED  BY <1>2, <1>3, <2>1 DEF Part
<1>5. Branch(es, i, S, AnyCaps, Raw) /\ Some(es)
  BY MosaicFiltersExact
<1>6. mix.plugin \in {"videomixer", "audiomixer"}
  BY DEF MosaicMix, VMix, AMix, Element, Media
<1> HIDE DEF q, es, mix
<1>7. FreeNames(s, q.id, {q.name}) /\ FreeNames(s, i, S)
  BY <1>2, <1>3 DEF FreeNames
<1>8. /\ After(s, a, q.id, {q.name}, Null) /\ Open(a, q) /\ q \notin Elements(s)
      /\ a.offers[q] = Offers(q.plugin)
  BY <1>4, <1>7, AddExact
<1> HIDE DEF a
<1>9. Sound(a) /\ Ready(a, q, AnyCaps) /\ Joining(a, mix)
  <2>1. AnyCaps # {} /\ a.offers[q] = AnyCaps
    BY <1>2, <1>8, PluginFacts DEF AnyCaps
  <2>2. Joining(a, mix)
    BY <1>8 DEF Joining, After, mix
  <2> QED  BY <1>8, <2>1, <2>2 DEF After, Ready
<1>10. FreeNames(a, i, S)
  BY <1>2, <1>7, <1>8 DEF FreeNames, After
<1>11. Fits(Raw, mix)
  BY <1>6, PluginFacts DEF Fits, Raw
<1> HIDE DEF S
<1>12. (k.ok <=> Fits(Raw, mix)) /\ (k.ok => After(a, k, i, S, q))
  BY <1>5, <1>9, <1>10, JoinFromExact
<1> HIDE DEF k
<1>13. After(a, k, i, S, q)
  BY <1>11, <1>12
<1>14. After(s, a, i, {UdbName[m]}, Null)
  BY <1>2, <1>8
<1>15. After(s, k, i, {UdbName[m]} \cup S, Null)
  BY <1>8, <1>13, <1>14, AfterAfter
<1>16. {UdbName[m]} \cup S = MixOwn[m]
  BY <1>3 DEF S
<1> QED  BY <1>1, <1>15, <1>16

\* Between the inputs of a mosaic: both mixers are there, with nothing behind
\* them, and the names of the inputs from i on are free.
MixReady(g, i) ==
    /\ Sound(g) /\ NamesIn(g, MosaicInNames \cup MixerNames)
    /\ \A m \in Media : Ready(g, MosaicMix[m], Raw)
    /\ \A j \in Int : j >= i => FreeNames(g, j, MosaicInNames)

\* The mixers are the first elements.
LEMMA MixersReady ==
    ASSUME cfg \in Config
    PROVE  MixReady(MosaicMixers, 0)
<1> DEFINE a == ElementAdd(EmptyGraph, VMix)
           b == ElementAdd(a, AMix)
<1>1. MosaicMixers = b
  BY DEF MosaicMixers
<1>2. /\ VMix.name = "videomixer" /\ VMix.id = 0 /\ VMix.plugin = "videomixer"
      /\ AMix.name = "interlive" /\ AMix.id = 0 /\ AMix.plugin = "audiomixer"
      /\ MosaicMix["video"] = VMix /\ MosaicMix["audio"] = AMix
  BY DEF VMix, AMix, Element, MosaicMix
<1>3. Part(VMix) /\ Part(AMix)
  <2>1. 0 \in Int /\ "video" \in Media
    BY DEF Media
  <2> QED  BY <2>1, PlainMosaic, PlainIsPart
<1>4. Sound(EmptyGraph) /\ Elements(EmptyGraph) = {}
  BY EmptyIsSound, EmptyIsProper
<1>5. FreeNames(EmptyGraph, VMix.id, {VMix.name}) /\ VMix.name # "nullptr" /\ AMix.name # "nullptr"
  BY <1>2, <1>4 DEF FreeNames
<1>6. /\ After(EmptyGraph, a, VMix.id, {VMix.name}, Null) /\ Open(a, VMix)
      /\ a.offers[VMix] = Offers(VMix.plugin)
  BY <1>3, <1>4, <1>5, AddExact
<1> HIDE DEF a
<1>7. Sound(a) /\ FreeNames(a, AMix.id, {AMix.name}) /\ Proper(a)
  BY <1>2, <1>4, <1>6 DEF FreeNames, After, Sound
<1>8. /\ After(a, b, AMix.id, {AMix.name}, Null) /\ Open(b, AMix)
      /\ b.offers[AMix] = Offers(AMix.plugin)
  BY <1>3, <1>5, <1>7, AddExact
<1> HIDE DEF b
<1>9. Offers(VMix.plugin) = Raw /\ Offers(AMix.plugin) = Raw /\ Raw # {}
  BY <1>2, PluginFacts DEF Raw
<1>10. Ready(b, VMix, Raw) /\ Ready(b, AMix, Raw)
  <2>1. Ready(a, VMix, Raw)
    BY <1>6, <1>9 DEF Ready
  <2>2. Ready(b, VMix, Raw)
    BY <1>7, <1>8, <2>1, AfterReady
  <2> QED  BY <1>8, <1>9, <2>2 DEF Ready
<1>11. \A x \in Elements(b) : x.name \in MixerNames
  BY <1>2, <1>4, <1>6, <1>8 DEF After, MixerNames
<1>12. MixerNames \cap MosaicInNames = {}
  BY DEF MixerNames, MosaicInNames, MixOwn
<1>13. NamesIn(b, MosaicInNames \cup MixerNames) /\ \A j \in Int : FreeNames(b, j, MosaicInNames)
  BY <1>11, <1>12 DEF NamesIn, FreeNames
<1>14. \A m \in Media : Ready(b, MosaicMix[m], Raw)
  BY <1>2, <1>10 DEF Media
<1>15. Sound(b)
  BY <1>8 DEF After
<1>16. MixReady(b, 0)
  BY <1>13, <1>14, <1>15 DEF MixReady
<1> QED  BY <1>1, <1>16

\* An input of a mosaic that has a source is built, and leaves the mixers ready for the next.
LEMMA MosaicInputExact ==
    ASSUME NEW g, cfg \in Config, IsMosaic, NEW i \in Inputs, i \in Int, HasSource(i),
           MixReady(g, i)
    PROVE  MixReady(MosaicInput(g, i), i + 1)
<1> DEFINE a == DecodedInput(g, i)
           g1 == IF "video" \in cfg.media THEN MixBranch(a, "video", i) ELSE a
           g2 == IF "audio" \in cfg.media THEN MixBranch(g1, "audio", i) ELSE g1
           In == {"src", "decodebin"}
           V == MixOwn["video"]
           A == MixOwn["audio"]
<1>1. MosaicInput(g, i) = g2
  BY DEF MosaicInput, ForMedia, MixBranch
<1>2. /\ "video" \in Media /\ "audio" \in Media /\ cfg.kind # "test_input"
      /\ In \cap V = {} /\ In \cap A = {} /\ V \cap A = {}
  BY DEF Media, IsMosaic, MixOwn
<1>3. MosaicInNames = (In \cup V) \cup A
  BY DEF MosaicInNames
<1> HIDE DEF In, V, A
<1>4. Sound(g) /\ Proper(g) /\ FreeNames(g, i, (In \cup V) \cup A)
  BY <1>3 DEF MixReady, Sound
<1>5. FreeNames(g, i, In) /\ FreeNames(g, i, V) /\ FreeNames(g, i, A)
  BY <1>4 DEF FreeNames
<1>6. \A m \in Media : Joining(g, MosaicMix[m])
  <2>1. \A m \in Media : MosaicMix[m].plugin \in Joins
    BY DEF MosaicMix, VMix, AMix, Element, Media, Joins
  <2> QED  BY <2>1 DEF MixReady, Ready, Open, Joining
<1>7. After(g, a, i, In, Null)
  <2>1. FreeNames(g, i, {"src", "decodebin"})
    BY <1>5 DEF In
  <2>2. After(g, a, i, {"src", "decodebin"}, Null)
    BY <1>2, <1>4, <2>1, DecodedExact
  <2> QED  BY <2>2 DEF In
<1> HIDE DEF a
<1>8. Sound(a) /\ FreeNames(a, i, V) /\ FreeNames(a, i, A) /\ \A m \in Media : Joining(a, MosaicMix[m])
  BY <1>2, <1>5, <1>6, <1>7 DEF After, FreeNames, Joining
<1>9. After(g, g1, i, In \cup V, Null)
  <2>1. CASE "video" \in cfg.media
    <3> DEFINE k == MixBranch(a, "video", i)
    <3>1. After(a, k, i, V, Null)
      BY <1>2, <1>8, MixExact DEF V
    <3>2. g1 = k
      BY <2>1
    <3> HIDE DEF k, g1
    <3> QED  BY <1>7, <3>1, <3>2, AfterAfter
  <2>2. CASE "video" \notin cfg.media
    <3>1. g1 = a
      BY <2>2
    <3> HIDE DEF g1
    <3> QED  BY <1>7, <3>1, AfterMore
  <2> QED  BY <2>1, <2>2
<1> HIDE DEF g1
<1>10. Sound(g1) /\ FreeNames(g1, i, A) /\ \A m \in Media : Joining(g1, MosaicMix[m])
  BY <1>2, <1>5, <1>6, <1>9 DEF After, FreeNames, Joining
<1>11. After(g, g2, i, (In \cup V) \cup A, Null)
  <2>1. CASE "audio" \in cfg.media
    <3> DEFINE k == MixBranch(g1, "audio", i)
    <3>1. After(g1, k, i, A, Null)
      BY <1>2, <1>10, MixExact DEF A
    <3>2. g2 = k
      BY <2>1
    <3> HIDE DEF k, g2
    <3> QED  BY <1>9, <3>1, <3>2, AfterAfter
  <2>2. CASE "audio" \notin cfg.media
    <3>1. g2 = g1
      BY <2>2
    <3> HIDE DEF g2
    <3> QED  BY <1>9, <3>1, AfterMore
  <2> QED  BY <2>1, <2>2
<1> HIDE DEF g2
<1>12. After(g, g2, i, MosaicInNames, Null)
  BY <1>3, <1>11
<1>13. \A m \in Media : Ready(g2, MosaicMix[m], Raw)
  BY <1>4, <1>12, AfterReady DEF MixReady
<1>14. NamesIn(g2, MosaicInNames \cup MixerNames)
  BY <1>12 DEF After, NamesIn, MixReady
<1>15. ASSUME NEW j \in Int, j >= i + 1  PROVE FreeNames(g2, j, MosaicInNames)
  <2>1. j >= i /\ j # i
    BY <1>15
  <2>2. FreeNames(g, j, MosaicInNames)
    BY <2>1 DEF MixReady
  <2> QED  BY <1>12, <2>1, <2>2 DEF After, FreeNames
<1>16. Sound(g2)
  BY <1>12 DEF After
<1>17. MixReady(g2, i + 1)
  BY <1>13, <1>14, <1>15, <1>16 DEF MixReady
<1> QED  BY <1>1, <1>17

\* All the inputs of a mosaic are built, however many it has, if there is a source
\* for each of them.
LEMMA MosaicInputsExact ==
    ASSUME cfg \in Config, IsMosaic, Sourced
    PROVE  MixReady(MosaicInputs, cfg.inputs)
<1> DEFINE n == cfg.inputs
<1>1. n \in Nat /\ \A k \in 1 .. n : k - 1 \in Inputs /\ k - 1 \in Int
  BY MosaicInputsSteps DEF Inputs
<1>2. PICK p : /\ p[0] = MosaicMixers /\ MosaicInputs = p[n]
               /\ \A k \in 1 .. n : p[k] = MosaicInput(p[k - 1], k - 1)
  BY MosaicInputsSteps
<1> HIDE DEF n
<1> DEFINE Done(k) == MixReady(p[k], k)
           Bad == {k \in 0 .. n : ~ Done(k)}
<1>3. Done(0)
  BY <1>2, MixersReady
<1>4. ASSUME NEW k \in 1 .. n, Done(k - 1)  PROVE Done(k)
  <2> DEFINE i == k - 1
             s == p[k - 1]
             x == MosaicInput(s, i)
  <2>1. p[k] = x /\ i \in Inputs /\ i \in Int /\ i + 1 = k
    BY <1>1, <1>2
  <2>2. MixReady(s, i)
    BY <1>4
  <2> HIDE DEF s, i
  <2>a. HasSource(i)
    BY <1>1, <2>1 DEF Sourced, Inputs
  <2>3. MixReady(x, i + 1)
    BY <2>1, <2>2, <2>a, MosaicInputExact
  <2> HIDE DEF x
  <2> QED  BY <2>1, <2>3
<1>5. Bad = {}
  <2> SUFFICES ASSUME Bad # {}  PROVE FALSE
    OBVIOUS
  <2>1. Bad \in SUBSET Nat
    BY <1>1
  <2>2. PICK k \in Bad : \A j \in Bad : k <= j
    <3> HIDE DEF Bad
    <3> QED  BY <2>1, Chained!LeastNumber
  <2>3. k \in 0 .. n /\ ~ Done(k)
    BY <2>2
  <2>4. k # 0
    BY <1>3, <2>3
  <2>5. k \in 1 .. n /\ k - 1 \in 0 .. n /\ ~(k <= k - 1)
    BY <1>1, <2>3, <2>4
  <2>6. Done(k - 1)
    BY <2>2, <2>5
  <2> HIDE DEF Done
  <2> QED  BY <1>4, <2>3, <2>5, <2>6
<1>6. Done(n)
  <2>1. n \in 0 .. n
    BY <1>1
  <2>2. n \notin Bad
    BY <1>5
  <2> HIDE DEF Done
  <2> QED  BY <2>1, <2>2
<1> QED  BY <1>2, <1>6 DEF n

\* What a mosaic puts behind its mixers.
MosaicElements(m) ==
    (IF m = "video" THEN <<Element("cairo", 0, "cairooverlay")>> \o VideoConvert
     ELSE AudioConverters) \o Tee(m)
MosaicConvOwn ==
    [video |-> {"cairo"} \cup {"video_convert", "deinterlace"} \cup {"video_tee"},
     audio |-> {"audio_convert", "audio_convert_capsfilter", "volume"} \cup {"audio_tee"}]
AllRaw == [m \in Media |-> Raw]

\* It passes on raw media to a tee.
LEMMA MosaicElementsExact ==
    ASSUME cfg \in Config, NEW m \in Media
    PROVE  /\ Branch(MosaicElements(m), 0, MosaicConvOwn[m], Raw, Raw)
           /\ \A x : EndsAt(x, MosaicElements(m)) => x.plugin = "tee"
<1>1. "raw" \in Raw /\ Raw \cap AnyCaps # {} /\ 0 \in Int
  BY DEF Raw, AnyCaps
<1>2. /\ Branch(VideoConvert, 0, {"video_convert", "deinterlace"}, Raw, Raw)
      /\ Branch(AudioConverters, 0, {"audio_convert", "audio_convert_capsfilter", "volume"}, Raw, Raw)
      /\ Branch(Tee(m), 0, {TeeName[m]}, Raw, Raw)
  BY <1>1, Parts
<1>3. CASE m = "video"
  <2> DEFINE a == <<Element("cairo", 0, "cairooverlay")>>
             b == a \o VideoConvert
  <2>1. Branch(a, 0, {"cairo"}, Raw, Raw)
    <3>1. "cairo" \in PlainNames \ {"nullptr"}
      BY DEF PlainNames
    <3>2. "cairooverlay" \in PlainPlugins /\ "cairooverlay" \in RawFilters
      BY DEF PlainPlugins, RawFilters
    <3> QED  BY <1>1, <3>1, <3>2, BranchElement DEF Raw
  <2>2. MosaicElements(m) = b \o Tee(m)
    BY <1>3 DEF MosaicElements
  <2> HIDE DEF a
  <2>3. {"cairo"} \cap {"video_convert", "deinterlace"} = {}
    OBVIOUS
  <2>4. Branch(b, 0, {"cairo"} \cup {"video_convert", "deinterlace"}, Raw, Raw)
    BY <1>2, <2>1, <2>3, BranchJoin
  <2> HIDE DEF b
  <2>5. /\ ({"cairo"} \cup {"video_convert", "deinterlace"}) \cap {TeeName[m]} = {}
        /\ MosaicConvOwn[m] = ({"cairo"} \cup {"video_convert", "deinterlace"}) \cup {TeeName[m]}
    BY <1>3 DEF MosaicConvOwn, TeeName
  <2>6. Branch(b \o Tee(m), 0, ({"cairo"} \cup {"video_convert", "deinterlace"}) \cup {TeeName[m]},
               Raw, Raw)
    BY <1>2, <2>4, <2>5, BranchJoin
  <2>7. b \in Seq(Plain)
    BY <2>4 DEF Branch
  <2>8. \A x : EndsAt(x, b \o Tee(m)) => x.plugin = "tee"
    BY <2>7, EndsWithTee
  <2> QED  BY <2>2, <2>5, <2>6, <2>8
<1>4. CASE m = "audio"
  <2> DEFINE T == {"audio_convert", "audio_convert_capsfilter", "volume"}
  <2>1. MosaicElements(m) = AudioConverters \o Tee(m)
    BY <1>4 DEF MosaicElements
  <2>2. T \cap {TeeName[m]} = {} /\ MosaicConvOwn[m] = T \cup {TeeName[m]}
    BY <1>4 DEF MosaicConvOwn, TeeName
  <2>3. Branch(AudioConverters, 0, T, Raw, Raw)
    BY <1>2
  <2> HIDE DEF T
  <2>4. Branch(AudioConverters \o Tee(m), 0, T \cup {TeeName[m]}, Raw, Raw)
    BY <1>2, <2>2, <2>3, BranchJoin
  <2>5. AudioConverters \in Seq(Plain)
    BY <1>2 DEF Branch
  <2>6. \A x : EndsAt(x, AudioConverters \o Tee(m)) => x.plugin = "tee"
    BY <2>5, EndsWithTee
  <2> QED  BY <2>1, <2>2, <2>4, <2>6
<1> QED  BY <1>3, <1>4 DEF Media

\* A mosaic with a source for each input is built exactly if all its outputs can be.
LEMMA MosaicExact ==
    ASSUME cfg \in Config, IsMosaic, Sourced
    PROVE  MosaicPipeline.ok <=> Buildable
<1> DEFINE inputs == MosaicInputs
           start == [inputs EXCEPT !.conn = MosaicMix]
           es == [m \in Media |-> MosaicElements(m)]
           c == AllRaw
           g1 == IF "video" \in cfg.media THEN Extend(start, "video", es["video"]) ELSE start
           h == IF "audio" \in cfg.media THEN Extend(g1, "audio", es["audio"]) ELSE g1
<1>1. "video" \in Media /\ "audio" \in Media /\ \A m \in cfg.media : m \in Media
  BY DEF Media, Config
<1>2. MosaicPipeline = Outputs(h)
  <2>1. es["video"] = MosaicElements("video") /\ es["audio"] = MosaicElements("audio")
    BY <1>1
  <2> HIDE DEF es
  <2> QED  BY <2>1 DEF MosaicPipeline, ForMedia, MosaicInputs, MosaicMixers, MosaicConverter,
                       MosaicElements
<1>3. MixReady(inputs, cfg.inputs)
  BY MosaicInputsExact
<1> HIDE DEF inputs
<1>4. Sound(inputs) /\ Proper(inputs)
  BY <1>3 DEF MixReady, Sound
<1>5. /\ DOMAIN start = DOMAIN inputs /\ start.offers = inputs.offers
      /\ start.links = inputs.links /\ start.ok = inputs.ok /\ start.conn = MosaicMix
      /\ DOMAIN MosaicMix = Media
  BY <1>4 DEF Proper, MosaicMix, Media
<1> HIDE DEF start
<1>6. Elements(start) = Elements(inputs)
  BY <1>5 DEF Elements
<1>7. Sound(start)
  <2>1. Proper(start)
    BY <1>4, <1>5, <1>6 DEF Proper
  <2> QED  BY <1>4, <1>5, <1>6, <2>1 DEF Sound
<1>8. Conns(start, c)
  <2>1. MosaicMix["video"] # MosaicMix["audio"]
    BY DEF MosaicMix, VMix, AMix, Element
  <2>2. \A x : Open(inputs, x) => Open(start, x)
    BY <1>5, <1>6 DEF Open
  <2>3. \A m \in Media : Ready(start, MosaicMix[m], Raw) /\ c[m] = Raw
    BY <1>3, <1>5, <2>2 DEF MixReady, Ready, AllRaw
  <2> HIDE DEF c
  <2> QED  BY <1>1, <1>5, <2>1, <2>3 DEF Conns
<1>9. NamesIn(start, MosaicInNames \cup MixerNames)
  BY <1>3, <1>6 DEF MixReady, NamesIn
<1>10. /\ MosaicConvOwn["video"] \cap MosaicConvOwn["audio"] = {}
       /\ (MosaicInNames \cup MixerNames) \cap MosaicConvOwn["video"] = {}
       /\ (MosaicInNames \cup MixerNames) \cap MosaicConvOwn["audio"] = {}
  BY DEF MosaicConvOwn, MosaicInNames, MixerNames, MixOwn
<1>11. FreeNames(start, 0, MosaicConvOwn["video"]) /\ FreeNames(start, 0, MosaicConvOwn["audio"])
  BY <1>9, <1>10 DEF NamesIn, FreeNames
<1>12. \A m \in cfg.media : Branch(es[m], 0, MosaicConvOwn[m], c[m], c[m]) /\ c[m] # {}
  <2> SUFFICES ASSUME NEW m \in cfg.media
               PROVE  Branch(es[m], 0, MosaicConvOwn[m], c[m], c[m]) /\ c[m] # {}
    OBVIOUS
  <2>1. es[m] = MosaicElements(m) /\ c[m] = Raw /\ Raw # {}
    BY <1>1 DEF AllRaw, Raw
  <2>2. Branch(MosaicElements(m), 0, MosaicConvOwn[m], Raw, Raw)
    BY <1>1, MosaicElementsExact
  <2> HIDE DEF es, c
  <2> QED  BY <2>1, <2>2
<1>13. \A m \in cfg.media : \A x : EndsAt(x, es[m]) => x.plugin = "tee"
  <2> SUFFICES ASSUME NEW m \in cfg.media  PROVE \A x : EndsAt(x, es[m]) => x.plugin = "tee"
    OBVIOUS
  <2>1. es[m] = MosaicElements(m)
    BY <1>1
  <2>2. \A x : EndsAt(x, MosaicElements(m)) => x.plugin = "tee"
    BY <1>1, MosaicElementsExact
  <2> HIDE DEF es
  <2> QED  BY <2>1, <2>2
<1> HIDE DEF es, c
<1>14. /\ Sound(h) /\ Conns(h, c)
       /\ \A m \in Media : m \notin cfg.media => h.conn[m] = start.conn[m]
       /\ \A x \in Elements(h) : x \in Elements(start)
                                 \/ x.name \in MosaicConvOwn["video"] \cup MosaicConvOwn["audio"]
       /\ \A m \in cfg.media : EndsAt(h.conn[m], es[m])
  <2>1. MosaicConvOwn["video"] \cap MosaicConvOwn["audio"] = {}
    BY <1>10
  <2> QED  BY <1>7, <1>8, <1>11, <1>12, <2>1, BothExtend
<1> HIDE DEF h
<1>15. OutReady(h, 0)
  <2>1. OutNames \cap (MosaicInNames \cup MixerNames \cup MosaicConvOwn["video"]
                       \cup MosaicConvOwn["audio"]) = {}
    BY DEF OutNames, MosaicConvOwn, MosaicInNames, MixerNames, MixOwn
  <2>2. \A j \in Int : FreeNames(h, j, OutNames)
    BY <1>9, <1>14, <2>1 DEF NamesIn, FreeNames
  <2>3. \A m \in cfg.media : h.conn[m].plugin = "tee" /\ Ready(h, h.conn[m], c[m])
    BY <1>13, <1>14 DEF Conns
  <2>4. \A m \in cfg.media : c[m] = TeeCaps[m]
    BY <1>1 DEF TeeCaps, c, AllRaw
  <2> QED  BY <1>14, <2>2, <2>3, <2>4 DEF OutReady, Teed
<1>16. Buildable <=> \A j \in DOMAIN cfg.outs : CanOutput(cfg.outs[j]) /\ HasSink(j - 1)
  BY DEF Buildable, Filtered, IsMosaic
<1> QED  BY <1>2, <1>15, <1>16, OutputsExact

(***************************************************************************)
(* What can be built: the theorem                                          *)
(***************************************************************************)

\* What the stages have built so far, and whether it can be completed.
BuiltInv ==
    /\ pc \in {"udb", "postproc", "converter", "output"} => Sourced
    /\ pc = "udb" => AtUdb(graph)
    /\ pc = "postproc" => AtPost(graph)
    /\ pc = "converter" => AtConv(graph)
    /\ pc = "output" => AtOut(graph)
    /\ BuiltExactly

\* It is about the graph and the configuration, which never changes.
LEMMA SameBuilt ==
    ASSUME NEW g, graph' = g, cfg' = cfg
    PROVE  /\ AtUdb(graph)' <=> AtUdb(g)
           /\ AtPost(graph)' <=> AtPost(g)
           /\ AtConv(graph)' <=> AtConv(g)
           /\ AtOut(graph)' <=> AtOut(g)
           /\ Buildable' <=> Buildable
           /\ Sourced' <=> Sourced
<1>1. /\ NoDevice' <=> NoDevice
      /\ FilterFails' <=> FilterFails
      /\ IsMosaic' <=> IsMosaic
      /\ IsRelay' <=> IsRelay
  BY DEF NoDevice, FilterFails, IsGpu, LogoAborts, IsMosaic, IsRelay
<1>2. Sound(graph)' <=> Sound(g)
  <2>1. Proper(graph)' <=> Proper(g)
    BY DEF Proper, Part, Inputs, IsMosaic, IsRelay, Parser
  <2> QED  BY <2>1 DEF Sound
<1>3. Rest(graph)' <=> Rest(g)
  BY DEF Rest
<1>4. /\ Conns(graph, FromUdb)' <=> Conns(g, FromUdb)
      /\ Conns(graph, FromPost)' <=> Conns(g, FromPost)
      /\ Conns(graph, FromConv)' <=> Conns(g, FromConv)
  <2>1. FromUdb' = FromUdb
    BY DEF FromUdb, IsRelay, Parser
  <2>2. FromPost' = FromPost
    BY DEF FromPost, IsRelay, Parser, Passed
  <2>3. FromConv' = FromConv
    BY DEF FromConv, Carried, IsRelay, Parser, Encoder, IsH264Encoder, IsAACEncoder
  <2> QED  BY <2>1, <2>2, <2>3 DEF Conns
<1>5. Buildable' <=> Buildable
  BY DEF Buildable, CanOutput, Carried, MpegAudio, IsRelay, IsMosaic, Parser, Encoder,
         IsH264Encoder, IsAACEncoder, IsGpu, Sourced, HasSource, Filtered, LogoAborts, HasSink
<1>10. Sourced' <=> Sourced
  BY DEF Sourced, HasSource, IsMosaic
<1>6. /\ AtUdb(graph)' <=> AtUdb(g)
  BY <1>1, <1>2, <1>3, <1>4 DEF AtUdb
<1>7. /\ AtPost(graph)' <=> AtPost(g)
  BY <1>1, <1>2, <1>3, <1>4 DEF AtPost
<1>8. /\ AtConv(graph)' <=> AtConv(g)
  BY <1>1, <1>2, <1>3, <1>4 DEF AtConv
<1>9. /\ AtOut(graph)' <=> AtOut(g)
  BY <1>1, <1>2, <1>3, <1>4 DEF AtOut
<1> QED  BY <1>5, <1>6, <1>7, <1>8, <1>9, <1>10

\* What is wrong with the configuration from the start is wrong in the end.
LEMMA NotBuildable ==
    /\ ~ NoDevice => ~ Buildable
    /\ ~ Sourced => ~ Buildable
    /\ FilterFails => ~ Buildable
<1>1. ~ NoDevice => ~ Buildable
  BY DEF NoDevice, Buildable
<1>2. FilterFails => ~ Buildable
  BY DEF FilterFails, Filtered, Buildable
<1>3. ~ Sourced => ~ Buildable
  BY DEF Buildable
<1> QED  BY <1>1, <1>2, <1>3

\* A stage: either its graph is what the next one expects, or there is a reason
\* to crash.
LEMMA BuiltStep ==
    ASSUME PipelineInv, BuiltInv,
           InputStage \/ UdbStage \/ PostProcStage \/ ConverterStage \/ OutputStage \/ MosaicStage
    PROVE  BuiltInv'
<1>1. cfg \in Config /\ StageInv
  BY DEF PipelineInv, Base, TypeOK
<1>2. CASE InputStage
  <2> DEFINE g == BuildInput(EmptyGraph)
  <2>1. pc = "input" /\ ~ IsMosaic /\ graph = EmptyGraph
    BY <1>1, <1>2 DEF InputStage, Stage, StageInv
  <2>2. (g.ok => Sourced /\ AtUdb(g)) /\ (NoDevice /\ Sourced => g.ok)
    BY <1>1, <2>1, InputExact
  <2>3. graph' = g /\ cfg' = cfg /\ pc' = IF g.ok THEN "udb" ELSE "crashed"
    BY <1>2, <2>1 DEF InputStage, Stage
  <2> HIDE DEF g
  <2> QED  BY <2>2, <2>3, SameBuilt, NotBuildable DEF BuiltInv, BuiltExactly
<1>3. CASE UdbStage
  <2> DEFINE g == BuildUdbConnections(graph)
  <2>1. pc = "udb" /\ ~ IsMosaic /\ Proper(graph) /\ AtUdb(graph) /\ Sourced
    BY <1>1, <1>3 DEF UdbStage, Stage, StageInv, BuiltInv
  <2>2. (g.ok <=> NoDevice) /\ (NoDevice => AtPost(g))
    BY <1>1, <2>1, UdbExact
  <2>3. graph' = g /\ cfg' = cfg /\ pc' = IF g.ok THEN "postproc" ELSE "crashed"
    BY <1>3 DEF UdbStage, Stage
  <2> HIDE DEF g
  <2> QED  BY <2>1, <2>2, <2>3, SameBuilt, NotBuildable DEF BuiltInv, BuiltExactly
<1>4. CASE PostProcStage
  <2> DEFINE g == BuildPostProc(graph)
  <2>1. pc = "postproc" /\ ~ IsMosaic /\ Proper(graph) /\ AtPost(graph) /\ Sourced
    BY <1>1, <1>4 DEF PostProcStage, Stage, StageInv, BuiltInv, Fine
  <2>2. (g.ok => AtConv(g)) /\ (~ FilterFails => g.ok)
    BY <1>1, <2>1, PostExact
  <2>3. graph' = g /\ cfg' = cfg /\ pc' = IF g.ok THEN "converter" ELSE "crashed"
    BY <1>4 DEF PostProcStage, Stage
  <2> HIDE DEF g
  <2> QED  BY <2>1, <2>2, <2>3, SameBuilt, NotBuildable DEF BuiltInv, BuiltExactly
<1>5. CASE ConverterStage
  <2> DEFINE g == BuildConverter(graph)
  <2>1. pc = "converter" /\ ~ IsMosaic /\ Proper(graph) /\ AtConv(graph) /\ Sourced
    BY <1>1, <1>5 DEF ConverterStage, Stage, StageInv, BuiltInv, Fine
  <2>2. (g.ok <=> ~ FilterFails) /\ (~ FilterFails => AtOut(g))
    BY <1>1, <2>1, ConvExact
  <2>3. graph' = g /\ cfg' = cfg /\ pc' = IF g.ok THEN "output" ELSE "crashed"
    BY <1>5 DEF ConverterStage, Stage
  <2> HIDE DEF g
  <2> QED  BY <2>1, <2>2, <2>3, SameBuilt, NotBuildable DEF BuiltInv, BuiltExactly
<1>6. CASE OutputStage
  <2> DEFINE g == BuildOutput(graph)
  <2>1. pc = "output" /\ ~ IsMosaic /\ AtOut(graph) /\ Sourced
    BY <1>1, <1>6 DEF OutputStage, Stage, StageInv, BuiltInv
  <2>2. g.ok <=> Buildable
    BY <1>1, <2>1, OutExact
  <2>3. graph' = g /\ cfg' = cfg /\ pc' = IF g.ok THEN "running" ELSE "crashed"
    BY <1>6 DEF OutputStage, Stage
  <2> HIDE DEF g
  <2> QED  BY <2>2, <2>3, SameBuilt DEF BuiltInv, BuiltExactly
<1>7. CASE MosaicStage
  <2> DEFINE g == MosaicPipeline
  <2>1. IsMosaic
    BY <1>1, <1>7 DEF MosaicStage, Stage, StageInv
  <2>2. g.ok <=> Buildable
    <3>1. CASE Sourced
      BY <1>1, <2>1, <3>1, MosaicExact
    <3>2. CASE ~ Sourced
      BY <1>1, <2>1, <3>2, MosaicFine, NotBuildable
    <3> QED  BY <3>1, <3>2
  <2>3. graph' = g /\ cfg' = cfg /\ pc' = IF g.ok THEN "running" ELSE "crashed"
    BY <1>7 DEF MosaicStage, Stage
  <2> HIDE DEF g
  <2> QED  BY <2>2, <2>3, SameBuilt DEF BuiltInv, BuiltExactly
<1> QED  BY <1>2, <1>3, <1>4, <1>5, <1>6, <1>7

\* For every configuration, with any number of outputs and inputs and every
\* choice of codecs, parsers and options: the process gets through all the
\* CHECKs of ElementAdd and ElementLink and its pipeline runs, or it ends in
\* one of them, exactly as Buildable says.
THEOREM PipelineBuiltExactly == Spec => []BuiltExactly
<1>1. Init => BuiltInv
  BY DEF Init, BuiltInv, BuiltExactly
<1>2. PipelineInv /\ BuiltInv /\ [Next]_vars => BuiltInv'
  <2> SUFFICES ASSUME PipelineInv, BuiltInv, [Next]_vars  PROVE BuiltInv'
    OBVIOUS
  <2>1. CASE InputStage \/ UdbStage \/ PostProcStage \/ ConverterStage \/ OutputStage \/ MosaicStage
    BY <2>1, BuiltStep
  <2>2. CASE MosaicWithoutLayout
    BY <2>2 DEF MosaicWithoutLayout, BuiltInv, BuiltExactly
  <2>3. ASSUME UNCHANGED <<cfg, pc, graph>>  PROVE BuiltInv'
    BY <2>3, SameBuilt DEF BuiltInv, BuiltExactly
  <2>4. CASE \E t \in tracks : Autoplug(t)
    BY <2>3, <2>4 DEF Autoplug
  <2>5. CASE \E t \in tracks : PadAdded(t) \/ MosaicPadAdded(t)
    BY <2>3, <2>5 DEF PadAdded, MosaicPadAdded
  <2>6. CASE Finished \/ UNCHANGED vars
    BY <2>3, <2>6 DEF Finished, vars
  <2> QED  BY <2>1, <2>2, <2>4, <2>5, <2>6 DEF Next
<1>3. BuiltInv => BuiltExactly
  BY DEF BuiltInv
<1> QED  BY <1>1, <1>2, <1>3, PipelineInvariant, PTL DEF Spec
=============================================================================
