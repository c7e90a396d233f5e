------------------------------ MODULE Pipeline ------------------------------
(***************************************************************************)
(* How a stream's pipeline is built (IBaseBuilder::CreatePipeLine and the  *)
(* builders of the stream types) and completed by decodebin's pads         *)
(* (HandleDecodeBinAutoplugger, HandleDecodeBinPadAdded).                  *)
(*                                                                         *)
(* The builder fills a graph of named elements. Every ElementAdd and       *)
(* ElementLink is followed by a CHECK that ends the process, and a null    *)
(* element (no muxer for a scheme, no source or sink for a url) is         *)
(* dereferenced: once one of them fails, ok is false. A property of an     *)
(* element (bitrate, location...) does not change the graph and is left    *)
(* out, and so are capabilities finer than the codec.                      *)
(* The plugins of one behaviour (openh264enc, voaacenc, tcp outputs...) are*)
(* represented by one of them.                                             *)
(***************************************************************************)
EXTENDS Integers, FiniteSets, SequencesExt

CONSTANTS
    Configs,     \* configurations to consider
    TrackSets,   \* what a source may contain: sets of tracks
    NotReachedAborts   \* NOTREACHED() ends the process, as CHECK does (external)

Media == {"video", "audio"}
Kinds == {"relay", "test_life", "recorder", "encoding", "only_audio",
          "only_video", "test_input", "device", "mosaic"}
VideoEncoders == {"x264enc", "x265enc", "vaapih264enc", "mfxh264enc"}
AudioEncoders == {"faac", "lamemp3enc"}
VideoParsers == {"tsparse", "h264parse", "h265parse"}
AudioParsers == {"mpegaudioparse", "aacparse", "ac3parse"}
Schemes == {"udp", "http", "rtmp", "device", "other"}
\* remote_logo: the logo's url is not that of a file. own_source: the builder of a
\* playlist or of the timeshift player makes the source, from no input's url.
Options == {"deinterlace", "size", "aspect", "framerate", "logo", "remote_logo",
            "profile", "channels", "volume", "own_source"}
Codecs == {"h264", "h265", "mpeg2", "aac", "mp3", "ac3"}
NoSelect == -1

\* noSource: the inputs whose url make_src has no source for (another scheme, a
\* host that does not parse); noSink: the outputs whose url has no host that
\* parses, or no file name.
Config == [kind : Kinds, media : SUBSET Media, vcodec : VideoEncoders,
           acodec : AudioEncoders, vparser : VideoParsers,
           aparser : AudioParsers, opts : SUBSET Options,
           outs : Seq(Schemes), inputs : Nat, select : Int,
           noSource : SUBSET Nat, noSink : SUBSET Nat]
Track == [input : Nat, medium : Media, id : Nat, codec : Codecs, channels : Nat]

ASSUME ConfigsAssumption == \A c \in Configs : c \in Config
ASSUME BuildAssumption == NotReachedAborts \in BOOLEAN
ASSUME TracksAssumption == \A T \in TrackSets : T \subseteq Track

VARIABLES
    cfg,       \* the stream's configuration; never changes
    tracks,    \* the tracks of its inputs; never changes
    pc,        \* the builder's next stage, or "running", "failed", "crashed"
    graph,     \* the pipeline and the builder's connectors
    caps,      \* what decodebin exposes for the tracks it has autoplugged
    added,     \* tracks whose pads were added
    fed,       \* the pad links: entry element -> track
    inited,    \* flags_: INITED_VIDEO, INITED_AUDIO
    meters     \* options_.sreams[i].sound.channels of a mosaic: their number
vars == <<cfg, tracks, pc, graph, caps, added, fed, inited, meters>>

Relays == {"relay", "test_life", "recorder"}
IsRelay == cfg.kind \in Relays
IsMosaic == cfg.kind = "mosaic"

-----------------------------------------------------------------------------
(* Elements. A name is unique in the pipeline, the plugin decides what an  *)
(* element takes and offers.                                               *)

Element(name, id, plugin) == [name |-> name, id |-> id, plugin |-> plugin]
Null == Element("nullptr", 0, "nullptr")
UdbName == [video |-> "udb_conn_video", audio |-> "udb_conn_audio"]
TeeName == [video |-> "video_tee", audio |-> "audio_tee"]
TeeQueueName == [video |-> "video_tee_queue", audio |-> "audio_tee_queue"]
DeviceSink == [video |-> Element("video_sink", 0, "autovideosink"),
               audio |-> Element("audio_sink", 0, "autoaudiosink")]

\* Elements that pass on whatever they get, with any number of outputs (tee)
\* or inputs (muxers and mixers).
Transparent == {"queue", "tee", "capsfilter"}
Joins == {"rtpmux", "flvmux", "mpegtsmux", "videomixer", "audiomixer",
          "splitmuxsink"}
RawFilters == {"videoconvert", "avdeinterlace", "videoscale", "aspectratiocrop",
               "videorate", "gdkpixbufoverlay", "mfxvpp", "vaapipostproc",
               "audioconvert", "volume", "audioresample", "videomixer",
               "audiomixer", "videobox", "level", "cairooverlay"}

AnyCaps == Codecs \cup {"raw", "mpegts", "rtp"}

\* The capabilities of GStreamer's elements.
Takes(plugin) ==
    CASE plugin \in RawFilters \cup VideoEncoders \cup AudioEncoders
                    \cup {"autovideosink", "autoaudiosink"} -> {"raw"}
      [] plugin \in {"h264parse", "rtph264pay"}  -> {"h264"}
      [] plugin \in {"h265parse", "rtph265pay"}  -> {"h265"}
      [] plugin \in {"tsparse", "rtpmp2tpay"}    -> {"mpegts"}
      [] plugin \in {"aacparse", "rtpmp4apay"}   -> {"aac"}
      [] plugin \in {"ac3parse", "rtpac3pay"}    -> {"ac3"}
      [] plugin = "mpegaudioparse"               -> {"mp3"}
      [] plugin = "rtpmux"                       -> {"rtp"}
      [] plugin = "flvmux"                       -> {"h264", "aac", "mp3"}
      [] plugin = "mpegtsmux"                    -> Codecs
      [] OTHER                                   -> AnyCaps
Offers(plugin) ==
    CASE plugin \in {"x264enc", "vaapih264enc", "mfxh264enc"}       -> {"h264"}
      [] plugin = "x265enc"                                         -> {"h265"}
      [] plugin = "faac"                                            -> {"aac"}
      [] plugin = "lamemp3enc"                                      -> {"mp3"}
      [] plugin \in VideoParsers \cup AudioParsers                  -> Takes(plugin)
      [] plugin \in RawFilters \cup {"v4l2src", "alsasrc", "videotestsrc",
                                     "audiotestsrc"}                -> {"raw"}
      [] plugin \in {"rtph264pay", "rtph265pay", "rtpmp2tpay",
                     "rtpmp4apay", "rtpac3pay"}                     -> {"rtp"}
      [] OTHER                                                      -> AnyCaps

\* offers: the elements of the bin and what each of them offers downstream.
EmptyGraph == [offers |-> [e \in {} |-> {}], links |-> {},
               conn |-> [m \in Media |-> Null], ok |-> TRUE]
Elements(g) == DOMAIN g.offers
Abort(g) == [g EXCEPT !.ok = FALSE]

\* A null element is dereferenced; a bin refuses a second element of a name.
ElementAdd(g, e) ==
    IF e = Null \/ \E x \in Elements(g) : x.name = e.name /\ x.id = e.id
    THEN Abort(g)
    ELSE [g EXCEPT !.offers = [x \in Elements(g) \cup {e} |->
                                 IF x = e THEN Offers(e.plugin) ELSE g.offers[x]]]

\* Both elements exist, have a free pad, and some capability in common.
CanLink(g, src, dest) ==
    /\ {src, dest} \subseteq Elements(g)
    /\ src.plugin = "tee" \/ \A l \in g.links : l[1] # src
    /\ dest.plugin \in Joins \/ \A l \in g.links : l[2] # dest
    /\ g.offers[src] \cap Takes(dest.plugin) # {}
ElementLink(g, src, dest) ==
    IF ~ CanLink(g, src, dest) THEN Abort(g)
    ELSE [g EXCEPT !.links = @ \cup {<<src, dest>>},
                   !.offers[dest] = IF dest.plugin \in Transparent
                                    THEN g.offers[src] ELSE @]

\* Adds elements and links each to the one before; at is the last of them.
ChainStep(s, e) == [g |-> ElementLink(ElementAdd(s.g, e), s.at, e), at |-> e]
Chain(g, from, es) == FoldLeft(ChainStep, [g |-> g, at |-> from], es)
Extend(g, m, es) ==
    LET r == Chain(g, g.conn[m], es) IN [r.g EXCEPT !.conn[m] = r.at]
Start(g, m, e) == [ElementAdd(g, e) EXCEPT !.conn[m] = e]

\* The two branches "if (config->HaveVideo())", "if (config->HaveAudio())".
ForMedia(Op(_, _), g) ==
    LET On(s, m) == IF m \in cfg.media THEN Op(s, m) ELSE s
    IN  On(On(g, "video"), "audio")
Opt(o, es) == IF o \in cfg.opts THEN es ELSE <<>>

-----------------------------------------------------------------------------
(* The stages of GstBaseBuilder::InitPipeline.                             *)

\* A network or file source, or the playlists' and the timeshift player's. The
\* source that make_src did not make is dereferenced, as is the first of no inputs.
HasSource(i) ==
    \/ ~ IsMosaic /\ "own_source" \in cfg.opts
    \/ i < cfg.inputs /\ i \notin cfg.noSource
DecodedInput(g, i) ==
    LET src == Element("src", i, "filesrc")
        bin == Element("decodebin", i, "decodebin")
    IN  IF HasSource(i) THEN Chain(ElementAdd(g, src), src, <<bin>>).g ELSE Abort(g)

DeviceInput(g, m) ==
    IF m = "video"
    THEN Extend(Start(g, m, Element("src", 0, "v4l2src")), m,
                <<Element("video_caps_device", 0, "capsfilter")>>)
    ELSE Start(g, m, Element("src", 1, "alsasrc"))

TestSource(m) == IF m = "video" THEN Element("video_src", 0, "videotestsrc")
                                ELSE Element("audio_src", 0, "audiotestsrc")
TestInput(g, m) == Start(g, m, TestSource(m))

BuildInput(g) ==
    CASE cfg.kind = "device"     -> ForMedia(DeviceInput, g)
      [] cfg.kind = "test_input" -> ForMedia(TestInput, g)
      [] OTHER                   -> DecodedInput(g, 0)

UdbConnection(g, m) ==
    Start(g, m, Element(UdbName[m], 0,
                        IF ~ IsRelay THEN "queue"
                        ELSE IF m = "video" THEN cfg.vparser ELSE cfg.aparser))

\* Mutant: the connectors of the input are not looked at.
UdbConnectionsUnchecked(g) ==
    IF cfg.kind = "test_input" THEN g ELSE ForMedia(UdbConnection, g)
BuildUdbConnections(g) ==
    IF cfg.kind = "test_input" THEN g
    ELSE IF \E m \in Media : g.conn[m] # Null THEN Abort(g)
    ELSE ForMedia(UdbConnection, g)

IsGpu == cfg.vcodec \in {"vaapih264enc", "mfxh264enc"}
IsH264Encoder == cfg.vcodec \in {"x264enc", "vaapih264enc", "mfxh264enc"}
IsAACEncoder == cfg.acodec = "faac"

VideoConvert ==
    <<Element("video_convert", 0, "videoconvert")>>
    \o Opt("deinterlace", <<Element("deinterlace", 0, "avdeinterlace")>>)
AspectRatio(i) == Opt("aspect", <<Element("aspect_ratio", i, "aspectratiocrop")>>)
VideoFramerate(i) ==
    Opt("framerate", <<Element("videorate", i, "videorate"),
                       Element("videorate_capsfilter", i, "capsfilter")>>)
Logo == Opt("logo", <<Element("videologo", 0, "gdkpixbufoverlay")>>)

LogoAborts == NotReachedAborts /\ {"logo", "remote_logo"} \subseteq cfg.opts

\* On a GPU, last stays null: the logo and the encoder are linked to null.
VideoPostProc(g) ==
    IF LogoAborts THEN Abort(g)
    ELSE IF IsGpu
    THEN LET plugin == IF cfg.vcodec = "mfxh264enc" THEN "mfxvpp" ELSE "vaapipostproc"
             post == Extend(g, "video", <<Element("post_proc", 0, plugin)>>)
         IN  Extend([post EXCEPT !.conn["video"] = Null], "video", Logo)
    ELSE Extend(g, "video",
                VideoConvert
                \o Opt("size", <<Element("videoscale", 0, "videoscale"),
                                 Element("videoscale_capsfilter", 0, "capsfilter")>>)
                \o AspectRatio(0) \o VideoFramerate(0) \o Logo)

AudioConverters ==
    <<Element("audio_convert", 0, "audioconvert")>>
    \o Opt("channels", <<Element("audio_convert_capsfilter", 0, "capsfilter")>>)
    \o Opt("volume", <<Element("volume", 0, "volume")>>)

PostProc(g, m) ==
    CASE m = "video" /\ cfg.kind # "only_audio" -> VideoPostProc(g)
      [] m = "audio" /\ cfg.kind # "only_video" -> Extend(g, m, AudioConverters)
      [] OTHER                                  -> g
BuildPostProc(g) == IF IsRelay THEN g ELSE ForMedia(PostProc, g)

VideoEncoder(i) ==
    <<Element("video_codec", i, cfg.vcodec)>>
    \o IF cfg.vcodec # "x264enc" THEN <<>>
       ELSE Opt("profile", <<Element("x264enc_capsfilter_profile", i, "capsfilter")>>)
AudioEncoder(i) ==
    IF cfg.acodec # "lamemp3enc" THEN <<Element("audio_codec", i, cfg.acodec)>>
    ELSE <<Element("audioresample", i, "audioresample"),
           Element("audio_codec", i, cfg.acodec),
           Element("mpegaudioparse", i, "mpegaudioparse")>>
VideoParser(i) ==
    IF IsH264Encoder THEN <<Element("video_parser", i, "h264parse")>> ELSE <<>>
AudioParser(i) ==
    IF IsAACEncoder THEN <<Element("audio_parser", i, "aacparse")>> ELSE <<>>

Tee(m) == <<Element(TeeName[m], 0, "tee")>>
EncodingConverter(g, m) ==
    Extend(g, m,
           (CASE cfg.kind = "only_audio" /\ m = "video" -> <<>>
              [] cfg.kind = "only_video" /\ m = "audio" -> <<>>
              [] cfg.kind # "only_audio" /\ m = "video" -> VideoEncoder(0)
              [] OTHER -> AudioEncoder(0))
           \o (IF m = "video" THEN VideoParser(0) ELSE AudioParser(0)) \o Tee(m))
RelayConverter(g, m) == Extend(g, m, Tee(m))
BuildConverter(g) ==
    IF cfg.kind = "recorder" THEN g
    ELSE IF IsRelay THEN ForMedia(RelayConverter, g)
    ELSE ForMedia(EncodingConverter, g)

\* The payloader by the codec of the parser or the encoder. The one of MPEG
\* audio is made by make_mpeg2_pay, which names it after the video's.
Pay(m, i) ==
    IF m = "video"
    THEN Element("video_pay", i,
                 CASE IsRelay /\ cfg.vparser = "tsparse" -> "rtpmp2tpay"
                   [] IsRelay /\ cfg.vparser = "h265parse" -> "rtph265pay"
                   [] ~ IsRelay /\ ~ IsH264Encoder -> "rtph265pay"
                   [] OTHER -> "rtph264pay")
    ELSE CASE (IF IsRelay THEN cfg.aparser = "mpegaudioparse" ELSE ~ IsAACEncoder)
                -> Element("video_pay", i, "rtpmp2tpay")
           [] IsRelay /\ cfg.aparser = "ac3parse" -> Element("audio_pay", i, "rtpac3pay")
           [] OTHER -> Element("audio_pay", i, "rtpmp4apay")

Muxer(scheme, i) ==
    CASE scheme = "rtmp" -> Element("muxer", i, "flvmux")
      [] scheme = "udp"  -> Element("muxer", i, "rtpmux")
      [] scheme = "http" -> Element("muxer", i, "mpegtsmux")
      [] OTHER           -> Null
\* Mutant: the sink is added and not linked.
GenericOutputUnlinked(g, mux, i) ==
    ElementAdd(g, Element("sink", i, "sink"))
\* build_output returns null for a url without host or file name; the sink is
\* dereferenced before it is added.
HasSink(i) == cfg.outs[i + 1] \in {"rtmp", "device"} \/ i \notin cfg.noSink
GenericOutput(g, mux, i) ==
    IF HasSink(i) THEN Chain(g, mux, <<Element("sink", i, "sink")>>).g ELSE Abort(g)

\* Output i: for each medium a branch of elements from its tee to the muxer.
BuildMuxedOutput(g, i, branch) ==
    LET mux == Muxer(cfg.outs[i + 1], i)
        Join(s, m) == LET r == Chain(s, s.conn[m],
                                     <<Element(TeeQueueName[m], i, "queue")>> \o branch[m])
                      IN  ElementLink(r.g, r.at, mux)
    IN  GenericOutput(ForMedia(Join, ElementAdd(g, mux)), mux, i)

OutputBranch(m, i) == IF cfg.outs[i + 1] = "udp" THEN <<Pay(m, i)>> ELSE <<>>
BuildSchemeOutput(g, i) ==
    IF cfg.outs[i + 1] = "device" THEN g   \* not supported: skipped
    ELSE BuildMuxedOutput(g, i, [m \in Media |-> OutputBranch(m, i)])

\* One sink for each medium.
TestOutput(g, m) ==
    Chain(g, g.conn[m], <<Element("sink", IF m = "video" THEN 0 ELSE 1, "testsink")>>).g

\* OnSplitmuxsinkCreated links both connectors, audio first.
RecorderOutput(g) ==
    LET sink == Element("splitmuxsink", 0, "splitmuxsink")
    IN  ElementLink(ElementLink(ElementAdd(g, sink), g.conn["audio"], sink),
                    g.conn["video"], sink)

-----------------------------------------------------------------------------
(* The mosaic has a builder of its own.                                    *)

VMix == Element("videomixer", 0, "videomixer")
AMix == Element("interlive", 0, "audiomixer")
MosaicMix == [video |-> VMix, audio |-> AMix]
HasLayout == cfg.inputs \in {1, 2, 4, 9, 16}

MosaicFilters(m, i) ==
    IF m = "video" THEN <<Element("mux_videoscale", i, "videoscale"),
                          Element("mux_videoscale_capsfilter", i, "capsfilter"),
                          Element("videobox", i, "videobox")>>
    ELSE <<Element("level", i, "level")>>
MosaicInput(g, i) ==
    LET Branch(s, m) == LET q == Element(UdbName[m], i, "queue")
                            r == Chain(ElementAdd(s, q), q, MosaicFilters(m, i))
                        IN  ElementLink(r.g, r.at, MosaicMix[m])
    IN  ForMedia(Branch, DecodedInput(g, i))

MosaicConverter(g, m) ==
    Extend(g, m, (IF m = "video"
                  THEN <<Element("cairo", 0, "cairooverlay")>> \o VideoConvert
                  ELSE AudioConverters) \o Tee(m))

\* The payloader comes before the parser, and audio is always paid as AAC.
MosaicBranch(m, i) ==
    LET rtp == cfg.outs[i + 1] = "udp" IN
    IF m = "video"
    THEN AspectRatio(i)
         \o (IF cfg.vcodec # "mfxh264enc" THEN VideoFramerate(i) ELSE <<>>)
         \o VideoEncoder(i)
         \o (IF rtp THEN <<Element("video_pay", i, IF IsH264Encoder THEN "rtph264pay"
                                                                     ELSE "rtph265pay")>>
                    ELSE <<>>)
         \o VideoParser(i)
    ELSE AudioEncoder(i)
         \o (IF rtp THEN <<Element("audio_pay", i, "rtpmp4apay")>> ELSE <<>>)

MosaicOutput(g, i) ==
    LET Show(s, m) == Chain(s, s.conn[m], <<Element(TeeQueueName[m], i, "queue"),
                                            [DeviceSink[m] EXCEPT !.id = i]>>).g
    IN  IF cfg.outs[i + 1] = "device" THEN ForMedia(Show, g)
        ELSE BuildMuxedOutput(g, i, [m \in Media |-> MosaicBranch(m, i)])

\* The loops of both builders over the outputs.
OutputStep(g, i) == IF IsMosaic THEN MosaicOutput(g, i) ELSE BuildSchemeOutput(g, i)
Outputs(g) == FoldLeft(OutputStep, g, [i \in DOMAIN cfg.outs |-> i - 1])

BuildOutput(g) ==
    CASE cfg.kind = "test_life" -> ForMedia(TestOutput, g)
      [] cfg.kind = "recorder"  -> RecorderOutput(g)
      [] OTHER                  -> Outputs(g)

MosaicPipeline ==
    LET mixers == ElementAdd(ElementAdd(EmptyGraph, VMix), AMix)
        inputs == FoldLeft(MosaicInput, mixers, [n \in 1 .. cfg.inputs |-> n - 1])
    IN  Outputs(ForMedia(MosaicConverter, [inputs EXCEPT !.conn = MosaicMix]))

-----------------------------------------------------------------------------
Init ==
    /\ cfg \in Configs
    /\ tracks \in TrackSets
    /\ pc = IF IsMosaic THEN "mosaic" ELSE "input"
    /\ graph = EmptyGraph
    /\ caps = [t \in {} |-> ""]
    /\ added = {}
    /\ fed = [e \in {} |-> Null]
    /\ inited = {}
    /\ meters = [i \in 0 .. cfg.inputs - 1 |-> 0]

\* One stage: the graph that it leaves, and what comes next.
Stage(here, g, next) ==
    /\ pc = here
    /\ graph' = g
    /\ pc' = IF g.ok THEN next ELSE "crashed"
    /\ UNCHANGED <<cfg, tracks, caps, added, fed, inited, meters>>

InputStage == Stage("input", BuildInput(graph), "udb")
UdbStage == Stage("udb", BuildUdbConnections(graph), "postproc")
PostProcStage == Stage("postproc", BuildPostProc(graph), "converter")
ConverterStage == Stage("converter", BuildConverter(graph), "output")
OutputStage == Stage("output", BuildOutput(graph), "running")
MosaicStage == HasLayout /\ Stage("mosaic", MosaicPipeline, "running")
MosaicWithoutLayout ==
    /\ pc = "mosaic" /\ ~ HasLayout
    /\ pc' = "failed"
    /\ UNCHANGED <<cfg, tracks, graph, caps, added, fed, inited, meters>>

\* Tracks of inputs that the pipeline has a decodebin for.
Present == {t \in tracks : Element("decodebin", t.input, "decodebin") \in Elements(graph)}

\* HandleDecodeBinAutoplugger of each class of streams: FALSE, which stops at the
\* encoded stream, for what the class passes on as it is; MPEG-2 video is
\* always decoded.
RelayStops(t) == t.codec # "mpeg2"
OnlyAudioStops(t) == t.medium = "video" /\ t.codec # "mpeg2"
OnlyVideoStops(t) == t.medium = "audio"
EncodingStops(t) == FALSE
MosaicStops(t) == FALSE

StopsAutoplug(t) ==
    CASE IsRelay                 -> RelayStops(t)
      [] cfg.kind = "only_audio" -> OnlyAudioStops(t)
      [] cfg.kind = "only_video" -> OnlyVideoStops(t)
      [] IsMosaic                -> MosaicStops(t)
      [] OTHER                   -> EncodingStops(t)
Autoplug(t) ==
    /\ pc = "running" /\ t \in Present \ DOMAIN caps
    /\ caps' = [x \in DOMAIN caps \cup {t} |->
                  IF x # t THEN caps[x] ELSE IF StopsAutoplug(t) THEN t.codec ELSE "raw"]
    /\ UNCHANGED <<cfg, tracks, pc, graph, added, fed, inited, meters>>

Successors(g, S) == {l[2] : l \in {k \in g.links : k[1] \in S}}

\* What can be reached from an element, going on from those in via only: all
\* that lies behind it, and what decides about its capabilities.
Reach(g, via, e) ==
    LET R[n \in 0 .. Cardinality(Elements(g))] ==
            IF n = 0 THEN {e} ELSE LET S == R[n - 1] IN S \cup Successors(g, S \cap via)
    IN  R[Cardinality(Elements(g))]
Behind(g, e) == Reach(g, Elements(g), e)
Deciding(g, e) == Reach(g, {x \in Elements(g) : x.plugin \in Transparent}, e)
PadLinks(t, e) == \A x \in Deciding(graph, e) : caps[t] \in Takes(x.plugin)

Entry(m, i) == CHOOSE e \in Elements(graph) : e.name = UdbName[m] /\ e.id = i
\* Mutant: the chosen audio track is not looked at.
WantsPadUnselected(t) ==
    t.medium \in cfg.media /\ t.medium \notin inited
WantsPad(t) ==
    /\ t.medium \in cfg.media
    /\ t.medium \notin inited
    /\ t.medium = "video" \/ cfg.select \in {NoSelect, t.id}
\* A mosaic takes every track.
MosaicWantsPad(t) == t.medium \in cfg.media /\ t.medium \notin inited

\* Mutant: one meter for a pad, however many channels it has.
CountMetersOnce(t) ==
    IF t.medium = "audio" /\ MosaicWantsPad(t) /\ "video" \in cfg.media
    THEN [meters EXCEPT ![t.input] = @ + 1] ELSE meters
\* A mosaic adds a meter for every channel of an audio pad, before it looks
\* whether the input has its audio already. The streams that hold the meters
\* come with the overlay, hence with the video.
CountMeters(t) ==
    IF t.medium = "audio" /\ MosaicWantsPad(t) /\ "video" \in cfg.media
    THEN [meters EXCEPT ![t.input] = @ + t.channels] ELSE meters

\* A pad that is wanted feeds an element that has no pad yet.
LinkPad(t, dest) ==
    IF dest \notin DOMAIN fed /\ PadLinks(t, dest)
    THEN [e \in DOMAIN fed \cup {dest} |-> IF e = dest THEN t ELSE fed[e]]
    ELSE fed

Added(t) == pc = "running" /\ t \in DOMAIN caps \ added /\ added' = added \cup {t}

\* HandleDecodeBinPadAdded. The flag is set whether or not the link was made.
PadAdded(t) ==
    /\ ~ IsMosaic /\ Added(t)
    /\ fed' = IF WantsPad(t) THEN LinkPad(t, Entry(t.medium, 0)) ELSE fed
    /\ inited' = IF WantsPad(t) THEN inited \cup {t.medium} ELSE inited
    /\ UNCHANGED <<cfg, tracks, pc, graph, caps, meters>>

\* The one of a mosaic never sets the flag.
MosaicPadAdded(t) ==
    /\ IsMosaic /\ Added(t)
    /\ fed' = IF MosaicWantsPad(t) THEN LinkPad(t, Entry(t.medium, t.input)) ELSE fed
    /\ meters' = CountMeters(t)
    /\ UNCHANGED <<cfg, tracks, pc, graph, caps, inited>>

Finished ==
    /\ \/ pc \in {"failed", "crashed"}
       \/ pc = "running" /\ added = Present
    /\ UNCHANGED vars

Next ==
    \/ InputStage \/ UdbStage \/ PostProcStage \/ ConverterStage \/ OutputStage
    \/ MosaicStage \/ MosaicWithoutLayout
    \/ \E t \in tracks : Autoplug(t)
    \/ \E t \in tracks : PadAdded(t) \/ MosaicPadAdded(t)
    \/ Finished

Spec == Init /\ [][Next]_vars

-----------------------------------------------------------------------------
(* Properties.                                                             *)

\* The configuration and tracks are of their types, the graph is intact unless
\* the process crashed, pads are added after decodebin asked about them, and
\* only elements of the pipeline are fed.
TypeOK ==
    /\ cfg \in Config /\ tracks \subseteq Track
    /\ pc \in {"input", "udb", "postproc", "converter", "output", "mosaic",
               "running", "failed", "crashed"}
    /\ graph.ok = (pc # "crashed")
    /\ added \subseteq DOMAIN caps /\ DOMAIN caps \subseteq tracks
    /\ DOMAIN fed \subseteq Elements(graph) /\ inited \subseteq cfg.media

\* What a configured medium can carry to the outputs of a stream.
Parser(m) == IF m = "video" THEN cfg.vparser ELSE cfg.aparser
Encoder(m) == IF m = "video" THEN cfg.vcodec ELSE cfg.acodec
Carried(m) ==
    CASE IsRelay -> Offers(Parser(m))
      [] cfg.kind = "only_audio" /\ m = "video" -> IF IsH264Encoder THEN {"h264"} ELSE AnyCaps
      [] cfg.kind = "only_video" /\ m = "audio" -> IF IsAACEncoder THEN {"aac"} ELSE AnyCaps
      [] OTHER -> Offers(Encoder(m))
MpegAudio == IF IsRelay THEN cfg.aparser = "mpegaudioparse" ELSE ~ IsAACEncoder

\* Which outputs can be built: MPEG audio has no payloader of its own, an FLV
\* stream has no H.265 and no AC3, a transport stream is not muxed again, and
\* a mosaic pays H.264 before it parses it and every audio as AAC.
CanOutput(scheme) ==
    CASE scheme = "device" -> TRUE
      [] scheme = "other"  -> FALSE
      [] scheme = "rtmp"   -> \A m \in cfg.media : Carried(m) \cap {"h264", "aac", "mp3"} # {}
      [] scheme = "http"   -> \A m \in cfg.media : Carried(m) \cap Codecs # {}
      [] scheme = "udp" /\ IsMosaic ->
            /\ "video" \in cfg.media => ~ IsH264Encoder
            /\ "audio" \in cfg.media => IsAACEncoder
      [] OTHER -> MpegAudio /\ "audio" \in cfg.media
                  => cfg.media = {"audio"} /\ "mpegts" \in Carried("audio")

\* What every kind of stream needs: a source for each input that is read, and on
\* the way of decoded video no GPU filter and no logo to download.
Sourced ==
    IF IsMosaic THEN \A i \in 0 .. cfg.inputs - 1 : HasSource(i)
    ELSE cfg.kind \in {"device", "test_input"} \/ HasSource(0)
Filtered ==
    cfg.kind \in {"encoding", "only_video", "test_input"} /\ "video" \in cfg.media
        => ~ IsGpu /\ ~ LogoAborts

Buildable ==
    /\ Sourced
    /\ CASE cfg.kind = "device" /\ cfg.media # {} -> FALSE
         [] cfg.kind = "recorder"                 -> cfg.media = Media
         [] cfg.kind = "test_life"                -> TRUE
         [] OTHER -> /\ Filtered
                     /\ \A i \in DOMAIN cfg.outs : CanOutput(cfg.outs[i]) /\ HasSink(i - 1)

\* Which configurations end the process while the pipeline is built, across
\* all stages: exactly those that Buildable excludes. Whatever it admits gets
\* through every CHECK of ElementAdd and ElementLink.
BuiltExactly ==
    /\ pc = "running" => Buildable
    /\ pc = "crashed" => ~ Buildable

Entries(g, m) ==
    {e \in Elements(g) : e.name = UdbName[m] \/ (cfg.kind = "test_input" /\ e = TestSource(m))}
SinksOf(g, m) ==
    CASE cfg.kind = "test_life" -> {{e \in Elements(g) : e.plugin = "testsink"}}
      [] cfg.kind = "recorder"  -> {{e \in Elements(g) : e.plugin = "splitmuxsink"}}
      [] OTHER -> {{Element("sink", i - 1, "sink"), [DeviceSink[m] EXCEPT !.id = i - 1]} :
                     i \in {j \in DOMAIN cfg.outs : cfg.outs[j] # "device" \/ IsMosaic}}

\* A stream that runs has a way from every source of every configured medium
\* to every output it was asked for, whatever filters, encoders, payloaders and
\* muxers its configuration put in between; outputs to a device, which only a
\* mosaic has, are skipped by the others.
OutputsFed ==
    pc = "running" =>
        \A m \in cfg.media : \A e \in Entries(graph, m), S \in SinksOf(graph, m) : Behind(graph, e) \cap S # {}

\* The tracks that may feed a medium of an input.
Eligible(m, i) ==
    {t \in Present : /\ t.medium = m /\ t.input = i
                     /\ m = "video" \/ IsMosaic \/ cfg.select \in {NoSelect, t.id}}

\* What feeds a medium is a track of that medium and of that input, the chosen
\* one if the configuration chooses, and encoded the way the parser expects if
\* it is passed on without being encoded again; and once all pads were added, a
\* configured medium whose tracks all fit the pipeline is fed, in whatever
\* order decodebin offered them. (If a track that does not fit comes first,
\* the flag is set and a later one is turned away.)
FedRightly ==
    /\ \A e \in DOMAIN fed :
           /\ fed[e] \in Eligible(fed[e].medium, e.id)
           /\ e.name = UdbName[fed[e].medium]
           /\ IsRelay => fed[e].codec \in Offers(Parser(fed[e].medium))
    /\ pc = "running" /\ added = Present /\ cfg.kind # "test_input" =>
           \A m \in cfg.media : \A e \in Entries(graph, m) :
               LET T == Eligible(m, e.id)
               IN  T # {} /\ (\A t \in T : PadLinks(t, e)) => e \in DOMAIN fed

\* Every channel that a level element of a mosaic measures has a meter, so
\* that its messages write inside options_.sreams[i].sound.channels.
LevelsHaveMeters ==
    IsMosaic /\ "video" \in cfg.media =>
        \A e \in DOMAIN fed : fed[e].medium = "audio" => meters[e.id] >= fed[e].channels
=============================================================================
