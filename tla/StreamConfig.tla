---------------------------- MODULE StreamConfig ----------------------------
(***************************************************************************)
(* From the configuration in a request to a stream: the service validates  *)
(* the options one by one (ValidateConfig), decides whether to start the   *)
(* stream (MakeStreamInfo) and acknowledges; the child then reads the same *)
(* options a second time (make_config, make_timeshift_info), chooses the   *)
(* class of the stream (StreamsFactory::CreateStream) and builds its       *)
(* pipeline (IBaseStream::InitPipeLine); what the builders end the process *)
(* for is what Pipeline says. The links of the VOD server (AddStreamLine)  *)
(* keep validated options for later starts.                                *)
(*                                                                         *)
(* The text of an option is [num |-> n], [bool |-> b], [text |-> s] or     *)
(* [urls |-> seq]: what ConvertFromString makes of it is all that matters. *)
(* Numbers keep the width of an int, IntMax in scaled form; a number that  *)
(* does not fit is still a valid int64_t. A url is its scheme ("test" and  *)
(* "device" stand for the urls of IsTestInputUrl and IsDeviceOutUrl), the  *)
(* directory of an http output, and whether it is whole: its host parses   *)
(* (udp, tcp), its path names a file (http). CRITICAL_LOG is a log after   *)
(* which the code goes on.                                                 *)
(***************************************************************************)
EXTENDS Integers, Sequences, FiniteSets, FiniteSetsExt

CONSTANTS
    Requests,   \* configurations a client asks to start
    Syncs,      \* lists of configurations of a SYNC_SERVICE
    IntMax,     \* INT_MAX
    Writable,   \* directories the service can create or write
    RemoteLogos,      \* texts of logos whose url is not that of a file
    NotReachedAborts  \* NOTREACHED() ends the process, as CHECK does (external)

ASSUME IntAssumption == IntMax \in Nat /\ IntMax > 12 * 24 * 3600
ASSUME ChildAssumption == NotReachedAborts \in BOOLEAN

Url == [scheme : STRING, root : STRING, whole : BOOLEAN]

\* Where the text of an option is one of urls, they are a list.
UrlsAreLists(request) ==
    \A k \in DOMAIN request : "urls" \in DOMAIN request[k] =>
        request[k].urls \in Seq(Url)

ASSUME RequestsAssumption ==
    /\ \A r \in Requests : UrlsAreLists(r)
    /\ \A l \in Syncs : Len(l) \in Nat /\ \A i \in 1..Len(l) : UrlsAreLists(l[i])

VARIABLES
    phase,      \* "idle", "refused", "acknowledged", "configured", "created",
                \* "running", "child waits", "child failed", "child aborted",
                \* "service aborted"
    args,       \* the ArgsMap of the latest start
    conf,       \* the Config the child made of it
    kind,       \* the class of its stream
    vodsLinks   \* vods_links_: the options of each directory

vars == <<phase, args, conf, kind, vodsLinks>>

Nothing == [none |-> TRUE]

\* The options or fields of f, and the others of g.
f ++ g == [k \in DOMAIN f \union DOMAIN g |-> IF k \in DOMAIN f THEN f[k] ELSE g[k]]

-----------------------------------------------------------------------------
(* ConvertFromString, for the types the code reads.                        *)

IsNum(t) == "num" \in DOMAIN t
IsInt(t) == IsNum(t) /\ t.num \in -(IntMax + 1)..IntMax
IsBool(t) == "bool" \in DOMAIN t /\ t.bool \in BOOLEAN
IsUrls(t) == "urls" \in DOMAIN t
IsText(t) == "text" \in DOMAIN t

\* A size, a logo or a ratio: any text but the empty one converts.
IsWellFormed(t) == IsText(t) /\ t.text # ""

\* A path is accepted when it is not empty.
IsValidPath(t) == IsText(t) /\ t.text # ""

-----------------------------------------------------------------------------
(* The validators.                                                         *)

ValidateRange(t, min, max) == IsInt(t) /\ t.num >= min /\ t.num <= max

ValidateIsPositive(t) == IsNum(t) /\ t.num >= 0

VideoParsers == {"tsparse", "h264parse", "h265parse"}
AudioParsers == {"mpegaudioparse", "aacparse", "ac3parse"}
VideoEncoders ==
    {"eavcenc", "openh264enc", "x264enc", "nvh264enc", "vaapih264enc",
     "vaapimpeg2enc", "mfxh264enc", "x265enc", "msdkh264enc"}
AudioEncoders == {"lamemp3enc", "faac", "voaacenc"}

OneOf(t, names) == IsText(t) /\ t.text \in names

\* The validators of the general options.
GeneralValid(validator, t) ==
    CASE validator = "id" -> t # [text |-> ""]
      [] validator = "input" -> TRUE
      [] validator = "output" -> IsUrls(t)
      [] validator = "restart_attempts" -> IsNum(t) /\ t.num >= 1
      [] validator \in {"feedback_dir", "timeshift_dir"} -> IsValidPath(t)
      [] validator \in {"chunk_life_time", "timeshift_delay"} ->
            ValidateRange(t, 0, 12 * 24 * 3600)
      [] validator = "video_parser" -> OneOf(t, VideoParsers)
      [] validator = "audio_parser" -> OneOf(t, AudioParsers)
      [] validator = "video_codec" -> OneOf(t, VideoEncoders)
      [] validator = "audio_codec" -> OneOf(t, AudioEncoders)
      [] validator = "type" -> ValidateRange(t, 0, 9)
      [] validator = "log_level" -> ValidateRange(t, 0, 7)
      [] validator = "volume" -> IsNum(t) /\ t.num >= 0 /\ t.num <= 10
      [] validator = "is_positive" -> ValidateIsPositive(t)
      [] validator \in {"size", "logo", "aspect_ratio"} -> IsWellFormed(t)
      [] validator = "cleanup_ts" -> IsBool(t)
      [] validator = "decklink_video_mode" -> ValidateRange(t, 0, 30)
      [] validator = "audio_select" -> IsInt(t)
      [] OTHER -> FALSE

\* The ranges and the lists of values of the encoders' options.
EncoderRanges ==
    [mfxPreset |-> 0..7, mfxGop |-> 0..65535, nvPreset |-> 0..65535,
     speedPreset |-> 0..10, threads |-> 0..IntMax, x264Tune |-> {0, 1, 2, 4},
     keyIntMax |-> 0..IntMax, vbvCapacity |-> 0..10000,
     rcLookahead |-> 0..250, qpMax |-> 0..51, pass |-> {0, 4, 5, 17, 18, 19},
     me |-> 0..4, keyframePeriod |-> 0..300, vaapiTune |-> {0, 1, 3},
     maxBframes |-> 0..10, numSlices |-> 1..200, qp |-> 1..51,
     vaapiRate |-> {1, 2, 4, 5}, cpbLength |-> 0..10000,
     integer |-> -(IntMax + 1)..IntMax]

EncoderValid(validator, t) ==
    IF validator = "string" THEN t # [text |-> ""]
    ELSE IsInt(t) /\ t.num \in EncoderRanges[validator]

\* ALLOWED_OPTIONS: the options that have each validator.
OptionsOf ==
    [id |-> {"id"}, type |-> {"type"}, feedback_dir |-> {"feedback_directory"},
     log_level |-> {"log_level"}, input |-> {"input"}, output |-> {"output"},
     restart_attempts |-> {"restart_attempts"},
     timeshift_dir |-> {"timeshift_dir"},
     chunk_life_time |-> {"timeshift_chunk_life_time"},
     timeshift_delay |-> {"timeshift_delay"},
     video_parser |-> {"video_parser"}, audio_parser |-> {"audio_parser"},
     audio_codec |-> {"audio_codec"}, video_codec |-> {"video_codec"},
     volume |-> {"volume"}, size |-> {"size"}, cleanup_ts |-> {"cleanup_ts"},
     logo |-> {"logo"}, aspect_ratio |-> {"aspect_ratio"},
     audio_select |-> {"audio_select"},
     decklink_video_mode |-> {"decklink_video_mode"},
     is_positive |->
        {"auto_exit_time", "delay_time", "timeshift_chunk_duration",
         "framerate", "video_bitrate", "audio_bitrate", "audio_channels"},
     dont_validate |->
        {"mainprofile", "mainprofile_external", "have_video", "have_audio",
         "deinterlace", "relay_audio", "relay_video", "loop", "avformat",
         "x264enc.option-string", "x264enc.interlaced", "x264enc.dct8x8",
         "x264enc.b-adapt", "x264enc.byte-stream", "x264enc.cabac",
         "x264enc.sliced-threads", "x264enc.quantizer",
         "vaapih264enc.cabac", "vaapih264enc.dct8x8",
         "openh264enc.multi-thread", "eavcenc.gop-adaptive"},
     nvPreset |-> {"nvh264enc.preset"}, mfxPreset |-> {"mfxh264enc.preset"},
     mfxGop |-> {"mfxh264enc.gop-size"},
     speedPreset |-> {"x264enc.speed-preset"}, threads |-> {"x264enc.threads"},
     x264Tune |-> {"x264enc.tune"}, keyIntMax |-> {"x264enc.key-int-max"},
     vbvCapacity |-> {"x264enc.vbv-buf-capacity"},
     rcLookahead |-> {"x264enc.rc-lookahead"}, qpMax |-> {"x264enc.qp-max"},
     pass |-> {"x264enc.pass"}, me |-> {"x264enc.me"},
     string |-> {"x264enc.profile", "x264enc.stream-format"},
     keyframePeriod |-> {"vaapih264enc.keyframe-period"},
     vaapiTune |-> {"vaapih264enc.tune"},
     maxBframes |-> {"vaapih264enc.max-bframes"},
     numSlices |-> {"vaapih264enc.num-slices"},
     qp |-> {"vaapih264enc.init-qp", "vaapih264enc.min-qp"},
     vaapiRate |-> {"vaapih264enc.rate-control"},
     cpbLength |-> {"vaapih264enc.cpb-length"},
     integer |->
        {"openh264enc.complexity", "openh264enc.rate-control",
         "openh264enc.gop-size", "eavcenc.preset", "eavcenc.profile",
         "eavcenc.performance", "eavcenc.bitrate-mode", "eavcenc.bitrate-pass",
         "eavcenc.bitrate-max", "eavcenc.vbv-size", "eavcenc.picture-mode",
         "eavcenc.entropy-mode", "eavcenc.gop-max-bcount",
         "eavcenc.gop-max-length", "eavcenc.gop-min-length", "eavcenc.level",
         "eavcenc.deblock-mode", "eavcenc.deblock-alpha",
         "eavcenc.deblock-beta", "eavcenc.initial-param",
         "eavcenc.field-order"}]

Validators == DOMAIN OptionsOf
Known == UNION {OptionsOf[v] : v \in Validators}

FindOption(key) == CHOOSE v \in Validators : key \in OptionsOf[v]

OptionValid(key, t) ==
    LET v == FindOption(key)
    IN  CASE v = "dont_validate" -> TRUE
          [] v \in DOMAIN EncoderRanges \union {"string"} -> EncoderValid(v, t)
          [] OTHER -> GeneralValid(v, t)

\* Options that are unknown or not valid are left out.
ValidateConfig(request) ==
    LET kept == {k \in DOMAIN request \intersect Known : OptionValid(k, request[k])}
    IN  [k \in kept |-> request[k]]

\* A configuration that is not JSON: the null object is iterated over. (The
\* validator of timeshift_dir is FATAL by name only, the option is left out.)
NotJson == "not json"
FatalConfig(request) == NotJson \in DOMAIN request

-----------------------------------------------------------------------------
(* utils::ArgsGetValue at the types the code uses; an optional field of a  *)
(* configuration is the set of its values, empty when it has none.         *)

GetInt(a, k, default) == IF k \in DOMAIN a /\ IsInt(a[k]) THEN a[k].num ELSE default
GetNum(a, k, default) == IF k \in DOMAIN a /\ IsNum(a[k]) THEN a[k].num ELSE default
GetBool(a, k, default) == IF k \in DOMAIN a /\ IsBool(a[k]) THEN a[k].bool ELSE default
GetText(a, k, default) == IF k \in DOMAIN a /\ IsText(a[k]) THEN a[k].text ELSE default
OptInt(a, k) == {a[m].num : m \in {m \in {k} \intersect DOMAIN a : IsInt(a[m])}}
OptNum(a, k) == {a[m].num : m \in {m \in {k} \intersect DOMAIN a : IsNum(a[m])}}
OptBool(a, k) == {a[m].bool : m \in {m \in {k} \intersect DOMAIN a : IsBool(a[m])}}
OptText(a, k) == {a[m].text : m \in {m \in {k} \intersect DOMAIN a : IsText(a[m])}}
HasUrls(a, k) == k \in DOMAIN a /\ IsUrls(a[k])

CreateAndCheckDir(dir) == dir \in Writable

-----------------------------------------------------------------------------
(* The service decides.                                                    *)

PROXY == 0
RELAY == 1
ENCODE == 2
TIMESHIFT_PLAYER == 3
TIMESHIFT_RECORDER == 4
CATCHUP == 5
TEST_LIFE == 6
VOD_RELAY == 7
VOD_ENCODE == 8
SCREEN == 9

NoOutputs == {TIMESHIFT_RECORDER, CATCHUP}

\* Mutant: the outputs of a stream are not looked at.
OutputsUnchecked(a) ==
    GetInt(a, "type", PROXY) \in NoOutputs =>
        /\ "timeshift_dir" \in DOMAIN a
        /\ CreateAndCheckDir(a["timeshift_dir"].text)

\* The directories a stream writes to: checked unless only a link is made.
FoldersReady(a) ==
    IF GetInt(a, "type", PROXY) \in NoOutputs
    THEN /\ "timeshift_dir" \in DOMAIN a
         /\ CreateAndCheckDir(a["timeshift_dir"].text)
    ELSE /\ HasUrls(a, "output")
         /\ \A i \in 1..Len(a["output"].urls) :
                a["output"].urls[i].scheme = "http" =>
                    CreateAndCheckDir(a["output"].urls[i].root)

MakeStreamInfo(a, checkFolders) ==
    /\ "id" \in DOMAIN a
    /\ "type" \in DOMAIN a /\ a["type"].num # PROXY
    /\ "feedback_directory" \in DOMAIN a
    /\ CreateAndCheckDir(a["feedback_directory"].text)
    /\ HasUrls(a, "input")
    /\ checkFolders => FoldersReady(a)

\* The links a configuration adds: one for each http output of a VOD.
AddStreamLine(request) ==
    LET a == ValidateConfig(request)
        roots == IF /\ MakeStreamInfo(a, FALSE)
                    /\ a["type"].num \in {VOD_ENCODE, VOD_RELAY}
                    /\ HasUrls(a, "output")
                 THEN {a["output"].urls[i].root :
                         i \in {i \in 1..Len(a["output"].urls) :
                                  a["output"].urls[i].scheme = "http"}}
                 ELSE {}
    IN  [r \in roots |-> [cleanup_ts |-> [bool |-> FALSE]] ++ a]

-----------------------------------------------------------------------------
(* The child reads the options.                                            *)

BaseConfig(a) ==
    [type |-> a["type"].num,
     input |-> a["input"].urls,
     output |-> IF HasUrls(a, "output") /\ ~( /\ a["type"].num \in NoOutputs
                                              /\ Len(a["input"].urls) <= 1 )
                THEN a["output"].urls ELSE <<>>,
     max_restart_attempts |-> GetNum(a, "restart_attempts", 10),
     ttl_sec |-> OptNum(a, "auto_exit_time")]

AudioVideoConfig(a) ==
    [have_video |-> GetBool(a, "have_video", TRUE),
     have_audio |-> GetBool(a, "have_audio", TRUE),
     audio_select |-> OptInt(a, "audio_select"),
     avformat |-> GetBool(a, "avformat", FALSE),
     loop |-> GetBool(a, "loop", FALSE)] ++ BaseConfig(a)

RelayConfig(a) ==
    [video_parser |-> GetText(a, "video_parser", "h264parse"),
     audio_parser |-> GetText(a, "audio_parser", "aacparse")]
    ++ AudioVideoConfig(a)

VodRelayConfig(a) ==
    [cleanup_ts |-> GetBool(a, "cleanup_ts", FALSE)] ++ RelayConfig(a)

TimeshiftConfig(a) ==
    [timeshift_chunk_duration |-> GetNum(a, "timeshift_chunk_duration", 120)]
    ++ RelayConfig(a)

IntegerArgs ==
    {"x264enc.sliced-threads", "x264enc.b-adapt", "x264enc.byte-stream",
     "x264enc.quantizer", "vaapih264enc.cabac", "vaapih264enc.dct8x8",
     "openh264enc.multi-thread"}
    \union UNION {OptionsOf[v] : v \in DOMAIN EncoderRanges}
StringArgs ==
    {"x264enc.profile", "x264enc.stream-format", "x264enc.option-string"}
FlagArgs == {"x264enc.interlaced", "x264enc.dct8x8", "eavcenc.gop-adaptive"}

\* The arguments of the encoders: a number as it is, a flag only when set, a
\* string whatever its text is.
InitVideoEncodersWithArgs(a) ==
    LET ints == {k \in IntegerArgs \intersect DOMAIN a : IsInt(a[k])}
        flags == {k \in FlagArgs : GetBool(a, k, FALSE)}
    IN  [video_encoder_args |->
            [k \in ints |-> a[k].num] ++ [k \in flags |-> 1],
         video_encoder_str_args |-> [k \in StringArgs \intersect DOMAIN a |-> a[k]]]

\* Mutant: the bitrate of the audio is read from the option of the video.
BitrateShared(a) ==
    [relay_audio |-> GetBool(a, "relay_audio", FALSE),
     relay_video |-> GetBool(a, "relay_video", FALSE),
     deinterlace |-> OptBool(a, "deinterlace"),
     frame_rate |-> OptInt(a, "framerate"),
     volume |-> OptNum(a, "volume"),
     video_encoder |-> GetText(a, "video_codec", "x264enc"),
     audio_encoder |-> GetText(a, "audio_codec", "faac"),
     audio_channels |-> OptInt(a, "audio_channels"),
     size |-> GetText(a, "size", ""),
     video_bit_rate |-> OptInt(a, "video_bitrate"),
     audio_bit_rate |-> OptInt(a, "video_bitrate"),
     logo |-> GetText(a, "logo", ""),
     aspect_ratio |-> OptText(a, "aspect_ratio"),
     decklink_video_mode |-> GetInt(a, "decklink_video_mode", 1)]
    ++ InitVideoEncodersWithArgs(a) ++ AudioVideoConfig(a)

EncodingConfig(a) ==
    [relay_audio |-> GetBool(a, "relay_audio", FALSE),
     relay_video |-> GetBool(a, "relay_video", FALSE),
     deinterlace |-> OptBool(a, "deinterlace"),
     frame_rate |-> OptInt(a, "framerate"),
     volume |-> OptNum(a, "volume"),
     video_encoder |-> GetText(a, "video_codec", "x264enc"),
     audio_encoder |-> GetText(a, "audio_codec", "faac"),
     audio_channels |-> OptInt(a, "audio_channels"),
     size |-> GetText(a, "size", ""),
     video_bit_rate |-> OptInt(a, "video_bitrate"),
     audio_bit_rate |-> OptInt(a, "audio_bitrate"),
     logo |-> GetText(a, "logo", ""),
     aspect_ratio |-> OptText(a, "aspect_ratio"),
     decklink_video_mode |-> GetInt(a, "decklink_video_mode", 1)]
    ++ InitVideoEncodersWithArgs(a) ++ AudioVideoConfig(a)

VodEncodeConfig(a) ==
    [cleanup_ts |-> GetBool(a, "cleanup_ts", FALSE)] ++ EncodingConfig(a)

\* A child without an output it needs refuses the configuration.
OutputMissing(a) ==
    /\ ~(a["type"].num \in NoOutputs /\ Len(a["input"].urls) <= 1)
    /\ ~HasUrls(a, "output")

make_config(a) ==
    LET t == a["type"].num
    IN  CASE t = SCREEN -> AudioVideoConfig(a)
          [] t \in {RELAY, TIMESHIFT_PLAYER, TEST_LIFE} -> RelayConfig(a)
          [] t = VOD_RELAY -> VodRelayConfig(a)
          [] t = ENCODE -> EncodingConfig(a)
          [] t = VOD_ENCODE -> VodEncodeConfig(a)
          [] t \in NoOutputs -> TimeshiftConfig(a)

\* CHECK(max_restart_attempts > 0) and CHECK(GetTimeShiftChunkDuration()).
ConfigAborts(a) ==
    \/ GetNum(a, "restart_attempts", 10) = 0
    \/ /\ a["type"].num \in NoOutputs
       /\ GetNum(a, "timeshift_chunk_duration", 120) = 0

IsPlaylist(c) == \A i \in 1..Len(c.input) : c.input[i].scheme = "file"

IsVod(c) == ~c.loop /\ Len(c.input) = 1 /\ c.input[1].scheme = "file"

Abort == "abort"
None == "nullptr"

\* The class of the stream; Abort stands for the first element of an empty list,
\* None for NOTREACHED(), after which there is no stream.
CreateStream(c) ==
    CASE c.type = RELAY ->
            IF Len(c.input) <= 1 THEN "RelayStream"
            ELSE IF IsPlaylist(c) THEN "PlaylistRelayStream" ELSE None
      [] c.type = ENCODE ->
            IF Len(c.input) = 0 THEN Abort
            ELSE IF Len(c.input) > 1
                 THEN IF IsPlaylist(c) THEN "PlaylistEncodingStream" ELSE "MosaicStream"
            ELSE IF c.input[1].scheme = "test" THEN "TestInputStream"
            ELSE IF c.input[1].scheme = "dev" THEN "DeviceStream"
            ELSE IF c.relay_video THEN "EncodingOnlyAudioStream"
            ELSE IF c.relay_audio THEN "EncodingOnlyVideoStream"
            ELSE "EncodingStream"
      [] c.type = TIMESHIFT_PLAYER -> "TimeShiftPlayerStream"
      [] c.type = TIMESHIFT_RECORDER -> "TimeShiftRecorderStream"
      [] c.type = CATCHUP -> "CatchupStream"
      [] c.type = TEST_LIFE -> "TestLifeStream"
      [] c.type = VOD_RELAY -> IF IsVod(c) THEN "VodRelayStream" ELSE None
      [] c.type = VOD_ENCODE -> IF IsVod(c) THEN "VodEncodeStream" ELSE None
      [] OTHER -> None

-----------------------------------------------------------------------------
(* The builders, of which Pipeline is the model.                           *)

RelayClasses == {"RelayStream", "PlaylistRelayStream", "TimeShiftPlayerStream",
                 "VodRelayStream"}
RecorderClasses == {"TimeShiftRecorderStream", "CatchupStream"}
OwnSources == {"PlaylistRelayStream", "PlaylistEncodingStream", "TimeShiftPlayerStream"}

\* The builder of each class.
BuilderKind(k) ==
    CASE k \in RelayClasses    -> "relay"
      [] k \in RecorderClasses -> "recorder"
      [] k = "TestLifeStream"  -> "test_life"
      [] k = "TestInputStream" -> "test_input"
      [] k = "DeviceStream"    -> "device"
      [] k = "MosaicStream"    -> "mosaic"
      [] k = "EncodingOnlyAudioStream" -> "only_audio"
      [] k = "EncodingOnlyVideoStream" -> "only_video"
      [] OTHER -> "encoding"

\* The encoder of Pipeline that is built like e.
BuilderEncoder(e, k) ==
    CASE e \in {"x265enc", "vaapih264enc", "mfxh264enc"} -> e
      [] e = "vaapimpeg2enc" -> IF k = "MosaicStream" THEN "x265enc" ELSE "vaapih264enc"
      [] OTHER -> "x264enc"

\* Encoders whose codec GetVideoCodecType and the mosaic have no payloader for.
Unpaid == {"eavcenc", "msdkh264enc", "vaapimpeg2enc"}
PayUnknown(c, k) ==
    /\ k \notin RelayClasses \union RecorderClasses \union {"TestLifeStream"}
    /\ k = "MosaicStream" \/ NotReachedAborts
    /\ c.have_video /\ c.video_encoder \in Unpaid
    /\ \E i \in 1..Len(c.output) : c.output[i].scheme = "udp"

\* make_src, make_muxer and build_output, by the url.
HasSrc(url) ==
    \/ url.scheme \in {"file", "http", "https", "rtmp"}
    \/ url.scheme \in {"udp", "tcp"} /\ url.whole
BuilderScheme(url) ==
    CASE url.scheme = "tcp" -> "http"
      [] url.scheme \in {"udp", "http", "rtmp", "device"} -> url.scheme
      [] OTHER -> "other"

Field(c, f, default) == IF f \in DOMAIN c THEN c[f] ELSE default

\* What the builder is given; options that only add filters are left out.
BuilderConfig(c, k) ==
    [kind |-> BuilderKind(k),
     media |-> (IF c.have_video THEN {"video"} ELSE {})
                \union (IF c.have_audio THEN {"audio"} ELSE {}),
     vcodec |-> BuilderEncoder(Field(c, "video_encoder", "x264enc"), k),
     acodec |-> IF Field(c, "audio_encoder", "faac") = "lamemp3enc"
                THEN "lamemp3enc" ELSE "faac",
     vparser |-> Field(c, "video_parser", "h264parse"),
     aparser |-> Field(c, "audio_parser", "aacparse"),
     opts |-> (IF k \in OwnSources THEN {"own_source"} ELSE {})
               \union (IF Field(c, "logo", "") # "" THEN {"logo"} ELSE {})
               \union (IF Field(c, "logo", "") \in RemoteLogos THEN {"remote_logo"} ELSE {}),
     outs |-> [i \in 1..Len(c.output) |-> BuilderScheme(c.output[i])],
     inputs |-> Len(c.input),
     select |-> -1,
     noSource |-> {i - 1 : i \in {i \in 1..Len(c.input) : ~HasSrc(c.input[i])}},
     noSink |-> {i - 1 : i \in {i \in 1..Len(c.output) : ~c.output[i].whole}}]

Builder == INSTANCE Pipeline WITH
    cfg <- BuilderConfig(conf, kind), Configs <- {}, TrackSets <- {}, tracks <- {},
    pc <- phase, graph <- {}, caps <- {}, added <- {}, fed <- {}, inited <- {}, meters <- {}

-----------------------------------------------------------------------------
Init ==
    /\ phase = "idle" /\ args = <<>> /\ conf = Nothing /\ kind = ""
    /\ vodsLinks = <<>>

\* CreateChildStream for options that are validated.
Create(a) ==
    /\ args' = a /\ conf' = Nothing /\ kind' = ""
    /\ phase' = IF MakeStreamInfo(a, TRUE) THEN "acknowledged" ELSE "refused"

\* HandleRequestClientStartStream.
StartStream(request) ==
    /\ phase = "idle"
    /\ IF FatalConfig(request)
       THEN phase' = "service aborted" /\ UNCHANGED <<args, conf, kind>>
       ELSE Create(ValidateConfig(request))
    /\ UNCHANGED vodsLinks

\* The part of HandleRequestClientSyncService that is about the links: the
\* lines one after the other, of which a later one replaces the link of an
\* earlier one.
SyncService(list) ==
    /\ phase = "idle"
    /\ IF \E i \in 1..Len(list) : FatalConfig(list[i])
       THEN phase' = "service aborted" /\ UNCHANGED vodsLinks
       ELSE /\ vodsLinks' =
                 LET lines == [i \in 1..Len(list) |-> AddStreamLine(list[i])]
                     With(r) == {i \in 1..Len(list) : r \in DOMAIN lines[i]}
                 IN  [r \in UNION {DOMAIN lines[i] : i \in 1..Len(list)} |->
                        lines[Max(With(r))][r]]
            /\ UNCHANGED phase
    /\ UNCHANGED <<args, conf, kind>>

\* OnHttpRequest: the playlist of a link is asked for and is not complete.
StartVod(root) ==
    /\ phase = "idle"
    /\ root \in DOMAIN vodsLinks
    /\ Create(vodsLinks[root])
    /\ UNCHANGED vodsLinks

\* StreamController::Init in the child.
ChildInit ==
    /\ phase = "acknowledged"
    /\ IF OutputMissing(args)
       THEN phase' = "child failed" /\ UNCHANGED conf
       ELSE IF ConfigAborts(args)
       THEN phase' = "child aborted" /\ UNCHANGED conf
       ELSE phase' = "configured" /\ conf' = make_config(args)
    /\ UNCHANGED <<args, kind, vodsLinks>>

\* The player of no directory finds no chunk, and waits for one.
ChildWaits ==
    /\ phase = "configured"
    /\ conf.type = TIMESHIFT_PLAYER /\ "timeshift_dir" \notin DOMAIN args
    /\ phase' = "child waits"
    /\ UNCHANGED <<args, conf, kind, vodsLinks>>

\* A turn of the loop of StreamController::Exec as far as CreateStream; a
\* player finds a chunk to play.
ChildCreate ==
    /\ phase = "configured"
    /\ conf.type = TIMESHIFT_PLAYER => "timeshift_dir" \in DOMAIN args
    /\ kind' = CreateStream(conf)
    /\ phase' = IF kind' = Abort \/ (kind' = None /\ NotReachedAborts) THEN "child aborted"
                ELSE IF kind' = None THEN "child failed" ELSE "created"
    /\ UNCHANGED <<args, conf, vodsLinks>>

\* SrcDecodeBinStream::PreLoop, which takes input[0] and which a playlist does
\* not have. Of the others without an input only a player is built.
NoFirstInput(c, k) == k = "TimeShiftPlayerStream" /\ c.input = <<>>

\* IBaseStream::Exec as far as its main loop: InitPipeLine and PreLoop. A mosaic
\* without a layout fails, and fails again whenever it is tried again; where a
\* builder meets a CHECK or a null element the process ends.
ChildBuild ==
    /\ phase = "created"
    /\ phase' = IF kind = "MosaicStream" /\ ~Builder!HasLayout THEN "child failed"
                ELSE IF /\ Builder!Buildable /\ ~PayUnknown(conf, kind)
                        /\ ~NoFirstInput(conf, kind)
                THEN "running"
                ELSE "child aborted"
    /\ UNCHANGED <<args, conf, kind, vodsLinks>>

\* The answer was an error, or the child has ended: the service keeps nothing
\* of the stream.
Forget ==
    /\ phase \in {"refused", "running", "child waits", "child failed", "child aborted"}
    /\ phase' = "idle" /\ args' = <<>> /\ conf' = Nothing /\ kind' = ""
    /\ UNCHANGED vodsLinks

Next ==
    \/ \E r \in Requests : StartStream(r)
    \/ \E l \in Syncs : SyncService(l)
    \/ \E root \in DOMAIN vodsLinks : StartVod(root)
    \/ ChildInit
    \/ ChildWaits
    \/ ChildCreate
    \/ ChildBuild
    \/ Forget

Spec == Init /\ [][Next]_vars

-----------------------------------------------------------------------------
(* Properties.                                                             *)

\* Streams that encode the video they decode.
Recoding == {"EncodingStream", "PlaylistEncodingStream", "VodEncodeStream",
             "EncodingOnlyVideoStream", "TestInputStream"}
Encoding == Recoding \union {"EncodingOnlyAudioStream", "DeviceStream"}

\* An output that the stream cannot be given: its url, and the codecs that its
\* muxer or payloader does not take.
OutputGap(c, k, url) ==
    LET s == BuilderScheme(url)
        video == c.have_video
        audio == c.have_audio
    IN  \/ s = "other"
        \/ s \in {"udp", "http"} /\ ~url.whole
        \/ /\ k \in RelayClasses
           /\ \/ s = "udp" /\ audio /\ c.audio_parser = "mpegaudioparse"
              \/ s = "http" /\ video /\ c.video_parser = "tsparse"
              \/ s = "rtmp" /\ video /\ c.video_parser # "h264parse"
              \/ s = "rtmp" /\ audio /\ c.audio_parser = "ac3parse"
        \/ /\ k \in Encoding /\ s = "udp"
           /\ \/ /\ audio /\ c.audio_encoder = "lamemp3enc"
                 /\ k = "EncodingOnlyVideoStream" => video
              \/ video /\ c.video_encoder \in Unpaid /\ NotReachedAborts
        \/ /\ k = "MosaicStream" /\ s = "udp"
           /\ \/ audio /\ c.audio_encoder = "lamemp3enc"
              \/ video /\ c.video_encoder # "x265enc"
        \/ /\ k \in Recoding \union {"MosaicStream"} /\ s = "rtmp" /\ video
           /\ \/ c.video_encoder = "x265enc"
              \/ k = "MosaicStream" /\ c.video_encoder = "vaapimpeg2enc"

\* A stream whose pipeline cannot be built: no source for an input that is
\* read, a device, a recording of one medium, a mosaic of a number of inputs
\* it has no layout for, a filter on a GPU, a logo to download, an output.
BuildGap(c, k) ==
    LET video == c.have_video
        audio == c.have_audio
    IN  \/ /\ k \notin OwnSources \union {"MosaicStream", "TestInputStream", "DeviceStream"}
           /\ c.input = <<>> \/ ~HasSrc(c.input[1])
        \/ k = "DeviceStream" /\ (video \/ audio)
        \/ k \in RecorderClasses /\ ~(video /\ audio)
        \/ /\ k = "MosaicStream"
           /\ \/ Len(c.input) \notin {1, 2, 4, 9, 16}
              \/ \E i \in 1..Len(c.input) : ~HasSrc(c.input[i])
        \/ /\ k \in Recoding /\ video
           /\ \/ c.video_encoder \in {"vaapih264enc", "vaapimpeg2enc", "mfxh264enc"}
              \/ NotReachedAborts /\ c.logo # "" /\ c.logo \in RemoteLogos
        \/ /\ k \in RelayClasses \union Encoding \union {"MosaicStream"}
           /\ \E i \in 1..Len(c.output) : OutputGap(c, k, c.output[i])

\* What MakeStreamInfo does not look at and the child cannot do without: to
\* make a configuration, to find a class, to build the pipeline, to enter the
\* main loop.
Gap(a) ==
    LET t == a["type"].num
        in == a["input"].urls
        files == \A i \in 1..Len(in) : in[i].scheme = "file"
        c == make_config(a)
        k == CreateStream(c)
    IN  \/ t \in NoOutputs /\ Len(in) > 1 /\ ~HasUrls(a, "output")
        \/ t \in NoOutputs /\ GetNum(a, "timeshift_chunk_duration", 120) = 0
        \/ t = TIMESHIFT_PLAYER /\ "timeshift_dir" \notin DOMAIN a
        \/ t = ENCODE /\ in = <<>>
        \/ t = RELAY /\ Len(in) > 1 /\ ~files
        \/ t \in {VOD_RELAY, VOD_ENCODE} /\ (Len(in) # 1 \/ ~files \/ GetBool(a, "loop", FALSE))
        \/ t = SCREEN
        \/ k \notin {Abort, None} /\ (BuildGap(c, k) \/ NoFirstInput(c, k))

\* MakeStreamInfo, make_config, CreateStream and the builders look at the same
\* options: a stream the service acknowledges comes to run its main loop, or is
\* one of the cases of Gap, in which the client is told of a success and the
\* child dies, fails at every attempt or waits for ever.
AcknowledgedRuns ==
    /\ phase = "running" => ~Gap(args)
    /\ phase \in {"child waits", "child failed", "child aborted"} => Gap(args)

Required == {"id", "type", "feedback_directory", "input", "output", "timeshift_dir"}

\* Options no configuration of an encoder reads.
UnreadByEncoders ==
    {"log_level", "timeshift_chunk_life_time", "timeshift_delay",
     "timeshift_chunk_duration", "video_parser", "audio_parser", "cleanup_ts",
     "mainprofile", "mainprofile_external", "delay_time", "x264enc.cabac"}

\* Texts the reader of an option cannot convert, and those that say what holds
\* without the option.
Unconverted(k, t) ==
    \/ /\ k \in IntegerArgs \union {"framerate", "video_bitrate", "audio_bitrate", "audio_channels"}
       /\ ~IsInt(t)
    \/ k \in OptionsOf.dont_validate \ (IntegerArgs \union StringArgs) /\ ~IsBool(t)
SaysDefault(k, t) ==
    \/ k \in {"have_video", "have_audio"} /\ t.bool
    \/ k \in {"avformat", "loop", "relay_audio", "relay_video"} \union FlagArgs /\ ~t.bool
    \/ k = "restart_attempts" /\ t.num = 10
    \/ k = "decklink_video_mode" /\ t.num = 1
    \/ k = "video_codec" /\ t.text = "x264enc"
    \/ k = "audio_codec" /\ t.text = "faac"

Differing(c, d) ==
    {f \in DOMAIN c \ {"video_encoder_args", "video_encoder_str_args"} : c[f] # d[f]}
    \union IF "video_encoder_args" \notin DOMAIN c THEN {}
           ELSE (DOMAIN c.video_encoder_args \ DOMAIN d.video_encoder_args)
                \union (DOMAIN c.video_encoder_str_args
                            \ DOMAIN d.video_encoder_str_args)

\* make_config and the validators: without any one of its options a stream
\* would have the same configuration but for one field, which has its
\* default; and an option that was found valid is without effect for an
\* encoder exactly when no code reads it, its text does not convert or says
\* what is the default anyway.
OptionReachesOneField ==
    phase = "configured" =>
        LET least == make_config([k \in Required \intersect DOMAIN args |-> args[k]])
        IN  \A k \in DOMAIN args \ Required :
                LET without == make_config([m \in DOMAIN args \ {k} |-> args[m]])
                    diff == Differing(conf, without)
                IN  /\ Cardinality(diff) <= 1
                    /\ \A f \in diff \intersect DOMAIN least : without[f] = least[f]
                    /\ conf.type = ENCODE =>
                            (diff = {} <=> \/ k \in UnreadByEncoders
                                           \/ Unconverted(k, args[k])
                                           \/ SaysDefault(k, args[k]))

=============================================================================
