--------------------------- MODULE MCStreamConfig ---------------------------
(***************************************************************************)
(* Requests of every type with every kind of input, then with one more     *)
(* option, then with two of the options the code treats together, and one  *)
(* with all the options at once.                                           *)
(***************************************************************************)
EXTENDS StreamConfig, TLC

MCUrl(s) == [scheme |-> s, root |-> "r1", whole |-> TRUE]
MCBroken(s) == [MCUrl(s) EXCEPT !.whole = FALSE]
MCHttp(r) == [MCUrl("http") EXCEPT !.root = r]
MCInputs ==
    {<<>>, <<MCUrl("file")>>, <<MCUrl("udp")>>, <<MCUrl("dev")>>, <<MCUrl("test")>>,
     <<MCBroken("udp")>>, <<MCUrl("ftp")>>, <<MCUrl("file"), MCUrl("file")>>,
     <<MCUrl("file"), MCUrl("udp")>>, <<MCUrl("udp"), MCBroken("tcp")>>,
     <<MCUrl("file"), MCUrl("udp"), MCUrl("https")>>}
MCOutputs ==
    {<<MCUrl("udp")>>, <<MCUrl("http"), MCHttp("r2")>>, <<MCHttp("locked")>>}

MCBase(type, in, out) ==
    "id" :> [text |-> "s"] @@ "type" :> [num |-> type]
    @@ "feedback_directory" :> [text |-> "f"] @@ "input" :> [urls |-> in]
    @@ "output" :> [urls |-> out] @@ "timeshift_dir" :> [text |-> "t"]

MCNumbers == {[num |-> 0], [num |-> 1], [num |-> 5], [num |-> 10], [num |-> IntMax + 1],
              [num |-> -1]}
MCBooleans == {[bool |-> TRUE], [bool |-> FALSE]}
MCTexts == {[text |-> ""], [text |-> "h265parse"], [text |-> "nvh264enc"],
            [text |-> "ac3parse"], [text |-> "voaacenc"], [text |-> "x264enc"],
            [text |-> "faac"], [text |-> "remote"]}

\* Every text an option may be given, except for the required ones.
MCOptions ==
    LET texts == UNION {OptionsOf[v] : v \in {"video_parser", "audio_parser",
                    "video_codec", "audio_codec", "size", "logo",
                    "aspect_ratio", "string"}} \union {"x264enc.option-string"}
    IN  {k :> t : k \in texts, t \in MCTexts \union {[num |-> 5], [bool |-> TRUE]}}
        \union {k :> t : k \in Known \ (texts \union Required),
                         t \in MCNumbers \union MCBooleans \union {[text |-> "s"]}}
        \union {"unknown" :> [num |-> 1]}

MCPairs ==
    {"loop" :> l @@ "cleanup_ts" :> c @@ "relay_video" :> v @@ "relay_audio" :> a :
        l \in MCBooleans, c \in MCBooleans, v \in MCBooleans, a \in MCBooleans}
    \union {"video_bitrate" :> v @@ "audio_bitrate" :> a @@ "framerate" :> f :
        v \in MCNumbers, a \in MCNumbers, f \in MCNumbers}

\* One value for every option, all of them numbers that differ.
MCEverything ==
    "framerate" :> [num |-> 21] @@ "video_bitrate" :> [num |-> 22]
    @@ "audio_bitrate" :> [num |-> 23] @@ "audio_channels" :> [num |-> 24]
    @@ "auto_exit_time" :> [num |-> 25] @@ "restart_attempts" :> [num |-> 26]
    @@ "audio_select" :> [num |-> 27] @@ "volume" :> [num |-> 6]
    @@ "decklink_video_mode" :> [num |-> 28]
    @@ "have_video" :> [bool |-> FALSE] @@ "have_audio" :> [bool |-> FALSE]
    @@ "relay_audio" :> [bool |-> TRUE] @@ "relay_video" :> [bool |-> TRUE]
    @@ "deinterlace" :> [bool |-> TRUE] @@ "avformat" :> [bool |-> TRUE]
    @@ "size" :> [text |-> "w:h"] @@ "logo" :> [text |-> "logo"]
    @@ "aspect_ratio" :> [text |-> "16:9"]
    @@ "video_codec" :> [text |-> "x265enc"] @@ "audio_codec" :> [text |-> "voaacenc"]
    @@ "video_parser" :> [text |-> "tsparse"] @@ "audio_parser" :> [text |-> "ac3parse"]
    @@ "timeshift_chunk_duration" :> [num |-> 30]
    @@ [k \in IntegerArgs |-> [num |-> 1]] @@ [k \in FlagArgs |-> [bool |-> TRUE]]
    @@ [k \in StringArgs |-> [text |-> "s"]]

\* What the builders look at: the media, the codecs and one output.
MCMedia ==
    {"have_video" :> v @@ "have_audio" :> a : v \in MCBooleans, a \in MCBooleans}
MCText(k, names) == {k :> [text |-> n] : n \in names}
MCSinks ==
    {<<MCUrl(s)>> : s \in {"udp", "tcp", "http", "rtmp", "device", "https"}}
    \union {<<MCUrl("rtmp"), MCBroken(s)>> : s \in {"udp", "tcp", "http", "rtmp"}} \union {<<>>}
MCFile == <<MCUrl("file")>>
MCBuilt ==
    {m @@ v @@ a @@ MCBase(t, MCFile, out) : m \in MCMedia, t \in {1, 3, 4, 6},
        v \in MCText("video_parser", VideoParsers), a \in MCText("audio_parser", AudioParsers),
        out \in MCSinks}
    \union
    {m @@ v @@ a @@ r @@ MCBase(2, in, out) : m \in MCMedia,
        v \in MCText("video_codec", VideoEncoders), a \in MCText("audio_codec", {"faac", "lamemp3enc"}),
        r \in {"relay_video" :> [bool |-> b] @@ "relay_audio" :> [bool |-> TRUE] : b \in BOOLEAN},
        in \in {MCFile, <<MCUrl("file"), MCUrl("udp")>>, <<MCUrl("dev")>>}, out \in MCSinks}
    \union
    {m @@ v @@ l @@ MCBase(t, in, <<MCUrl("http")>>) : m \in MCMedia, t \in {2, 8},
        v \in MCText("video_codec", VideoEncoders), l \in MCText("logo", {"logo", "remote"}),
        in \in {MCFile, <<MCUrl("file"), MCUrl("file")>>, <<MCUrl("test")>>}}
MCUdp == <<MCUrl("udp")>>
MCRequests ==
    {MCBase(t, in, MCUdp) : t \in 0..9, in \in MCInputs}
    \union {MCBase(t, MCFile, out) : t \in 0..9, out \in MCOutputs}
    \union {o @@ MCBase(t, in, MCUdp) : o \in MCOptions, t \in {2, 4}, in \in {MCFile}}
    \union {o @@ MCBase(t, MCFile, MCUdp) : o \in MCPairs, t \in {2, 7, 8}}
    \union {MCEverything @@ MCBase(t, MCFile, MCUdp) : t \in 1..8}
    \union {[k \in Required \ {drop} |-> MCBase(t, in, MCUdp)[k]] :
                drop \in Required, t \in 0..9,
                in \in {MCFile, <<MCUrl("file"), MCUrl("udp")>>}}
    \union {[MCBase(3, MCFile, MCUdp) EXCEPT !["timeshift_dir"] = [text |-> ""]]}
    \union {NotJson :> [text |-> ""]}
    \union MCBuilt
MCSyncs ==
    {<<>>,
     <<"cleanup_ts" :> [bool |-> TRUE] @@ MCBase(7, MCFile, <<MCUrl("http")>>),
       "cleanup_ts" :> [bool |-> TRUE] @@
         MCBase(8, MCUdp, <<MCHttp("r2")>>),
       MCBase(1, MCFile, <<MCHttp("r3")>>)>>,
     <<MCBase(8, MCFile, <<MCUrl("http")>>), MCBase(7, <<>>, <<MCUrl("http")>>)>>,
     <<NotJson :> [text |-> ""]>>}
MCWritable == {"f", "t", "r1", "r2"}
MCRemoteLogos == {"remote"}
=============================================================================
