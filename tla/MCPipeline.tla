----------------------------- MODULE MCPipeline -----------------------------
(* Instances of Pipeline: every kind of stream with the fields its builder *)
(* reads, the others at one value.                                         *)
EXTENDS Pipeline

Base == [kind |-> "relay", media |-> Media, vcodec |-> "x264enc", acodec |-> "faac",
         vparser |-> "h264parse", aparser |-> "aacparse", opts |-> {},
         outs |-> <<"http">>, inputs |-> 1, select |-> NoSelect,
         noSource |-> {}, noSink |-> {}]

Outs1 == {<<s>> : s \in Schemes}
Outs2 == {<<"udp", "http">>, <<"rtmp", "device">>, <<"device", "udp">>}

Shown == Options \ {"remote_logo", "own_source"}

RelayConfigs ==
    {[Base EXCEPT !.media = M, !.vparser = v, !.aparser = a, !.outs = o] :
       M \in SUBSET Media, v \in VideoParsers, a \in AudioParsers, o \in Outs1 \cup Outs2}
SelectConfigs ==
    {[Base EXCEPT !.kind = k, !.aparser = a, !.select = s] :
       k \in {"relay", "encoding"}, a \in AudioParsers, s \in {0, 1}}
SinkConfigs ==
    {[Base EXCEPT !.kind = k, !.media = M, !.vparser = v, !.aparser = a] :
       k \in {"test_life", "recorder"}, M \in SUBSET Media, v \in VideoParsers,
       a \in AudioParsers}
EncodingConfigs ==
    {[Base EXCEPT !.kind = k, !.media = M, !.vcodec = v, !.acodec = a,
                  !.opts = p, !.outs = o] :
       k \in {"encoding", "only_audio", "only_video", "test_input", "device"},
       M \in SUBSET Media, v \in VideoEncoders, a \in AudioEncoders,
       p \in {{}, Shown}, o \in Outs1 \cup {<<"udp", "http">>}}
MosaicConfigs ==
    {[Base EXCEPT !.kind = "mosaic", !.media = M, !.vcodec = v, !.acodec = a,
                  !.opts = p, !.outs = o, !.inputs = n] :
       M \in SUBSET Media, v \in VideoEncoders, a \in AudioEncoders,
       p \in {{}, Shown}, o \in Outs1 \cup {<<"device", "http">>}, n \in {2, 3}}

\* Urls that nothing can be made for, no input at all, and a logo to download.
UrlConfigs ==
    {[Base EXCEPT !.kind = k, !.inputs = n, !.noSource = x, !.noSink = y, !.opts = p,
                  !.outs = o] :
       k \in Kinds \ {"device"}, n \in {0, 1, 2}, x \in {{}, {0}, {1}}, y \in {{}, {0}},
       p \in {{}, Shown \cup {"remote_logo"}, {"own_source"}},
       o \in {<<"rtmp", "http">>, <<"http", "device">>, <<"udp">>}}

MCConfigs == RelayConfigs \cup SelectConfigs \cup SinkConfigs
             \cup EncodingConfigs \cup MosaicConfigs \cup UrlConfigs

T(i, m, id, codec, n) ==
    [input |-> i, medium |-> m, id |-> id, codec |-> codec, channels |-> n]
MCTrackSets ==
    {{T(0, "video", 0, "h264", 0), T(0, "audio", 0, "aac", 2), T(0, "audio", 1, "mp3", 1)},
     {T(0, "video", 0, "mpeg2", 0), T(0, "audio", 0, "ac3", 2), T(1, "video", 0, "h265", 0)},
     {T(0, "video", 0, "h265", 0), T(1, "video", 0, "h264", 0), T(1, "audio", 0, "aac", 2)}}
=============================================================================
