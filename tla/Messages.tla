------------------------------ MODULE Messages ------------------------------
(***************************************************************************)
(* The messages of the service and of its streams, and the way of one of   *)
(* them: an object is written as JSON (Serialize), a peer of another make  *)
(* may leave members out of it, the service reads a stream's report and    *)
(* writes it again for its clients (Relay), and the reader rebuilds an     *)
(* object (DeSerialize) or refuses the message.                            *)
(*                                                                         *)
(* An object is a record named after the members of its C++ class; a JSON  *)
(* object is a record named after the keys on the wire. The two sets of    *)
(* names differ, and what ties them together is written twice, once in     *)
(* each direction: that is what the properties are about.                  *)
(*                                                                         *)
(* Texts are opaque. Numbers keep their widths in scaled form: IntMax is   *)
(* the largest int, Int64Max the largest int64_t, and a size_t ends at     *)
(* 2 * Int64Max + 1.                                                       *)
(***************************************************************************)
EXTENDS Integers, SequencesExt, FiniteSets

CONSTANTS
    Classes,     \* the classes of message that are sent
    Values,      \* the objects of each class that are sent
    IntMax,      \* INT32_MAX
    Int64Max,    \* INT64_MAX
    Now,         \* current_utc_mstime() where a message is read
    Creatable,   \* directories the service is able to create or write
    Content,     \* the files of each of these
    MaxOmitted,  \* bound: members left out of one message
    MaxHops      \* bound: times one message is relayed

ASSUME WidthAssumption ==
    /\ IntMax \in Nat /\ Int64Max \in Nat /\ IntMax < Int64Max
    /\ Now \in 0..Int64Max
ASSUME BoundAssumption == MaxOmitted \in Nat /\ MaxHops \in Nat

VARIABLES
    phase,    \* "idle", "sent", "read", "refused", "answered"
    cls,      \* the class of the message
    sent,     \* the object it was written from
    wire,     \* its JSON form
    omitted,  \* the keys a peer left out
    hops,     \* how often it was relayed
    got       \* the object, or the answer, made from it

messageVars == <<phase, cls, sent, wire, omitted, hops, got>>

-----------------------------------------------------------------------------
(* json-c, as the code uses it.                                            *)

NoValue == [none |-> TRUE]
Ok(x) == [ok |-> TRUE, v |-> x]
Inval == [ok |-> FALSE, v |-> NoValue]   \* make_error_inval()

Has(j, k) == k \in DOMAIN j

\* The members of a class and those of its base.
f ++ g == [k \in DOMAIN f \union DOMAIN g |-> IF k \in DOMAIN f THEN f[k] ELSE g[k]]

\* The loops over arrays: what cannot be written or read is left out.
PushBack(seq, r) == IF r.ok THEN Append(seq, r.v) ELSE seq
Collect(results) == FoldLeft(PushBack, <<>>, results)

\* json_object_get_int: an int64 that does not fit an int is clamped.
AsInt(n) ==
    IF n > IntMax THEN IntMax ELSE IF n < -(IntMax + 1) THEN -(IntMax + 1) ELSE n

\* A size_t handed to json_object_new_int64, and an int64 read as a size_t.
ToInt64(n) == IF n > Int64Max THEN n - 2 * (Int64Max + 1) ELSE n
ToSize(n) == IF n < 0 THEN n + 2 * (Int64Max + 1) ELSE n

Get(j, k, default) == IF Has(j, k) THEN j[k] ELSE default
GetInt(j, k, default) == IF Has(j, k) THEN AsInt(j[k]) ELSE default
GetSize(j, k, default) == IF Has(j, k) THEN ToSize(j[k]) ELSE default

-----------------------------------------------------------------------------
(* Urls and logos.                                                         *)

NoInputUri == [id |-> 0, input |-> "", user_agent |-> 0]

InputUriSerialize(u) ==
    Ok([id |-> ToInt64(u.id), uri |-> u.input, user_agent |-> u.user_agent])

InputUriDeSerialize(j) ==
    Ok([id |-> GetSize(j, "id", 0),
        input |-> Get(j, "uri", ""),
        user_agent |-> GetInt(j, "user_agent", 0)])

NoOutputUri == [id |-> 0, output |-> "", http_root |-> ""]

OutputUriSerialize(u) ==
    Ok([id |-> ToInt64(u.id), uri |-> u.output, http_root |-> u.http_root])

OutputUriDeSerialize(j) ==
    Ok([id |-> GetSize(j, "id", 0),
        output |-> Get(j, "uri", ""),
        http_root |-> Get(j, "http_root", "")])

\* The alpha of a logo is in units of 10^-7: "%lf" writes six digits after
\* the point.
NoLogo == [path |-> "", position |-> <<0, 0>>, alpha |-> 0]

LogoToString(l) ==
    Ok([path |-> l.path, position |-> l.position,
        alpha |-> ((l.alpha + 5) \div 10) * 10])

LogoFromString(j) ==
    Ok([path |-> Get(j, "path", ""),
        position |-> Get(j, "position", <<0, 0>>),
        alpha |-> Get(j, "alpha", 0)])

-----------------------------------------------------------------------------
(* What a stream tells the service.                                        *)

NoChannelStats ==
    [id |-> 0, last_update_time |-> 0, total_bytes |-> 0,
     prev_total_bytes |-> 0, bps |-> 0, desire |-> ""]

\* Both totals are written from GetPrevTotalBytes().
ChannelStatsSerialize(s) ==
    Ok([id |-> ToInt64(s.id),
        last_update_time |-> s.last_update_time,
        prev_total_bytes |-> ToInt64(s.prev_total_bytes),
        total_bytes |-> ToInt64(s.prev_total_bytes),
        bps |-> ToInt64(s.bps),
        dbps |-> s.desire])

\* SetTotalBytes() comes after SetLastUpdateTime() and takes the time anew.
ChannelStatsDeSerialize(j) ==
    IF ~Has(j, "id") THEN Inval
    ELSE Ok([id |-> ToSize(j.id),
             last_update_time |->
                IF Has(j, "total_bytes") THEN Now
                ELSE Get(j, "last_update_time", 0),
             total_bytes |-> GetSize(j, "total_bytes", 0),
             prev_total_bytes |-> GetSize(j, "prev_total_bytes", 0),
             bps |-> GetSize(j, "bps", 0),
             desire |-> Get(j, "dbps", "")])

\* The arrays are read backwards.
ReadChannels(arr) ==
    Collect([i \in 1..Len(arr) |-> ChannelStatsDeSerialize(arr[Len(arr) - i + 1])])

WriteChannels(channels) ==
    Collect([i \in 1..Len(channels) |-> ChannelStatsSerialize(channels[i])])

NoStatistic ==
    [id |-> "", type |-> 0, status |-> 0, input |-> <<>>, output |-> <<>>,
     start_time |-> 0, loop_start_time |-> 0, restarts |-> 0,
     cpu_load |-> 0, rss_bytes |-> 0, timestamp |-> 0]

StatisticSerialize(s) ==
    IF s.id = "" THEN Inval
    ELSE Ok([id |-> s.id, type |-> s.type,
             input_streams |-> WriteChannels(s.input),
             output_streams |-> WriteChannels(s.output),
             loop_start_time |-> s.loop_start_time,
             rss |-> ToInt64(s.rss_bytes), cpu |-> s.cpu_load,
             status |-> s.status, restarts |-> ToInt64(s.restarts),
             start_time |-> s.start_time, timestamp |-> s.timestamp])

\* rss is a uint64_t read as an int.
StatisticDeSerialize(j) ==
    IF ~Has(j, "id") \/ ~Has(j, "type") THEN Inval
    ELSE Ok([id |-> j.id, type |-> AsInt(j.type),
             status |-> GetInt(j, "status", 0),
             input |-> ReadChannels(Get(j, "input_streams", <<>>)),
             output |-> ReadChannels(Get(j, "output_streams", <<>>)),
             start_time |-> Get(j, "start_time", 0),
             loop_start_time |-> Get(j, "loop_start_time", 0),
             restarts |-> GetSize(j, "restarts", 0),
             cpu_load |-> Get(j, "cpu", 0),
             rss_bytes |-> GetInt(j, "rss", 0),
             timestamp |-> Get(j, "timestamp", 0)])

NoChangedSources == [id |-> "", url |-> NoInputUri]

ChangedSourcesSerialize(c) ==
    Ok([id |-> c.id, url |-> InputUriSerialize(c.url).v])

ChangedSourcesDeSerialize(j) ==
    IF ~Has(j, "id") THEN Inval
    ELSE Ok([id |-> j.id,
             url |-> IF Has(j, "url") THEN InputUriDeSerialize(j.url).v
                     ELSE NoInputUri])

-----------------------------------------------------------------------------
(* Requests about one stream, and the report of its end.                   *)

\* StopInfo and RestartInfo add nothing to it.
NoStreamInfo == [stream_id |-> ""]

StreamInfoSerialize(s) == Ok([id |-> s.stream_id])

StreamInfoDeSerialize(j) ==
    IF ~Has(j, "id") THEN Inval ELSE Ok([stream_id |-> j.id])

NoStreamLog == [stream_id |-> "", feedback_dir |-> "", path |-> ""]

StreamLogSerialize(g) ==
    Ok([path |-> g.path, feedback_directory |-> g.feedback_dir]
       ++ StreamInfoSerialize(g).v)

StreamLogDeSerialize(j) ==
    LET base == StreamInfoDeSerialize(j)
    IN  IF ~base.ok \/ ~Has(j, "feedback_directory") THEN Inval
        ELSE Ok([feedback_dir |-> j.feedback_directory,
                 path |-> Get(j, "path", "")] ++ base.v)

NoQuitStatus == [stream_id |-> "", exit_status |-> 0, signal |-> 0]

QuitStatusSerialize(q) ==
    Ok([signal |-> q.signal, exit_status |-> q.exit_status]
       ++ StreamInfoSerialize(q).v)

QuitStatusDeSerialize(j) ==
    LET base == StreamInfoDeSerialize(j)
    IN  IF ~base.ok \/ ~Has(j, "signal") \/ ~Has(j, "exit_status") THEN Inval
        ELSE Ok([signal |-> AsInt(j.signal),
                 exit_status |-> AsInt(j.exit_status)] ++ base.v)

NoStart == [config |-> ""]

StartSerialize(s) == Ok([config |-> s.config])

StartDeSerialize(j) ==
    IF ~Has(j, "config") THEN Inval ELSE Ok([config |-> j.config])

-----------------------------------------------------------------------------
(* Requests to the service.                                                *)

\* ActivateInfo adds nothing to it.
NoLicense == [license |-> ""]

LicenseSerialize(l) == Ok([license_key |-> l.license])

LicenseDeSerialize(j) == Ok([license |-> Get(j, "license_key", "")])

NoStop == [license |-> "", delay |-> 0]

StopSerialize(s) == Ok([delay |-> s.delay] ++ LicenseSerialize(s).v)

StopDeSerialize(j) == Ok([delay |-> Get(j, "delay", 0)] ++ LicenseDeSerialize(j).v)

NoServiceLog == [path |-> ""]

ServiceLogSerialize(g) == Ok([path |-> g.path])

ServiceLogDeSerialize(j) == Ok([path |-> Get(j, "path", "")])

NoSync == [streams |-> <<>>, users |-> <<>>]

SyncSerialize(s) == Ok([streams |-> s.streams, subscribers |-> s.users])

SyncDeSerialize(j) ==
    Ok([streams |-> Get(j, "streams", <<>>),
        users |-> Get(j, "subscribers", <<>>)])

NoPrepare ==
    [feedback |-> "", timeshifts |-> "", hls |-> "", playlists |-> "",
     dvb |-> "", capture_card |-> "", vods_in |-> "", vods |-> ""]

PrepareSerialize(p) ==
    Ok([feedback_directory |-> p.feedback,
        timeshifts_directory |-> p.timeshifts,
        hls_directory |-> p.hls,
        playlists_directory |-> p.playlists,
        dvb_directory |-> p.dvb,
        capture_card_directory |-> p.capture_card,
        vods_in_directory |-> p.vods_in,
        vods_directory |-> p.vods])

PrepareDeSerialize(j) ==
    Ok([feedback |-> Get(j, "feedback_directory", ""),
        timeshifts |-> Get(j, "timeshifts_directory", ""),
        hls |-> Get(j, "hls_directory", ""),
        playlists |-> Get(j, "playlists_directory", ""),
        dvb |-> Get(j, "dvb_directory", ""),
        capture_card |-> Get(j, "capture_card_directory", ""),
        vods_in |-> Get(j, "vods_in_directory", ""),
        vods |-> Get(j, "vods_directory", "")])

\* utils::CreateAndCheckDir: the directory is there, or is made, and can be
\* written.
CreateAndCheckDir(dir) == dir \in Creatable

DirectoryState(dir, key) ==
    [key |-> key, dir |-> dir, content |-> {},
     is_valid |-> dir # "" /\ CreateAndCheckDir(dir)]

LoadContent(state) ==
    IF state.is_valid THEN [state EXCEPT !.content = Content[state.dir]] ELSE state

Directories(p) ==
    << DirectoryState(p.feedback, "feedback_directory"),
       DirectoryState(p.timeshifts, "timeshifts_directory"),
       DirectoryState(p.hls, "hls_directory"),
       DirectoryState(p.playlists, "playlists_directory"),
       DirectoryState(p.dvb, "dvb_directory"),
       DirectoryState(p.capture_card, "capture_card_directory"),
       LoadContent(DirectoryState(p.vods_in, "vods_in_directory")),
       DirectoryState(p.vods, "vods_directory") >>

\* An entry has "result" and "content", or "error".
MakeDirectoryStateResponce(state) ==
    [key \in {state.key} |->
        IF state.is_valid
        THEN [path |-> state.dir, result |-> "OK", content |-> state.content]
        ELSE [path |-> state.dir, error |-> TRUE]]

MakeDirectoryResponce(dirs) ==
    [i \in 1..Len(dirs) |-> MakeDirectoryStateResponce(dirs[i])]

-----------------------------------------------------------------------------
(* The statistics and the greeting of the service.                         *)

NoOnlineUsers == [daemon |-> 0, http |-> 0, vods |-> 0, subscriber |-> 0]

OnlineUsersSerialize(o) ==
    Ok([daemon |-> ToInt64(o.daemon), http |-> ToInt64(o.http),
        vods |-> ToInt64(o.vods), subscriber |-> ToInt64(o.subscriber)])

OnlineUsersDeSerialize(j) ==
    Ok([daemon |-> GetSize(j, "daemon", 0), http |-> GetSize(j, "http", 0),
        vods |-> GetSize(j, "vods", 0),
        subscriber |-> GetSize(j, "subscriber", 0)])

NoServerInfo ==
    [cpu_load |-> 0, gpu_load |-> 0, uptime |-> "",
     mem_total |-> 0, mem_free |-> 0, mem_avail |-> 0,
     hdd_total |-> 0, hdd_free |-> 0,
     net_bytes_recv |-> 0, net_bytes_send |-> 0,
     current_ts |-> 0, sys_uptime |-> 0, online_users |-> NoOnlineUsers]

\* uptime_ is the load average; the uptime is that of sys_shot_.
ServerInfoSerialize(s) ==
    Ok([cpu |-> s.cpu_load, gpu |-> s.gpu_load, load_average |-> s.uptime,
        memory_total |-> ToInt64(s.mem_total),
        memory_free |-> ToInt64(s.mem_free),
        memory_available |-> ToInt64(s.mem_avail),
        hdd_total |-> ToInt64(s.hdd_total),
        hdd_free |-> ToInt64(s.hdd_free),
        bandwidth_in |-> ToInt64(s.net_bytes_recv),
        bandwidth_out |-> ToInt64(s.net_bytes_send),
        uptime |-> s.sys_uptime, timestamp |-> s.current_ts,
        online_users |-> OnlineUsersSerialize(s.online_users).v])

ServerInfoDeSerialize(j) ==
    Ok([online_users |->
            IF Has(j, "online_users")
            THEN OnlineUsersDeSerialize(j.online_users).v ELSE NoOnlineUsers,
        cpu_load |-> GetInt(j, "cpu", 0), gpu_load |-> GetInt(j, "gpu", 0),
        uptime |-> Get(j, "load_average", ""),
        mem_total |-> GetSize(j, "memory_total", 0),
        mem_free |-> GetSize(j, "memory_free", 0),
        mem_avail |-> GetSize(j, "memory_available", 0),
        hdd_total |-> GetSize(j, "hdd_total", 0),
        hdd_free |-> GetSize(j, "hdd_free", 0),
        net_bytes_recv |-> GetSize(j, "bandwidth_in", 0),
        net_bytes_send |-> GetSize(j, "bandwidth_out", 0),
        sys_uptime |-> Get(j, "uptime", 0),
        current_ts |-> Get(j, "timestamp", 0)])

\* The version of a message that names none is the reader's own.
NoFullService ==
    [http_host |-> "", vods_host |-> "", subscribers_host |-> "",
     bandwidth_host |-> "", proj_ver |-> "own version"] ++ NoServerInfo

FullServiceSerialize(f) ==
    Ok([http_host |-> f.http_host, vods_host |-> f.vods_host,
        subscribers_host |-> f.subscribers_host,
        bandwidth_host |-> f.bandwidth_host, version |-> f.proj_ver]
       ++ ServerInfoSerialize(f).v)

\* Mutant: the host of the vods is read from the member of the http host.
FullServiceHostCopied(j) ==
    Ok([http_host |-> Get(j, "http_host", ""),
        vods_host |-> Get(j, "http_host", ""),
        subscribers_host |-> Get(j, "subscribers_host", ""),
        bandwidth_host |-> Get(j, "bandwidth_host", ""),
        proj_ver |-> Get(j, "version", "own version")]
       ++ ServerInfoDeSerialize(j).v)

FullServiceDeSerialize(j) ==
    Ok([http_host |-> Get(j, "http_host", ""),
        vods_host |-> Get(j, "vods_host", ""),
        subscribers_host |-> Get(j, "subscribers_host", ""),
        bandwidth_host |-> Get(j, "bandwidth_host", ""),
        proj_ver |-> Get(j, "version", "own version")]
       ++ ServerInfoDeSerialize(j).v)

-----------------------------------------------------------------------------
(* Subscribers.                                                            *)

NoDevice == [id |-> "", connections |-> 0]

DeviceIsValid(d) == d.id # "" /\ d.connections > 0

DeviceSerialize(d) ==
    IF ~DeviceIsValid(d) THEN Inval
    ELSE Ok([id |-> d.id, connections |-> ToInt64(d.connections)])

DeviceDeSerialize(j) ==
    IF ~Has(j, "id") \/ ~Has(j, "connections") THEN Inval
    ELSE Ok([id |-> j.id, connections |-> ToSize(j.connections)])

NoUser ==
    [uid |-> "", login |-> "", password |-> "", ch |-> "", devices |-> <<>>,
     status |-> "BANNED"]

UserIsValid(u) == u.uid # "" /\ u.login # "" /\ u.password # ""

\* Devices that cannot be written are left out.
UserSerialize(u) ==
    IF ~UserIsValid(u) THEN Inval
    ELSE Ok([id |-> u.uid, login |-> u.login, password |-> u.password,
             status |-> u.status, channels |-> u.ch,
             devices |-> Collect([i \in 1..Len(u.devices) |->
                                    DeviceSerialize(u.devices[i])])])

\* Devices that cannot be read are left out.
UserDeSerialize(j) ==
    IF {"id", "login", "password", "status"} \subseteq DOMAIN j
    THEN LET arr == Get(j, "devices", <<>>)
         IN  Ok([uid |-> j.id, login |-> j.login, password |-> j.password,
                 status |-> j.status, ch |-> Get(j, "channels", ""),
                 devices |-> Collect([i \in 1..Len(arr) |->
                                        DeviceDeSerialize(arr[i])])])
    ELSE Inval

NoUserRpc == [user_id |-> "", device_id |-> ""]

UserRpcSerialize(r) == Ok([user_id |-> r.user_id, device_id |-> r.device_id])

UserRpcDeSerialize(j) ==
    Ok([user_id |-> Get(j, "user_id", ""), device_id |-> Get(j, "device_id", "")])

\* AuthInfo, a class of the protocol library, keeps login, password and
\* device; it is valid when none is empty, and requires each when it reads.
NoServerAuth == [uid |-> "", login |-> "", password |-> "", device_id |-> ""]

ServerAuthSerialize(a) ==
    IF a.uid = "" \/ a.login = "" \/ a.password = "" \/ a.device_id = "" THEN Inval
    ELSE Ok([id |-> a.uid, login |-> a.login, password |-> a.password,
             device_id |-> a.device_id])

ServerAuthDeSerialize(j) ==
    IF {"id", "login", "password", "device_id"} \subseteq DOMAIN j
    THEN Ok([uid |-> j.id, login |-> j.login, password |-> j.password,
             device_id |-> j.device_id])
    ELSE Inval

-----------------------------------------------------------------------------
(* The objects of the classes, by the types of their members. An rss is a  *)
(* size_t like the totals, but one of a process and so an int64_t as well. *)

Ints == -(IntMax + 1)..IntMax
Sizes == 0..(2 * Int64Max + 1)
Texts == STRING \union {""}

InputUris == [id : Sizes, input : Texts, user_agent : Ints]
ChannelStatistics ==
    [id : Sizes, last_update_time : Int, total_bytes : Sizes,
     prev_total_bytes : Sizes, bps : Sizes, desire : Texts]
Devices == [id : Texts, connections : Sizes]
Statistics ==
    [id : Texts, type : Ints, status : Ints, input : Seq(ChannelStatistics),
     output : Seq(ChannelStatistics), start_time : Int, loop_start_time : Int,
     restarts : Sizes, cpu_load : Int, rss_bytes : 0..Int64Max, timestamp : Int]
OnlineUsers == [daemon : Sizes, http : Sizes, vods : Sizes, subscriber : Sizes]
ServerInfos ==
    [cpu_load : Ints, gpu_load : Ints, uptime : Texts,
     mem_total : Sizes, mem_free : Sizes, mem_avail : Sizes,
     hdd_total : Sizes, hdd_free : Sizes, net_bytes_recv : Sizes,
     net_bytes_send : Sizes, current_ts : Int, sys_uptime : Int,
     online_users : OnlineUsers]
FullServiceInfos ==
    [http_host : Texts, vods_host : Texts, subscribers_host : Texts,
     bandwidth_host : Texts, proj_ver : Texts,
     cpu_load : Ints, gpu_load : Ints, uptime : Texts,
     mem_total : Sizes, mem_free : Sizes, mem_avail : Sizes,
     hdd_total : Sizes, hdd_free : Sizes, net_bytes_recv : Sizes,
     net_bytes_send : Sizes, current_ts : Int, sys_uptime : Int,
     online_users : OnlineUsers]

ClassNames ==
    {"InputUri", "OutputUri", "Logo", "StatisticInfo", "ChangedSouresInfo",
     "stream::StreamInfo", "stream::GetLogInfo", "stream::QuitStatusInfo",
     "stream::StartInfo", "service::LicenseInfo", "service::StopInfo",
     "service::GetLogInfo", "service::SyncInfo", "service::PrepareInfo",
     "service::ServerInfo", "service::FullServiceInfo", "UserInfo",
     "UserRpcInfo", "ServerAuthInfo"}

Objects(c) ==
    CASE c = "InputUri" -> InputUris
      [] c = "OutputUri" -> [id : Sizes, output : Texts, http_root : Texts]
      [] c = "Logo" -> [path : Texts, position : Int \X Int, alpha : Int]
      [] c = "StatisticInfo" -> Statistics
      [] c = "ChangedSouresInfo" -> [id : Texts, url : InputUris]
      [] c = "stream::StreamInfo" -> [stream_id : Texts]
      [] c = "stream::GetLogInfo" ->
            [stream_id : Texts, feedback_dir : Texts, path : Texts]
      [] c = "stream::QuitStatusInfo" ->
            [stream_id : Texts, exit_status : Ints, signal : Ints]
      [] c = "stream::StartInfo" -> [config : Texts]
      [] c = "service::LicenseInfo" -> [license : Texts]
      [] c = "service::StopInfo" -> [license : Texts, delay : Int]
      [] c = "service::GetLogInfo" -> [path : Texts]
      [] c = "service::SyncInfo" -> [streams : Seq(Texts), users : Seq(Texts)]
      [] c = "service::PrepareInfo" -> [DOMAIN NoPrepare -> Texts]
      [] c = "service::ServerInfo" -> ServerInfos
      [] c = "service::FullServiceInfo" -> FullServiceInfos
      [] c = "UserInfo" ->
            [uid : Texts, login : Texts, password : Texts, ch : Texts,
             devices : Seq(Devices), status : Texts]
      [] c = "UserRpcInfo" -> [user_id : Texts, device_id : Texts]
      [] c = "ServerAuthInfo" ->
            [uid : Texts, login : Texts, password : Texts, device_id : Texts]

ASSUME ObjectsAssumption ==
    Classes \subseteq ClassNames /\ \A c \in Classes : Values[c] \subseteq Objects(c)

-----------------------------------------------------------------------------
(* The way of a message.                                                   *)

Serialize(c, x) ==
    CASE c = "InputUri" -> InputUriSerialize(x)
      [] c = "OutputUri" -> OutputUriSerialize(x)
      [] c = "Logo" -> LogoToString(x)
      [] c = "StatisticInfo" -> StatisticSerialize(x)
      [] c = "ChangedSouresInfo" -> ChangedSourcesSerialize(x)
      [] c = "stream::StreamInfo" -> StreamInfoSerialize(x)
      [] c = "stream::GetLogInfo" -> StreamLogSerialize(x)
      [] c = "stream::QuitStatusInfo" -> QuitStatusSerialize(x)
      [] c = "stream::StartInfo" -> StartSerialize(x)
      [] c = "service::LicenseInfo" -> LicenseSerialize(x)
      [] c = "service::StopInfo" -> StopSerialize(x)
      [] c = "service::GetLogInfo" -> ServiceLogSerialize(x)
      [] c = "service::SyncInfo" -> SyncSerialize(x)
      [] c = "service::PrepareInfo" -> PrepareSerialize(x)
      [] c = "service::ServerInfo" -> ServerInfoSerialize(x)
      [] c = "service::FullServiceInfo" -> FullServiceSerialize(x)
      [] c = "UserInfo" -> UserSerialize(x)
      [] c = "UserRpcInfo" -> UserRpcSerialize(x)
      [] c = "ServerAuthInfo" -> ServerAuthSerialize(x)

DeSerialize(c, j) ==
    CASE c = "InputUri" -> InputUriDeSerialize(j)
      [] c = "OutputUri" -> OutputUriDeSerialize(j)
      [] c = "Logo" -> LogoFromString(j)
      [] c = "StatisticInfo" -> StatisticDeSerialize(j)
      [] c = "ChangedSouresInfo" -> ChangedSourcesDeSerialize(j)
      [] c = "stream::StreamInfo" -> StreamInfoDeSerialize(j)
      [] c = "stream::GetLogInfo" -> StreamLogDeSerialize(j)
      [] c = "stream::QuitStatusInfo" -> QuitStatusDeSerialize(j)
      [] c = "stream::StartInfo" -> StartDeSerialize(j)
      [] c = "service::LicenseInfo" -> LicenseDeSerialize(j)
      [] c = "service::StopInfo" -> StopDeSerialize(j)
      [] c = "service::GetLogInfo" -> ServiceLogDeSerialize(j)
      [] c = "service::SyncInfo" -> SyncDeSerialize(j)
      [] c = "service::PrepareInfo" -> PrepareDeSerialize(j)
      [] c = "service::ServerInfo" -> ServerInfoDeSerialize(j)
      [] c = "service::FullServiceInfo" -> FullServiceDeSerialize(j)
      [] c = "UserInfo" -> UserDeSerialize(j)
      [] c = "UserRpcInfo" -> UserRpcDeSerialize(j)
      [] c = "ServerAuthInfo" -> ServerAuthDeSerialize(j)

MessageInit ==
    /\ phase = "idle" /\ cls = "" /\ sent = NoValue /\ wire = NoValue
    /\ omitted = {} /\ hops = 0 /\ got = NoValue

\* The latest message is done with.
Handled ==
    \/ phase \in {"idle", "refused", "answered"}
    \/ phase = "read" /\ cls # "service::PrepareInfo"

\* An object is written; an object that is not valid is not.
Send(c, x) ==
    LET r == Serialize(c, x)
    IN  /\ Handled
        /\ cls' = c /\ sent' = x /\ wire' = r.v
        /\ phase' = IF r.ok THEN "sent" ELSE "refused"
        /\ omitted' = {} /\ hops' = 0 /\ got' = NoValue

\* The peer that wrote it is of another make and does not know a member.
Omit(k) ==
    /\ phase = "sent" /\ hops = 0
    /\ Cardinality(omitted) < MaxOmitted
    /\ k \in DOMAIN wire
    /\ omitted' = omitted \union {k}
    /\ wire' = [m \in DOMAIN wire \ {k} |-> wire[m]]
    /\ UNCHANGED <<phase, cls, sent, hops, got>>

\* HandleRequestChangedSourcesStream and HandleRequestStatisticStream: the
\* service rebuilds the object and broadcasts what it writes from it.
Relay ==
    /\ phase = "sent" /\ hops < MaxHops
    /\ cls \in {"StatisticInfo", "ChangedSouresInfo"}
    /\ LET r == DeSerialize(cls, wire)
           w == IF r.ok THEN Serialize(cls, r.v) ELSE Inval
       IN  /\ wire' = w.v
           /\ phase' = IF w.ok THEN "sent" ELSE "refused"
    /\ hops' = hops + 1
    /\ UNCHANGED <<cls, sent, omitted, got>>

Receive ==
    /\ phase = "sent"
    /\ LET r == DeSerialize(cls, wire)
       IN  /\ got' = r.v
           /\ phase' = IF r.ok THEN "read" ELSE "refused"
    /\ UNCHANGED <<cls, sent, wire, omitted, hops>>

\* HandleRequestClientPrepareService answers with the state of every
\* directory.
Prepare ==
    /\ phase = "read" /\ cls = "service::PrepareInfo"
    /\ got' = MakeDirectoryResponce(Directories(got))
    /\ phase' = "answered"
    /\ UNCHANGED <<cls, sent, wire, omitted, hops>>

MessageNext ==
    \/ \E c \in Classes : \E x \in Values[c] : Send(c, x)
    \/ phase = "sent" /\ \E k \in DOMAIN wire : Omit(k)
    \/ Relay
    \/ Receive
    \/ Prepare

MessageSpec == MessageInit /\ [][MessageNext]_messageVars

-----------------------------------------------------------------------------
(* Properties.                                                             *)

Default(c) ==
    CASE c = "InputUri" -> NoInputUri
      [] c = "OutputUri" -> NoOutputUri
      [] c = "Logo" -> NoLogo
      [] c = "StatisticInfo" -> NoStatistic
      [] c = "ChangedSouresInfo" -> NoChangedSources
      [] c = "stream::StreamInfo" -> NoStreamInfo
      [] c = "stream::GetLogInfo" -> NoStreamLog
      [] c = "stream::QuitStatusInfo" -> NoQuitStatus
      [] c = "stream::StartInfo" -> NoStart
      [] c = "service::LicenseInfo" -> NoLicense
      [] c = "service::StopInfo" -> NoStop
      [] c = "service::GetLogInfo" -> NoServiceLog
      [] c = "service::SyncInfo" -> NoSync
      [] c = "service::PrepareInfo" -> NoPrepare
      [] c = "service::ServerInfo" -> NoServerInfo
      [] c = "service::FullServiceInfo" -> NoFullService
      [] c = "UserInfo" -> NoUser
      [] c = "UserRpcInfo" -> NoUserRpc
      [] c = "ServerAuthInfo" -> NoServerAuth

\* The fields that do not arrive as they were sent, whoever sends them: the only
\* exceptions that FieldsArrive makes. An alpha is written with six digits; a
\* device that is not valid is left out; an rss is written as an int; and a
\* channel is read back without its total and its time, each list turned round.
Lossy(c) ==
    CASE c = "Logo" -> {"alpha"}
      [] c = "UserInfo" -> {"devices"}
      [] c = "StatisticInfo" -> {"input", "output", "rss_bytes"}
      [] OTHER -> {}

\* What is left of them after h relays.
KeepValid(devices, d) == IF DeviceIsValid(d) THEN Append(devices, d) ELSE devices
ValidDevices(devices) == FoldLeft(KeepValid, <<>>, devices)
LeftOfChannel(s) == [s EXCEPT !.total_bytes = s.prev_total_bytes, !.last_update_time = Now]
LeftOfChannels(channels, h) ==
    LET left == [i \in 1..Len(channels) |-> LeftOfChannel(channels[i])]
    IN  IF h % 2 = 0 THEN Reverse(left) ELSE left
LeftOf(f, value, h) ==
    CASE f = "alpha" -> ((value + 5) \div 10) * 10
      [] f = "devices" -> ValidDevices(value)
      [] f \in {"input", "output"} -> LeftOfChannels(value, h)
      [] f = "rss_bytes" -> AsInt(value)

\* MakeDirectoryResponce: the answer to PREPARE_SERVICE reports on each of
\* the directories of the request under the key the request named it by, OK
\* exactly when it could be prepared, and lists the files of vods_in only.
PrepareReportsEach ==
    phase = "answered" =>
        \A k \in DOMAIN PrepareSerialize(NoPrepare).v :
            \E i \in 1..Len(got) :
                /\ DOMAIN got[i] = {k}
                /\ got[i][k].path = Get(wire, k, "")
                /\ Has(got[i][k], "result") <=>
                     Get(wire, k, "") \in Creatable \ {""}
                /\ Has(got[i][k], "result") =>
                     got[i][k].content =
                        IF k = "vods_in_directory" THEN Content[wire[k]] ELSE {}

\* Every DoDeSerialize and SerializeFields: the keys are written and read by
\* two functions nothing keeps in step. A complete message is never refused;
\* in one that is read every field holds what was sent, except that each
\* member a peer left out costs at most one field, which holds its default,
\* and that the fields of Lossy hold what is left of them, which is as much
\* after a report was relayed as before. The answer to a request about
\* directories reports on each of them.
FieldsArrive ==
    /\ PrepareReportsEach
    /\ (phase = "refused" /\ Serialize(cls, sent).ok) => omitted # {}
    /\ phase = "read" =>
         LET arrives(f) == got[f] = IF f \in Lossy(cls) THEN LeftOf(f, sent[f], hops) ELSE sent[f]
             lost == {f \in DOMAIN got : ~arrives(f)}
         IN  /\ DOMAIN got = DOMAIN sent
             /\ Cardinality(lost) <= Cardinality(omitted)
             /\ \A f \in lost : got[f] = Default(cls)[f]

=============================================================================
