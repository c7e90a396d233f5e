----------------------------- MODULE MCMessages -----------------------------
(***************************************************************************)
(* In an object every field has a value of its own, so that two fields     *)
(* that change places are told apart. INT_MAX is 40 and INT64_MAX is 90.   *)
(***************************************************************************)
EXTENDS Messages, TLC

MCUrl == [id |-> 181, input |-> "in", user_agent |-> 2]

MCChannel(n, d) ==
    [id |-> n, last_update_time |-> 70, total_bytes |-> n + 120,
     prev_total_bytes |-> n + 110, bps |-> n + 20, desire |-> d]

MCStatistic ==
    [id |-> "s", type |-> 2, status |-> 4,
     input |-> <<MCChannel(1, "a"), MCChannel(2, "b"), MCChannel(3, "c")>>,
     output |-> <<MCChannel(4, "d"), MCChannel(5, "e")>>,
     start_time |-> 11, loop_start_time |-> 12, restarts |-> 100,
     cpu_load |-> 13, rss_bytes |-> 14, timestamp |-> 15]

MCServer ==
    [cpu_load |-> 1, gpu_load |-> 2, uptime |-> "load",
     mem_total |-> 103, mem_free |-> 4, mem_avail |-> 5,
     hdd_total |-> 106, hdd_free |-> 7, net_bytes_recv |-> 108,
     net_bytes_send |-> 9, current_ts |-> 10, sys_uptime |-> 11,
     online_users |-> [daemon |-> 1, http |-> 2, vods |-> 3, subscriber |-> 104]]

MCUser ==
    [uid |-> "u", login |-> "l", password |-> "p", ch |-> "c",
     devices |-> <<[id |-> "d1", connections |-> 1], NoDevice,
                   [id |-> "d2", connections |-> 0],
                   [id |-> "d3", connections |-> 181]>>,
     status |-> "ACTIVE"]

MCPrepare ==
    [feedback |-> "d1", timeshifts |-> "d2", hls |-> "d3", playlists |-> "d4",
     dvb |-> "d5", capture_card |-> "d6", vods_in |-> "d7", vods |-> "d8"]

MCValues ==
    "InputUri" :> {NoInputUri, MCUrl}
    @@ "OutputUri" :> {[id |-> 91, output |-> "out", http_root |-> "root"]}
    @@ "Logo" :> {NoLogo, [path |-> "p", position |-> <<1, 2>>, alpha |-> 17]}
    @@ "StatisticInfo" :>
         {NoStatistic, MCStatistic, [MCStatistic EXCEPT !.rss_bytes = 60]}
    @@ "ChangedSouresInfo" :> {NoChangedSources, [id |-> "s", url |-> MCUrl]}
    @@ "stream::StreamInfo" :> {[stream_id |-> "s"]}
    @@ "stream::GetLogInfo" :>
         {[stream_id |-> "s", feedback_dir |-> "f", path |-> "p"]}
    @@ "stream::QuitStatusInfo" :>
         {[stream_id |-> "s", exit_status |-> 1, signal |-> 9]}
    @@ "stream::StartInfo" :> {[config |-> "c"]}
    @@ "service::LicenseInfo" :> {[license |-> "k"]}
    @@ "service::StopInfo" :> {[license |-> "k", delay |-> 80]}
    @@ "service::GetLogInfo" :> {[path |-> "p"]}
    @@ "service::SyncInfo" :>
         {[streams |-> <<"s1", "s2">>, users |-> <<"u1", "u2", "u3">>]}
    @@ "service::PrepareInfo" :>
         {MCPrepare, [MCPrepare EXCEPT !.vods_in = "d9", !.hls = ""]}
    @@ "service::ServerInfo" :> {MCServer}
    @@ "service::FullServiceInfo" :>
         {[http_host |-> "h", vods_host |-> "v", subscribers_host |-> "s",
           bandwidth_host |-> "b", proj_ver |-> "1"] @@ MCServer}
    @@ "UserInfo" :> {NoUser, MCUser}
    @@ "UserRpcInfo" :> {[user_id |-> "u", device_id |-> "d"]}
    @@ "ServerAuthInfo" :>
         {[uid |-> "u", login |-> "l", password |-> "p", device_id |-> "d"],
          [uid |-> "", login |-> "l", password |-> "p", device_id |-> "d"]}

MCClasses == DOMAIN MCValues
MCCreatable == {"d1", "d2", "d3", "d4", "d6", "d7"}
MCContent == [d \in MCCreatable |-> {d}]
=============================================================================
