----------------------------- MODULE ServiceMain ----------------------------
(***************************************************************************)
(* The service as a process: main() with its configuration file and its    *)
(* locked pid file, Exec() with a thread for each further server, and the  *)
(* end of it by the command --stop. Several processes may be started; what *)
(* they share is the file system and the ports of the host.                *)
(***************************************************************************)
EXTENDS Integers, FiniteSets

CONSTANTS
    MaxStarts,    \* bound on the processes of the service
    Servers,      \* the servers with a thread of their own
    DefaultPort,  \* the port of each host that the file does not name
    ConfigFiles,  \* contents of the file: a host -> its port
    MaxKills      \* bound on the processes that are killed

Instances == 1 .. MaxStarts
Hosts == Servers \cup {"daemon", "bandwidth"}
Ports == {DefaultPort[h] : h \in Hosts}
             \cup UNION {{f[h] : h \in DOMAIN f} : f \in ConfigFiles}

ASSUME ServiceAssumption ==
    /\ DefaultPort \in [Hosts -> Nat \ {0}]
    /\ \A f \in ConfigFiles : DOMAIN f \subseteq Hosts /\ 0 \notin Ports
    /\ Servers \cap {"daemon", "bandwidth"} = {} /\ MaxStarts \in Nat /\ MaxKills \in Nat

VARIABLES
    readable,  \* the configuration file can be opened
    file,      \* what it says
    pidDir,    \* the directory of the pid file: "ready", "missing" or "denied"
    state,     \* where each process is in main()
    config,    \* the hosts of each process
    inode,     \* the file each process has open as its pid file
    pidFile,   \* the file the path of the pid file names, 0: none
    inodes,    \* the files made so far
    locked,    \* process -> the file it holds a lock of, 0: none
    thread,    \* process and server -> its thread
    listening, \* process and server -> it listens on its port
    told,      \* processes with a stop request in their socket
    kills      \* history: processes that were killed

pidVars == <<inode, pidFile, inodes, locked>>
mainVars == <<readable, file, pidDir, state, config, pidVars, thread, listening, told, kills>>

NoPort == 0
NoHosts == [h \in Hosts |-> NoPort]
NoThreads == [s \in Servers |-> "none"]

MainInit ==
    /\ readable \in BOOLEAN /\ file \in ConfigFiles
    /\ pidDir \in {"ready", "missing", "denied"}
    /\ state = [i \in Instances |-> "new"]
    /\ config = [i \in Instances |-> NoHosts]
    /\ inode = [i \in Instances |-> 0] /\ locked = [i \in Instances |-> 0]
    /\ pidFile = 0 /\ inodes = 0
    /\ thread = [i \in Instances |-> NoThreads]
    /\ listening = [i \in Instances |-> {}]
    /\ told = {} /\ kills = 0

Goes(i, from, to) == state[i] = from /\ state' = [state EXCEPT ![i] = to]

\* The process is gone: the system closes and unlocks what it had.
Exits(i) ==
    /\ state' = [state EXCEPT ![i] = "exited"]
    /\ config' = [config EXCEPT ![i] = NoHosts]
    /\ inode' = [inode EXCEPT ![i] = 0]
    /\ locked' = [locked EXCEPT ![i] = 0]
    /\ thread' = [thread EXCEPT ![i] = NoThreads]
    /\ listening' = [listening EXCEPT ![i] = {}]
    /\ told' = told \ {i}
    /\ UNCHANGED <<readable, file, pidFile, inodes>>

-----------------------------------------------------------------------------
(* main(): the configuration and the pid file                              *)

\* Lines with other keys are skipped, and every host has a default. The one of
\* the bandwidth host is given to the subscribers', after that was stored.
ReadSlaveConfig(f) == [h \in DOMAIN f \cap Hosts |-> f[h]]

LoadConfig(f) ==
    LET args == ReadSlaveConfig(f)
    IN  [h \in Hosts |-> IF h \in DOMAIN args THEN args[h]
                         ELSE IF h = "bandwidth" THEN NoPort ELSE DefaultPort[h]]

\* Processes are numbered in the order of their start.
ReadConfig(i) ==
    /\ \A j \in 1 .. i - 1 : state[j] # "new"
    /\ state[i] = "new"
    /\ \/ ~readable /\ Exits(i)
       \/ /\ readable /\ Goes(i, "new", "configured")
          /\ config' = [config EXCEPT ![i] = LoadConfig(file)]
          /\ UNCHANGED <<readable, file, pidVars, thread, listening, told>>
    /\ UNCHANGED <<pidDir, kills>>

\* A directory that is not there is made, and main() ends when that succeeded:
\* the test reads the error of create_directory as a success. The next process
\* finds it.
MakePidFolder(i) ==
    /\ state[i] = "configured" /\ pidDir = "missing"
    /\ Exits(i)
    /\ pidDir' = "ready" /\ UNCHANGED kills

\* The directory can be neither made nor written to, or the file not be opened.
OpenPidFileFails(i) == state[i] = "configured" /\ Exits(i) /\ UNCHANGED <<pidDir, kills>>

\* The file that is there is opened; else a new one is made.
OpenPidFile(i) ==
    /\ pidDir = "ready"
    /\ Goes(i, "configured", "opened")
    /\ inodes' = IF pidFile = 0 THEN inodes + 1 ELSE inodes
    /\ pidFile' = IF pidFile = 0 THEN inodes' ELSE pidFile
    /\ inode' = [inode EXCEPT ![i] = pidFile']
    /\ UNCHANGED <<readable, file, pidDir, config, locked, thread, listening, told, kills>>

\* A file that is locked by another process ends main().
LockPidFile(i) ==
    /\ state[i] = "opened"
    /\ \/ /\ \A j \in Instances : locked[j] # inode[i]
          /\ Goes(i, "opened", "locked")
          /\ locked' = [locked EXCEPT ![i] = inode[i]]
          /\ UNCHANGED <<readable, file, config, inode, pidFile, inodes, thread, listening, told>>
       \/ (\E j \in Instances : locked[j] = inode[i]) /\ Exits(i)
    /\ UNCHANGED <<pidDir, kills>>

\* So does a pid that cannot be written, and a license key that is not the one
\* of this machine.
CreateLicenseKeyFails(i) == state[i] = "locked" /\ Exits(i) /\ UNCHANGED <<pidDir, kills>>

-----------------------------------------------------------------------------
(* ProcessSlaveWrapper::Exec()                                             *)

\* The library of the streams is loaded and the threads begin; or it cannot be
\* loaded, and main() ends as it does after a run.
Exec(i) ==
    /\ \/ Goes(i, "locked", "execing")
          /\ thread' = [thread EXCEPT ![i] = [s \in Servers |-> "starting"]]
       \/ Goes(i, "locked", "returned") /\ UNCHANGED thread
    /\ UNCHANGED <<readable, file, pidDir, config, pidVars, listening, told, kills>>

Free(port) == \A j \in Instances : \A h \in listening[j] : config[j][h] # port

\* A thread whose server cannot bind or listen just returns.
ServerThread(i, s) ==
    LET bound == Free(config[i][s])
    IN  /\ thread[i][s] = "starting"
        /\ thread' = [thread EXCEPT ![i][s] = IF bound THEN "running" ELSE "returned"]
        /\ listening' = [listening EXCEPT ![i] = IF bound THEN @ \cup {s} ELSE @]
        /\ UNCHANGED <<readable, file, pidDir, state, config, pidVars, told, kills>>

\* Mutant: the service goes on when its own port is not to be had.
BindErrorIgnored(i) ==
    /\ Goes(i, "execing", "serving")
    /\ listening' = [listening EXCEPT ![i] = @ \cup {"daemon"}]
    /\ UNCHANGED <<readable, file, pidDir, config, pidVars, thread, told, kills>>

\* Without its own port the service goes straight to joining the threads.
Bind(i) ==
    LET bound == Free(config[i]["daemon"])
    IN  /\ Goes(i, "execing", IF bound THEN "serving" ELSE "joining")
        /\ listening' = [listening EXCEPT ![i] = IF bound THEN @ \cup {"daemon"} ELSE @]
        /\ UNCHANGED <<readable, file, pidDir, config, pidVars, thread, told, kills>>

\* The command --stop: it goes to the default host, whatever the file says, and
\* reports success when that took the request.
SendStopDaemonRequest(i) ==
    /\ "daemon" \in listening[i] /\ config[i]["daemon"] = DefaultPort["daemon"]
    /\ told' = told \cup {i}
    /\ UNCHANGED <<readable, file, pidDir, state, config, pidVars, thread, listening, kills>>

\* The request has the license key, so that it needs no activated connection;
\* the quit timer is started. While it runs a further request is refused.
HandleRequestClientStopService(i) ==
    /\ i \in told /\ Goes(i, "serving", "stopping")
    /\ UNCHANGED <<readable, file, pidDir, config, pidVars, thread, listening, told, kills>>

\* A socket is closed when the loop of its server ends, or only with the server
\* itself: the library's choice.
LoopEnds(i, h) == listening' \in {listening, [listening EXCEPT ![i] = @ \ {h}]}

\* Mutant: one of the servers is not told to stop.
OneServerForgotten(i) ==
    /\ \A s \in Servers : thread[i][s] # "starting"
    /\ Goes(i, "stopping", "joining")
    /\ LET kept == CHOOSE s \in Servers : TRUE
       IN  thread' = [thread EXCEPT ![i] = [s \in Servers |->
               IF @[s] = "running" /\ s # kept THEN "told" ELSE @[s]]]
    /\ LoopEnds(i, "daemon")
    /\ UNCHANGED <<readable, file, pidDir, config, pidVars, told, kills>>

\* cleanup_seconds later, when the threads have long begun, every server is
\* stopped, the service's own one too: its Exec returns.
QuitTimer(i) ==
    /\ \A s \in Servers : thread[i][s] # "starting"
    /\ Goes(i, "stopping", "joining")
    /\ thread' = [thread EXCEPT ![i] = [s \in Servers |->
           IF @[s] = "running" THEN "told" ELSE @[s]]]
    /\ LoopEnds(i, "daemon")
    /\ UNCHANGED <<readable, file, pidDir, config, pidVars, told, kills>>

\* The loop of a server that was told to stop ends.
ThreadReturns(i, s) ==
    /\ thread[i][s] = "told"
    /\ thread' = [thread EXCEPT ![i][s] = "returned"]
    /\ LoopEnds(i, s)
    /\ UNCHANGED <<readable, file, pidDir, state, config, pidVars, told, kills>>

Joined(i) ==
    /\ \A s \in Servers : thread[i][s] = "returned"
    /\ Goes(i, "joining", "returned")
    /\ UNCHANGED <<readable, file, pidDir, config, pidVars, thread, listening, told, kills>>

-----------------------------------------------------------------------------
(* The end of main()                                                       *)

\* Without its lock undone main() ends at once, and leaves the file.
UnlockPidFile(i) ==
    /\ \/ /\ Goes(i, "returned", "unlocked")
          /\ locked' = [locked EXCEPT ![i] = 0]
          /\ UNCHANGED <<readable, file, config, inode, pidFile, inodes, thread, listening, told>>
       \/ state[i] = "returned" /\ Exits(i)
    /\ UNCHANGED <<pidDir, kills>>

\* What is removed is the path, whoever has opened or locked the file by now; a
\* file that cannot be removed is only worth a warning.
RemovePidFile(i) ==
    /\ Goes(i, "unlocked", "leaving")
    /\ pidFile' \in {0, pidFile}
    /\ UNCHANGED <<readable, file, pidDir, config, inode, inodes, locked, thread, listening, told, kills>>

\* The wrapper goes with the scope of main(), and the servers with it.
Leave(i) == state[i] = "leaving" /\ Exits(i) /\ UNCHANGED <<pidDir, kills>>

\* The process is killed, at any point; the pid file stays.
Kill(i) ==
    /\ kills < MaxKills /\ state[i] \notin {"new", "exited"}
    /\ Exits(i)
    /\ kills' = kills + 1 /\ UNCHANGED pidDir

-----------------------------------------------------------------------------
Main(i) ==
    \/ ReadConfig(i) \/ MakePidFolder(i) \/ OpenPidFileFails(i) \/ OpenPidFile(i)
    \/ LockPidFile(i) \/ CreateLicenseKeyFails(i)
    \/ Exec(i) \/ Bind(i) \/ HandleRequestClientStopService(i) \/ QuitTimer(i)
    \/ Joined(i) \/ UnlockPidFile(i) \/ RemovePidFile(i) \/ Leave(i)

Thread(i, s) == ServerThread(i, s) \/ ThreadReturns(i, s)

MainNext ==
    \E i \in Instances :
        \/ Main(i) \/ SendStopDaemonRequest(i) \/ Kill(i)
        \/ \E s \in Servers : Thread(i, s)

\* A process that runs goes on, its threads are scheduled and its timers fire. No
\* step can be taken twice, so that one condition is as good as one for each.
Runs(i) ==
    /\ state[i] \notin {"new", "exited"}
    /\ Main(i) \/ \E s \in Servers : Thread(i, s)

MainFairness == WF_mainVars(\E i \in Instances : Runs(i))

MainSpec == MainInit /\ [][MainNext]_mainVars /\ MainFairness

-----------------------------------------------------------------------------
(* Properties                                                              *)

\* One service at a time, as the pid file is there for: two processes never both
\* serve their clients (server->Exec()). The lock alone does not give it: a
\* file that was locked after its owner unlocked it is removed under the new
\* owner, and a third process makes and locks another one. The port does.
OneServes ==
    Cardinality({i \in Instances : state[i] \in {"serving", "stopping"}}) <= 1

\* What --stop reports is what happens: a service that took the request ends its
\* process, with all the threads of its servers joined, also those that never
\* had a port.
StopCommandStops ==
    \A i \in Instances : (i \in told) ~> (state[i] = "exited")
=============================================================================
