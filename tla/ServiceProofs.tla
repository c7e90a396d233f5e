---------------------------- MODULE ServiceProofs ---------------------------
(***************************************************************************)
(* Theorems about ServiceMain, NodeStats and StreamConfig.                 *)
(*                                                                         *)
(* One service at a time, for any number of processes, servers and kills,  *)
(* any default ports and any configuration file. The argument is the one   *)
(* of the port and not of the pid file: all processes read the same file,  *)
(* so that all of them bind the service to the same port, and the one that *)
(* serves listens on it. Of the pid file holds less: no file has two       *)
(* owners, but the path may name another file by then.                     *)
(*                                                                         *)
(* Nothing measured twice, for any interfaces, amounts, loads and clock.   *)
(*                                                                         *)
(* What the service acknowledges and what the child makes of it, for any   *)
(* requests and lists of links. The inductive invariant says what is known *)
(* of the options at each phase: those of a link and of a start have been  *)
(* validated, those of an acknowledged start have passed MakeStreamInfo,   *)
(* and a configuration is the one that make_config makes of them. That the *)
(* pipeline is then built or is one of the cases of BuildGap is settled    *)
(* builder by builder, source, filters, codecs and outputs apart.          *)
(*                                                                         *)
(* An option reaches one field. Every field of a configuration is read     *)
(* from one option (ReadFrom), so that configurations made of options that *)
(* agree but for some have the same fields but for those; the arguments of *)
(* the encoders have names no field has. When the option of a field is     *)
(* without effect is settled reader by reader, from what its validator     *)
(* lets through.                                                           *)
(***************************************************************************)
EXTENDS ServiceMain, NodeStats, StreamConfig, TLAPS, FiniteSetTheorems,
        NaturalsInduction, WellFoundedInduction

ServingStates == {"serving", "stopping"}
LockedStates == {"locked", "execing", "serving", "stopping", "joining", "returned"}
States == {"new", "configured", "opened", "unlocked", "leaving", "exited"} \cup LockedStates

MainTypeOK ==
    /\ state \in [Instances -> States]
    /\ config \in [Instances -> [Hosts -> Ports \cup {NoPort}]]
    /\ listening \in [Instances -> SUBSET Hosts]
    /\ inode \in [Instances -> 0 .. inodes] /\ locked \in [Instances -> 0 .. inodes]
    /\ pidFile \in 0 .. inodes /\ inodes \in Nat
    /\ file \in ConfigFiles

\* Processes that run have the hosts of the file, and those that serve listen.
HostsInv ==
    \A i \in Instances :
        /\ state[i] \notin {"new", "exited"} => config[i] = LoadConfig(file)
        /\ state[i] \in ServingStates => "daemon" \in listening[i]

\* From LockPidFile to UnlockPidFile a process holds the lock of the file it has
\* opened, which no other process then holds.
OneOwner ==
    \A i \in Instances :
        /\ state[i] = "opened" => inode[i] # 0
        /\ state[i] \in LockedStates => locked[i] # 0 /\ locked[i] = inode[i]
        /\ \A j \in Instances : locked[i] = locked[j] => i = j \/ locked[i] = 0

OnePort == \A i, j \in Instances : state[i] \in ServingStates /\ state[j] \in ServingStates => i = j

MainInv == MainTypeOK /\ HostsInv /\ OneOwner /\ OnePort

-----------------------------------------------------------------------------
\* LoadConfig gives every host a port, or none.
LEMMA LoadConfigType ==
    ASSUME NEW f \in ConfigFiles
    PROVE  LoadConfig(f) \in [Hosts -> Ports \cup {NoPort}]
<1>1. ASSUME NEW h \in DOMAIN f  PROVE f[h] \in Ports
  BY <1>1 DEF Ports
<1>2. ASSUME NEW h \in Hosts  PROVE DefaultPort[h] \in Ports
  BY <1>2 DEF Ports
<1> QED  BY <1>1, <1>2 DEF LoadConfig, ReadSlaveConfig

\* The end of a process takes its hosts, sockets and locks, and nobody else's.
LEMMA ExitsMainInv ==
    ASSUME MainInv, NEW i \in Instances, Exits(i)
    PROVE  MainInv'
<1> USE DEF MainInv, Exits
<1>1. MainTypeOK'
  BY DEF MainTypeOK, NoHosts, NoPort, States, LockedStates
<1>2. HostsInv' /\ OnePort'
  BY DEF MainTypeOK, HostsInv, OnePort, ServingStates, States, LockedStates
<1>3. OneOwner'
  BY DEF MainTypeOK, OneOwner, LockedStates, States
<1> QED  BY <1>1, <1>2, <1>3

\* The invariant holds initially.
LEMMA InitMainInv == MainInit => MainInv
<1> SUFFICES ASSUME MainInit  PROVE MainInv
  OBVIOUS
<1> QED
  BY DEF MainInit, MainInv, MainTypeOK, HostsInv, OneOwner, OnePort, ServingStates, LockedStates, NoHosts, NoPort, States

\* Every step of every process and of its threads preserves it.
LEMMA StepMainInv == MainInv /\ [MainNext]_mainVars => MainInv'
<1> SUFFICES ASSUME MainInv, [MainNext]_mainVars  PROVE MainInv'
  OBVIOUS
<1> USE DEF MainInv, Goes, pidVars
<1>1. ASSUME NEW i \in Instances, ReadConfig(i)  PROVE MainInv'
  <2>1. CASE Exits(i)
    BY <2>1, ExitsMainInv
  <2>2. CASE ~Exits(i)
    <3>1. MainTypeOK'
      BY <1>1, <2>2, LoadConfigType DEF ReadConfig, MainTypeOK, States, LockedStates
    <3>2. HostsInv' /\ OnePort'
      BY <1>1, <2>2 DEF ReadConfig, MainTypeOK, HostsInv, OnePort, ServingStates, States, LockedStates
    <3>3. OneOwner'
      BY <1>1, <2>2 DEF ReadConfig, MainTypeOK, OneOwner, LockedStates, States
    <3> QED  BY <3>1, <3>2, <3>3
  <2> QED  BY <2>1, <2>2
<1>2. ASSUME NEW i \in Instances, OpenPidFile(i)  PROVE MainInv'
  <2>1. MainTypeOK'
    BY <1>2 DEF OpenPidFile, MainTypeOK, States, LockedStates
  <2>2. HostsInv' /\ OnePort'
    BY <1>2 DEF OpenPidFile, MainTypeOK, HostsInv, OnePort, ServingStates, States, LockedStates
  <2>3. OneOwner'
    BY <1>2 DEF OpenPidFile, MainTypeOK, OneOwner, LockedStates, States
  <2> QED  BY <2>1, <2>2, <2>3
<1>3. ASSUME NEW i \in Instances, LockPidFile(i)  PROVE MainInv'
  <2>1. CASE Exits(i)
    BY <2>1, ExitsMainInv
  <2>2. CASE ~Exits(i)
    <3>1. MainTypeOK'
      BY <1>3, <2>2 DEF LockPidFile, MainTypeOK, States, LockedStates
    <3>2. HostsInv' /\ OnePort'
      BY <1>3, <2>2 DEF LockPidFile, MainTypeOK, HostsInv, OnePort, ServingStates, States, LockedStates
    <3>3. OneOwner'
      BY <1>3, <2>2 DEF LockPidFile, MainTypeOK, OneOwner, LockedStates, States
    <3> QED  BY <3>1, <3>2, <3>3
  <2> QED  BY <2>1, <2>2
<1>4. ASSUME NEW i \in Instances,
             \/ MakePidFolder(i) \/ OpenPidFileFails(i) \/ CreateLicenseKeyFails(i)
             \/ Leave(i) \/ Kill(i)
      PROVE  MainInv'
  BY <1>4, ExitsMainInv DEF MakePidFolder, OpenPidFileFails, CreateLicenseKeyFails, Leave, Kill
<1>5. ASSUME NEW i \in Instances, Exec(i)  PROVE MainInv'
  BY <1>5 DEF Exec, MainTypeOK, HostsInv, OneOwner, OnePort, ServingStates, LockedStates, States
<1>6. ASSUME NEW i \in Instances, Bind(i)  PROVE MainInv'
  <2>1. MainTypeOK' /\ HostsInv'
    BY <1>6 DEF Bind, MainTypeOK, HostsInv, ServingStates, Hosts, States, LockedStates
  <2>2. OneOwner'
    BY <1>6 DEF Bind, MainTypeOK, OneOwner, LockedStates, States
  <2>3. ASSUME Free(config[i]["daemon"]), NEW j \in Instances, state[j] \in ServingStates  PROVE FALSE
    <3>1. "daemon" \in listening[j] /\ config[j] = LoadConfig(file)
      BY <2>3 DEF HostsInv, ServingStates
    <3>2. config[i] = LoadConfig(file)
      BY <1>6 DEF Bind, HostsInv
    <3> QED  BY <2>3, <3>1, <3>2 DEF Free
  <2>4. OnePort'
    BY <1>6, <2>3 DEF Bind, MainTypeOK, OnePort, ServingStates, States, LockedStates
  <2> QED  BY <2>1, <2>2, <2>4
<1>7. ASSUME NEW i \in Instances, HandleRequestClientStopService(i) \/ Joined(i)  PROVE MainInv'
  <2>1. CASE HandleRequestClientStopService(i)
    BY <2>1 DEF HandleRequestClientStopService, MainTypeOK, HostsInv, OneOwner, OnePort,
                ServingStates, LockedStates, States
  <2>2. CASE Joined(i)
    BY <2>2 DEF Joined, MainTypeOK, HostsInv, OneOwner, OnePort, ServingStates, LockedStates, States
  <2> QED  BY <1>7, <2>1, <2>2
<1>8. ASSUME NEW i \in Instances, QuitTimer(i)  PROVE MainInv'
  BY <1>8 DEF QuitTimer, LoopEnds, MainTypeOK, HostsInv, OneOwner, OnePort, ServingStates, LockedStates, States
<1>9. ASSUME NEW i \in Instances, UnlockPidFile(i)  PROVE MainInv'
  <2>1. CASE Exits(i)
    BY <2>1, ExitsMainInv
  <2>2. CASE ~Exits(i)
    <3>0. /\ state[i] = "returned" /\ state' = [state EXCEPT ![i] = "unlocked"]
          /\ locked' = [locked EXCEPT ![i] = 0]
          /\ UNCHANGED <<file, config, inode, pidFile, inodes, listening>>
      BY <1>9, <2>2 DEF UnlockPidFile
    <3>1. MainTypeOK'
      BY <3>0 DEF MainTypeOK, States, LockedStates
    <3>2. HostsInv' /\ OnePort'
      BY <3>0 DEF MainTypeOK, HostsInv, OnePort, ServingStates, States, LockedStates
    <3>3. OneOwner'
      BY <3>0 DEF MainTypeOK, OneOwner, LockedStates, States
    <3> QED  BY <3>1, <3>2, <3>3
  <2> QED  BY <2>1, <2>2
<1>10. ASSUME NEW i \in Instances, RemovePidFile(i)  PROVE MainInv'
  BY <1>10 DEF RemovePidFile, MainTypeOK, HostsInv, OneOwner, OnePort, ServingStates, LockedStates, States
<1>11. ASSUME NEW i \in Instances, SendStopDaemonRequest(i)  PROVE MainInv'
  BY <1>11 DEF SendStopDaemonRequest, MainTypeOK, HostsInv, OneOwner, OnePort, ServingStates, LockedStates, States
<1>12. ASSUME NEW i \in Instances, NEW s \in Servers, ServerThread(i, s)  PROVE MainInv'
  BY <1>12 DEF ServerThread, MainTypeOK, HostsInv, OneOwner, OnePort, ServingStates, LockedStates, Hosts, States
<1>13. ASSUME NEW i \in Instances, NEW s \in Servers, ThreadReturns(i, s)  PROVE MainInv'
  <2>1. s # "daemon"
    BY ServiceAssumption
  <2>2. listening' \in [Instances -> SUBSET Hosts]
    BY <1>13 DEF ThreadReturns, LoopEnds, MainTypeOK
  <2>3. \A j \in Instances : "daemon" \in listening[j] => "daemon" \in listening'[j]
    BY <1>13, <2>1 DEF ThreadReturns, LoopEnds, MainTypeOK
  <2> QED
    BY <1>13, <2>2, <2>3
    DEF ThreadReturns, MainTypeOK, HostsInv, OneOwner, OnePort
<1>14. CASE UNCHANGED mainVars
  BY <1>14 DEF mainVars, MainTypeOK, HostsInv, OneOwner, OnePort, States, LockedStates
<1> HIDE DEF MainInv
<1> QED
  BY <1>1, <1>2, <1>3, <1>4, <1>5, <1>6, <1>7, <1>8, <1>9, <1>10, <1>11, <1>12, <1>13, <1>14
  DEF MainNext, Main, Thread

-----------------------------------------------------------------------------
\* The invariant holds in every reachable state.
THEOREM MainInvariance == MainSpec => []MainInv
<1>1. MainInit => MainInv  BY InitMainInv
<1>2. MainInv /\ [MainNext]_mainVars => MainInv'  BY StepMainInv
<1> QED  BY <1>1, <1>2, PTL DEF MainSpec

\* The pid file is locked by one process at a time (LockPidFile), whatever is
\* unlocked, removed or killed meanwhile.
THEOREM PidFileHasOneOwner == MainSpec => []OneOwner
<1>1. MainInv => OneOwner  BY DEF MainInv
<1> QED  BY <1>1, MainInvariance, PTL

\* Two processes never both serve their clients: the port of the service is bound
\* by one of them, though two may hold a lock of a pid file.
THEOREM OneServiceServes == MainSpec => []OneServes
<1>1. MainInv => OneServes
  <2> SUFFICES ASSUME MainInv  PROVE OneServes
    OBVIOUS
  <2> DEFINE S == {i \in Instances : state[i] \in {"serving", "stopping"}}
  <2>1. CASE S = {}
    BY <2>1, FS_EmptySet DEF OneServes
  <2>2. CASE S # {}
    <3>1. PICK i \in S : TRUE
      BY <2>2
    <3>2. S = {i}
      BY <3>1 DEF MainInv, OnePort, ServingStates
    <3>3. Cardinality(S) = 1
      BY <3>2, FS_Singleton
    <3> QED  BY <3>3 DEF OneServes
  <2> QED  BY <2>1, <2>2
<1> QED  BY <1>1, MainInvariance, PTL

-----------------------------------------------------------------------------
(* Sums over a set                                                         *)

\* The first summand of s, as SumFunctionOnSet takes them.
Some(s) == CHOOSE x \in s : TRUE

\* One step of the summation of f over s, with the sums g of smaller sets.
SumStep(f, g, s) == IF s = {} THEN 0 ELSE f[Some(s)] + g[s \ {Some(s)}]

\* A set of natural numbers that is not empty has a least element.
LEMMA LeastIn ==
    ASSUME NEW T \in SUBSET Nat, T # {}
    PROVE  \E x \in T : \A y \in T : x <= y
<1> DEFINE R == {p \in Nat \X Nat : p[1] < p[2]}
<1>1. IsWellFoundedOn(R, Nat)
  BY NatLessThanWellFounded DEF OpToRel
<1>2. PICK x \in T : \A y \in T : <<y, x>> \notin R
  BY <1>1, WFMin
<1>3. ASSUME NEW y \in T  PROVE x <= y
  <2>1. x \in Nat /\ y \in Nat
    OBVIOUS
  <2>2. ~(y < x)
    BY <1>2, <2>1
  <2> QED  BY <2>1, <2>2
<1> QED  BY <1>3

\* A set of finite subsets that is not empty has one that is least in it.
LEMMA LeastSet ==
    ASSUME NEW S, NEW B \in SUBSET FiniteSubsetsOf(S), B # {}
    PROVE  \E s \in B : \A t \in B : ~(t \subseteq s /\ t # s)
<1> DEFINE R == StrictSubsetOrdering(S)
<1>1. IsWellFoundedOn(R, FiniteSubsetsOf(S))
  BY FS_StrictSubsetOrderingWellFounded
<1>2. PICK s \in B : \A t \in B : <<t, s>> \notin R
  BY <1>1, WFMin
<1>3. ASSUME NEW t \in B, t \subseteq s, t # s  PROVE FALSE
  <2>1. t \in SUBSET S /\ s \in SUBSET S
    BY DEF FiniteSubsetsOf
  <2> QED  BY <1>2, <1>3, <2>1 DEF StrictSubsetOrdering
<1> QED  BY <1>2, <1>3

\* The recursion of the sum has a solution: the one for the sets of fewer
\* elements gives that for the sets of one more.
LEMMA SumsExist ==
    ASSUME NEW S, IsFiniteSet(S), NEW f
    PROVE  \E g : g = [s \in SUBSET S |-> SumStep(f, g, s)]
<1> DEFINE D(n) == {s \in SUBSET S : Cardinality(s) <= n}
           Solved(n) == \E g : g = [s \in D(n) |-> SumStep(f, g, s)]
           Open == {n \in Nat : ~Solved(n)}
<1>1. \A s \in SUBSET S : IsFiniteSet(s) /\ Cardinality(s) \in Nat /\ Cardinality(s) <= Cardinality(S)
  BY FS_Subset, FS_CardinalityType
<1>2. Cardinality(S) \in Nat
  BY FS_CardinalityType
<1>3. ASSUME NEW s \in SUBSET S, s # {}
      PROVE  /\ Some(s) \in s /\ s \ {Some(s)} \in SUBSET S
             /\ Cardinality(s \ {Some(s)}) = Cardinality(s) - 1
  <2>1. Some(s) \in s
    BY <1>3 DEF Some
  <2> QED  BY <2>1, <1>1, FS_RemoveElement
<1>4. ASSUME NEW s \in SUBSET S, Cardinality(s) <= 0  PROVE s = {}
  BY <1>1, <1>4, FS_EmptySet
<1>5. Solved(0)
  <2> DEFINE g == [s \in D(0) |-> 0]
  <2>1. \A s \in D(0) : SumStep(f, g, s) = 0
    BY <1>4 DEF SumStep
  <2>2. g = [s \in D(0) |-> SumStep(f, g, s)]
    BY <2>1
  <2> QED  BY <2>2
<1>6. ASSUME NEW n \in Nat, n # 0, Solved(n - 1)  PROVE Solved(n)
  <2>1. PICK h : h = [s \in D(n - 1) |-> SumStep(f, h, s)]
    BY <1>6
  <2> DEFINE g == [s \in D(n) |-> SumStep(f, h, s)]
  <2>2. ASSUME NEW t \in D(n - 1)  PROVE t \in D(n) /\ g[t] = h[t]
    <3>1. t \in D(n)
      BY <1>1, <1>6
    <3>2. h[t] = SumStep(f, h, t)
      BY <2>1
    <3> QED  BY <3>1, <3>2
  <2>3. ASSUME NEW s \in D(n)  PROVE SumStep(f, g, s) = SumStep(f, h, s)
    <3>1. CASE s = {}
      BY <3>1 DEF SumStep
    <3>2. CASE s # {}
      <4>1. s \ {Some(s)} \in D(n - 1)
        BY <1>1, <1>3, <1>6, <3>2
      <4>2. g[s \ {Some(s)}] = h[s \ {Some(s)}]
        BY <2>2, <4>1
      <4> HIDE DEF g
      <4> QED  BY <3>2, <4>2 DEF SumStep
    <3> QED  BY <3>1, <3>2
  <2>4. g = [s \in D(n) |-> SumStep(f, g, s)]
    BY <2>3
  <2> QED  BY <2>4
<1>7. Open = {}
  <2> SUFFICES ASSUME Open # {}  PROVE FALSE
    OBVIOUS
  <2>1. PICK n \in Open : \A k \in Open : n <= k
    BY LeastIn
  <2>2. n \in Nat /\ n # 0
    BY <1>5
  <2>3. n - 1 \in Nat /\ ~(n <= n - 1)
    BY <2>2
  <2>4. Solved(n - 1)
    BY <2>1, <2>3
  <2> QED  BY <1>6, <2>2, <2>4
<1>8. Solved(Cardinality(S))
  BY <1>2, <1>7
<1>9. D(Cardinality(S)) = SUBSET S
  BY <1>1
<1> QED  BY <1>8, <1>9

\* SumFunctionOnSet is what its recursion says.
LEMMA SumUnfolds ==
    ASSUME NEW S, IsFiniteSet(S), NEW f
    PROVE  \E g : /\ SumFunctionOnSet(f, S) = g[S]
                  /\ \A s \in SUBSET S : g[s] = SumStep(f, g, s)
<1> DEFINE g == CHOOSE g : g = [s \in SUBSET S |-> SumStep(f, g, s)]
<1>1. g = [s \in SUBSET S |-> SumStep(f, g, s)]
  BY SumsExist
<1>2. SumFunctionOnSet(f, S) = g[S]
  BY DEF SumFunctionOnSet, FoldFunctionOnSet, MapThenFoldSet, SumStep, Some
<1> HIDE DEF g
<1> QED  BY <1>1, <1>2

\* A sum of nothing is zero.
LEMMA SumOfZeros ==
    ASSUME NEW S, IsFiniteSet(S), NEW f, \A x \in S : f[x] = 0
    PROVE  SumFunctionOnSet(f, S) = 0
<1>1. PICK g : /\ SumFunctionOnSet(f, S) = g[S]
               /\ \A s \in SUBSET S : g[s] = SumStep(f, g, s)
  BY SumUnfolds
<1> DEFINE Bad == {s \in FiniteSubsetsOf(S) : g[s] # 0}
<1>2. Bad = {}
  <2> SUFFICES ASSUME Bad # {}  PROVE FALSE
    OBVIOUS
  <2>1. PICK s \in Bad : \A t \in Bad : ~(t \subseteq s /\ t # s)
    <3>1. Bad \in SUBSET FiniteSubsetsOf(S)
      OBVIOUS
    <3> HIDE DEF Bad
    <3> QED  BY <3>1, LeastSet
  <2>2. s \in SUBSET S /\ g[s] = SumStep(f, g, s) /\ g[s] # 0
    BY <1>1 DEF FiniteSubsetsOf
  <2>3. s # {}
    BY <2>2 DEF SumStep
  <2>4. Some(s) \in s
    BY <2>3 DEF Some
  <2> DEFINE t == s \ {Some(s)}
  <2>5. t \in FiniteSubsetsOf(S) /\ t \subseteq s /\ t # s
    <3>1. t \in SUBSET S /\ t \subseteq s /\ t # s
      BY <2>2, <2>4
    <3> QED  BY <3>1, FS_Subset DEF FiniteSubsetsOf
  <2>6. g[t] = 0
    BY <2>1, <2>5
  <2>7. f[Some(s)] = 0
    BY <2>2, <2>4
  <2> HIDE DEF t
  <2>8. g[s] = f[Some(s)] + g[t]
    BY <2>2, <2>3 DEF SumStep, t
  <2> QED  BY <2>2, <2>6, <2>7, <2>8
<1>3. S \in FiniteSubsetsOf(S)
  BY DEF FiniteSubsetsOf
<1> QED  BY <1>1, <1>2, <1>3

\* What is added to one number is added to the sums it is in.
LEMMA SumOfMore ==
    ASSUME NEW S, IsFiniteSet(S), NEW f, \A x \in S : f[x] \in Int, NEW b \in Int, NEW i,
           NEW h, \A x \in S : h[x] = IF x = i THEN f[x] + b ELSE f[x]
    PROVE  /\ SumFunctionOnSet(f, S) \in Int
           /\ SumFunctionOnSet(h, S) = SumFunctionOnSet(f, S) + (IF i \in S THEN b ELSE 0)
<1>1. PICK g : /\ SumFunctionOnSet(f, S) = g[S]
               /\ \A s \in SUBSET S : g[s] = SumStep(f, g, s)
  BY SumUnfolds
<1>2. PICK k : /\ SumFunctionOnSet(h, S) = k[S]
               /\ \A s \in SUBSET S : k[s] = SumStep(h, k, s)
  BY SumUnfolds
<1> DEFINE More(s) == g[s] \in Int /\ k[s] = g[s] + (IF i \in s THEN b ELSE 0)
           Bad == {s \in FiniteSubsetsOf(S) : ~More(s)}
<1>3. Bad = {}
  <2> SUFFICES ASSUME Bad # {}  PROVE FALSE
    OBVIOUS
  <2>1. PICK s \in Bad : \A t \in Bad : ~(t \subseteq s /\ t # s)
    <3>1. Bad \in SUBSET FiniteSubsetsOf(S)
      OBVIOUS
    <3> HIDE DEF Bad
    <3> QED  BY <3>1, LeastSet
  <2>2. s \in SUBSET S /\ ~More(s) /\ g[s] = SumStep(f, g, s) /\ k[s] = SumStep(h, k, s)
    BY <1>1, <1>2 DEF FiniteSubsetsOf
  <2>3. s # {}
    BY <2>2 DEF SumStep
  <2>4. Some(s) \in s
    BY <2>3 DEF Some
  <2> DEFINE x == Some(s)
             t == s \ {x}
  <2>5. t \in FiniteSubsetsOf(S) /\ t \subseteq s /\ t # s
    <3>1. t \in SUBSET S /\ t \subseteq s /\ t # s
      BY <2>2, <2>4
    <3> QED  BY <3>1, FS_Subset DEF FiniteSubsetsOf
  <2>6. More(t)
    BY <2>1, <2>5
  <2>7. f[x] \in Int /\ h[x] = (IF x = i THEN f[x] + b ELSE f[x])
    BY <2>2, <2>4
  <2>8. g[s] = f[x] + g[t] /\ k[s] = h[x] + k[t]
    BY <2>2, <2>3 DEF SumStep
  <2>9. (i \in s <=> x = i \/ i \in t) /\ x \notin t
    BY <2>4
  <2> HIDE DEF t, x
  <2> QED  BY <2>2, <2>6, <2>7, <2>8, <2>9
<1>4. S \in FiniteSubsetsOf(S)
  BY DEF FiniteSubsetsOf
<1>5. More(S)
  BY <1>3, <1>4
<1> QED  BY <1>1, <1>2, <1>5

-----------------------------------------------------------------------------
(* The statistics                                                          *)

StatTypeOK ==
    /\ clock \in Nat /\ received \in Nat
    /\ DOMAIN net \subseteq Interfaces /\ net \in [DOMAIN net -> Nat]
    /\ cpu \in [user : Nat, guest : Nat, idle : Nat, iowait : Nat]
    /\ prev \in [net : Int, cpu : [user : Nat, idle : Nat, iowait : {0}], time : Nat]
    /\ reported \in [net : Int, busy : Int]
    /\ prev.time <= clock

\* While no interface has gone, a shot has all the bytes that came, and what
\* was told of is in the last one.
NetInv ==
    ~vanished => /\ DOMAIN net = Interfaces
                 /\ GetMachineNetShot = received
                 /\ reported.net <= prev.net /\ prev.net <= received

\* What was told of is the user time of the last shot and time of guests, which
\* is in no shot; the shots grow.
CpuInv ==
    /\ cpu.guest <= cpu.user
    /\ prev.cpu.user <= cpu.user - cpu.guest /\ prev.cpu.idle <= cpu.idle
    /\ reported.busy <= prev.cpu.user + cpu.guest

StatInv == StatTypeOK /\ NetInv /\ CpuInv

\* The initial state has it.
LEMMA InitStatInv == StatInit => StatInv
<1> SUFFICES ASSUME StatInit  PROVE StatInv
  OBVIOUS
<1>1. StatTypeOK /\ CpuInv
  BY DEF StatInit, StatTypeOK, CpuInv
<1>2. IsFiniteSet(DOMAIN net \ Loopback)
  BY StatsAssumption, FS_Difference DEF StatInit
<1>3. \A i \in DOMAIN net \ Loopback : net[i] = 0
  BY DEF StatInit
<1>4. GetMachineNetShot = 0
  BY <1>2, <1>3, SumOfZeros DEF GetMachineNetShot
<1>5. NetInv
  BY <1>4 DEF StatInit, NetInv
<1> QED  BY <1>1, <1>5 DEF StatInv

\* A shot of the network is a number.
LEMMA ShotIsNumber == ASSUME StatTypeOK  PROVE GetMachineNetShot \in Int
<1> DEFINE S == DOMAIN net \ Loopback
<1>1. IsFiniteSet(S)
  BY StatsAssumption, FS_Subset DEF StatTypeOK
<1>2. \A x \in S : net[x] \in Int /\ net[x] = IF x = 0 THEN net[x] + 0 ELSE net[x]
  BY DEF StatTypeOK
<1> QED  BY <1>1, <1>2, SumOfMore DEF GetMachineNetShot

\* The rate times the seconds is no more than what it is the rate of.
LEMMA RateBound ==
    ASSUME NEW d \in Nat, NEW s \in Nat \ {0}
    PROVE  (d \div s) \in Nat /\ (d \div s) * s <= d
OBVIOUS

\* Differences of two shots, as size_t has them.
LEMMA MinusBound ==
    ASSUME NEW a \in Int, NEW b \in Int
    PROVE  Minus(a, b) \in Nat /\ (b <= a => Minus(a, b) <= a - b)
BY StatsAssumption DEF Minus

\* The load has no more busy time than the user time has grown.
LEMMA LoadBound ==
    ASSUME NEW u \in Nat, NEW v \in Nat, NEW i \in Nat, NEW j \in Nat, u <= v, i <= j
    PROVE  LET before == [user |-> u, idle |-> i, iowait |-> 0]
               next == [user |-> v, idle |-> j, iowait |-> 0]
           IN  /\ GetCpuMachineLoad(before, next).busy \in Int
               /\ GetCpuMachineLoad(before, next).busy <= v - u
<1> DEFINE W == Word
           x == v - u
           y == j - i
<1>1. W \in Nat /\ W > 0 /\ x \in Nat /\ y \in Nat
  BY StatsAssumption
<1>2. (j + 0) - (i + 0) = y /\ (v + j + 0) - (u + i + 0) = x + y
  OBVIOUS
<1> HIDE DEF W, x, y
<1>3. (x + y) % W \in Nat /\ y % W \in Nat /\ ((x + y) % W) - (y % W) <= x
  <2> DEFINE p == (x + y) \div W
             q == y \div W
             s == (x + y) % W
             r == y % W
  <2>1. /\ p \in Nat /\ q \in Nat /\ s \in 0 .. W - 1 /\ r \in 0 .. W - 1
        /\ x + y = W * p + s /\ y = W * q + r
    BY <1>1
  <2> HIDE DEF p, q, s, r
  <2>2. q <= p
    <3> SUFFICES ASSUME p + 1 <= q  PROVE FALSE
      BY <2>1
    <3>1. W * (p + 1) <= W * q
      BY <1>1, <2>1
    <3>2. W * (p + 1) = W * p + W
      BY <1>1, <2>1
    <3> QED  BY <1>1, <2>1, <3>1, <3>2
  <2>3. W * q <= W * p
    BY <1>1, <2>1, <2>2
  <2>4. s \in Nat /\ r \in Nat /\ s - r <= x
    BY <1>1, <2>1, <2>3
  <2> QED  BY <2>4 DEF s, r
<1> QED  BY <1>1, <1>2, <1>3 DEF GetCpuMachineLoad, Minus, W, x

\* Every step of the machine and of the service preserves the invariant.
LEMMA StepStatInv == StatInv /\ [StatNext]_statVars => StatInv'
<1> SUFFICES ASSUME StatInv, [StatNext]_statVars  PROVE StatInv'
  OBVIOUS
<1> USE DEF StatInv, kernel
<1>1. ASSUME NEW ms \in Steps, Works(ms)  PROVE StatInv'
  <2>1. PICK i \in DOMAIN net, bytes \in Amounts :
           /\ net' = [net EXCEPT ![i] = @ + bytes]
           /\ received' = IF i \in Loopback THEN received ELSE received + bytes
    BY <1>1 DEF Works
  <2>2. PICK l \in Loads : cpu' = [f \in DOMAIN cpu |-> cpu[f] + l[f]]
    BY <1>1 DEF Works
  <2>3. ms \in Nat /\ bytes \in Nat /\ l \in [user : Nat, guest : Nat, idle : Nat, iowait : Nat]
        /\ l.guest <= l.user
    BY StatsAssumption
  <2>4. UNCHANGED <<prev, running, vanished, reported>> /\ clock' = clock + ms
    BY <1>1 DEF Works
  <2>5. /\ cpu' \in [user : Nat, guest : Nat, idle : Nat, iowait : Nat]
        /\ cpu'.user = cpu.user + l.user /\ cpu'.guest = cpu.guest + l.guest
        /\ cpu'.idle = cpu.idle + l.idle
    BY <2>2, <2>3 DEF StatTypeOK
  <2>6. /\ received' \in Nat /\ net' \in [DOMAIN net' -> Nat] /\ DOMAIN net' = DOMAIN net
    BY <2>1, <2>3 DEF StatTypeOK
  <2>7. StatTypeOK'
    BY <2>3, <2>4, <2>5, <2>6 DEF StatTypeOK
  <2>8. CpuInv'
    BY <2>3, <2>4, <2>5 DEF CpuInv, StatTypeOK
  <2>9. GetMachineNetShot' = GetMachineNetShot + (IF i \in Loopback THEN 0 ELSE bytes)
    <3> DEFINE S == DOMAIN net \ Loopback
    <3>1. IsFiniteSet(S)
      BY StatsAssumption, FS_Subset DEF StatTypeOK
    <3>2. \A x \in S : /\ net[x] \in Int
                       /\ net'[x] = IF x = i THEN net[x] + bytes ELSE net[x]
      BY <2>1 DEF StatTypeOK
    <3>3. bytes \in Int
      BY <2>3
    <3> HIDE DEF S
    <3>4. SumFunctionOnSet(net', S) = SumFunctionOnSet(net, S) + (IF i \in S THEN bytes ELSE 0)
      BY <3>1, <3>2, <3>3, SumOfMore
    <3>5. GetMachineNetShot = SumFunctionOnSet(net, S)
      BY DEF GetMachineNetShot, S
    <3>6. GetMachineNetShot' = SumFunctionOnSet(net', S)
      BY <2>6 DEF GetMachineNetShot, S
    <3> QED  BY <3>4, <3>5, <3>6 DEF S
  <2>10. NetInv'
    BY <2>1, <2>3, <2>4, <2>6, <2>9 DEF NetInv, StatTypeOK
  <2> QED  BY <2>7, <2>8, <2>10
<1>2. ASSUME NEW i \in Interfaces, Vanishes(i)  PROVE StatInv'
  <2>1. StatTypeOK'
    BY <1>2 DEF Vanishes, StatTypeOK
  <2>2. CpuInv' /\ NetInv'
    BY <1>2 DEF Vanishes, CpuInv, NetInv
  <2> QED  BY <2>1, <2>2
<1>3. ASSUME ExecShots  PROVE StatInv'
  <2>1. GetMachineNetShot \in Int /\ GetMachineNetShot' = GetMachineNetShot
    BY <1>3, ShotIsNumber DEF ExecShots, GetMachineNetShot
  <2>2. StatTypeOK'
    BY <1>3, <2>1 DEF ExecShots, StatTypeOK, GetMachineCpuShot, CpuInv
  <2>3. CpuInv'
    BY <1>3 DEF ExecShots, CpuInv, GetMachineCpuShot, StatTypeOK
  <2>4. NetInv'
    BY <1>3, <2>1 DEF ExecShots, NetInv, StatTypeOK
  <2> QED  BY <2>2, <2>3, <2>4
<1>4. ASSUME NEW full \in BOOLEAN, MakeServiceStats(full)  PROVE StatInv'
  <2> DEFINE shot == GetMachineNetShot
             sent == Rate * Seconds
             busy == GetCpuMachineLoad(prev.cpu, GetMachineCpuShot).busy
  <2>1. shot \in Int /\ GetMachineNetShot' = shot
    BY <1>4, ShotIsNumber DEF MakeServiceStats, GetMachineNetShot
  <2>2. Seconds \in Nat \ {0}
    BY DEF Seconds, StatTypeOK
  <2>3. sent \in Int /\ (prev.net <= shot => sent <= shot - prev.net)
    <3>1. prev.net \in Int
      BY DEF StatTypeOK
    <3> DEFINE d == Minus(shot, prev.net)
    <3>2. d \in Nat /\ (prev.net <= shot => d <= shot - prev.net)
      BY <2>1, <3>1, MinusBound
    <3>3. Rate = d \div Seconds
      BY DEF Rate
    <3> HIDE DEF d
    <3>4. Rate \in Nat /\ Rate * Seconds <= d
      BY <2>2, <3>2, <3>3, RateBound
    <3>5. Rate * Seconds \in Nat
      BY <2>2, <3>4
    <3> HIDE DEF shot
    <3> QED  BY <2>1, <3>1, <3>2, <3>4, <3>5
  <2>4. busy \in Int /\ busy <= GetMachineCpuShot.user - prev.cpu.user
    <3>1. prev.cpu = [user |-> prev.cpu.user, idle |-> prev.cpu.idle, iowait |-> 0]
      BY DEF StatTypeOK
    <3>2. GetMachineCpuShot = [user |-> GetMachineCpuShot.user, idle |-> GetMachineCpuShot.idle, iowait |-> 0]
      BY DEF GetMachineCpuShot
    <3>3. /\ prev.cpu.user \in Nat /\ GetMachineCpuShot.user \in Nat
          /\ prev.cpu.idle \in Nat /\ GetMachineCpuShot.idle \in Nat
          /\ prev.cpu.user <= GetMachineCpuShot.user /\ prev.cpu.idle <= GetMachineCpuShot.idle
      BY DEF StatTypeOK, CpuInv, GetMachineCpuShot
    <3> QED  BY <3>1, <3>2, <3>3, LoadBound
  <2> HIDE DEF shot, sent, busy
  <2>5. /\ prev' = [net |-> shot, cpu |-> GetMachineCpuShot, time |-> clock]
        /\ reported' = [net |-> reported.net + sent, busy |-> reported.busy + busy]
        /\ UNCHANGED <<clock, net, cpu, vanished, received>>
    BY <1>4 DEF MakeServiceStats, Told, shot, sent, busy
  <2>6. StatTypeOK'
    BY <2>1, <2>3, <2>4, <2>5 DEF StatTypeOK, GetMachineCpuShot, CpuInv
  <2>7. CpuInv'
    BY <2>4, <2>5 DEF CpuInv, GetMachineCpuShot, StatTypeOK
  <2>8. NetInv'
    BY <2>1, <2>3, <2>5 DEF NetInv, StatTypeOK, shot
  <2> QED  BY <2>6, <2>7, <2>8
<1>5. CASE UNCHANGED statVars
  BY <1>5 DEF statVars, StatTypeOK, NetInv, CpuInv, GetMachineNetShot
<1> HIDE DEF StatInv
<1> QED  BY <1>1, <1>2, <1>3, <1>4, <1>5 DEF StatNext

\* The statistics of the timer and those for a client that activates share the
\* last shots of MakeServiceStats, and still nothing is reported twice: of the
\* bytes while no interface goes, of the processor's time always.
THEOREM NothingMeasuredTwice == StatSpec => []MeasuredOnce
<1>1. StatInit => StatInv  BY InitStatInv
<1>2. StatInv /\ [StatNext]_statVars => StatInv'  BY StepStatInv
<1>3. StatInv => MeasuredOnce
  <2>1. StatInv => reported \in [net : Int, busy : Int] /\ prev.net \in Int /\ received \in Nat
                   /\ prev.cpu.user \in Nat /\ cpu.guest \in Nat /\ cpu.user \in Nat
    BY DEF StatInv, StatTypeOK
  <2> QED  BY <2>1 DEF StatInv, NetInv, CpuInv, MeasuredOnce
<1> QED  BY <1>1, <1>2, <1>3, PTL DEF StatSpec

-----------------------------------------------------------------------------
(* Requests, links and configurations                                      *)

Urls == Seq(Url)

\* What the validators leave; first, of the options that are read without a look.
Valid(a) ==
    /\ "type" \in DOMAIN a => IsInt(a["type"]) /\ a["type"].num \in 0..9
    /\ "restart_attempts" \in DOMAIN a => a["restart_attempts"].num # 0
    /\ UrlsAreLists(a)
    /\ DOMAIN a \subseteq Known /\ \A k \in DOMAIN a : OptionValid(k, a[k])

ConfigInv ==
    /\ phase \in {"acknowledged", "configured", "created"} =>
           Valid(args) /\ MakeStreamInfo(args, TRUE)
    /\ phase \in {"configured", "created"} =>
           ~OutputMissing(args) /\ ~ConfigAborts(args) /\ conf = make_config(args)
    /\ phase = "created" =>
           /\ kind = CreateStream(conf) /\ kind \notin {Abort, None}
           /\ conf.type = TIMESHIFT_PLAYER => "timeshift_dir" \in DOMAIN args
    /\ \A r \in DOMAIN vodsLinks : Valid(vodsLinks[r])
    /\ AcknowledgedRuns

-----------------------------------------------------------------------------
(* The validators                                                          *)

\* The option type has the validator type, and no other.
LEMMA TypeFound == FindOption("type") = "type"
<1>1. \A v \in Validators : "type" \in OptionsOf[v] <=> v = "type"
  BY DEF Validators, OptionsOf
<1> QED  BY <1>1 DEF FindOption, Validators, OptionsOf

\* So has the option restart_attempts.
LEMMA RestartsFound == FindOption("restart_attempts") = "restart_attempts"
<1>1. \A v \in Validators : "restart_attempts" \in OptionsOf[v] <=> v = "restart_attempts"
  BY DEF Validators, OptionsOf
<1> QED  BY <1>1 DEF FindOption, Validators, OptionsOf

\* A type that passes its validator is one of StreamType, and a number of
\* restarts is not zero.
LEMMA OptionsAreValid ==
    ASSUME NEW t
    PROVE  /\ OptionValid("type", t) => IsInt(t) /\ t.num \in 0..9
           /\ OptionValid("restart_attempts", t) => t.num # 0
<1>1. "type" \notin DOMAIN EncoderRanges \union {"string"}
      /\ "restart_attempts" \notin DOMAIN EncoderRanges \union {"string"}
  BY DEF EncoderRanges
<1>2. OptionValid("type", t) = GeneralValid("type", t)
  BY <1>1, TypeFound DEF OptionValid
<1>3. OptionValid("restart_attempts", t) = GeneralValid("restart_attempts", t)
  BY <1>1, RestartsFound DEF OptionValid
<1>4. GeneralValid("type", t) = ValidateRange(t, 0, 9)
  BY DEF GeneralValid
<1>5. GeneralValid("restart_attempts", t) = (IsNum(t) /\ t.num >= 1)
  BY DEF GeneralValid
<1>6. ValidateRange(t, 0, 9) => IsInt(t) /\ t.num \in 0..9
  <2> SUFFICES ASSUME ValidateRange(t, 0, 9)  PROVE IsInt(t) /\ t.num \in 0..9
    OBVIOUS
  <2>1. IsInt(t) /\ t.num \in -(IntMax + 1)..IntMax /\ t.num >= 0 /\ t.num <= 9
    BY DEF ValidateRange, IsInt
  <2> QED  BY <2>1, IntAssumption
<1>7. (IsNum(t) /\ t.num >= 1) => t.num # 0
  OBVIOUS
<1>8. OptionValid("type", t) => IsInt(t) /\ t.num \in 0..9
  BY <1>2, <1>4, <1>6, Zenon
<1>9. OptionValid("restart_attempts", t) => t.num # 0
  BY <1>3, <1>5, <1>7, Zenon
<1> QED  BY <1>8, <1>9

\* An option cleanup_ts of FALSE, the one that a link adds, is valid.
LEMMA CleanupIsValid == "cleanup_ts" \in Known /\ OptionValid("cleanup_ts", [bool |-> FALSE])
<1>1. \A v \in Validators : "cleanup_ts" \in OptionsOf[v] <=> v = "cleanup_ts"
  BY DEF Validators, OptionsOf
<1>2. "cleanup_ts" \in Validators
  BY DEF Validators, OptionsOf
<1>3. FindOption("cleanup_ts") = "cleanup_ts" /\ "cleanup_ts" \in Known
  BY <1>1, <1>2 DEF FindOption, Known
<1>4. "cleanup_ts" \notin DOMAIN EncoderRanges \union {"string"}
  BY DEF EncoderRanges
<1>5. GeneralValid("cleanup_ts", [bool |-> FALSE]) = IsBool([bool |-> FALSE])
  BY DEF GeneralValid
<1>6. OptionValid("cleanup_ts", [bool |-> FALSE]) = GeneralValid("cleanup_ts", [bool |-> FALSE])
  BY <1>3, <1>4 DEF OptionValid
<1>7. IsBool([bool |-> FALSE])
  BY DEF IsBool
<1> QED  BY <1>3, <1>5, <1>6, <1>7

\* ValidateConfig leaves valid options.
LEMMA ValidatedIsValid ==
    ASSUME NEW request, UrlsAreLists(request)
    PROVE  Valid(ValidateConfig(request))
<1> DEFINE a == ValidateConfig(request)
<1>1. /\ DOMAIN a \subseteq DOMAIN request \intersect Known
      /\ \A k \in DOMAIN a : a[k] = request[k] /\ OptionValid(k, a[k])
  BY DEF ValidateConfig
<1> HIDE DEF a
<1>2. UrlsAreLists(a)
  BY <1>1 DEF UrlsAreLists
<1> QED  BY <1>1, <1>2, OptionsAreValid DEF Valid, a

\* So do the links of a line.
LEMMA LinkIsValid ==
    ASSUME NEW request, UrlsAreLists(request), NEW r \in DOMAIN AddStreamLine(request)
    PROVE  Valid(AddStreamLine(request)[r])
<1> DEFINE a == ValidateConfig(request)
           b == [cleanup_ts |-> [bool |-> FALSE]] ++ a
<1>1. AddStreamLine(request)[r] = b
  BY DEF AddStreamLine
<1>2. Valid(a)
  BY ValidatedIsValid
<1> HIDE DEF a
<1>3. /\ DOMAIN b = {"cleanup_ts"} \cup DOMAIN a
      /\ b["cleanup_ts"] = [bool |-> FALSE]
      /\ \A k \in DOMAIN a : k # "cleanup_ts" => b[k] = a[k]
  BY DEF ++
<1> HIDE DEF b
<1>4. UrlsAreLists(b)
  <2>1. "urls" \notin DOMAIN b["cleanup_ts"]
    BY <1>3
  <2> QED  BY <1>2, <1>3, <2>1 DEF UrlsAreLists, Valid
<1>5. Valid(b)
  <2>1. DOMAIN b \subseteq Known /\ \A k \in DOMAIN b : OptionValid(k, b[k])
    BY <1>2, <1>3, CleanupIsValid DEF Valid
  <2> QED  BY <1>2, <1>3, <1>4, <2>1 DEF Valid
<1> QED  BY <1>1, <1>5

\* A set of positions in a list that is not empty has its Max.
LEMMA MaxOfPositions ==
    ASSUME NEW n \in Nat, NEW T \in SUBSET (1..n), T # {}
    PROVE  Max(T) \in T
<1> DEFINE R == {p \in Nat \X Nat : p[1] < p[2]}
           U == {u \in Nat : \A i \in T : i <= u}
<1>1. IsWellFoundedOn(R, Nat)
  BY NatLessThanWellFounded DEF OpToRel
<1>2. n \in U /\ U \subseteq Nat
  OBVIOUS
<1>3. PICK m \in U : \A y \in U : <<y, m>> \notin R
  BY <1>1, <1>2, WFMin
<1>4. m \in Nat /\ \A i \in T : i \in Nat /\ i <= m
  OBVIOUS
<1>5. m \in T
  <2> SUFFICES ASSUME m \notin T  PROVE FALSE
    OBVIOUS
  <2>1. PICK i \in T : TRUE
    OBVIOUS
  <2>2. m - 1 \in Nat /\ \A j \in T : j <= m - 1
    BY <1>4, <2>1
  <2>3. m - 1 \in U /\ <<m - 1, m>> \in R
    BY <1>4, <2>2
  <2> QED  BY <1>3, <2>3
<1>6. \A x \in T : (\A y \in T : x >= y) => x = m
  BY <1>4, <1>5
<1> QED  BY <1>4, <1>5, <1>6 DEF Max

\* The links that a SYNC_SERVICE leaves are valid.
LEMMA SyncedAreValid ==
    ASSUME NEW list \in Syncs, SyncService(list), \A r \in DOMAIN vodsLinks : Valid(vodsLinks[r])
    PROVE  \A r \in DOMAIN vodsLinks' : Valid(vodsLinks'[r])
<1>1. CASE vodsLinks' = vodsLinks
  BY <1>1
<1>2. CASE vodsLinks' # vodsLinks
  <2> DEFINE lines == [i \in 1..Len(list) |-> AddStreamLine(list[i])]
             With(r) == {i \in 1..Len(list) : r \in DOMAIN lines[i]}
  <2>1. vodsLinks' = [r \in UNION {DOMAIN lines[i] : i \in 1..Len(list)} |-> lines[Max(With(r))][r]]
    BY <1>2 DEF SyncService
  <2>2. Len(list) \in Nat /\ \A i \in 1..Len(list) : UrlsAreLists(list[i])
    BY RequestsAssumption
  <2>3. ASSUME NEW r \in DOMAIN vodsLinks'  PROVE Valid(vodsLinks'[r])
    <3>1. With(r) # {} /\ With(r) \in SUBSET (1..Len(list))
      BY <2>1
    <3>2. PICK i \in With(r) : i = Max(With(r))
      BY <2>2, <3>1, MaxOfPositions
    <3>3. i \in 1..Len(list) /\ r \in DOMAIN AddStreamLine(list[i])
          /\ vodsLinks'[r] = AddStreamLine(list[i])[r]
      BY <2>1, <3>2
    <3> QED  BY <2>2, <3>3, LinkIsValid
  <2> QED  BY <2>3
<1> QED  BY <1>1, <1>2

-----------------------------------------------------------------------------
(* The child                                                               *)

\* What CreateStream looks at is what the options say.
LEMMA ConfigFields ==
    ASSUME NEW a, a["type"].num \in 1..9
    PROVE  /\ make_config(a).type = a["type"].num
           /\ make_config(a).input = a["input"].urls
           /\ make_config(a).loop = GetBool(a, "loop", FALSE)
           /\ make_config(a).have_video = GetBool(a, "have_video", TRUE)
           /\ make_config(a).have_audio = GetBool(a, "have_audio", TRUE)
           /\ make_config(a).output = BaseConfig(a).output
<1> DEFINE F == {"type", "input", "loop", "have_video", "have_audio", "output"}
           Says(c) == /\ F \subseteq DOMAIN c
                      /\ c.type = a["type"].num /\ c.input = a["input"].urls
                      /\ c.loop = GetBool(a, "loop", FALSE)
                      /\ c.have_video = GetBool(a, "have_video", TRUE)
                      /\ c.have_audio = GetBool(a, "have_audio", TRUE)
                      /\ c.output = BaseConfig(a).output
<1>1. Says(AudioVideoConfig(a))
  <2>1. /\ {"type", "input", "output"} \subseteq DOMAIN BaseConfig(a)
        /\ BaseConfig(a).type = a["type"].num /\ BaseConfig(a).input = a["input"].urls
    BY DEF BaseConfig
  <2> QED  BY <2>1 DEF AudioVideoConfig, ++
<1>2. ASSUME NEW f, NEW c, Says(c), F \cap DOMAIN f = {}
      PROVE  Says(f ++ c)
  BY <1>2 DEF ++
<1> HIDE DEF Says
<1>3. Says(RelayConfig(a))
  BY <1>1, <1>2 DEF RelayConfig
<1>4. Says(EncodingConfig(a))
  <2> DEFINE e == [relay_audio |-> GetBool(a, "relay_audio", FALSE),
                   relay_video |-> GetBool(a, "relay_video", FALSE),
                   deinterlace |-> OptBool(a, "deinterlace"),
                   frame_rate |-> OptInt(a, "framerate"),
                   volume |-> OptNum(a, "volume"),
                   video_encoder |-> GetText(a, "video_codec", "x264enc"),
                   audio_encoder |-> GetText(a, "audio_codec", "faac"),
                   audio_channels |-> OptInt(a, "audio_channels"),
                   size |-> GetText(a, "size", ""),
                   video_bit_rate |-> OptInt(a, "video_bitrate"),
                   audio_bit_rate |-> OptInt(a, "audio_bitrate"),
                   logo |-> GetText(a, "logo", ""),
                   aspect_ratio |-> OptText(a, "aspect_ratio"),
                   decklink_video_mode |-> GetInt(a, "decklink_video_mode", 1)]
             v == InitVideoEncodersWithArgs(a)
  <2>1. EncodingConfig(a) = (e ++ v) ++ AudioVideoConfig(a)
    BY DEF EncodingConfig
  <2>2. F \cap DOMAIN e = {}
    OBVIOUS
  <2>3. F \cap DOMAIN v = {}
    BY DEF InitVideoEncodersWithArgs
  <2> HIDE DEF e, v
  <2>4. F \cap DOMAIN (e ++ v) = {}
    BY <2>2, <2>3 DEF ++
  <2> QED  BY <1>1, <1>2, <2>1, <2>4
<1>5. Says(VodRelayConfig(a)) /\ Says(TimeshiftConfig(a)) /\ Says(VodEncodeConfig(a))
  BY <1>2, <1>3, <1>4 DEF VodRelayConfig, TimeshiftConfig, VodEncodeConfig
<1>6. Says(make_config(a))
  BY <1>1, <1>3, <1>4, <1>5 DEF make_config, NoOutputs, PROXY, RELAY, ENCODE, TIMESHIFT_PLAYER,
     TIMESHIFT_RECORDER, CATCHUP, TEST_LIFE, VOD_RELAY, VOD_ENCODE, SCREEN
<1> QED  BY <1>6 DEF Says

\* The cases of Gap that are about the class.
ClassGap(a) ==
    LET t == a["type"].num
        in == a["input"].urls
        files == \A i \in 1..Len(in) : in[i].scheme = "file"
    IN  \/ t = ENCODE /\ in = <<>>
        \/ t = RELAY /\ Len(in) > 1 /\ ~files
        \/ t \in {VOD_RELAY, VOD_ENCODE} /\ (Len(in) # 1 \/ ~files \/ GetBool(a, "loop", FALSE))
        \/ t = SCREEN

\* The class that CreateStream chooses: the configurations it has none for are
\* those of Gap that make_config lets through, and that do not fail in the
\* builder.
LEMMA ClassOrGap ==
    ASSUME NEW a, Valid(a), MakeStreamInfo(a, TRUE), ~OutputMissing(a), ~ConfigAborts(a)
    PROVE  /\ ClassGap(a) <=> CreateStream(make_config(a)) \in {Abort, None}
           /\ Gap(a) <=> \/ CreateStream(make_config(a)) \in {Abort, None}
                         \/ a["type"].num = TIMESHIFT_PLAYER /\ "timeshift_dir" \notin DOMAIN a
                         \/ BuildGap(make_config(a), CreateStream(make_config(a)))
                         \/ NoFirstInput(make_config(a), CreateStream(make_config(a)))
<1> DEFINE c == make_config(a)
           t == a["type"].num
           in == a["input"].urls
           files == \A i \in 1..Len(in) : in[i].scheme = "file"
<1> USE DEF PROXY, RELAY, ENCODE, TIMESHIFT_PLAYER, TIMESHIFT_RECORDER, CATCHUP, TEST_LIFE,
            VOD_RELAY, VOD_ENCODE, SCREEN
<1>1. t \in 1..9
  BY DEF MakeStreamInfo, Valid
<1>2. in \in Urls /\ Len(in) \in Nat /\ (in = <<>> <=> Len(in) = 0)
  <2>1. in \in Urls
    BY DEF MakeStreamInfo, Valid, HasUrls, IsUrls, UrlsAreLists, Urls
  <2> QED  BY <2>1 DEF Urls
<1>3. c.type = t /\ c.input = in /\ c.loop = GetBool(a, "loop", FALSE)
  BY <1>1, ConfigFields
<1>4. IsPlaylist(c) <=> files
  BY <1>3 DEF IsPlaylist
<1>5. IsVod(c) <=> ~GetBool(a, "loop", FALSE) /\ Len(in) = 1 /\ files
  <2>1. Len(in) = 1 => (files <=> in[1].scheme = "file")
    OBVIOUS
  <2>2. IsVod(c) <=> ~GetBool(a, "loop", FALSE) /\ Len(in) = 1 /\ in[1].scheme = "file"
    BY <1>3 DEF IsVod
  <2> QED  BY <2>1, <2>2
<1>6. /\ ~(t \in NoOutputs /\ Len(in) > 1 /\ ~HasUrls(a, "output"))
      /\ ~(t \in NoOutputs /\ GetNum(a, "timeshift_chunk_duration", 120) = 0)
  BY <1>2 DEF OutputMissing, ConfigAborts, NoOutputs
<1>7. ClassGap(a) <=> \/ t = ENCODE /\ in = <<>>
                      \/ t = RELAY /\ Len(in) > 1 /\ ~files
                      \/ t \in {VOD_RELAY, VOD_ENCODE}
                             /\ (Len(in) # 1 \/ ~files \/ GetBool(a, "loop", FALSE))
                      \/ t = SCREEN
  BY DEF ClassGap
<1> HIDE DEF c, t, in, files
<1>8. ASSUME t = RELAY  PROVE CreateStream(c) \in {Abort, None} <=> ClassGap(a)
  BY <1>2, <1>3, <1>4, <1>7, <1>8 DEF CreateStream, Abort, None
<1>9. ASSUME t = ENCODE  PROVE CreateStream(c) \in {Abort, None} <=> ClassGap(a)
  BY <1>2, <1>3, <1>7, <1>9 DEF CreateStream, Abort, None
<1>10. ASSUME t \in {VOD_RELAY, VOD_ENCODE}  PROVE CreateStream(c) \in {Abort, None} <=> ClassGap(a)
  <2>1. CreateStream(c) \in {Abort, None} <=> ~IsVod(c)
    <3>1. CASE t = VOD_RELAY
      BY <1>3, <3>1 DEF CreateStream, Abort, None
    <3>2. CASE t = VOD_ENCODE
      BY <1>3, <3>2 DEF CreateStream, Abort, None
    <3> QED  BY <1>10, <3>1, <3>2
  <2>2. ClassGap(a) <=> Len(in) # 1 \/ ~files \/ GetBool(a, "loop", FALSE)
    <3>1. t # ENCODE /\ t # RELAY /\ t # SCREEN
      BY <1>10
    <3> QED  BY <1>7, <1>10, <3>1, Zenon
  <2> QED  BY <1>5, <2>1, <2>2, Zenon
<1>11. ASSUME t \in {TIMESHIFT_PLAYER, TIMESHIFT_RECORDER, CATCHUP, TEST_LIFE, SCREEN}
       PROVE  CreateStream(c) \in {Abort, None} <=> ClassGap(a)
  <2>1. CASE t = TIMESHIFT_PLAYER
    BY <1>3, <1>7, <2>1 DEF CreateStream, Abort, None
  <2>2. CASE t = TIMESHIFT_RECORDER
    BY <1>3, <1>7, <2>2 DEF CreateStream, Abort, None
  <2>3. CASE t = CATCHUP
    BY <1>3, <1>7, <2>3 DEF CreateStream, Abort, None
  <2>4. CASE t = TEST_LIFE
    BY <1>3, <1>7, <2>4 DEF CreateStream, Abort, None
  <2>5. CASE t = SCREEN
    BY <1>3, <1>7, <2>5 DEF CreateStream, Abort, None
  <2> QED  BY <1>11, <2>1, <2>2, <2>3, <2>4, <2>5
<1>12. CreateStream(c) \in {Abort, None} <=> ClassGap(a)
  BY <1>1, <1>8, <1>9, <1>10, <1>11
<1>13. Gap(a) <=> \/ ClassGap(a)
                  \/ t = TIMESHIFT_PLAYER /\ "timeshift_dir" \notin DOMAIN a
                  \/ /\ CreateStream(c) \notin {Abort, None}
                     /\ BuildGap(c, CreateStream(c)) \/ NoFirstInput(c, CreateStream(c))
  BY <1>6 DEF Gap, ClassGap, c, t, in, files
<1> QED  BY <1>12, <1>13 DEF c, t

\* A child that does not get as far as a configuration has met a Gap.
LEMMA FailsInGap ==
    ASSUME NEW a, Valid(a), MakeStreamInfo(a, TRUE), OutputMissing(a) \/ ConfigAborts(a)
    PROVE  Gap(a)
<1> DEFINE t == a["type"].num
           in == a["input"].urls
<1>1. FoldersReady(a) /\ GetInt(a, "type", PROXY) = t
  BY DEF MakeStreamInfo, Valid, GetInt
<1>2. in \in Urls /\ Len(in) \in Nat
  <2>1. in \in Urls
    BY DEF MakeStreamInfo, Valid, HasUrls, IsUrls, UrlsAreLists, Urls
  <2> QED  BY <2>1 DEF Urls
<1>3. t \notin NoOutputs => HasUrls(a, "output")
  BY <1>1 DEF FoldersReady
<1>4. CASE OutputMissing(a)
  <2>1. t \in NoOutputs /\ ~(Len(in) <= 1) /\ ~HasUrls(a, "output")
    BY <1>3, <1>4 DEF OutputMissing
  <2>2. Len(in) > 1
    BY <1>2, <2>1
  <2> QED  BY <2>1, <2>2 DEF Gap
<1>5. CASE ConfigAborts(a)
  <2>1. GetNum(a, "restart_attempts", 10) # 0
    BY DEF GetNum, Valid
  <2> QED  BY <1>5, <2>1 DEF ConfigAborts, Gap
<1> QED  BY <1>4, <1>5

-----------------------------------------------------------------------------
(* The pipeline                                                            *)

Copying == RelayClasses \union RecorderClasses \union {"TestLifeStream"}
Classes == Copying \union Encoding \union {"MosaicStream"}

Shaped ==
    /\ conf.input \in Urls /\ conf.output \in Urls
    /\ conf.have_video \in BOOLEAN /\ conf.have_audio \in BOOLEAN
    /\ kind \in Classes
    /\ kind \in Copying =>
           /\ {"video_parser", "audio_parser"} \subseteq DOMAIN conf
           /\ conf.video_parser \in VideoParsers /\ conf.audio_parser \in AudioParsers
    /\ kind \notin Copying =>
           /\ {"video_encoder", "audio_encoder", "logo"} \subseteq DOMAIN conf
           /\ conf.video_encoder \in VideoEncoders /\ conf.audio_encoder \in AudioEncoders

\* The capabilities of encoders and parsers.
LEMMA OffersOf ==
    /\ Builder!Offers("x264enc") = {"h264"}
    /\ Builder!Offers("vaapih264enc") = {"h264"}
    /\ Builder!Offers("mfxh264enc") = {"h264"}
    /\ Builder!Offers("x265enc") = {"h265"}
    /\ Builder!Offers("faac") = {"aac"}
    /\ Builder!Offers("lamemp3enc") = {"mp3"}
    /\ Builder!Offers("tsparse") = {"mpegts"}
    /\ Builder!Offers("h264parse") = {"h264"}
    /\ Builder!Offers("h265parse") = {"h265"}
    /\ Builder!Offers("aacparse") = {"aac"}
    /\ Builder!Offers("ac3parse") = {"ac3"}
    /\ Builder!Offers("mpegaudioparse") = {"mp3"}
BY DEF Builder!Offers, Builder!Takes, Builder!VideoParsers, Builder!AudioParsers,
       Builder!RawFilters, Builder!VideoEncoders, Builder!AudioEncoders

\* What the builder looks at is what the configuration says.
BuilderSays(B) ==
    /\ B.kind = BuilderKind(kind)
    /\ "video" \in B.media <=> conf.have_video
    /\ "audio" \in B.media <=> conf.have_audio
    /\ B.media \subseteq {"video", "audio"}
    /\ B.inputs = Len(conf.input)
    /\ \A n : n \in B.noSource <=> \E i \in 1..Len(conf.input) : n = i - 1 /\ ~HasSrc(conf.input[i])
    /\ \A n : n \in B.noSink <=> \E i \in 1..Len(conf.output) : n = i - 1 /\ ~conf.output[i].whole
    /\ DOMAIN B.outs = 1..Len(conf.output)
    /\ \A i \in 1..Len(conf.output) : B.outs[i] = BuilderScheme(conf.output[i])
    /\ "own_source" \in B.opts <=> kind \in OwnSources
    /\ kind \notin Copying =>
         /\ B.vcodec = BuilderEncoder(conf.video_encoder, kind)
         /\ B.acodec = IF conf.audio_encoder = "lamemp3enc" THEN "lamemp3enc" ELSE "faac"
         /\ "logo" \in B.opts <=> conf.logo # ""
         /\ "remote_logo" \in B.opts <=> conf.logo \in RemoteLogos
    /\ kind \in Copying => B.vparser = conf.video_parser /\ B.aparser = conf.audio_parser

\* BuilderConfig says it.
LEMMA BuilderFields ==
    ASSUME Shaped
    PROVE  BuilderSays(BuilderConfig(conf, kind))
<1> DEFINE B == BuilderConfig(conf, kind)
<1>1. B.kind = BuilderKind(kind) /\ B.inputs = Len(conf.input)
  BY DEF BuilderConfig
<1>2. /\ "video" \in B.media <=> conf.have_video
      /\ "audio" \in B.media <=> conf.have_audio
      /\ B.media \subseteq {"video", "audio"}
  BY DEF BuilderConfig, Shaped
<1>3. \A n : n \in B.noSource <=> \E i \in 1..Len(conf.input) : n = i - 1 /\ ~HasSrc(conf.input[i])
  BY DEF BuilderConfig
<1>4. \A n : n \in B.noSink <=> \E i \in 1..Len(conf.output) : n = i - 1 /\ ~conf.output[i].whole
  BY DEF BuilderConfig
<1>5. DOMAIN B.outs = 1..Len(conf.output)
      /\ \A i \in 1..Len(conf.output) : B.outs[i] = BuilderScheme(conf.output[i])
  BY DEF BuilderConfig
<1>6. "own_source" \in B.opts <=> kind \in OwnSources
  BY DEF BuilderConfig
<1>7. ASSUME kind \notin Copying
      PROVE  /\ B.vcodec = BuilderEncoder(conf.video_encoder, kind)
             /\ B.acodec = IF conf.audio_encoder = "lamemp3enc" THEN "lamemp3enc" ELSE "faac"
             /\ "logo" \in B.opts <=> conf.logo # ""
             /\ "remote_logo" \in B.opts <=> conf.logo \in RemoteLogos
  <2>1. /\ Field(conf, "video_encoder", "x264enc") = conf.video_encoder
        /\ Field(conf, "audio_encoder", "faac") = conf.audio_encoder
        /\ Field(conf, "logo", "") = conf.logo
    BY <1>7 DEF Shaped, Field
  <2> QED  BY <2>1 DEF BuilderConfig
<1>8. ASSUME kind \in Copying  PROVE B.vparser = conf.video_parser /\ B.aparser = conf.audio_parser
  BY <1>8 DEF Shaped, Field, BuilderConfig
<1> QED  BY <1>1, <1>2, <1>3, <1>4, <1>5, <1>6, <1>7, <1>8 DEF BuilderSays

\* The sources of the inputs.
LEMMA SourcesFit ==
    ASSUME Shaped
    PROVE  Builder!Sourced <=>
             /\ kind = "MosaicStream" => \A i \in 1..Len(conf.input) : HasSrc(conf.input[i])
             /\ kind \notin OwnSources \union {"MosaicStream", "TestInputStream", "DeviceStream"} =>
                    conf.input # <<>> /\ HasSrc(conf.input[1])
<1> DEFINE B == BuilderConfig(conf, kind)
           n == Len(conf.input)
<1>1. BuilderSays(B)
  BY BuilderFields
<1>2. n \in Nat /\ (conf.input = <<>> <=> n = 0)
  BY DEF Shaped, Urls
<1>3. ASSUME NEW i \in Nat, i < n  PROVE i \notin B.noSource <=> HasSrc(conf.input[i + 1])
  <2>1. i \in B.noSource <=> \E j \in 1..n : i = j - 1 /\ ~HasSrc(conf.input[j])
    BY <1>1 DEF BuilderSays
  <2>2. i + 1 \in 1..n /\ \A j \in 1..n : i = j - 1 <=> j = i + 1
    BY <1>2, <1>3
  <2> QED  BY <2>1, <2>2
<1> HIDE DEF B, n
<1>4. Builder!IsMosaic <=> kind = "MosaicStream"
  BY <1>1 DEF Builder!IsMosaic, BuilderSays, BuilderKind, RelayClasses, RecorderClasses, B
<1>5. ASSUME NEW i \in Nat
      PROVE  Builder!HasSource(i) <=> \/ kind # "MosaicStream" /\ kind \in OwnSources
                                      \/ i < n /\ HasSrc(conf.input[i + 1])
  <2>1. Builder!HasSource(i) <=> \/ kind # "MosaicStream" /\ kind \in OwnSources
                                 \/ i < n /\ i \notin B.noSource
    BY <1>1, <1>4 DEF Builder!HasSource, BuilderSays, B, n
  <2> QED  BY <1>3, <2>1
<1>6. CASE kind = "MosaicStream"
  <2>1. Builder!Sourced <=> \A i \in 0..n - 1 : Builder!HasSource(i)
    BY <1>1, <1>4, <1>6 DEF Builder!Sourced, BuilderSays, B, n
  <2>2. Builder!Sourced <=> \A i \in 0..n - 1 : HasSrc(conf.input[i + 1])
    <3>1. ASSUME NEW i \in 0..n - 1  PROVE Builder!HasSource(i) <=> HasSrc(conf.input[i + 1])
      <4>1. i \in Nat /\ i < n
        BY <1>2
      <4> QED  BY <1>5, <1>6, <4>1
    <3> QED  BY <2>1, <3>1
  <2>3. (\A i \in 0..n - 1 : HasSrc(conf.input[i + 1])) <=> \A i \in 1..n : HasSrc(conf.input[i])
    <3>1. ASSUME \A i \in 0..n - 1 : HasSrc(conf.input[i + 1]), NEW i \in 1..n
          PROVE  HasSrc(conf.input[i])
      <4>1. i - 1 \in 0..n - 1 /\ (i - 1) + 1 = i
        BY <1>2
      <4> QED  BY <3>1, <4>1
    <3>2. ASSUME \A i \in 1..n : HasSrc(conf.input[i]), NEW i \in 0..n - 1
          PROVE  HasSrc(conf.input[i + 1])
      <4>1. i + 1 \in 1..n
        BY <1>2
      <4> QED  BY <3>2, <4>1
    <3> QED  BY <3>1, <3>2
  <2> QED  BY <1>6, <2>2, <2>3 DEF n
<1>7. CASE kind # "MosaicStream"
  <2>1. Builder!Sourced <=> B.kind \in {"device", "test_input"} \/ Builder!HasSource(0)
    BY <1>4, <1>7 DEF Builder!Sourced, B
  <2>2. B.kind \in {"device", "test_input"} <=> kind \in {"TestInputStream", "DeviceStream"}
    BY <1>1 DEF BuilderSays, BuilderKind, RelayClasses, RecorderClasses
  <2>3. Builder!HasSource(0) <=> kind \in OwnSources \/ (conf.input # <<>> /\ HasSrc(conf.input[1]))
    <3>1. 0 < n <=> conf.input # <<>>
      BY <1>2
    <3> QED  BY <1>5, <1>7, <3>1
  <2> QED  BY <1>7, <2>1, <2>2, <2>3
<1> QED  BY <1>6, <1>7

\* The filters of decoded video.
LEMMA FiltersFit ==
    ASSUME Shaped
    PROVE  Builder!Filtered <=>
             ~ /\ kind \in Recoding /\ conf.have_video
               /\ \/ conf.video_encoder \in {"vaapih264enc", "vaapimpeg2enc", "mfxh264enc"}
                  \/ NotReachedAborts /\ conf.logo # "" /\ conf.logo \in RemoteLogos
<1> DEFINE B == BuilderConfig(conf, kind)
<1>1. BuilderSays(B)
  BY BuilderFields
<1>2. B.kind \in {"encoding", "only_video", "test_input"} <=> kind \in Recoding
  BY <1>1 DEF BuilderSays, BuilderKind, Shaped, Classes, Copying, RelayClasses, RecorderClasses,
              Recoding, Encoding
<1>3. kind \in Recoding => kind \notin Copying /\ kind # "MosaicStream"
  BY DEF Copying, RelayClasses, RecorderClasses, Recoding
<1>4. ASSUME kind \in Recoding
      PROVE  Builder!IsGpu <=> conf.video_encoder \in {"vaapih264enc", "vaapimpeg2enc", "mfxh264enc"}
  <2>1. B.vcodec = BuilderEncoder(conf.video_encoder, kind) /\ kind # "MosaicStream"
    BY <1>1, <1>3, <1>4 DEF BuilderSays
  <2> QED  BY <2>1 DEF Builder!IsGpu, BuilderEncoder
<1>5. ASSUME kind \in Recoding
      PROVE  Builder!LogoAborts <=> NotReachedAborts /\ conf.logo # "" /\ conf.logo \in RemoteLogos
  BY <1>1, <1>3, <1>5 DEF BuilderSays, Builder!LogoAborts
<1>6. Builder!Filtered <=> (kind \in Recoding /\ conf.have_video => ~Builder!IsGpu /\ ~Builder!LogoAborts)
  BY <1>1, <1>2 DEF Builder!Filtered, BuilderSays
<1> QED  BY <1>4, <1>5, <1>6

\* What the media of a stream are encoded in, as far as the muxers care.
LEMMA CodecsFit ==
    ASSUME Shaped
    PROVE  /\ kind \in RelayClasses =>
                /\ Builder!IsRelay /\ ~Builder!IsMosaic
                /\ Builder!Carried("video") = Builder!Offers(conf.video_parser)
                /\ Builder!Carried("audio") = Builder!Offers(conf.audio_parser)
                /\ Builder!MpegAudio <=> conf.audio_parser = "mpegaudioparse"
           /\ kind \in Encoding \union {"MosaicStream"} =>
                /\ ~Builder!IsRelay /\ (Builder!IsMosaic <=> kind = "MosaicStream")
                /\ kind # "EncodingOnlyAudioStream" =>
                     Builder!Carried("video") =
                        IF conf.video_encoder = "x265enc"
                           \/ (kind = "MosaicStream" /\ conf.video_encoder = "vaapimpeg2enc")
                        THEN {"h265"} ELSE {"h264"}
                /\ kind = "EncodingOnlyAudioStream" => "h264" \in Builder!Carried("video")
                /\ kind # "EncodingOnlyVideoStream" =>
                     Builder!Carried("audio") =
                        IF conf.audio_encoder = "lamemp3enc" THEN {"mp3"} ELSE {"aac"}
                /\ kind = "EncodingOnlyVideoStream" =>
                     /\ "aac" \in Builder!Carried("audio")
                     /\ conf.audio_encoder = "lamemp3enc" => "mpegts" \in Builder!Carried("audio")
                /\ Builder!MpegAudio <=> conf.audio_encoder = "lamemp3enc"
                /\ Builder!IsH264Encoder <=>
                     ~(conf.video_encoder = "x265enc"
                        \/ (kind = "MosaicStream" /\ conf.video_encoder = "vaapimpeg2enc"))
                /\ Builder!IsAACEncoder <=> conf.audio_encoder # "lamemp3enc"
<1> DEFINE B == BuilderConfig(conf, kind)
<1>1. BuilderSays(B)
  BY BuilderFields
<1>2. ASSUME kind \in RelayClasses
      PROVE  /\ Builder!IsRelay /\ ~Builder!IsMosaic
             /\ B.vparser = conf.video_parser /\ B.aparser = conf.audio_parser
             /\ B.kind = "relay"
  <2>1. B.kind = "relay"
    <3>1. B.kind = BuilderKind(kind)
      BY <1>1 DEF BuilderSays
    <3> QED  BY <1>2, <3>1 DEF BuilderKind, RelayClasses, RecorderClasses
  <2>2. B.vparser = conf.video_parser /\ B.aparser = conf.audio_parser
    BY <1>1, <1>2 DEF BuilderSays, Copying
  <2> QED  BY <2>1, <2>2 DEF Builder!IsRelay, Builder!IsMosaic, Builder!Relays
<1>3. ASSUME kind \in RelayClasses
      PROVE  /\ Builder!Carried("video") = Builder!Offers(conf.video_parser)
             /\ Builder!Carried("audio") = Builder!Offers(conf.audio_parser)
             /\ Builder!MpegAudio <=> conf.audio_parser = "mpegaudioparse"
  <2>1. Builder!MpegAudio <=> conf.audio_parser = "mpegaudioparse"
    BY <1>2, <1>3 DEF Builder!MpegAudio
  <2>2. Builder!Parser("video") = conf.video_parser /\ Builder!Parser("audio") = conf.audio_parser
    BY <1>2, <1>3 DEF Builder!Parser
  <2>3. \A m \in {"video", "audio"} : Builder!Carried(m) = Builder!Offers(Builder!Parser(m))
    BY <1>2, <1>3 DEF Builder!Carried
  <2> QED  BY <2>1, <2>2, <2>3
<1>4. ASSUME kind \in Encoding \union {"MosaicStream"}
      PROVE  /\ ~Builder!IsRelay /\ (Builder!IsMosaic <=> kind = "MosaicStream")
             /\ B.kind = "only_audio" <=> kind = "EncodingOnlyAudioStream"
             /\ B.kind = "only_video" <=> kind = "EncodingOnlyVideoStream"
             /\ B.vcodec = BuilderEncoder(conf.video_encoder, kind)
             /\ B.acodec = IF conf.audio_encoder = "lamemp3enc" THEN "lamemp3enc" ELSE "faac"
  <2>1. kind \notin Copying
    BY <1>4 DEF Encoding, Recoding, Copying, RelayClasses, RecorderClasses
  <2>2. B.kind = BuilderKind(kind)
    BY <1>1 DEF BuilderSays
  <2>3. /\ B.kind \notin {"relay", "test_life", "recorder"}
        /\ B.kind = "mosaic" <=> kind = "MosaicStream"
        /\ B.kind = "only_audio" <=> kind = "EncodingOnlyAudioStream"
        /\ B.kind = "only_video" <=> kind = "EncodingOnlyVideoStream"
    BY <2>1, <2>2 DEF BuilderKind, Copying, RelayClasses, RecorderClasses
  <2>4. ~Builder!IsRelay /\ (Builder!IsMosaic <=> kind = "MosaicStream")
    BY <2>3 DEF Builder!IsRelay, Builder!IsMosaic, Builder!Relays
  <2> QED  BY <1>1, <2>1, <2>3, <2>4 DEF BuilderSays
<1>5. ASSUME kind \in Encoding \union {"MosaicStream"}
      PROVE  /\ Builder!IsH264Encoder <=>
                  ~(conf.video_encoder = "x265enc"
                     \/ (kind = "MosaicStream" /\ conf.video_encoder = "vaapimpeg2enc"))
             /\ Builder!IsAACEncoder <=> conf.audio_encoder # "lamemp3enc"
             /\ Builder!MpegAudio <=> conf.audio_encoder = "lamemp3enc"
  <2>1. Builder!IsH264Encoder <=>
                  ~(conf.video_encoder = "x265enc"
                     \/ (kind = "MosaicStream" /\ conf.video_encoder = "vaapimpeg2enc"))
    BY <1>4, <1>5 DEF Builder!IsH264Encoder, BuilderEncoder
  <2>2. Builder!IsAACEncoder <=> conf.audio_encoder # "lamemp3enc"
    BY <1>4, <1>5 DEF Builder!IsAACEncoder
  <2> QED  BY <1>4, <1>5, <2>1, <2>2 DEF Builder!MpegAudio
<1>6. ASSUME kind \in Encoding \union {"MosaicStream"}, kind # "EncodingOnlyAudioStream"
      PROVE  Builder!Carried("video") =
                IF conf.video_encoder = "x265enc"
                   \/ (kind = "MosaicStream" /\ conf.video_encoder = "vaapimpeg2enc")
                THEN {"h265"} ELSE {"h264"}
  <2>1. Builder!Carried("video") = Builder!Offers(B.vcodec)
    BY <1>4, <1>6 DEF Builder!Carried, Builder!Encoder
  <2> QED  BY <1>4, <1>6, <2>1, OffersOf DEF BuilderEncoder
<1>7. ASSUME kind \in Encoding \union {"MosaicStream"}, kind # "EncodingOnlyVideoStream"
      PROVE  Builder!Carried("audio") =
                IF conf.audio_encoder = "lamemp3enc" THEN {"mp3"} ELSE {"aac"}
  <2>1. Builder!Carried("audio") = Builder!Offers(B.acodec)
    BY <1>4, <1>7 DEF Builder!Carried, Builder!Encoder
  <2> QED  BY <1>4, <1>7, <2>1, OffersOf
<1>8. ASSUME kind = "EncodingOnlyAudioStream"  PROVE "h264" \in Builder!Carried("video")
  <2>1. Builder!Carried("video") = IF Builder!IsH264Encoder THEN {"h264"} ELSE Builder!AnyCaps
    BY <1>4, <1>8 DEF Builder!Carried, Encoding
  <2> QED  BY <2>1 DEF Builder!AnyCaps, Builder!Codecs
<1>9. ASSUME kind = "EncodingOnlyVideoStream"
      PROVE  /\ "aac" \in Builder!Carried("audio")
             /\ conf.audio_encoder = "lamemp3enc" => "mpegts" \in Builder!Carried("audio")
  <2>1. Builder!Carried("audio") = IF Builder!IsAACEncoder THEN {"aac"} ELSE Builder!AnyCaps
    BY <1>4, <1>9 DEF Builder!Carried, Encoding, Recoding
  <2> QED  BY <1>5, <1>9, <2>1 DEF Builder!AnyCaps, Builder!Codecs, Encoding, Recoding
<1> QED  BY <1>2, <1>3, <1>4, <1>5, <1>6, <1>7, <1>8, <1>9

\* An output.
LEMMA OutputFits ==
    ASSUME Shaped, kind \in RelayClasses \union Encoding \union {"MosaicStream"},
           kind = "DeviceStream" => ~conf.have_video /\ ~conf.have_audio,
           NEW i \in 1..Len(conf.output)
    PROVE  LET url == conf.output[i]
               unpaid == /\ kind \notin Copying /\ (kind = "MosaicStream" \/ NotReachedAborts)
                         /\ conf.have_video /\ conf.video_encoder \in Unpaid
                         /\ url.scheme = "udp"
           IN  OutputGap(conf, kind, url) <=>
                  \/ ~Builder!CanOutput(BuilderConfig(conf, kind).outs[i])
                  \/ ~Builder!HasSink(i - 1)
                  \/ unpaid
<1> DEFINE B == BuilderConfig(conf, kind)
           url == conf.output[i]
           s == BuilderScheme(url)
           v == conf.have_video
           a == conf.have_audio
           unpaid == /\ kind \notin Copying /\ (kind = "MosaicStream" \/ NotReachedAborts)
                     /\ conf.have_video /\ conf.video_encoder \in Unpaid
                     /\ url.scheme = "udp"
<1>1. BuilderSays(B)
  BY BuilderFields
<1>2. i \in Nat /\ i - 1 + 1 = i /\ Len(conf.output) \in Nat /\ url \in Url
  BY DEF Shaped, Urls
<1>3. B.outs[i] = s /\ (s = "udp" <=> url.scheme = "udp")
      /\ s \in {"udp", "http", "rtmp", "device", "other"}
  BY <1>1 DEF BuilderSays, BuilderScheme
<1>4. Builder!HasSink(i - 1) <=> s \in {"rtmp", "device"} \/ url.whole
  <2>1. i - 1 \in B.noSink <=> \E j \in 1..Len(conf.output) : i - 1 = j - 1 /\ ~conf.output[j].whole
    BY <1>1 DEF BuilderSays
  <2>2. \A j \in 1..Len(conf.output) : i - 1 = j - 1 <=> j = i
    BY <1>2
  <2>3. i - 1 \in B.noSink <=> ~url.whole
    BY <2>1, <2>2
  <2>4. Builder!HasSink(i - 1) <=> s \in {"rtmp", "device"} \/ i - 1 \notin B.noSink
    BY <1>2, <1>3 DEF Builder!HasSink
  <2> QED  BY <2>3, <2>4
<1>5. B.media = (IF v THEN {"video"} ELSE {}) \union (IF a THEN {"audio"} ELSE {})
      /\ v \in BOOLEAN /\ a \in BOOLEAN /\ ("video" \in B.media <=> v) /\ ("audio" \in B.media <=> a)
      /\ (B.media = {"audio"} <=> a /\ ~v)
      /\ \A m \in B.media : m = "video" \/ m = "audio"
  BY DEF BuilderConfig, Shaped
<1> DEFINE C(m) == Builder!Carried(m)
<1>6. /\ s = "rtmp" => (Builder!CanOutput(s) <=>
                          /\ v => C("video") \cap {"h264", "aac", "mp3"} # {}
                          /\ a => C("audio") \cap {"h264", "aac", "mp3"} # {})
      /\ s = "http" => (Builder!CanOutput(s) <=>
                          /\ v => C("video") \cap Builder!Codecs # {}
                          /\ a => C("audio") \cap Builder!Codecs # {})
  <2> DEFINE R(m) == C(m) \cap {"h264", "aac", "mp3"} # {}
             H(m) == C(m) \cap Builder!Codecs # {}
  <2>1. s = "rtmp" => (Builder!CanOutput(s) <=> \A m \in B.media : R(m))
    BY DEF Builder!CanOutput
  <2>2. s = "http" => (Builder!CanOutput(s) <=> \A m \in B.media : H(m))
    BY DEF Builder!CanOutput
  <2> HIDE DEF R, H
  <2>3. (\A m \in B.media : R(m)) <=> (v => R("video")) /\ (a => R("audio"))
    BY <1>5
  <2>4. (\A m \in B.media : H(m)) <=> (v => H("video")) /\ (a => H("audio"))
    BY <1>5
  <2>5. /\ s = "rtmp" => (Builder!CanOutput(s) <=> (v => R("video")) /\ (a => R("audio")))
        /\ s = "http" => (Builder!CanOutput(s) <=> (v => H("video")) /\ (a => H("audio")))
    BY <2>1, <2>2, <2>3, <2>4
  <2> QED  BY <2>5 DEF R, H
<1>7. /\ s = "device" => Builder!CanOutput(s)
      /\ s = "other" => ~Builder!CanOutput(s)
      /\ s = "udp" /\ Builder!IsMosaic => (Builder!CanOutput(s) <=>
             (v => ~Builder!IsH264Encoder) /\ (a => Builder!IsAACEncoder))
      /\ s = "udp" /\ ~Builder!IsMosaic => (Builder!CanOutput(s) <=>
             (Builder!MpegAudio /\ a => ~v /\ "mpegts" \in C("audio")))
  BY <1>5 DEF Builder!CanOutput
<1> DEFINE Fits == Builder!CanOutput(s) /\ Builder!HasSink(i - 1) /\ ~unpaid
<1>8. ASSUME s \in {"device", "other"}  PROVE OutputGap(conf, kind, url) <=> ~Fits
  BY <1>3, <1>4, <1>7, <1>8 DEF OutputGap
<1>9. ASSUME kind \in RelayClasses, s \in {"udp", "http", "rtmp"}
      PROVE  OutputGap(conf, kind, url) <=> ~Fits
  <2>1. kind \in Copying /\ kind \notin Encoding \union Recoding \union {"MosaicStream"}
    BY <1>9 DEF Copying, RelayClasses, Encoding, Recoding
  <2>2. /\ ~Builder!IsMosaic
        /\ C("video") = Builder!Offers(conf.video_parser)
        /\ C("audio") = Builder!Offers(conf.audio_parser)
        /\ Builder!MpegAudio <=> conf.audio_parser = "mpegaudioparse"
    BY <1>9, CodecsFit
  <2>3. conf.video_parser \in {"tsparse", "h264parse", "h265parse"}
        /\ conf.audio_parser \in {"mpegaudioparse", "aacparse", "ac3parse"}
    BY <2>1 DEF Shaped, VideoParsers, AudioParsers
  <2>4. /\ C("video") \cap {"h264", "aac", "mp3"} # {} <=> conf.video_parser = "h264parse"
        /\ C("audio") \cap {"h264", "aac", "mp3"} # {} <=> conf.audio_parser # "ac3parse"
        /\ C("video") \cap Builder!Codecs # {} <=> conf.video_parser # "tsparse"
        /\ C("audio") \cap Builder!Codecs # {}
        /\ Builder!MpegAudio => "mpegts" \notin C("audio")
    BY <2>2, <2>3, OffersOf DEF Builder!Codecs
  <2> HIDE DEF C
  <2>5. CASE s = "udp"
    BY <1>4, <1>7, <1>9, <2>1, <2>2, <2>4, <2>5 DEF OutputGap
  <2>6. CASE s = "http"
    BY <1>4, <1>6, <1>9, <2>1, <2>2, <2>4, <2>6 DEF OutputGap
  <2>7. CASE s = "rtmp"
    BY <1>4, <1>6, <1>9, <2>1, <2>2, <2>4, <2>7 DEF OutputGap
  <2> QED  BY <1>9, <2>5, <2>6, <2>7
<1>10. ASSUME kind \in Encoding \union {"MosaicStream"}, s \in {"udp", "http", "rtmp"}
       PROVE  OutputGap(conf, kind, url) <=> ~Fits
  <2> DEFINE mosaic == kind = "MosaicStream"
             x265 == conf.video_encoder = "x265enc" \/ (mosaic /\ conf.video_encoder = "vaapimpeg2enc")
             mp3 == conf.audio_encoder = "lamemp3enc"
  <2>1. kind \notin Copying /\ kind \notin RelayClasses
    BY <1>10 DEF Copying, RelayClasses, RecorderClasses, Encoding, Recoding
  <2>2. /\ Builder!IsMosaic <=> mosaic
        /\ Builder!MpegAudio <=> mp3
        /\ Builder!IsH264Encoder <=> ~x265
        /\ Builder!IsAACEncoder <=> ~mp3
    BY <1>10, CodecsFit
  <2>3. /\ C("video") \cap {"h264", "aac", "mp3"} # {} <=> kind = "EncodingOnlyAudioStream" \/ ~x265
        /\ C("video") \cap Builder!Codecs # {}
    <3>1. CASE kind = "EncodingOnlyAudioStream"
      BY <1>10, <3>1, CodecsFit DEF Builder!Codecs
    <3>2. CASE kind # "EncodingOnlyAudioStream"
      BY <1>10, <3>2, CodecsFit DEF Builder!Codecs
    <3> QED  BY <3>1, <3>2
  <2>4. /\ C("audio") \cap {"h264", "aac", "mp3"} # {}
        /\ C("audio") \cap Builder!Codecs # {}
        /\ mp3 => ("mpegts" \in C("audio") <=> kind = "EncodingOnlyVideoStream")
    <3>1. CASE kind = "EncodingOnlyVideoStream"
      BY <1>10, <3>1, CodecsFit DEF Builder!Codecs
    <3>2. CASE kind # "EncodingOnlyVideoStream"
      BY <1>10, <3>2, CodecsFit DEF Builder!Codecs
    <3> QED  BY <3>1, <3>2
  <2>5. mosaic => kind \notin Encoding
    BY DEF Encoding, Recoding
  <2>6. kind \in Recoding \/ mosaic \/ kind = "EncodingOnlyAudioStream" \/ kind = "DeviceStream"
    BY <1>10 DEF Encoding
  <2>7. kind = "EncodingOnlyAudioStream" => kind \notin Recoding
    BY DEF Recoding
  <2> HIDE DEF C
  <2>8. CASE s = "udp"
    <3>1. CASE mosaic
      <4>1. OutputGap(conf, kind, url) <=> \/ ~url.whole
                                           \/ a /\ mp3
                                           \/ v /\ conf.video_encoder # "x265enc"
        BY <2>1, <2>5, <2>8, <3>1 DEF OutputGap
      <4>2. Fits <=> (v => x265) /\ (a => ~mp3) /\ url.whole /\ ~(v /\ conf.video_encoder \in Unpaid)
        BY <1>3, <1>4, <1>7, <2>1, <2>2, <2>8, <3>1
      <4> QED  BY <3>1, <4>1, <4>2 DEF Unpaid
    <3>2. CASE ~mosaic
      <4>1. OutputGap(conf, kind, url) <=>
               \/ ~url.whole
               \/ a /\ mp3 /\ (kind = "EncodingOnlyVideoStream" => v)
               \/ v /\ conf.video_encoder \in Unpaid /\ NotReachedAborts
        BY <1>10, <2>1, <2>8, <3>2 DEF OutputGap
      <4>2. Fits <=> /\ mp3 /\ a => ~v /\ "mpegts" \in C("audio")
                     /\ url.whole
                     /\ ~(NotReachedAborts /\ v /\ conf.video_encoder \in Unpaid)
        BY <1>3, <1>4, <1>7, <2>1, <2>2, <2>8, <3>2
      <4> QED  BY <2>4, <4>1, <4>2
    <3> QED  BY <3>1, <3>2
  <2>9. CASE s = "http"
    <3>1. OutputGap(conf, kind, url) <=> ~url.whole
      BY <2>1, <2>9 DEF OutputGap
    <3>2. Fits <=> url.whole
      BY <1>3, <1>4, <1>6, <2>3, <2>4, <2>9
    <3> QED  BY <3>1, <3>2
  <2>10. CASE s = "rtmp"
    <3>1. OutputGap(conf, kind, url) <=> (kind \in Recoding \/ mosaic) /\ v /\ x265
      BY <2>1, <2>10 DEF OutputGap
    <3>2. Fits <=> (v => kind = "EncodingOnlyAudioStream" \/ ~x265)
      BY <1>3, <1>4, <1>6, <2>3, <2>4, <2>10
    <3> QED  BY <2>6, <2>7, <3>1, <3>2
  <2> QED  BY <1>10, <2>8, <2>9, <2>10
<1> HIDE DEF unpaid
<1>11. OutputGap(conf, kind, url) <=> ~Fits
  BY <1>3, <1>8, <1>9, <1>10
<1> QED  BY <1>3, <1>11 DEF unpaid

\* The pipeline of a stream is built unless BuildGap says otherwise.
LEMMA BuildsOrGap ==
    ASSUME Shaped
    PROVE  BuildGap(conf, kind) <=>
             \/ kind = "MosaicStream" /\ ~Builder!HasLayout
             \/ ~Builder!Buildable
             \/ PayUnknown(conf, kind)
<1> DEFINE B == BuilderConfig(conf, kind)
           v == conf.have_video
           a == conf.have_audio
           n == Len(conf.output)
           outs == RelayClasses \union Encoding \union {"MosaicStream"}
           Fails(i) == OutputGap(conf, kind, conf.output[i])
           NotBuilt(i) == ~Builder!CanOutput(B.outs[i]) \/ ~Builder!HasSink(i - 1)
           Unpaids(i) == /\ kind \notin Copying /\ (kind = "MosaicStream" \/ NotReachedAborts)
                         /\ v /\ conf.video_encoder \in Unpaid /\ conf.output[i].scheme = "udp"
           source == /\ kind = "MosaicStream" => \A i \in 1..Len(conf.input) : HasSrc(conf.input[i])
                     /\ kind \notin OwnSources \union {"MosaicStream", "TestInputStream", "DeviceStream"} =>
                            conf.input # <<>> /\ HasSrc(conf.input[1])
           filter == ~ /\ kind \in Recoding /\ v
                       /\ \/ conf.video_encoder \in {"vaapih264enc", "vaapimpeg2enc", "mfxh264enc"}
                          \/ NotReachedAborts /\ conf.logo # "" /\ conf.logo \in RemoteLogos
           layout == Len(conf.input) \in {1, 2, 4, 9, 16}
<1>1. BuilderSays(B)
  BY BuilderFields
<1>2. v \in BOOLEAN /\ a \in BOOLEAN /\ kind \in Classes
  BY DEF Shaped
<1>3. (B.media = {} <=> ~v /\ ~a) /\ (B.media = Builder!Media <=> v /\ a)
  <2>1. ("video" \in B.media <=> v) /\ ("audio" \in B.media <=> a) /\ B.media \subseteq {"video", "audio"}
    BY <1>1 DEF BuilderSays
  <2> HIDE DEF B, v, a
  <2> QED  BY <2>1 DEF Builder!Media
<1>4. Builder!HasLayout <=> layout
  BY <1>1 DEF BuilderSays, Builder!HasLayout
<1>5. Builder!Sourced <=> source
  BY SourcesFit
<1>6. Builder!Filtered <=> filter
  BY FiltersFit
<1>7. DOMAIN B.outs = 1..n /\ B.kind = BuilderKind(kind)
  BY <1>1 DEF BuilderSays
<1>8. /\ B.kind = "device" <=> kind = "DeviceStream"
      /\ B.kind = "recorder" <=> kind \in RecorderClasses
      /\ B.kind = "test_life" <=> kind = "TestLifeStream"
  BY <1>2, <1>7 DEF BuilderKind, Classes, Copying, RelayClasses, RecorderClasses, Encoding, Recoding
<1>9. /\ kind \in outs <=> kind \notin RecorderClasses /\ kind # "TestLifeStream"
      /\ kind \in Copying <=> kind \notin Encoding \union {"MosaicStream"}
      /\ kind = "DeviceStream" => kind \in outs /\ kind \notin RecorderClasses \union Recoding /\ kind # "TestLifeStream"
      /\ kind = "MosaicStream" => kind \in outs /\ kind \notin RecorderClasses \union Recoding
      /\ kind \in RecorderClasses => kind # "TestLifeStream" /\ kind \notin Recoding
      /\ kind = "TestLifeStream" => kind \notin Recoding
  BY <1>2 DEF Classes, Copying, RelayClasses, RecorderClasses, Encoding, Recoding
<1>10. PayUnknown(conf, kind) <=> \E i \in 1..n : Unpaids(i)
  BY DEF PayUnknown, Copying
<1>11. ASSUME kind \in outs, kind = "DeviceStream" => ~v /\ ~a
       PROVE  (\E i \in 1..n : Fails(i)) <=> (\E i \in 1..n : NotBuilt(i)) \/ (\E i \in 1..n : Unpaids(i))
  <2>1. ASSUME NEW i \in 1..n  PROVE Fails(i) <=> NotBuilt(i) \/ Unpaids(i)
    BY <1>11, OutputFits
  <2> HIDE DEF Fails, NotBuilt, Unpaids
  <2> QED  BY <2>1
<1>12. Builder!Buildable <=>
         /\ Builder!Sourced
         /\ CASE B.kind = "device" /\ B.media # {} -> FALSE
              [] B.kind = "recorder"               -> B.media = Builder!Media
              [] B.kind = "test_life"              -> TRUE
              [] OTHER -> Builder!Filtered /\ ~ \E i \in DOMAIN B.outs : NotBuilt(i)
  BY DEF Builder!Buildable
<1>13. BuildGap(conf, kind) <=>
         \/ ~source
         \/ kind = "DeviceStream" /\ (v \/ a)
         \/ kind \in RecorderClasses /\ ~(v /\ a)
         \/ kind = "MosaicStream" /\ ~layout
         \/ ~filter
         \/ kind \in outs /\ \E i \in 1..n : Fails(i)
  BY DEF BuildGap
<1>14. (kind \notin Recoding => filter) /\ (kind \in Copying => ~PayUnknown(conf, kind))
  BY DEF PayUnknown, Copying
<1>15. kind \in RecorderClasses \union {"TestLifeStream"} => kind \in Copying /\ kind # "MosaicStream" /\ kind # "DeviceStream"
  BY DEF Copying, RecorderClasses
<1> HIDE DEF v, a, n, Fails, NotBuilt, Unpaids, source, filter, layout, B, outs
<1>16. CASE kind = "DeviceStream" /\ (v \/ a)
  BY <1>3, <1>8, <1>12, <1>13, <1>16
<1>17. CASE kind \in RecorderClasses
  BY <1>3, <1>5, <1>8, <1>9, <1>14, <1>15, <1>12, <1>13, <1>17
<1>18. CASE kind = "TestLifeStream"
  BY <1>3, <1>5, <1>8, <1>9, <1>14, <1>15, <1>12, <1>13, <1>18
<1>19. CASE kind \in outs /\ ~(kind = "DeviceStream" /\ (v \/ a))
  BY <1>3, <1>4, <1>5, <1>6, <1>7, <1>8, <1>9, <1>10, <1>11, <1>12, <1>13, <1>19
<1> QED  BY <1>9, <1>16, <1>17, <1>18, <1>19

\* Classes that encode are those of the types that do.
LEMMA ClassOfType ==
    ASSUME NEW c, c.type \in 1..9, CreateStream(c) \notin {Abort, None}
    PROVE  /\ c.type \in {ENCODE, VOD_ENCODE} <=> CreateStream(c) \notin Copying
           /\ c.type # SCREEN /\ CreateStream(c) \in Classes
<1> USE DEF PROXY, RELAY, ENCODE, TIMESHIFT_PLAYER, TIMESHIFT_RECORDER, CATCHUP, TEST_LIFE,
            VOD_RELAY, VOD_ENCODE, SCREEN, Abort, None, Classes, Copying, Encoding, Recoding,
            RelayClasses, RecorderClasses
<1>1. CASE c.type = RELAY
  BY <1>1 DEF CreateStream
<1>2. CASE c.type = ENCODE
  BY <1>2 DEF CreateStream
<1>3. CASE c.type = TIMESHIFT_PLAYER
  BY <1>3 DEF CreateStream
<1>4. CASE c.type = TIMESHIFT_RECORDER
  BY <1>4 DEF CreateStream
<1>5. CASE c.type = CATCHUP
  BY <1>5 DEF CreateStream
<1>6. CASE c.type = TEST_LIFE
  BY <1>6 DEF CreateStream
<1>7. CASE c.type = VOD_RELAY
  BY <1>7 DEF CreateStream
<1>8. CASE c.type = VOD_ENCODE
  BY <1>8 DEF CreateStream
<1>9. CASE c.type = SCREEN
  BY <1>9 DEF CreateStream
<1> QED  BY <1>1, <1>2, <1>3, <1>4, <1>5, <1>6, <1>7, <1>8, <1>9

\* The parsers and encoders that validated options name.
LEMMA CodecsValid ==
    ASSUME NEW a, Valid(a)
    PROVE  /\ GetText(a, "video_parser", "h264parse") \in VideoParsers
           /\ GetText(a, "audio_parser", "aacparse") \in AudioParsers
           /\ GetText(a, "video_codec", "x264enc") \in VideoEncoders
           /\ GetText(a, "audio_codec", "faac") \in AudioEncoders
<1> DEFINE K == {"video_parser", "audio_parser", "video_codec", "audio_codec"}
           Names(k) == CASE k = "video_parser" -> VideoParsers
                         [] k = "audio_parser" -> AudioParsers
                         [] k = "video_codec" -> VideoEncoders
                         [] OTHER -> AudioEncoders
<1>1. ASSUME NEW k \in K  PROVE FindOption(k) = k
  <2>1. \A v \in Validators : k \in OptionsOf[v] <=> v = k
    BY DEF Validators, OptionsOf
  <2>2. k \in Validators
    BY DEF Validators, OptionsOf
  <2> QED  BY <2>1, <2>2 DEF FindOption
<1>2. ASSUME NEW k \in K, k \in DOMAIN a  PROVE a[k].text \in Names(k)
  <2>1. OptionValid(k, a[k])
    BY <1>2 DEF Valid
  <2>2. k \notin DOMAIN EncoderRanges \union {"string", "dont_validate"}
    BY DEF EncoderRanges
  <2>3. GeneralValid(k, a[k])
    BY <1>1, <2>1, <2>2 DEF OptionValid
  <2>4. CASE k = "video_parser"
    BY <2>3, <2>4 DEF GeneralValid, OneOf
  <2>5. CASE k = "audio_parser"
    BY <2>3, <2>5 DEF GeneralValid, OneOf
  <2>6. CASE k = "video_codec"
    BY <2>3, <2>6 DEF GeneralValid, OneOf
  <2>7. CASE k = "audio_codec"
    BY <2>3, <2>7 DEF GeneralValid, OneOf
  <2> QED  BY <2>4, <2>5, <2>6, <2>7
<1> QED  BY <1>2 DEF GetText, VideoParsers, AudioParsers, VideoEncoders, AudioEncoders

\* The fields of a configuration that only its kind has.
LEMMA CodecFields ==
    ASSUME NEW a, a["type"].num \in 1..9 \ {SCREEN}
    PROVE  /\ a["type"].num \notin {ENCODE, VOD_ENCODE} =>
                /\ {"video_parser", "audio_parser"} \subseteq DOMAIN make_config(a)
                /\ make_config(a).video_parser = GetText(a, "video_parser", "h264parse")
                /\ make_config(a).audio_parser = GetText(a, "audio_parser", "aacparse")
           /\ a["type"].num \in {ENCODE, VOD_ENCODE} =>
                /\ {"video_encoder", "audio_encoder", "logo"} \subseteq DOMAIN make_config(a)
                /\ make_config(a).video_encoder = GetText(a, "video_codec", "x264enc")
                /\ make_config(a).audio_encoder = GetText(a, "audio_codec", "faac")
<1> USE DEF PROXY, RELAY, ENCODE, TIMESHIFT_PLAYER, TIMESHIFT_RECORDER, CATCHUP, TEST_LIFE,
            VOD_RELAY, VOD_ENCODE, SCREEN
<1> DEFINE Parses(c) == /\ {"video_parser", "audio_parser"} \subseteq DOMAIN c
                        /\ c.video_parser = GetText(a, "video_parser", "h264parse")
                        /\ c.audio_parser = GetText(a, "audio_parser", "aacparse")
           Encodes(c) == /\ {"video_encoder", "audio_encoder", "logo"} \subseteq DOMAIN c
                         /\ c.video_encoder = GetText(a, "video_codec", "x264enc")
                         /\ c.audio_encoder = GetText(a, "audio_codec", "faac")
<1>1. Parses(RelayConfig(a))
  BY DEF RelayConfig, ++
<1>2. Encodes(EncodingConfig(a))
  BY DEF EncodingConfig, ++
<1>3. ASSUME NEW f, NEW c, {"video_parser", "audio_parser", "video_encoder", "audio_encoder", "logo"}
                             \cap DOMAIN f = {}
      PROVE  (Parses(c) => Parses(f ++ c)) /\ (Encodes(c) => Encodes(f ++ c))
  BY <1>3 DEF ++
<1> HIDE DEF Parses, Encodes
<1>4. Parses(VodRelayConfig(a)) /\ Parses(TimeshiftConfig(a))
  BY <1>1, <1>3 DEF VodRelayConfig, TimeshiftConfig
<1>5. Encodes(VodEncodeConfig(a))
  BY <1>2, <1>3 DEF VodEncodeConfig
<1>6. a["type"].num \notin {ENCODE, VOD_ENCODE} => Parses(make_config(a))
  BY <1>1, <1>4 DEF make_config, NoOutputs
<1>7. a["type"].num \in {ENCODE, VOD_ENCODE} => Encodes(make_config(a))
  BY <1>2, <1>5 DEF make_config, NoOutputs
<1> QED  BY <1>6, <1>7 DEF Parses, Encodes

\* What a builder is given has the shape it has to have.
LEMMA ConfigShaped ==
    ASSUME Valid(args), MakeStreamInfo(args, TRUE), conf = make_config(args),
           kind = CreateStream(conf), kind \notin {Abort, None}
    PROVE  Shaped
<1>1. args["type"].num \in 1..9
  BY DEF MakeStreamInfo, Valid, PROXY
<1>2. /\ conf.type = args["type"].num /\ conf.input = args["input"].urls
      /\ conf.have_video = GetBool(args, "have_video", TRUE)
      /\ conf.have_audio = GetBool(args, "have_audio", TRUE)
      /\ conf.output = BaseConfig(args).output
  BY <1>1, ConfigFields
<1>3. conf.input \in Urls
  BY <1>2 DEF MakeStreamInfo, Valid, HasUrls, IsUrls, UrlsAreLists, Urls
<1>4. conf.output \in Urls
  <2>1. HasUrls(args, "output") => args["output"].urls \in Urls
    BY DEF Valid, HasUrls, IsUrls, UrlsAreLists, Urls
  <2>2. conf.output = <<>> \/ (HasUrls(args, "output") /\ conf.output = args["output"].urls)
    BY <1>2 DEF BaseConfig
  <2>3. <<>> \in Urls
    BY DEF Urls
  <2> QED  BY <2>1, <2>2, <2>3
<1>5. conf.have_video \in BOOLEAN /\ conf.have_audio \in BOOLEAN
  BY <1>2 DEF GetBool, IsBool
<1>6. /\ conf.type \in {ENCODE, VOD_ENCODE} <=> kind \notin Copying
      /\ conf.type # SCREEN /\ kind \in Classes
  BY <1>1, <1>2, ClassOfType
<1>7. kind \in Copying =>
           /\ {"video_parser", "audio_parser"} \subseteq DOMAIN conf
           /\ conf.video_parser \in VideoParsers /\ conf.audio_parser \in AudioParsers
  BY <1>1, <1>2, <1>6, CodecFields, CodecsValid
<1>8. kind \notin Copying =>
           /\ {"video_encoder", "audio_encoder", "logo"} \subseteq DOMAIN conf
           /\ conf.video_encoder \in VideoEncoders /\ conf.audio_encoder \in AudioEncoders
  BY <1>1, <1>2, <1>6, CodecFields, CodecsValid
<1> QED  BY <1>3, <1>4, <1>5, <1>6, <1>7, <1>8 DEF Shaped

-----------------------------------------------------------------------------
(* The invariant                                                           *)

\* CreateChildStream with options that are valid.
LEMMA CreatePreserves ==
    ASSUME ConfigInv, NEW a, Valid(a), Create(a), vodsLinks' = vodsLinks
    PROVE  ConfigInv'
<1>1. args' = a /\ phase' = (IF MakeStreamInfo(a, TRUE) THEN "acknowledged" ELSE "refused")
  BY DEF Create
<1> QED  BY <1>1 DEF ConfigInv, AcknowledgedRuns

\* Every step preserves the invariant.
LEMMA StepConfigInv ==
    ASSUME ConfigInv, [Next]_vars
    PROVE  ConfigInv'
<1>1. ASSUME NEW r \in Requests, StartStream(r)  PROVE ConfigInv'
  <2>1. CASE FatalConfig(r)
    BY <1>1, <2>1 DEF StartStream, ConfigInv, AcknowledgedRuns
  <2>2. CASE ~FatalConfig(r)
    <3>1. Create(ValidateConfig(r)) /\ vodsLinks' = vodsLinks
      BY <1>1, <2>2 DEF StartStream
    <3>2. Valid(ValidateConfig(r))
      BY RequestsAssumption, ValidatedIsValid
    <3> QED  BY <3>1, <3>2, CreatePreserves
  <2> QED  BY <2>1, <2>2
<1>2. ASSUME NEW l \in Syncs, SyncService(l)  PROVE ConfigInv'
  <2>1. \A r \in DOMAIN vodsLinks' : Valid(vodsLinks'[r])
    BY <1>2, SyncedAreValid DEF ConfigInv
  <2>2. phase' \in {"idle", "service aborted"}
    BY <1>2 DEF SyncService
  <2> QED  BY <2>1, <2>2 DEF ConfigInv, AcknowledgedRuns
<1>3. ASSUME NEW root \in DOMAIN vodsLinks, StartVod(root)  PROVE ConfigInv'
  <2>1. Valid(vodsLinks[root]) /\ Create(vodsLinks[root]) /\ vodsLinks' = vodsLinks
    BY <1>3 DEF StartVod, ConfigInv
  <2> QED  BY <2>1, CreatePreserves
<1>4. CASE ChildInit
  <2>1. Valid(args) /\ MakeStreamInfo(args, TRUE) /\ args' = args /\ vodsLinks' = vodsLinks
    BY <1>4 DEF ChildInit, ConfigInv
  <2>2. CASE OutputMissing(args) \/ ConfigAborts(args)
    <3>1. phase' \in {"child failed", "child aborted"}
      BY <1>4, <2>2 DEF ChildInit
    <3>2. Gap(args)
      BY <2>1, <2>2, FailsInGap
    <3> QED  BY <2>1, <3>1, <3>2 DEF ConfigInv, AcknowledgedRuns
  <2>3. CASE ~(OutputMissing(args) \/ ConfigAborts(args))
    <3>1. phase' = "configured" /\ conf' = make_config(args)
      BY <1>4, <2>3 DEF ChildInit
    <3> QED  BY <2>1, <2>3, <3>1 DEF ConfigInv, AcknowledgedRuns
  <2> QED  BY <2>2, <2>3
<1>5. CASE ChildWaits
  <2>1. /\ Valid(args) /\ MakeStreamInfo(args, TRUE) /\ conf = make_config(args)
        /\ args' = args /\ vodsLinks' = vodsLinks /\ phase' = "child waits"
        /\ conf.type = TIMESHIFT_PLAYER /\ "timeshift_dir" \notin DOMAIN args
    BY <1>5 DEF ChildWaits, ConfigInv
  <2>2. args["type"].num \in 1..9
    <3>1. Valid(args) /\ MakeStreamInfo(args, TRUE)
      BY <2>1
    <3> QED  BY <3>1 DEF MakeStreamInfo, Valid, PROXY
  <2>3. Gap(args)
    BY <2>1, <2>2, ConfigFields DEF Gap
  <2> QED  BY <2>1, <2>3 DEF ConfigInv, AcknowledgedRuns
<1>6. CASE ChildCreate
  <2>1. /\ Valid(args) /\ MakeStreamInfo(args, TRUE) /\ ~OutputMissing(args) /\ ~ConfigAborts(args)
        /\ conf = make_config(args) /\ args' = args /\ vodsLinks' = vodsLinks /\ conf' = conf
        /\ conf.type = TIMESHIFT_PLAYER => "timeshift_dir" \in DOMAIN args
    BY <1>6 DEF ChildCreate, ConfigInv
  <2>2. /\ kind' = CreateStream(conf)
        /\ kind' \in {Abort, None} => phase' \in {"child aborted", "child failed"}
        /\ kind' \notin {Abort, None} => phase' = "created"
    BY <1>6 DEF ChildCreate, Abort, None
  <2>3. kind' \in {Abort, None} => Gap(args)
    BY <2>1, <2>2, ClassOrGap
  <2> QED  BY <2>1, <2>2, <2>3 DEF ConfigInv, AcknowledgedRuns
<1>7. CASE ChildBuild
  <2>1. /\ Valid(args) /\ MakeStreamInfo(args, TRUE) /\ ~OutputMissing(args) /\ ~ConfigAborts(args)
        /\ conf = make_config(args) /\ args' = args /\ vodsLinks' = vodsLinks
        /\ kind = CreateStream(conf) /\ kind \notin {Abort, None}
        /\ conf.type = TIMESHIFT_PLAYER => "timeshift_dir" \in DOMAIN args
    BY <1>7 DEF ChildBuild, ConfigInv
  <2>2. args["type"].num \in 1..9
    <3>1. Valid(args) /\ MakeStreamInfo(args, TRUE)
      BY <2>1
    <3> QED  BY <3>1 DEF MakeStreamInfo, Valid, PROXY
  <2>3. Gap(args) <=> BuildGap(conf, kind) \/ NoFirstInput(conf, kind)
    BY <2>1, <2>2, ClassOrGap, ConfigFields
  <2>4. Shaped
    BY <2>1, ConfigShaped
  <2>5. BuildGap(conf, kind) <=> \/ kind = "MosaicStream" /\ ~Builder!HasLayout
                                 \/ ~Builder!Buildable
                                 \/ PayUnknown(conf, kind)
    BY <2>4, BuildsOrGap
  <2>6. phase' = IF kind = "MosaicStream" /\ ~Builder!HasLayout THEN "child failed"
                 ELSE IF Builder!Buildable /\ ~PayUnknown(conf, kind) /\ ~NoFirstInput(conf, kind)
                 THEN "running"
                 ELSE "child aborted"
    BY <1>7 DEF ChildBuild
  <2> QED  BY <2>1, <2>3, <2>5, <2>6 DEF ConfigInv, AcknowledgedRuns
<1>8. CASE Forget
  BY <1>8 DEF Forget, ConfigInv, AcknowledgedRuns
<1>9. CASE UNCHANGED vars
  BY <1>9 DEF vars, ConfigInv, AcknowledgedRuns, Shaped
<1> QED  BY <1>1, <1>2, <1>3, <1>4, <1>5, <1>6, <1>7, <1>8, <1>9 DEF Next

\* What is known of the options at each phase holds in every reachable state.
THEOREM ConfigInvariance == Spec => []ConfigInv
<1>1. Init => ConfigInv
  <2>1. DOMAIN <<>> = {}
    OBVIOUS
  <2> QED  BY <2>1 DEF Init, ConfigInv, AcknowledgedRuns
<1>2. ConfigInv /\ [Next]_vars => ConfigInv'
  BY StepConfigInv
<1> QED  BY <1>1, <1>2, PTL DEF Spec

\* MakeStreamInfo, make_config, CreateStream and the builders, for any requests:
\* a stream the service acknowledges comes to run its main loop unless it is one
\* of the cases of Gap, and only in those the child dies, fails or waits.
THEOREM AcknowledgedStreamsRun == Spec => []AcknowledgedRuns
<1>1. ConfigInv => AcknowledgedRuns
  BY DEF ConfigInv
<1> QED  BY <1>1, ConfigInvariance, PTL

-----------------------------------------------------------------------------
(* Options and fields                                                      *)

ArgFields == {"video_encoder_args", "video_encoder_str_args"}
ArgNames == IntegerArgs \union StringArgs \union FlagArgs

\* The fields of the configurations, except the arguments of the encoders, and
\* the option that each of them is read from.
Fields ==
    {"type", "input", "output", "max_restart_attempts", "ttl_sec", "have_video",
     "have_audio", "audio_select", "avformat", "loop", "video_parser",
     "audio_parser", "cleanup_ts", "timeshift_chunk_duration", "relay_audio",
     "relay_video", "deinterlace", "frame_rate", "volume", "video_encoder",
     "audio_encoder", "audio_channels", "size", "video_bit_rate",
     "audio_bit_rate", "logo", "aspect_ratio", "decklink_video_mode"}
ReadFrom(f) ==
    CASE f = "max_restart_attempts" -> "restart_attempts"
      [] f = "ttl_sec" -> "auto_exit_time"
      [] f = "frame_rate" -> "framerate"
      [] f = "video_encoder" -> "video_codec"
      [] f = "audio_encoder" -> "audio_codec"
      [] f = "video_bit_rate" -> "video_bitrate"
      [] f = "audio_bit_rate" -> "audio_bitrate"
      [] OTHER -> f
FieldOf(k) ==
    CASE k = "restart_attempts" -> "max_restart_attempts"
      [] k = "auto_exit_time" -> "ttl_sec"
      [] k = "framerate" -> "frame_rate"
      [] k = "video_codec" -> "video_encoder"
      [] k = "audio_codec" -> "audio_encoder"
      [] k = "video_bitrate" -> "video_bit_rate"
      [] k = "audio_bitrate" -> "audio_bit_rate"
      [] OTHER -> k

\* No option is read into two fields.
LEMMA FieldOfOption == \A f \in Fields : FieldOf(ReadFrom(f)) = f
BY DEF Fields, ReadFrom, FieldOf

\* Options that are the same but for those in D, and what is read from them.
Same(a, b, D) ==
    \A m : m \notin D => /\ m \in DOMAIN a <=> m \in DOMAIN b
                         /\ m \in DOMAIN a => a[m] = b[m]
Agree(c, d, D) ==
    /\ DOMAIN c = DOMAIN d
    /\ \A f \in DOMAIN c \ ArgFields : ReadFrom(f) \notin D => c[f] = d[f]

\* What ArgsGetValue gives for an option depends on that one only.
LEMMA ReadsSame ==
    ASSUME NEW a, NEW b, NEW D, Same(a, b, D), NEW k, k \notin D
    PROVE  /\ \A default : /\ GetInt(a, k, default) = GetInt(b, k, default)
                           /\ GetNum(a, k, default) = GetNum(b, k, default)
                           /\ GetBool(a, k, default) = GetBool(b, k, default)
                           /\ GetText(a, k, default) = GetText(b, k, default)
           /\ OptInt(a, k) = OptInt(b, k) /\ OptNum(a, k) = OptNum(b, k)
           /\ OptBool(a, k) = OptBool(b, k) /\ OptText(a, k) = OptText(b, k)
           /\ HasUrls(a, k) <=> HasUrls(b, k)
<1>1. (k \in DOMAIN a <=> k \in DOMAIN b) /\ (k \in DOMAIN a => a[k] = b[k])
  BY DEF Same
<1>2. \A default : /\ GetInt(a, k, default) = GetInt(b, k, default)
                   /\ GetNum(a, k, default) = GetNum(b, k, default)
                   /\ GetBool(a, k, default) = GetBool(b, k, default)
                   /\ GetText(a, k, default) = GetText(b, k, default)
  BY <1>1 DEF GetInt, GetNum, GetBool, GetText
<1>3. {k} \intersect DOMAIN a = {k} \intersect DOMAIN b
  BY <1>1
<1>4. OptInt(a, k) = OptInt(b, k)
  BY <1>1, <1>3 DEF OptInt
<1>5. OptNum(a, k) = OptNum(b, k)
  BY <1>1, <1>3 DEF OptNum
<1>6. OptBool(a, k) = OptBool(b, k)
  BY <1>1, <1>3 DEF OptBool
<1>7. OptText(a, k) = OptText(b, k)
  BY <1>1, <1>3 DEF OptText
<1>8. HasUrls(a, k) <=> HasUrls(b, k)
  BY <1>1 DEF HasUrls
<1> QED  BY <1>2, <1>4, <1>5, <1>6, <1>7, <1>8

\* A configuration made of two parts agrees when the parts do.
LEMMA MergedAgree ==
    ASSUME NEW c, NEW d, NEW e, NEW f, NEW D, Agree(c, d, D), Agree(e, f, D)
    PROVE  Agree(c ++ e, d ++ f, D)
BY DEF Agree, ++

\* The part every configuration has.
LEMMA BaseAgrees ==
    ASSUME NEW a, NEW b, NEW D, Same(a, b, D), D \intersect Required = {},
           {"type", "input"} \subseteq DOMAIN a
    PROVE  Agree(BaseConfig(a), BaseConfig(b), D) /\ DOMAIN BaseConfig(a) \subseteq Fields
<1> DEFINE c == BaseConfig(a)
           d == BaseConfig(b)
<1>1. {"type", "input", "output"} \intersect D = {}
  BY DEF Required
<1>2. a["type"] = b["type"] /\ a["input"] = b["input"]
  BY <1>1 DEF Same
<1>3. (HasUrls(a, "output") <=> HasUrls(b, "output"))
      /\ (HasUrls(a, "output") => a["output"] = b["output"])
  BY <1>1 DEF Same, HasUrls
<1>4. c.output = d.output
  BY <1>2, <1>3 DEF BaseConfig
<1>5. c.type = d.type /\ c.input = d.input
  BY <1>2 DEF BaseConfig
<1>6. "restart_attempts" \notin D => c.max_restart_attempts = d.max_restart_attempts
  BY ReadsSame DEF BaseConfig
<1>7. "auto_exit_time" \notin D => c.ttl_sec = d.ttl_sec
  BY ReadsSame DEF BaseConfig
<1>8. DOMAIN c = {"type", "input", "output", "max_restart_attempts", "ttl_sec"} /\ DOMAIN d = DOMAIN c
  BY DEF BaseConfig
<1>9. ReadFrom("max_restart_attempts") = "restart_attempts" /\ ReadFrom("ttl_sec") = "auto_exit_time"
  BY DEF ReadFrom
<1> HIDE DEF c, d
<1>10. Agree(c, d, D)
  BY <1>4, <1>5, <1>6, <1>7, <1>8, <1>9 DEF Agree
<1>11. DOMAIN c \subseteq Fields
  BY <1>8 DEF Fields
<1> QED  BY <1>10, <1>11 DEF c, d

\* The part for streams with audio and video, and with it all that have more.
LEMMA AudioVideoAgrees ==
    ASSUME NEW a, NEW b, NEW D, Same(a, b, D), D \intersect Required = {},
           {"type", "input"} \subseteq DOMAIN a
    PROVE  /\ Agree(AudioVideoConfig(a), AudioVideoConfig(b), D)
           /\ DOMAIN AudioVideoConfig(a) \subseteq Fields
<1> DEFINE P(x) == [have_video |-> GetBool(x, "have_video", TRUE),
                    have_audio |-> GetBool(x, "have_audio", TRUE),
                    audio_select |-> OptInt(x, "audio_select"),
                    avformat |-> GetBool(x, "avformat", FALSE),
                    loop |-> GetBool(x, "loop", FALSE)]
           c == P(a)
           d == P(b)
<1>0. \A k : k \notin D => /\ \A default : /\ GetBool(a, k, default) = GetBool(b, k, default)
                                          /\ GetNum(a, k, default) = GetNum(b, k, default)
                                          /\ GetText(a, k, default) = GetText(b, k, default)
                          /\ OptInt(a, k) = OptInt(b, k)
  BY ReadsSame
<1>1. /\ "have_video" \notin D => c.have_video = d.have_video
      /\ "have_audio" \notin D => c.have_audio = d.have_audio
      /\ "audio_select" \notin D => c.audio_select = d.audio_select
      /\ "avformat" \notin D => c.avformat = d.avformat
      /\ "loop" \notin D => c.loop = d.loop
  BY <1>0
<1>2. DOMAIN c = {"have_video", "have_audio", "audio_select", "avformat", "loop"} /\ DOMAIN d = DOMAIN c
  OBVIOUS
<1>3. \A f \in {"have_video", "have_audio", "audio_select", "avformat", "loop"} : ReadFrom(f) = f
  BY DEF ReadFrom
<1>4. AudioVideoConfig(a) = c ++ BaseConfig(a) /\ AudioVideoConfig(b) = d ++ BaseConfig(b)
  BY DEF AudioVideoConfig
<1> HIDE DEF c, d
<1>5. Agree(c, d, D)
  BY <1>1, <1>2, <1>3 DEF Agree
<1>6. Agree(c ++ BaseConfig(a), d ++ BaseConfig(b), D)
  BY <1>5, BaseAgrees, MergedAgree
<1>7. DOMAIN c \subseteq Fields /\ DOMAIN BaseConfig(a) \subseteq Fields
  BY <1>2, BaseAgrees DEF Fields
<1>8. DOMAIN (c ++ BaseConfig(a)) \subseteq Fields
  BY <1>7 DEF ++
<1> QED  BY <1>4, <1>6, <1>8

\* The configurations of relays, of the recorders and of their VODs.
LEMMA RelayAgrees ==
    ASSUME NEW a, NEW b, NEW D, Same(a, b, D), D \intersect Required = {},
           {"type", "input"} \subseteq DOMAIN a
    PROVE  /\ Agree(RelayConfig(a), RelayConfig(b), D) /\ DOMAIN RelayConfig(a) \subseteq Fields
           /\ Agree(VodRelayConfig(a), VodRelayConfig(b), D) /\ DOMAIN VodRelayConfig(a) \subseteq Fields
           /\ Agree(TimeshiftConfig(a), TimeshiftConfig(b), D) /\ DOMAIN TimeshiftConfig(a) \subseteq Fields
<1> DEFINE P(x) == [video_parser |-> GetText(x, "video_parser", "h264parse"),
                    audio_parser |-> GetText(x, "audio_parser", "aacparse")]
           V(x) == [cleanup_ts |-> GetBool(x, "cleanup_ts", FALSE)]
           T(x) == [timeshift_chunk_duration |-> GetNum(x, "timeshift_chunk_duration", 120)]
<1>0. \A k : k \notin D => /\ \A default : /\ GetBool(a, k, default) = GetBool(b, k, default)
                                          /\ GetNum(a, k, default) = GetNum(b, k, default)
                                          /\ GetText(a, k, default) = GetText(b, k, default)
                          /\ OptInt(a, k) = OptInt(b, k)
  BY ReadsSame
<1>1. \A f \in {"video_parser", "audio_parser", "cleanup_ts", "timeshift_chunk_duration"} : ReadFrom(f) = f
  BY DEF ReadFrom
<1>2. /\ "video_parser" \notin D => P(a).video_parser = P(b).video_parser
      /\ "audio_parser" \notin D => P(a).audio_parser = P(b).audio_parser
      /\ "cleanup_ts" \notin D => V(a).cleanup_ts = V(b).cleanup_ts
      /\ "timeshift_chunk_duration" \notin D => T(a).timeshift_chunk_duration = T(b).timeshift_chunk_duration
  BY <1>0
<1>3. \A x : /\ DOMAIN P(x) = {"video_parser", "audio_parser"}
             /\ DOMAIN V(x) = {"cleanup_ts"} /\ DOMAIN T(x) = {"timeshift_chunk_duration"}
  OBVIOUS
<1>4. \A x : /\ RelayConfig(x) = P(x) ++ AudioVideoConfig(x)
             /\ VodRelayConfig(x) = V(x) ++ RelayConfig(x)
             /\ TimeshiftConfig(x) = T(x) ++ RelayConfig(x)
  BY DEF RelayConfig, VodRelayConfig, TimeshiftConfig
<1> HIDE DEF P, V, T
<1>5. Agree(P(a), P(b), D) /\ Agree(V(a), V(b), D) /\ Agree(T(a), T(b), D)
  BY <1>1, <1>2, <1>3 DEF Agree
<1>6. Agree(AudioVideoConfig(a), AudioVideoConfig(b), D) /\ DOMAIN AudioVideoConfig(a) \subseteq Fields
  BY AudioVideoAgrees
<1>7. Agree(RelayConfig(a), RelayConfig(b), D)
  BY <1>4, <1>5, <1>6, MergedAgree
<1>8. Agree(VodRelayConfig(a), VodRelayConfig(b), D) /\ Agree(TimeshiftConfig(a), TimeshiftConfig(b), D)
  BY <1>4, <1>5, <1>7, MergedAgree
<1>9. DOMAIN P(a) \subseteq Fields /\ DOMAIN V(a) \subseteq Fields /\ DOMAIN T(a) \subseteq Fields
  BY <1>3 DEF Fields
<1>10. DOMAIN RelayConfig(a) \subseteq Fields
  BY <1>4, <1>6, <1>9 DEF ++
<1>11. DOMAIN VodRelayConfig(a) \subseteq Fields /\ DOMAIN TimeshiftConfig(a) \subseteq Fields
  BY <1>4, <1>9, <1>10 DEF ++
<1> QED  BY <1>7, <1>8, <1>10, <1>11

\* The fields of an encoder's own, which come before the arguments.
EncoderPart(a) ==
    [relay_audio |-> GetBool(a, "relay_audio", FALSE),
     relay_video |-> GetBool(a, "relay_video", FALSE),
     deinterlace |-> OptBool(a, "deinterlace"),
     frame_rate |-> OptInt(a, "framerate"),
     volume |-> OptNum(a, "volume"),
     video_encoder |-> GetText(a, "video_codec", "x264enc"),
     audio_encoder |-> GetText(a, "audio_codec", "faac"),
     audio_channels |-> OptInt(a, "audio_channels"),
     size |-> GetText(a, "size", ""),
     video_bit_rate |-> OptInt(a, "video_bitrate"),
     audio_bit_rate |-> OptInt(a, "audio_bitrate"),
     logo |-> GetText(a, "logo", ""),
     aspect_ratio |-> OptText(a, "aspect_ratio"),
     decklink_video_mode |-> GetInt(a, "decklink_video_mode", 1)]
EncoderFields ==
    {"relay_audio", "relay_video", "deinterlace", "frame_rate", "volume",
     "video_encoder", "audio_encoder", "audio_channels", "size",
     "video_bit_rate", "audio_bit_rate", "logo", "aspect_ratio",
     "decklink_video_mode"}

\* The fields of an encoder agree.
LEMMA EncoderPartAgrees ==
    ASSUME NEW a, NEW b, NEW D, Same(a, b, D)
    PROVE  /\ Agree(EncoderPart(a), EncoderPart(b), D)
           /\ DOMAIN EncoderPart(a) = EncoderFields
<1> DEFINE c == EncoderPart(a)
           d == EncoderPart(b)
<1>1. \A k : k \notin D => /\ \A default : /\ GetBool(a, k, default) = GetBool(b, k, default)
                                          /\ GetInt(a, k, default) = GetInt(b, k, default)
                                          /\ GetText(a, k, default) = GetText(b, k, default)
                          /\ OptInt(a, k) = OptInt(b, k) /\ OptNum(a, k) = OptNum(b, k)
                          /\ OptBool(a, k) = OptBool(b, k) /\ OptText(a, k) = OptText(b, k)
  BY ReadsSame
<1>2. /\ "relay_audio" \notin D => c.relay_audio = d.relay_audio
      /\ "relay_video" \notin D => c.relay_video = d.relay_video
      /\ "deinterlace" \notin D => c.deinterlace = d.deinterlace
      /\ "framerate" \notin D => c.frame_rate = d.frame_rate
      /\ "volume" \notin D => c.volume = d.volume
  BY <1>1 DEF EncoderPart
<1>3. /\ "video_codec" \notin D => c.video_encoder = d.video_encoder
      /\ "audio_codec" \notin D => c.audio_encoder = d.audio_encoder
      /\ "audio_channels" \notin D => c.audio_channels = d.audio_channels
      /\ "size" \notin D => c.size = d.size
      /\ "video_bitrate" \notin D => c.video_bit_rate = d.video_bit_rate
  BY <1>1 DEF EncoderPart
<1>4. /\ "audio_bitrate" \notin D => c.audio_bit_rate = d.audio_bit_rate
      /\ "logo" \notin D => c.logo = d.logo
      /\ "aspect_ratio" \notin D => c.aspect_ratio = d.aspect_ratio
      /\ "decklink_video_mode" \notin D => c.decklink_video_mode = d.decklink_video_mode
  BY <1>1 DEF EncoderPart
<1>5. /\ ReadFrom("frame_rate") = "framerate" /\ ReadFrom("video_encoder") = "video_codec"
      /\ ReadFrom("audio_encoder") = "audio_codec" /\ ReadFrom("video_bit_rate") = "video_bitrate"
      /\ ReadFrom("audio_bit_rate") = "audio_bitrate"
      /\ \A f \in {"relay_audio", "relay_video", "deinterlace", "volume", "audio_channels", "size",
                   "logo", "aspect_ratio", "decklink_video_mode"} : ReadFrom(f) = f
  BY DEF ReadFrom
<1>6. DOMAIN c = EncoderFields /\ DOMAIN d = EncoderFields
  BY DEF EncoderPart, EncoderFields
<1> HIDE DEF c, d
<1>7. ASSUME NEW f \in EncoderFields, ReadFrom(f) \notin D  PROVE c[f] = d[f]
  BY <1>2, <1>3, <1>4, <1>5, <1>7 DEF EncoderFields
<1>8. Agree(c, d, D)
  BY <1>6, <1>7 DEF Agree
<1> QED  BY <1>6, <1>8 DEF c, d

\* The three parts of the configuration of an encoder: the arguments are under
\* two fields of their own.
LEMMA EncodingParts ==
    ASSUME NEW a, DOMAIN AudioVideoConfig(a) \subseteq Fields
    PROVE  LET c == EncodingConfig(a)
               i == InitVideoEncodersWithArgs(a) IN
           /\ c = (EncoderPart(a) ++ i) ++ AudioVideoConfig(a)
           /\ DOMAIN i = ArgFields
           /\ c.video_encoder_args = i.video_encoder_args
           /\ c.video_encoder_str_args = i.video_encoder_str_args
           /\ DOMAIN c = EncoderFields \union ArgFields \union DOMAIN AudioVideoConfig(a)
           /\ \A f \in EncoderFields : c[f] = EncoderPart(a)[f]
           /\ \A f \in DOMAIN AudioVideoConfig(a) \ EncoderFields : c[f] = AudioVideoConfig(a)[f]
<1> DEFINE c == EncodingConfig(a)
           i == InitVideoEncodersWithArgs(a)
           e == EncoderPart(a)
           v == AudioVideoConfig(a)
<1>1. c = (e ++ i) ++ v
  BY DEF EncodingConfig, EncoderPart
<1>2. DOMAIN i = ArgFields
  BY DEF InitVideoEncodersWithArgs, ArgFields
<1>3. DOMAIN e = EncoderFields
  BY DEF EncoderPart, EncoderFields
<1>4. ArgFields \intersect Fields = {} /\ ArgFields \intersect EncoderFields = {}
  BY DEF ArgFields, Fields, EncoderFields
<1> HIDE DEF c, i, e
<1>5. DOMAIN (e ++ i) = EncoderFields \union ArgFields
  BY <1>2, <1>3 DEF ++
<1>6. \A f \in EncoderFields : (e ++ i)[f] = e[f]
  BY <1>2, <1>3 DEF ++
<1>7. \A f \in ArgFields : (e ++ i)[f] = i[f]
  BY <1>2, <1>3, <1>4 DEF ++
<1> DEFINE h == e ++ i
<1> HIDE DEF h, v
<1>8. /\ DOMAIN (h ++ v) = DOMAIN h \union DOMAIN v
      /\ \A f \in DOMAIN h : (h ++ v)[f] = h[f]
      /\ \A f \in DOMAIN v \ DOMAIN h : (h ++ v)[f] = v[f]
  BY DEF ++
<1>9. DOMAIN v \intersect ArgFields = {}
  BY <1>4 DEF v
<1>10. c = h ++ v
  BY <1>1 DEF h
<1>11. /\ DOMAIN c = EncoderFields \union ArgFields \union DOMAIN v
       /\ \A f \in EncoderFields : c[f] = e[f]
       /\ \A f \in ArgFields : c[f] = i[f]
       /\ \A f \in DOMAIN v \ EncoderFields : c[f] = v[f]
  BY <1>5, <1>6, <1>7, <1>8, <1>9, <1>10 DEF h
<1>12. c.video_encoder_args = i.video_encoder_args /\ c.video_encoder_str_args = i.video_encoder_str_args
  BY <1>11 DEF ArgFields
<1> QED  BY <1>1, <1>2, <1>11, <1>12 DEF c, i, e, v

\* The configurations of encoders and of their VODs.
LEMMA EncodingAgrees ==
    ASSUME NEW a, NEW b, NEW D, Same(a, b, D), D \intersect Required = {},
           {"type", "input"} \subseteq DOMAIN a
    PROVE  /\ Agree(EncodingConfig(a), EncodingConfig(b), D)
           /\ DOMAIN EncodingConfig(a) \subseteq Fields \union ArgFields
           /\ Agree(VodEncodeConfig(a), VodEncodeConfig(b), D)
           /\ DOMAIN VodEncodeConfig(a) \subseteq Fields \union ArgFields
           /\ DOMAIN VodEncodeConfig(a) = DOMAIN EncodingConfig(a) \union {"cleanup_ts"}
           /\ \A f \in ArgFields : VodEncodeConfig(a)[f] = EncodingConfig(a)[f]
<1> DEFINE i(x) == InitVideoEncodersWithArgs(x)
           V(x) == [cleanup_ts |-> GetBool(x, "cleanup_ts", FALSE)]
<1>1. Agree(AudioVideoConfig(a), AudioVideoConfig(b), D) /\ DOMAIN AudioVideoConfig(a) \subseteq Fields
  BY AudioVideoAgrees
<1>2. DOMAIN AudioVideoConfig(b) \subseteq Fields
  BY <1>1 DEF Agree
<1>3. /\ EncodingConfig(a) = (EncoderPart(a) ++ i(a)) ++ AudioVideoConfig(a)
      /\ DOMAIN EncodingConfig(a) = EncoderFields \union ArgFields \union DOMAIN AudioVideoConfig(a)
      /\ DOMAIN i(a) = ArgFields
  BY <1>1, EncodingParts
<1>4. EncodingConfig(b) = (EncoderPart(b) ++ i(b)) ++ AudioVideoConfig(b) /\ DOMAIN i(b) = ArgFields
  BY <1>2, EncodingParts
<1>5. DOMAIN V(a) = {"cleanup_ts"} /\ DOMAIN V(b) = {"cleanup_ts"} /\ ReadFrom("cleanup_ts") = "cleanup_ts"
  BY DEF ReadFrom
<1>6. "cleanup_ts" \notin D => V(a).cleanup_ts = V(b).cleanup_ts
  <2>1. \A k : k \notin D => \A default : GetBool(a, k, default) = GetBool(b, k, default)
    BY ReadsSame
  <2> QED  BY <2>1
<1>7. VodEncodeConfig(a) = V(a) ++ EncodingConfig(a) /\ VodEncodeConfig(b) = V(b) ++ EncodingConfig(b)
  BY DEF VodEncodeConfig
<1> HIDE DEF i, V
<1>8. Agree(i(a), i(b), D) /\ Agree(V(a), V(b), D)
  BY <1>3, <1>4, <1>5, <1>6 DEF Agree
<1>9. Agree(EncoderPart(a), EncoderPart(b), D)
  BY EncoderPartAgrees
<1>10. Agree(EncoderPart(a) ++ i(a), EncoderPart(b) ++ i(b), D)
  BY <1>8, <1>9, MergedAgree
<1>11. Agree(EncodingConfig(a), EncodingConfig(b), D)
  BY <1>1, <1>3, <1>4, <1>10, MergedAgree
<1>12. Agree(VodEncodeConfig(a), VodEncodeConfig(b), D)
  BY <1>7, <1>8, <1>11, MergedAgree
<1>13. EncoderFields \subseteq Fields /\ "cleanup_ts" \in Fields /\ "cleanup_ts" \notin ArgFields
  BY DEF EncoderFields, Fields, ArgFields
<1>14. DOMAIN EncodingConfig(a) \subseteq Fields \union ArgFields
  BY <1>1, <1>3, <1>13
<1>15. DOMAIN VodEncodeConfig(a) = DOMAIN EncodingConfig(a) \union {"cleanup_ts"}
  BY <1>5, <1>7 DEF ++
<1>16. ArgFields \subseteq DOMAIN EncodingConfig(a)
  BY <1>3
<1>17. \A f \in ArgFields : VodEncodeConfig(a)[f] = EncodingConfig(a)[f]
  BY <1>5, <1>7, <1>13, <1>16 DEF ++
<1> QED  BY <1>11, <1>12, <1>13, <1>14, <1>15, <1>17

\* The type of a stream, and the arguments in its configuration if it encodes.
LEMMA MakeAgrees ==
    ASSUME NEW a, NEW b, NEW D, Same(a, b, D), D \intersect Required = {},
           {"type", "input"} \subseteq DOMAIN a, a["type"].num \in 1..9
    PROVE  LET c == make_config(a) IN
           /\ Agree(c, make_config(b), D) /\ DOMAIN c \subseteq Fields \union ArgFields
           /\ "video_encoder_args" \in DOMAIN c =>
                 /\ c.video_encoder_args = InitVideoEncodersWithArgs(a).video_encoder_args
                 /\ c.video_encoder_str_args = InitVideoEncodersWithArgs(a).video_encoder_str_args
<1> DEFINE t == a["type"].num
           c == make_config(a)
<1>1. b["type"] = a["type"]
  BY DEF Same, Required
<1>2. "video_encoder_args" \notin Fields /\ ArgFields = {"video_encoder_args", "video_encoder_str_args"}
  BY DEF Fields, ArgFields
<1> USE DEF PROXY, RELAY, ENCODE, TIMESHIFT_PLAYER, TIMESHIFT_RECORDER, CATCHUP, TEST_LIFE,
            VOD_RELAY, VOD_ENCODE, SCREEN, NoOutputs
<1>3. DOMAIN AudioVideoConfig(a) \subseteq Fields
  BY AudioVideoAgrees
<1>4. CASE t = SCREEN
  <2>1. c = AudioVideoConfig(a) /\ make_config(b) = AudioVideoConfig(b)
    BY <1>1, <1>4 DEF make_config
  <2> QED  BY <1>2, <2>1, AudioVideoAgrees
<1>5. CASE t \in {RELAY, TIMESHIFT_PLAYER, TEST_LIFE}
  <2>1. c = RelayConfig(a) /\ make_config(b) = RelayConfig(b)
    BY <1>1, <1>5 DEF make_config
  <2> QED  BY <1>2, <2>1, RelayAgrees
<1>6. CASE t = VOD_RELAY
  <2>1. c = VodRelayConfig(a) /\ make_config(b) = VodRelayConfig(b)
    BY <1>1, <1>6 DEF make_config
  <2> QED  BY <1>2, <2>1, RelayAgrees
<1>7. CASE t \in NoOutputs
  <2>1. c = TimeshiftConfig(a) /\ make_config(b) = TimeshiftConfig(b)
    BY <1>1, <1>7 DEF make_config
  <2> QED  BY <1>2, <2>1, RelayAgrees
<1>8. CASE t = ENCODE
  <2>1. c = EncodingConfig(a) /\ make_config(b) = EncodingConfig(b)
    BY <1>1, <1>8 DEF make_config
  <2>2. Agree(EncodingConfig(a), EncodingConfig(b), D) /\ DOMAIN EncodingConfig(a) \subseteq Fields \union ArgFields
    BY EncodingAgrees
  <2>3. /\ EncodingConfig(a).video_encoder_args = InitVideoEncodersWithArgs(a).video_encoder_args
        /\ EncodingConfig(a).video_encoder_str_args = InitVideoEncodersWithArgs(a).video_encoder_str_args
    BY <1>3, EncodingParts
  <2> QED  BY <2>1, <2>2, <2>3
<1>9. CASE t = VOD_ENCODE
  <2>1. c = VodEncodeConfig(a) /\ make_config(b) = VodEncodeConfig(b)
    BY <1>1, <1>9 DEF make_config
  <2>2. /\ Agree(VodEncodeConfig(a), VodEncodeConfig(b), D)
        /\ DOMAIN VodEncodeConfig(a) \subseteq Fields \union ArgFields
        /\ \A f \in ArgFields : VodEncodeConfig(a)[f] = EncodingConfig(a)[f]
    BY EncodingAgrees
  <2>3. /\ EncodingConfig(a).video_encoder_args = InitVideoEncodersWithArgs(a).video_encoder_args
        /\ EncodingConfig(a).video_encoder_str_args = InitVideoEncodersWithArgs(a).video_encoder_str_args
    BY <1>3, EncodingParts
  <2> QED  BY <1>2, <2>1, <2>2, <2>3
<1> QED  BY <1>4, <1>5, <1>6, <1>7, <1>8, <1>9

\* The options without one of them, and those that a stream cannot do without.
Without(a, k) == [m \in DOMAIN a \ {k} |-> a[m]]
Least(a) == [k \in Required \intersect DOMAIN a |-> a[k]]

\* An argument that InitVideoEncodersWithArgs passes on.
Passed(a, k) ==
    \/ k \in IntegerArgs \intersect DOMAIN a /\ IsInt(a[k])
    \/ k \in FlagArgs /\ GetBool(a, k, FALSE)
    \/ k \in StringArgs \intersect DOMAIN a

\* Without an option the arguments lack that one, if it was passed on.
LEMMA ArgumentsLost ==
    ASSUME NEW a, NEW k
    PROVE  LET i == InitVideoEncodersWithArgs(a)
               j == InitVideoEncodersWithArgs(Without(a, k))
           IN  (DOMAIN i.video_encoder_args \ DOMAIN j.video_encoder_args)
               \union (DOMAIN i.video_encoder_str_args \ DOMAIN j.video_encoder_str_args)
               = {m \in {k} : Passed(a, m)}
<1> DEFINE b == Without(a, k)
           i == InitVideoEncodersWithArgs(a)
           j == InitVideoEncodersWithArgs(b)
           Num(x) == {m \in IntegerArgs \intersect DOMAIN x : IsInt(x[m])}
           Flag(x) == {m \in FlagArgs : GetBool(x, m, FALSE)}
           Str(x) == StringArgs \intersect DOMAIN x
<1>1. \A x : /\ DOMAIN InitVideoEncodersWithArgs(x).video_encoder_args = Num(x) \union Flag(x)
             /\ DOMAIN InitVideoEncodersWithArgs(x).video_encoder_str_args = Str(x)
  BY DEF InitVideoEncodersWithArgs, ++
<1>2. DOMAIN b = DOMAIN a \ {k} /\ \A m \in DOMAIN b : b[m] = a[m]
  BY DEF Without
<1> HIDE DEF b
<1>3. Num(b) = Num(a) \ {k} /\ Str(b) = Str(a) \ {k}
  BY <1>2
<1>4. Flag(b) = Flag(a) \ {k}
  <2>1. ~GetBool(b, k, FALSE)
    BY <1>2 DEF GetBool
  <2>2. \A m : m # k => (GetBool(b, m, FALSE) <=> GetBool(a, m, FALSE))
    BY <1>2 DEF GetBool
  <2> QED  BY <2>1, <2>2
<1>5. {m \in {k} : Passed(a, m)} = {k} \intersect (Num(a) \union Flag(a) \union Str(a))
  BY DEF Passed
<1> HIDE DEF Num, Flag, Str
<1>6. /\ DOMAIN i.video_encoder_args = Num(a) \union Flag(a)
      /\ DOMAIN j.video_encoder_args = Num(b) \union Flag(b)
      /\ DOMAIN i.video_encoder_str_args = Str(a) /\ DOMAIN j.video_encoder_str_args = Str(b)
  BY <1>1
<1> HIDE DEF i, j
<1>7. (DOMAIN i.video_encoder_args \ DOMAIN j.video_encoder_args)
      \union (DOMAIN i.video_encoder_str_args \ DOMAIN j.video_encoder_str_args)
      = {k} \intersect (Num(a) \union Flag(a) \union Str(a))
  BY <1>3, <1>4, <1>6
<1> QED  BY <1>5, <1>7 DEF i, j, b

\* The arguments of the encoders have names of their own.
LEMMA ArgumentNames ==
    /\ ArgNames \intersect (Fields \union ArgFields) = {}
    /\ \A f \in Fields : ReadFrom(f) \notin ArgNames
<1> DEFINE Read == {"restart_attempts", "auto_exit_time", "framerate", "video_codec",
                    "audio_codec", "video_bitrate", "audio_bitrate"} \union Fields
           Other == Read \union ArgFields
<1>1. \A f \in Fields : ReadFrom(f) \in Read
  BY DEF ReadFrom
<1>2. ASSUME NEW v \in DOMAIN EncoderRanges, NEW k \in OptionsOf[v]  PROVE k \notin Other
  <2>1. v \in {"mfxPreset", "mfxGop", "nvPreset", "speedPreset", "threads", "x264Tune",
               "keyIntMax", "vbvCapacity", "rcLookahead", "qpMax", "pass", "me",
               "keyframePeriod", "vaapiTune", "maxBframes", "numSlices", "qp", "vaapiRate",
               "cpbLength", "integer"}
    BY DEF EncoderRanges
  <2>2. CASE v \in {"mfxPreset", "mfxGop", "nvPreset", "speedPreset", "threads", "x264Tune"}
    BY <2>2 DEF OptionsOf, Fields, ArgFields
  <2>3. CASE v \in {"keyIntMax", "vbvCapacity", "rcLookahead", "qpMax", "pass", "me"}
    BY <2>3 DEF OptionsOf, Fields, ArgFields
  <2>4. CASE v \in {"keyframePeriod", "vaapiTune", "maxBframes", "numSlices", "qp", "vaapiRate", "cpbLength"}
    BY <2>4 DEF OptionsOf, Fields, ArgFields
  <2>5. CASE v = "integer"
    BY <2>5 DEF OptionsOf, Fields, ArgFields
  <2> QED  BY <2>1, <2>2, <2>3, <2>4, <2>5
<1>3. \A k \in ArgNames \ UNION {OptionsOf[v] : v \in DOMAIN EncoderRanges} : k \notin Other
  BY DEF ArgNames, IntegerArgs, StringArgs, FlagArgs, Fields, ArgFields
<1>4. \A k \in ArgNames : k \notin Other
  BY <1>2, <1>3
<1> QED  BY <1>1, <1>4

\* A configuration that was made without an option differs in the field of that
\* option, or in that argument, and in nothing else.
LEMMA OneDiffers ==
    ASSUME NEW a, NEW k, k \notin Required, {"type", "input"} \subseteq DOMAIN a,
           a["type"].num \in 1..9
    PROVE  LET c == make_config(a)
               d == make_config(Without(a, k))
               args1 == IF "video_encoder_args" \in DOMAIN c THEN {m \in {k} : Passed(a, m)} ELSE {}
               own == {f \in DOMAIN c \ ArgFields : c[f] # d[f]}
           IN  /\ Differing(c, d) = own \union args1
               /\ DOMAIN c = DOMAIN d /\ DOMAIN c \subseteq Fields \union ArgFields
               /\ \A f \in own : f \in Fields /\ ReadFrom(f) = k
<1> DEFINE b == Without(a, k)
           c == make_config(a)
           d == make_config(b)
           i == InitVideoEncodersWithArgs(a)
           j == InitVideoEncodersWithArgs(b)
           own == {f \in DOMAIN c \ ArgFields : c[f] # d[f]}
<1>1. Same(a, b, {k}) /\ Same(b, a, {k}) /\ {k} \intersect Required = {}
  BY DEF Same, Without
<1>2. {"type", "input"} \subseteq DOMAIN b /\ b["type"].num \in 1..9
  BY <1>1 DEF Without, Required
<1>3. /\ Agree(c, d, {k}) /\ DOMAIN c \subseteq Fields \union ArgFields
      /\ "video_encoder_args" \in DOMAIN c =>
            /\ c.video_encoder_args = i.video_encoder_args
            /\ c.video_encoder_str_args = i.video_encoder_str_args
  BY <1>1, MakeAgrees
<1>4. "video_encoder_args" \in DOMAIN d =>
            /\ d.video_encoder_args = j.video_encoder_args
            /\ d.video_encoder_str_args = j.video_encoder_str_args
  BY <1>1, <1>2, MakeAgrees
<1>5. (DOMAIN i.video_encoder_args \ DOMAIN j.video_encoder_args)
      \union (DOMAIN i.video_encoder_str_args \ DOMAIN j.video_encoder_str_args)
      = {m \in {k} : Passed(a, m)}
  BY ArgumentsLost
<1> HIDE DEF b, c, d, i, j
<1>6. DOMAIN c = DOMAIN d /\ \A f \in own : f \in Fields /\ ReadFrom(f) = k
  BY <1>3 DEF Agree
<1>7. CASE "video_encoder_args" \in DOMAIN c
  <2>1. Differing(c, d) = own \union {m \in {k} : Passed(a, m)}
    BY <1>3, <1>4, <1>5, <1>6, <1>7 DEF Differing, ArgFields
  <2> QED  BY <1>3, <1>6, <1>7, <2>1 DEF b, c, d
<1>8. CASE "video_encoder_args" \notin DOMAIN c
  <2>1. Differing(c, d) = own
    BY <1>8 DEF Differing, ArgFields
  <2> QED  BY <1>3, <1>6, <1>8, <2>1 DEF b, c, d
<1> QED  BY <1>7, <1>8

\* At most one field, and that one has its default.
LEMMA OneField ==
    ASSUME NEW a, NEW k, k \in DOMAIN a \ Required, {"type", "input"} \subseteq DOMAIN a,
           a["type"].num \in 1..9
    PROVE  LET c == make_config(a)
               d == make_config(Without(a, k))
               l == make_config(Least(a))
           IN  /\ Cardinality(Differing(c, d)) <= 1
               /\ \A f \in Differing(c, d) \intersect DOMAIN l : d[f] = l[f]
<1> DEFINE b == Without(a, k)
           c == make_config(a)
           d == make_config(b)
           l == make_config(Least(a))
           passed == IF "video_encoder_args" \in DOMAIN c THEN {m \in {k} : Passed(a, m)} ELSE {}
           own == {f \in DOMAIN c \ ArgFields : c[f] # d[f]}
           D == DOMAIN a \ (Required \union {k})
<1>1. /\ Differing(c, d) = own \union passed
      /\ DOMAIN c = DOMAIN d /\ DOMAIN c \subseteq Fields \union ArgFields
      /\ \A f \in own : f \in Fields /\ ReadFrom(f) = k
  BY OneDiffers
<1>2. Same(b, Least(a), D) /\ D \intersect Required = {}
  BY DEF Same, Without, Least
<1>3. {"type", "input"} \subseteq DOMAIN b /\ b["type"].num \in 1..9
  BY DEF Without, Required
<1>4. Agree(d, l, D) /\ k \notin D
  BY <1>2, <1>3, MakeAgrees
<1>5. passed \subseteq {k} \intersect ArgNames
  BY DEF Passed, ArgNames
<1> HIDE DEF b, c, d, l, passed, D
<1>6. PICK x : own \union passed \subseteq {x}
  <2>1. CASE passed = {}
    <3>1. own \subseteq {FieldOf(k)}
      BY <1>1, FieldOfOption
    <3> QED  BY <2>1, <3>1
  <2>2. CASE passed # {}
    <3>1. k \in ArgNames
      BY <1>5, <2>2
    <3>2. own = {}
      BY <1>1, <3>1, ArgumentNames
    <3> QED  BY <1>5, <3>2
  <2> QED  BY <2>1, <2>2
<1>7. Cardinality(Differing(c, d)) <= 1
  <2>1. Differing(c, d) = {} \/ Differing(c, d) = {x}
    BY <1>1, <1>6
  <2>2. Cardinality({}) = 0 /\ Cardinality({x}) = 1
    BY FS_EmptySet, FS_Singleton
  <2> QED  BY <2>1, <2>2
<1>8. ASSUME NEW f \in Differing(c, d) \intersect DOMAIN l  PROVE d[f] = l[f]
  <2>1. DOMAIN l = DOMAIN d
    BY <1>4 DEF Agree
  <2>2. f \notin passed
    BY <1>1, <1>5, <2>1, <1>8, ArgumentNames
  <2>3. f \in own /\ ReadFrom(f) \notin D
    BY <1>1, <1>4, <1>8, <2>2
  <2> QED  BY <1>1, <1>4, <2>3 DEF Agree
<1> QED  BY <1>7, <1>8 DEF b, c, d, l

\* The options that are read into the fields of an encoder.
EncoderReads ==
    {"restart_attempts", "auto_exit_time", "have_video", "have_audio", "audio_select",
     "avformat", "loop", "relay_audio", "relay_video", "deinterlace", "framerate",
     "volume", "video_codec", "audio_codec", "audio_channels", "size",
     "video_bitrate", "audio_bitrate", "logo", "aspect_ratio", "decklink_video_mode"}
Flags == {"have_video", "have_audio", "avformat", "loop", "relay_audio", "relay_video"}

\* Every option is read by an encoder, or required, or not read at all.
LEMMA KnownOptions == Known \subseteq ArgNames \union EncoderReads \union UnreadByEncoders \union Required
<1> SUFFICES ASSUME NEW v \in Validators, NEW k \in OptionsOf[v]
             PROVE  k \in ArgNames \union EncoderReads \union UnreadByEncoders \union Required
  BY DEF Known
<1>1. CASE v \in DOMAIN EncoderRanges
  BY <1>1 DEF ArgNames, IntegerArgs
<1>2. CASE v = "string"
  BY <1>2 DEF ArgNames, StringArgs, OptionsOf
<1>3. CASE v = "dont_validate"
  <2>1. k \in {"mainprofile", "mainprofile_external", "have_video", "have_audio",
               "deinterlace", "relay_audio", "relay_video", "loop", "avformat",
               "x264enc.option-string", "x264enc.interlaced", "x264enc.dct8x8",
               "x264enc.b-adapt", "x264enc.byte-stream", "x264enc.cabac",
               "x264enc.sliced-threads", "x264enc.quantizer",
               "vaapih264enc.cabac", "vaapih264enc.dct8x8",
               "openh264enc.multi-thread", "eavcenc.gop-adaptive"}
    BY <1>3 DEF OptionsOf
  <2> QED  BY <2>1 DEF ArgNames, IntegerArgs, StringArgs, FlagArgs, EncoderReads, UnreadByEncoders
<1>4. CASE v \in {"id", "type", "feedback_dir", "log_level", "input", "output", "restart_attempts",
                  "timeshift_dir", "chunk_life_time", "timeshift_delay", "video_parser"}
  BY <1>4 DEF OptionsOf, EncoderReads, UnreadByEncoders, Required
<1>5. CASE v \in {"audio_parser", "audio_codec", "video_codec", "volume", "size", "cleanup_ts",
                  "logo", "aspect_ratio", "audio_select", "decklink_video_mode", "is_positive"}
  BY <1>5 DEF OptionsOf, EncoderReads, UnreadByEncoders, Required
<1>6. v \in DOMAIN EncoderRanges
            \union {"string", "dont_validate", "id", "type", "feedback_dir", "log_level", "input",
                    "output", "restart_attempts", "timeshift_dir", "chunk_life_time",
                    "timeshift_delay", "video_parser", "audio_parser", "audio_codec",
                    "video_codec", "volume", "size", "cleanup_ts", "logo", "aspect_ratio",
                    "audio_select", "decklink_video_mode", "is_positive"}
  BY DEF Validators, OptionsOf, EncoderRanges
<1> QED  BY <1>1, <1>2, <1>3, <1>4, <1>5, <1>6

\* The names of arguments: three kinds, none of which is anything else.
LEMMA ArgumentKinds ==
    /\ IntegerArgs \intersect (StringArgs \union FlagArgs) = {} /\ StringArgs \intersect FlagArgs = {}
    /\ ArgNames \intersect (UnreadByEncoders \union EncoderReads) = {}
    /\ FlagArgs \subseteq OptionsOf.dont_validate
    /\ EncoderReads \intersect OptionsOf.dont_validate = Flags \union {"deinterlace"}
<1> DEFINE Other == StringArgs \union FlagArgs \union UnreadByEncoders \union EncoderReads
<1>1. ASSUME NEW v \in DOMAIN EncoderRanges, NEW k \in OptionsOf[v]  PROVE k \notin Other
  <2>1. v \in {"mfxPreset", "mfxGop", "nvPreset", "speedPreset", "threads", "x264Tune",
               "keyIntMax", "vbvCapacity", "rcLookahead", "qpMax", "pass", "me",
               "keyframePeriod", "vaapiTune", "maxBframes", "numSlices", "qp", "vaapiRate",
               "cpbLength", "integer"}
    BY DEF EncoderRanges
  <2> USE DEF OptionsOf, StringArgs, FlagArgs, UnreadByEncoders, EncoderReads
  <2>2. CASE v \in {"mfxPreset", "mfxGop", "nvPreset", "speedPreset", "threads", "x264Tune"}
    BY <2>2
  <2>3. CASE v \in {"keyIntMax", "vbvCapacity", "rcLookahead", "qpMax", "pass", "me"}
    BY <2>3
  <2>4. CASE v \in {"keyframePeriod", "vaapiTune", "maxBframes", "numSlices", "qp", "vaapiRate", "cpbLength"}
    BY <2>4
  <2>5. CASE v = "integer"
    BY <2>5
  <2> QED  BY <2>1, <2>2, <2>3, <2>4, <2>5
<1>2. \A k \in IntegerArgs \ UNION {OptionsOf[v] : v \in DOMAIN EncoderRanges} : k \notin Other
  BY DEF IntegerArgs, StringArgs, FlagArgs, UnreadByEncoders, EncoderReads
<1>3. IntegerArgs \intersect Other = {}
  BY <1>1, <1>2
<1>4. StringArgs \intersect FlagArgs = {}
      /\ (StringArgs \union FlagArgs) \intersect (UnreadByEncoders \union EncoderReads) = {}
  BY DEF StringArgs, FlagArgs, UnreadByEncoders, EncoderReads
<1>5. OptionsOf.dont_validate =
        {"mainprofile", "mainprofile_external", "have_video", "have_audio",
         "deinterlace", "relay_audio", "relay_video", "loop", "avformat",
         "x264enc.option-string", "x264enc.interlaced", "x264enc.dct8x8",
         "x264enc.b-adapt", "x264enc.byte-stream", "x264enc.cabac",
         "x264enc.sliced-threads", "x264enc.quantizer",
         "vaapih264enc.cabac", "vaapih264enc.dct8x8",
         "openh264enc.multi-thread", "eavcenc.gop-adaptive"}
  BY DEF OptionsOf
<1>6. FlagArgs \subseteq OptionsOf.dont_validate
  BY <1>5 DEF FlagArgs
<1>7. EncoderReads \intersect OptionsOf.dont_validate = Flags \union {"deinterlace"}
  <2>1. \A k \in EncoderReads : k \in OptionsOf.dont_validate => k \in Flags \union {"deinterlace"}
    BY <1>5 DEF EncoderReads, Flags
  <2>2. \A k \in Flags \union {"deinterlace"} : k \in EncoderReads /\ k \in OptionsOf.dont_validate
    BY <1>5 DEF EncoderReads, Flags
  <2> QED  BY <2>1, <2>2
<1> QED  BY <1>3, <1>4, <1>6, <1>7 DEF ArgNames

\* What an option gives that is there, and what it gives that is not.
LEMMA Readings ==
    ASSUME NEW a, NEW k \in DOMAIN a
    PROVE  LET b == Without(a, k)
               t == a[k] IN
           /\ \A default :
                 /\ GetInt(b, k, default) = default /\ GetNum(b, k, default) = default
                 /\ GetBool(b, k, default) = default /\ GetText(b, k, default) = default
                 /\ GetInt(a, k, default) = IF IsInt(t) THEN t.num ELSE default
                 /\ GetNum(a, k, default) = IF IsNum(t) THEN t.num ELSE default
                 /\ GetBool(a, k, default) = IF IsBool(t) THEN t.bool ELSE default
                 /\ GetText(a, k, default) = IF IsText(t) THEN t.text ELSE default
           /\ OptInt(a, k) = OptInt(b, k) <=> ~IsInt(t)
           /\ OptNum(a, k) = OptNum(b, k) <=> ~IsNum(t)
           /\ OptBool(a, k) = OptBool(b, k) <=> ~IsBool(t)
           /\ OptText(a, k) = OptText(b, k) <=> ~IsText(t)
<1> DEFINE b == Without(a, k)
           t == a[k]
<1>1. k \notin DOMAIN b
  BY DEF Without
<1> HIDE DEF b
<1>2. \A default :
         /\ GetInt(b, k, default) = default /\ GetNum(b, k, default) = default
         /\ GetBool(b, k, default) = default /\ GetText(b, k, default) = default
  BY <1>1 DEF GetInt, GetNum, GetBool, GetText
<1>3. \A default :
         /\ GetInt(a, k, default) = IF IsInt(t) THEN t.num ELSE default
         /\ GetNum(a, k, default) = IF IsNum(t) THEN t.num ELSE default
         /\ GetBool(a, k, default) = IF IsBool(t) THEN t.bool ELSE default
         /\ GetText(a, k, default) = IF IsText(t) THEN t.text ELSE default
  BY DEF GetInt, GetNum, GetBool, GetText
<1>4. {k} \intersect DOMAIN b = {} /\ {k} \intersect DOMAIN a = {k}
  BY <1>1
<1>5. OptInt(b, k) = {} /\ OptNum(b, k) = {} /\ OptBool(b, k) = {} /\ OptText(b, k) = {}
  BY <1>4 DEF OptInt, OptNum, OptBool, OptText
<1>6. OptInt(a, k) = {} <=> ~IsInt(t)
  BY DEF OptInt
<1>7. OptNum(a, k) = {} <=> ~IsNum(t)
  BY DEF OptNum
<1>8. OptBool(a, k) = {} <=> ~IsBool(t)
  BY DEF OptBool
<1>9. OptText(a, k) = {} <=> ~IsText(t)
  BY DEF OptText
<1> QED  BY <1>2, <1>3, <1>5, <1>6, <1>7, <1>8, <1>9 DEF b

\* An option that has one validator has that of FindOption.
LEMMA Validated ==
    ASSUME NEW k, NEW v \in Validators, \A w \in Validators : k \in OptionsOf[w] <=> w = v,
           v \notin DOMAIN EncoderRanges \union {"string", "dont_validate"}, NEW t
    PROVE  OptionValid(k, t) => GeneralValid(v, t)
<1>1. FindOption(k) = v
  BY DEF FindOption
<1> QED  BY <1>1 DEF OptionValid

\* What the validators say of the options that an encoder reads.
LEMMA EncoderOptionsValid ==
    ASSUME NEW t
    PROVE  /\ OptionValid("restart_attempts", t) => IsNum(t)
           /\ OptionValid("auto_exit_time", t) => IsNum(t)
           /\ OptionValid("audio_select", t) => IsInt(t)
           /\ OptionValid("volume", t) => IsNum(t)
           /\ OptionValid("decklink_video_mode", t) => IsInt(t)
           /\ \A k \in {"video_codec", "audio_codec"} : OptionValid(k, t) => IsText(t)
           /\ \A k \in {"size", "logo", "aspect_ratio"} :
                 OptionValid(k, t) => IsText(t) /\ t.text # ""
<1> DEFINE Names == {"restart_attempts", "audio_select", "volume", "decklink_video_mode",
                     "video_codec", "audio_codec", "size", "logo", "aspect_ratio"}
<1>1. \A k \in Names \union {"is_positive"} :
         k \in Validators /\ k \notin DOMAIN EncoderRanges \union {"string", "dont_validate"}
  BY DEF Validators, OptionsOf, EncoderRanges
<1>2. ASSUME NEW k \in Names  PROVE \A w \in Validators : k \in OptionsOf[w] <=> w = k
  <2>1. \A w \in Validators : "restart_attempts" \in OptionsOf[w] <=> w = "restart_attempts"
    BY DEF Validators, OptionsOf
  <2>2. \A w \in Validators : "audio_select" \in OptionsOf[w] <=> w = "audio_select"
    BY DEF Validators, OptionsOf
  <2>3. \A w \in Validators : "volume" \in OptionsOf[w] <=> w = "volume"
    BY DEF Validators, OptionsOf
  <2>4. \A w \in Validators : "decklink_video_mode" \in OptionsOf[w] <=> w = "decklink_video_mode"
    BY DEF Validators, OptionsOf
  <2>5. \A w \in Validators : "video_codec" \in OptionsOf[w] <=> w = "video_codec"
    BY DEF Validators, OptionsOf
  <2>6. \A w \in Validators : "audio_codec" \in OptionsOf[w] <=> w = "audio_codec"
    BY DEF Validators, OptionsOf
  <2>7. \A w \in Validators : "size" \in OptionsOf[w] <=> w = "size"
    BY DEF Validators, OptionsOf
  <2>8. \A w \in Validators : "logo" \in OptionsOf[w] <=> w = "logo"
    BY DEF Validators, OptionsOf
  <2>9. \A w \in Validators : "aspect_ratio" \in OptionsOf[w] <=> w = "aspect_ratio"
    BY DEF Validators, OptionsOf
  <2> QED  BY <2>1, <2>2, <2>3, <2>4, <2>5, <2>6, <2>7, <2>8, <2>9
<1>3. \A w \in Validators : "auto_exit_time" \in OptionsOf[w] <=> w = "is_positive"
  BY DEF Validators, OptionsOf
<1>4. \A k \in Names : OptionValid(k, t) => GeneralValid(k, t)
  BY <1>1, <1>2, Validated
<1>5. OptionValid("auto_exit_time", t) => GeneralValid("is_positive", t)
  BY <1>1, <1>3, Validated
<1>6. GeneralValid("restart_attempts", t) => IsNum(t)
  BY DEF GeneralValid
<1>7. GeneralValid("is_positive", t) => IsNum(t)
  BY DEF GeneralValid, ValidateIsPositive
<1>8. GeneralValid("audio_select", t) => IsInt(t)
  BY DEF GeneralValid
<1>9. GeneralValid("volume", t) => IsNum(t)
  BY DEF GeneralValid
<1>10. GeneralValid("decklink_video_mode", t) => IsInt(t)
  BY DEF GeneralValid, ValidateRange
<1>11. GeneralValid("video_codec", t) => IsText(t)
  BY DEF GeneralValid, OneOf
<1>12. GeneralValid("audio_codec", t) => IsText(t)
  BY DEF GeneralValid, OneOf
<1>13. \A k \in {"size", "logo", "aspect_ratio"} : GeneralValid(k, t) => IsText(t) /\ t.text # ""
  <2>1. GeneralValid("size", t) = IsWellFormed(t)
    BY DEF GeneralValid
  <2>2. GeneralValid("logo", t) = IsWellFormed(t)
    BY DEF GeneralValid
  <2>3. GeneralValid("aspect_ratio", t) = IsWellFormed(t)
    BY DEF GeneralValid
  <2> QED  BY <2>1, <2>2, <2>3 DEF IsWellFormed
<1> QED  BY <1>4, <1>5, <1>6, <1>7, <1>8, <1>9, <1>10, <1>11, <1>12, <1>13

\* The fields of an encoder, by the option that each is read from.
LEMMA EncoderReadings ==
    ASSUME NEW a
    PROVE  LET c == EncodingConfig(a) IN
           /\ DOMAIN c = {FieldOf(k) : k \in EncoderReads} \union {"type", "input", "output"} \union ArgFields
           /\ c.max_restart_attempts = GetNum(a, "restart_attempts", 10)
           /\ c.ttl_sec = OptNum(a, "auto_exit_time")
           /\ c.have_video = GetBool(a, "have_video", TRUE)
           /\ c.have_audio = GetBool(a, "have_audio", TRUE)
           /\ c.audio_select = OptInt(a, "audio_select")
           /\ c.avformat = GetBool(a, "avformat", FALSE)
           /\ c.loop = GetBool(a, "loop", FALSE)
           /\ \A f \in EncoderFields : c[f] = EncoderPart(a)[f]
<1> DEFINE c == EncodingConfig(a)
           v == AudioVideoConfig(a)
           P == [have_video |-> GetBool(a, "have_video", TRUE),
                 have_audio |-> GetBool(a, "have_audio", TRUE),
                 audio_select |-> OptInt(a, "audio_select"),
                 avformat |-> GetBool(a, "avformat", FALSE),
                 loop |-> GetBool(a, "loop", FALSE)]
           B == BaseConfig(a)
           PNames == {"have_video", "have_audio", "audio_select", "avformat", "loop"}
           BNames == {"type", "input", "output", "max_restart_attempts", "ttl_sec"}
<1>1. v = P ++ B
  BY DEF AudioVideoConfig
<1>2. DOMAIN P = PNames /\ DOMAIN B = BNames
  BY DEF BaseConfig
<1>3. /\ P.have_video = GetBool(a, "have_video", TRUE)
      /\ P.have_audio = GetBool(a, "have_audio", TRUE)
      /\ P.audio_select = OptInt(a, "audio_select")
      /\ P.avformat = GetBool(a, "avformat", FALSE)
      /\ P.loop = GetBool(a, "loop", FALSE)
      /\ B.max_restart_attempts = GetNum(a, "restart_attempts", 10)
      /\ B.ttl_sec = OptNum(a, "auto_exit_time")
  BY DEF BaseConfig
<1> HIDE DEF P, B, c, v
<1>4. /\ DOMAIN v = PNames \union BNames
      /\ \A f \in PNames : v[f] = P[f]
      /\ \A f \in BNames : v[f] = B[f]
  BY <1>1, <1>2 DEF ++
<1>5. DOMAIN v \subseteq Fields /\ DOMAIN v \intersect EncoderFields = {}
  BY <1>4 DEF Fields, EncoderFields
<1>6. /\ DOMAIN c = EncoderFields \union ArgFields \union DOMAIN v
      /\ \A f \in EncoderFields : c[f] = EncoderPart(a)[f]
      /\ \A f \in DOMAIN v \ EncoderFields : c[f] = v[f]
  BY <1>5, EncodingParts DEF c, v
<1>7. {FieldOf(k) : k \in EncoderReads} =
        EncoderFields \union PNames \union {"max_restart_attempts", "ttl_sec"}
  <2>1. \A k \in EncoderReads : FieldOf(k) \in EncoderFields \union PNames \union {"max_restart_attempts", "ttl_sec"}
    BY DEF EncoderReads, EncoderFields, FieldOf
  <2>2. \A f \in EncoderFields \union PNames \union {"max_restart_attempts", "ttl_sec"} :
           ReadFrom(f) \in EncoderReads /\ f \in Fields
    BY DEF EncoderReads, EncoderFields, ReadFrom, Fields
  <2> QED  BY <2>1, <2>2, FieldOfOption
<1>8. \A f \in PNames \union BNames : c[f] = v[f]
  BY <1>4, <1>5, <1>6
<1> QED  BY <1>3, <1>4, <1>6, <1>7, <1>8 DEF c

\* An option of a field of an encoder is without effect when it is not there in
\* a form that converts, or says the default.
LEMMA FieldEffect ==
    ASSUME NEW a, NEW k \in DOMAIN a, k \in EncoderReads, OptionValid(k, a[k])
    PROVE  EncodingConfig(a)[FieldOf(k)] = EncodingConfig(Without(a, k))[FieldOf(k)]
             <=> Unconverted(k, a[k]) \/ SaysDefault(k, a[k])
<1> DEFINE b == Without(a, k)
           t == a[k]
           c == EncodingConfig(a)
           d == EncodingConfig(b)
           Equal == c[FieldOf(k)] = d[FieldOf(k)]
           IntOptions == {"framerate", "video_bitrate", "audio_bitrate", "audio_channels"}
<1>1. k \notin IntegerArgs /\ k \notin StringArgs /\ k \notin FlagArgs
  BY ArgumentKinds DEF ArgNames
<1>2. k \in OptionsOf.dont_validate <=> k \in Flags \union {"deinterlace"}
  BY ArgumentKinds
<1>3. Unconverted(k, t) <=> \/ k \in IntOptions /\ ~IsInt(t)
                            \/ k \in Flags \union {"deinterlace"} /\ ~IsBool(t)
  BY <1>1, <1>2 DEF Unconverted
<1>4. SaysDefault(k, t) <=> \/ k \in {"have_video", "have_audio"} /\ t.bool
                            \/ k \in {"avformat", "loop", "relay_audio", "relay_video"} /\ ~t.bool
                            \/ k = "restart_attempts" /\ t.num = 10
                            \/ k = "decklink_video_mode" /\ t.num = 1
                            \/ k = "video_codec" /\ t.text = "x264enc"
                            \/ k = "audio_codec" /\ t.text = "faac"
  BY <1>1 DEF SaysDefault
<1>5. /\ \A default :
             /\ GetInt(b, k, default) = default /\ GetNum(b, k, default) = default
             /\ GetBool(b, k, default) = default /\ GetText(b, k, default) = default
             /\ GetInt(a, k, default) = IF IsInt(t) THEN t.num ELSE default
             /\ GetNum(a, k, default) = IF IsNum(t) THEN t.num ELSE default
             /\ GetBool(a, k, default) = IF IsBool(t) THEN t.bool ELSE default
             /\ GetText(a, k, default) = IF IsText(t) THEN t.text ELSE default
      /\ OptInt(a, k) = OptInt(b, k) <=> ~IsInt(t)
      /\ OptNum(a, k) = OptNum(b, k) <=> ~IsNum(t)
      /\ OptBool(a, k) = OptBool(b, k) <=> ~IsBool(t)
      /\ OptText(a, k) = OptText(b, k) <=> ~IsText(t)
  BY Readings
<1>6. \A x : /\ EncodingConfig(x).max_restart_attempts = GetNum(x, "restart_attempts", 10)
             /\ EncodingConfig(x).ttl_sec = OptNum(x, "auto_exit_time")
             /\ EncodingConfig(x).have_video = GetBool(x, "have_video", TRUE)
             /\ EncodingConfig(x).have_audio = GetBool(x, "have_audio", TRUE)
             /\ EncodingConfig(x).audio_select = OptInt(x, "audio_select")
             /\ EncodingConfig(x).avformat = GetBool(x, "avformat", FALSE)
             /\ EncodingConfig(x).loop = GetBool(x, "loop", FALSE)
             /\ \A f \in EncoderFields : EncodingConfig(x)[f] = EncoderPart(x)[f]
  BY EncoderReadings
<1>7. \A x : /\ EncodingConfig(x).relay_audio = GetBool(x, "relay_audio", FALSE)
             /\ EncodingConfig(x).relay_video = GetBool(x, "relay_video", FALSE)
             /\ EncodingConfig(x).deinterlace = OptBool(x, "deinterlace")
             /\ EncodingConfig(x).frame_rate = OptInt(x, "framerate")
             /\ EncodingConfig(x).volume = OptNum(x, "volume")
             /\ EncodingConfig(x).video_encoder = GetText(x, "video_codec", "x264enc")
             /\ EncodingConfig(x).audio_encoder = GetText(x, "audio_codec", "faac")
  BY <1>6 DEF EncoderPart, EncoderFields
<1>8. \A x : /\ EncodingConfig(x).audio_channels = OptInt(x, "audio_channels")
             /\ EncodingConfig(x).size = GetText(x, "size", "")
             /\ EncodingConfig(x).video_bit_rate = OptInt(x, "video_bitrate")
             /\ EncodingConfig(x).audio_bit_rate = OptInt(x, "audio_bitrate")
             /\ EncodingConfig(x).logo = GetText(x, "logo", "")
             /\ EncodingConfig(x).aspect_ratio = OptText(x, "aspect_ratio")
             /\ EncodingConfig(x).decklink_video_mode = GetInt(x, "decklink_video_mode", 1)
  BY <1>6 DEF EncoderPart, EncoderFields
<1>9. /\ k = "restart_attempts" => IsNum(t)
      /\ k = "auto_exit_time" => IsNum(t)
      /\ k = "audio_select" => IsInt(t)
      /\ k = "volume" => IsNum(t)
      /\ k = "decklink_video_mode" => IsInt(t)
      /\ k \in {"video_codec", "audio_codec"} => IsText(t)
      /\ k \in {"size", "logo", "aspect_ratio"} => IsText(t) /\ t.text # ""
  BY EncoderOptionsValid
<1> HIDE DEF b, t
<1>10. SUFFICES Equal <=> Unconverted(k, t) \/ SaysDefault(k, t)
  BY DEF t, b
<1> HIDE DEF Equal
<1>11. k \notin Flags \union IntOptions \union {"deinterlace"} => ~Unconverted(k, t)
  BY <1>3
<1>12. k \notin Flags => (SaysDefault(k, t) <=> \/ k = "restart_attempts" /\ t.num = 10
                                                \/ k = "decklink_video_mode" /\ t.num = 1
                                                \/ k = "video_codec" /\ t.text = "x264enc"
                                                \/ k = "audio_codec" /\ t.text = "faac")
  BY <1>4 DEF Flags
<1>13. CASE k \in Flags
  <2>1. FieldOf(k) = k
    BY <1>13 DEF FieldOf, Flags
  <2>2. /\ k \in {"have_video", "have_audio"} => (Equal <=> GetBool(a, k, TRUE) = GetBool(b, k, TRUE))
        /\ k \in Flags \ {"have_video", "have_audio"} =>
              (Equal <=> GetBool(a, k, FALSE) = GetBool(b, k, FALSE))
    <3>1. ASSUME NEW x
          PROVE  /\ k \in {"have_video", "have_audio"} => EncodingConfig(x)[k] = GetBool(x, k, TRUE)
                 /\ k \in Flags \ {"have_video", "have_audio"} =>
                       EncodingConfig(x)[k] = GetBool(x, k, FALSE)
      <4>1. /\ EncodingConfig(x)["have_video"] = GetBool(x, "have_video", TRUE)
            /\ EncodingConfig(x)["have_audio"] = GetBool(x, "have_audio", TRUE)
        BY <1>6
      <4>2. /\ EncodingConfig(x)["avformat"] = GetBool(x, "avformat", FALSE)
            /\ EncodingConfig(x)["loop"] = GetBool(x, "loop", FALSE)
        BY <1>6
      <4>3. /\ EncodingConfig(x)["relay_audio"] = GetBool(x, "relay_audio", FALSE)
            /\ EncodingConfig(x)["relay_video"] = GetBool(x, "relay_video", FALSE)
        BY <1>7
      <4> QED  BY <4>1, <4>2, <4>3 DEF Flags
    <3>2. Equal <=> EncodingConfig(a)[k] = EncodingConfig(b)[k]
      BY <2>1 DEF Equal
    <3> QED  BY <3>1, <3>2
  <2>3. IsBool(t) => t.bool \in BOOLEAN
    BY DEF IsBool
  <2>4. /\ GetBool(a, k, TRUE) = GetBool(b, k, TRUE) <=> ~IsBool(t) \/ t.bool = TRUE
        /\ GetBool(a, k, FALSE) = GetBool(b, k, FALSE) <=> ~IsBool(t) \/ t.bool = FALSE
    BY <1>5, <2>3
  <2>5. Unconverted(k, t) <=> ~IsBool(t)
    BY <1>3, <1>13 DEF Flags
  <2>6. CASE k \in {"have_video", "have_audio"}
    <3>1. IsBool(t) => (SaysDefault(k, t) <=> t.bool = TRUE)
      BY <1>4, <2>3, <2>6
    <3> QED  BY <2>2, <2>4, <2>5, <2>6, <3>1
  <2>7. CASE k \in Flags \ {"have_video", "have_audio"}
    <3>1. IsBool(t) => (SaysDefault(k, t) <=> t.bool = FALSE)
      BY <1>4, <2>3, <2>7 DEF Flags
    <3> QED  BY <2>2, <2>4, <2>5, <2>7, <3>1
  <2> QED  BY <1>13, <2>6, <2>7
<1>14. CASE k \in IntOptions
  <2>1. Equal <=> OptInt(a, k) = OptInt(b, k)
    BY <1>7, <1>8, <1>14 DEF FieldOf, Equal
  <2>2. Unconverted(k, t) <=> ~IsInt(t)
    BY <1>3, <1>14 DEF Flags
  <2>3. ~SaysDefault(k, t)
    BY <1>12, <1>14 DEF Flags
  <2> QED  BY <1>5, <1>9, <1>14, <2>1, <2>2, <2>3
<1>15. CASE k = "deinterlace"
  <2>1. Equal <=> OptBool(a, k) = OptBool(b, k)
    BY <1>7, <1>15 DEF FieldOf, Equal
  <2>2. Unconverted(k, t) <=> ~IsBool(t)
    BY <1>3, <1>15 DEF Flags
  <2>3. ~SaysDefault(k, t)
    BY <1>12, <1>15 DEF Flags
  <2> QED  BY <1>5, <1>9, <1>15, <2>1, <2>2, <2>3
<1>16. CASE k = "audio_select"
  <2>1. Equal <=> OptInt(a, k) = OptInt(b, k)
    BY <1>6, <1>16 DEF FieldOf, Equal
  <2>2. ~Unconverted(k, t)
    BY <1>11, <1>16 DEF Flags
  <2>3. ~SaysDefault(k, t)
    BY <1>12, <1>16 DEF Flags
  <2> QED  BY <1>5, <1>9, <1>16, <2>1, <2>2, <2>3
<1>17. CASE k \in {"auto_exit_time", "volume"}
  <2>1. Equal <=> OptNum(a, k) = OptNum(b, k)
    BY <1>6, <1>7, <1>17 DEF FieldOf, Equal
  <2>2. ~Unconverted(k, t)
    BY <1>11, <1>17 DEF Flags
  <2>3. ~SaysDefault(k, t)
    BY <1>12, <1>17 DEF Flags
  <2> QED  BY <1>5, <1>9, <1>17, <2>1, <2>2, <2>3
<1>18. CASE k \in {"size", "logo"}
  <2>1. Equal <=> GetText(a, k, "") = GetText(b, k, "")
    BY <1>8, <1>18 DEF FieldOf, Equal
  <2>2. ~Unconverted(k, t)
    BY <1>11, <1>18 DEF Flags
  <2>3. ~SaysDefault(k, t)
    BY <1>12, <1>18 DEF Flags
  <2> QED  BY <1>5, <1>9, <1>18, <2>1, <2>2, <2>3
<1>19. CASE k = "aspect_ratio"
  <2>1. Equal <=> OptText(a, k) = OptText(b, k)
    BY <1>8, <1>19 DEF FieldOf, Equal
  <2>2. ~Unconverted(k, t)
    BY <1>11, <1>19 DEF Flags
  <2>3. ~SaysDefault(k, t)
    BY <1>12, <1>19 DEF Flags
  <2> QED  BY <1>5, <1>9, <1>19, <2>1, <2>2, <2>3
<1>20. CASE k = "video_codec"
  <2>1. Equal <=> GetText(a, k, "x264enc") = GetText(b, k, "x264enc")
    BY <1>7, <1>20 DEF FieldOf, Equal
  <2>2. ~Unconverted(k, t)
    BY <1>11, <1>20 DEF Flags
  <2>3. SaysDefault(k, t) <=> t.text = "x264enc"
    BY <1>12, <1>20 DEF Flags
  <2> QED  BY <1>5, <1>9, <1>20, <2>1, <2>2, <2>3
<1>21. CASE k = "audio_codec"
  <2>1. Equal <=> GetText(a, k, "faac") = GetText(b, k, "faac")
    BY <1>7, <1>21 DEF FieldOf, Equal
  <2>2. ~Unconverted(k, t)
    BY <1>11, <1>21 DEF Flags
  <2>3. SaysDefault(k, t) <=> t.text = "faac"
    BY <1>12, <1>21 DEF Flags
  <2> QED  BY <1>5, <1>9, <1>21, <2>1, <2>2, <2>3
<1>22. CASE k = "restart_attempts"
  <2>1. Equal <=> GetNum(a, k, 10) = GetNum(b, k, 10)
    BY <1>6, <1>22 DEF FieldOf, Equal
  <2>2. ~Unconverted(k, t)
    BY <1>11, <1>22 DEF Flags
  <2>3. SaysDefault(k, t) <=> t.num = 10
    BY <1>12, <1>22 DEF Flags
  <2> QED  BY <1>5, <1>9, <1>22, <2>1, <2>2, <2>3
<1>23. CASE k = "decklink_video_mode"
  <2>1. Equal <=> GetInt(a, k, 1) = GetInt(b, k, 1)
    BY <1>8, <1>23 DEF FieldOf, Equal
  <2>2. ~Unconverted(k, t)
    BY <1>11, <1>23 DEF Flags
  <2>3. SaysDefault(k, t) <=> t.num = 1
    BY <1>12, <1>23 DEF Flags
  <2> QED  BY <1>5, <1>9, <1>23, <2>1, <2>2, <2>3
<1> QED  BY <1>13, <1>14, <1>15, <1>17, <1>18, <1>19, <1>20, <1>21, <1>22, <1>23, <1>16 DEF EncoderReads, Flags

\* The fields of an encoder are those of the options that it reads.
LEMMA EncoderFieldNames ==
    /\ \A k \in EncoderReads : ReadFrom(FieldOf(k)) = k /\ FieldOf(k) \notin ArgFields
    /\ UnreadByEncoders \intersect (EncoderReads \union Required) = {}
    /\ \A f \in {"type", "input", "output"} : ReadFrom(f) \in Required
<1>1. \A k \in EncoderReads : ReadFrom(FieldOf(k)) = k /\ FieldOf(k) \notin ArgFields
  BY DEF EncoderReads, FieldOf, ReadFrom, ArgFields
<1>2. UnreadByEncoders \intersect (EncoderReads \union Required) = {}
  BY DEF EncoderReads, UnreadByEncoders, Required
<1>3. \A f \in {"type", "input", "output"} : ReadFrom(f) \in Required
  BY DEF ReadFrom, Required
<1> QED  BY <1>1, <1>2, <1>3

\* An argument of an encoder is passed on unless its text does not convert or is
\* a flag that is not set.
LEMMA ArgumentEffect ==
    ASSUME NEW a, NEW k \in DOMAIN a, k \in ArgNames
    PROVE  /\ k \notin UnreadByEncoders
           /\ ~Passed(a, k) <=> Unconverted(k, a[k]) \/ SaysDefault(k, a[k])
<1> DEFINE t == a[k]
           U == Unconverted(k, t)
           S == SaysDefault(k, t)
<1>1. k \notin UnreadByEncoders /\ k \notin EncoderReads
  BY ArgumentKinds
<1>2. U <=> \/ k \in IntegerArgs /\ ~IsInt(t)
            \/ k \in OptionsOf.dont_validate \ (IntegerArgs \union StringArgs) /\ ~IsBool(t)
  <2>1. k \notin {"framerate", "video_bitrate", "audio_bitrate", "audio_channels"}
    BY <1>1 DEF EncoderReads
  <2> QED  BY <2>1 DEF Unconverted
<1>3. S <=> k \in FlagArgs /\ ~t.bool
  <2>1. k \notin {"have_video", "have_audio", "avformat", "loop", "relay_audio", "relay_video",
                  "restart_attempts", "decklink_video_mode", "video_codec", "audio_codec"}
    BY <1>1 DEF EncoderReads
  <2> QED  BY <2>1 DEF SaysDefault
<1>4. GetBool(a, k, FALSE) <=> IsBool(t) /\ t.bool
  BY DEF GetBool
<1> HIDE DEF t, U, S
<1>5. Passed(a, k) <=> \/ k \in IntegerArgs /\ IsInt(t)
                       \/ k \in FlagArgs /\ IsBool(t) /\ t.bool
                       \/ k \in StringArgs
  BY <1>4 DEF Passed, t
<1>6. ~Passed(a, k) <=> U \/ S
  <2>1. CASE k \in IntegerArgs
    BY <1>2, <1>3, <1>5, <2>1, ArgumentKinds
  <2>2. CASE k \in StringArgs
    BY <1>2, <1>3, <1>5, <2>2, ArgumentKinds
  <2>3. CASE k \in FlagArgs
    BY <1>2, <1>3, <1>5, <2>3, ArgumentKinds
  <2> QED  BY <2>1, <2>2, <2>3 DEF ArgNames
<1> QED  BY <1>1, <1>6 DEF t, U, S

\* An option that passed its validator is without effect for an encoder exactly
\* when it is not read, does not convert or says the default.
LEMMA EncoderEffect ==
    ASSUME NEW a, NEW k, k \in DOMAIN a \ Required, {"type", "input"} \subseteq DOMAIN a,
           a["type"].num = ENCODE, k \in Known, OptionValid(k, a[k])
    PROVE  Differing(make_config(a), make_config(Without(a, k))) = {}
             <=> \/ k \in UnreadByEncoders \/ Unconverted(k, a[k]) \/ SaysDefault(k, a[k])
<1> DEFINE b == Without(a, k)
           c == EncodingConfig(a)
           d == EncodingConfig(b)
           own == {f \in DOMAIN c \ ArgFields : c[f] # d[f]}
           Silent == Unconverted(k, a[k]) \/ SaysDefault(k, a[k])
<1>1. make_config(a) = c /\ make_config(b) = d
  <2>1. b["type"] = a["type"]
    BY DEF Without, Required
  <2>2. \A x : x["type"].num = ENCODE => make_config(x) = EncodingConfig(x)
    BY DEF make_config, NoOutputs, RELAY, ENCODE, TIMESHIFT_PLAYER, TIMESHIFT_RECORDER, CATCHUP,
           TEST_LIFE, VOD_RELAY, VOD_ENCODE, SCREEN
  <2> QED  BY <2>1, <2>2
<1>2. DOMAIN c = {FieldOf(m) : m \in EncoderReads} \union {"type", "input", "output"} \union ArgFields
  BY EncoderReadings
<1>3. "video_encoder_args" \in DOMAIN c
  BY <1>2 DEF ArgFields
<1>4. /\ Differing(make_config(a), make_config(b))
           = {f \in DOMAIN make_config(a) \ ArgFields : make_config(a)[f] # make_config(b)[f]}
             \union IF "video_encoder_args" \in DOMAIN make_config(a) THEN {m \in {k} : Passed(a, m)} ELSE {}
      /\ \A f \in {f \in DOMAIN make_config(a) \ ArgFields : make_config(a)[f] # make_config(b)[f]} :
            f \in Fields /\ ReadFrom(f) = k
  BY OneDiffers DEF ENCODE
<1>5. /\ Differing(c, d) = own \union {m \in {k} : Passed(a, m)}
      /\ \A f \in own : f \in Fields /\ ReadFrom(f) = k
  BY <1>1, <1>3, <1>4
<1>6. SUFFICES Differing(c, d) = {} <=> k \in UnreadByEncoders \/ Silent
  BY <1>1
<1>7. k \in EncoderReads => (c[FieldOf(k)] = d[FieldOf(k)] <=> Silent)
  BY FieldEffect
<1>8. k \in ArgNames => k \notin UnreadByEncoders /\ (~Passed(a, k) <=> Silent)
  BY ArgumentEffect
<1>9. k \notin ArgNames => ~Passed(a, k)
  BY DEF Passed, ArgNames
<1> HIDE DEF b, c, d, Silent
<1>10. CASE k \in ArgNames
  <2>1. own = {}
    BY <1>5, <1>10, ArgumentNames
  <2> QED  BY <1>5, <1>8, <1>10, <2>1
<1>11. CASE k \in UnreadByEncoders
  <2>1. ~Passed(a, k)
    BY <1>8, <1>9, <1>11
  <2>2. \A f \in DOMAIN c \ ArgFields : ReadFrom(f) # k
    BY <1>2, <1>11, EncoderFieldNames
  <2> QED  BY <1>5, <1>11, <2>1, <2>2
<1>12. CASE k \in EncoderReads
  <2>1. k \notin ArgNames /\ k \notin UnreadByEncoders
    BY <1>12, ArgumentKinds, EncoderFieldNames
  <2>2. FieldOf(k) \in DOMAIN c \ ArgFields
    BY <1>2, <1>12, EncoderFieldNames
  <2>3. \A f \in own : f = FieldOf(k)
    BY <1>5, FieldOfOption
  <2>4. own = {} <=> c[FieldOf(k)] = d[FieldOf(k)]
    BY <2>2, <2>3
  <2> QED  BY <1>5, <1>7, <1>9, <1>12, <2>1, <2>4
<1> QED  BY <1>10, <1>11, <1>12, KnownOptions

\* An option has one field: a stream without it has the same configuration but
\* for that field, which has its default; and a valid option is without effect
\* for an encoder exactly when it is not read, does not convert or says the default.
THEOREM OptionsReachOneField == Spec => []OptionReachesOneField
<1>1. ConfigInv => OptionReachesOneField
  <2> SUFFICES ASSUME ConfigInv, phase = "configured", NEW k \in DOMAIN args \ Required
               PROVE  LET least == make_config([m \in Required \intersect DOMAIN args |-> args[m]])
                          without == make_config([m \in DOMAIN args \ {k} |-> args[m]])
                          diff == Differing(conf, without)
                      IN  /\ Cardinality(diff) <= 1
                          /\ \A f \in diff \intersect DOMAIN least : without[f] = least[f]
                          /\ conf.type = ENCODE =>
                                  (diff = {} <=> \/ k \in UnreadByEncoders
                                                 \/ Unconverted(k, args[k])
                                                 \/ SaysDefault(k, args[k]))
    BY DEF OptionReachesOneField
  <2>1. Valid(args) /\ MakeStreamInfo(args, TRUE) /\ conf = make_config(args)
    BY DEF ConfigInv
  <2>2. /\ {"type", "input"} \subseteq DOMAIN args /\ args["type"].num \in 1..9
        /\ k \in Known /\ OptionValid(k, args[k])
    BY <2>1 DEF Valid, MakeStreamInfo, HasUrls, PROXY
  <2>3. conf.type = args["type"].num
    BY <2>1, <2>2, ConfigFields
  <2>4. /\ Cardinality(Differing(conf, make_config(Without(args, k)))) <= 1
        /\ \A f \in Differing(conf, make_config(Without(args, k))) \intersect DOMAIN make_config(Least(args)) :
              make_config(Without(args, k))[f] = make_config(Least(args))[f]
    BY <2>1, <2>2, OneField
  <2>5. conf.type = ENCODE =>
          (Differing(conf, make_config(Without(args, k))) = {}
             <=> \/ k \in UnreadByEncoders \/ Unconverted(k, args[k]) \/ SaysDefault(k, args[k]))
    BY <2>1, <2>2, <2>3, EncoderEffect
  <2>6. /\ Without(args, k) = [m \in DOMAIN args \ {k} |-> args[m]]
        /\ Least(args) = [m \in Required \intersect DOMAIN args |-> args[m]]
    BY DEF Without, Least
  <2> QED  BY <2>4, <2>5, <2>6
<1> QED  BY <1>1, ConfigInvariance, PTL
=============================================================================
