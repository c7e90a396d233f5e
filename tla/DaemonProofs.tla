---------------------------- MODULE DaemonProofs ----------------------------
(***************************************************************************)
(* Theorems about Daemon for any sets of stream ids and connections and    *)
(* any number of processes, about Protocol for any clients and any number  *)
(* of requests, pings and commands, and about Messages for any objects of  *)
(* the classes and any number of relays.                                   *)
(*                                                                         *)
(* Of a message the proof goes field by field: KeyOf names the member that *)
(* a field is written to, and for each class it is shown that the reader   *)
(* takes the field from that member. A member that is left out so costs    *)
(* the one field, and relays are the same argument again for the object    *)
(* that the service rebuilt.                                               *)
(***************************************************************************)
EXTENDS Daemon, Protocol, Messages, TLAPS, FiniteSetTheorems, SequenceTheorems

Collected == INSTANCE FoldRule WITH Op <- PushBack
Filtered == INSTANCE FoldRule WITH Op <- KeepValid

\* Pids are given out in order, a pipe comes with a process, and the snapshot
\* taken by StopService is not newer than the present.
ForkInv ==
    /\ \A p \in Pids : proc[p] = "none" <=> p > forks
    /\ \A p \in Pids : p > forks => pipe[p] = "none"
    /\ stopForks <= forks

\* Two children in the loop's table never have the same stream id. This, and
\* not the property about living processes, is what NotFound preserves.
TableInv ==
    \A p, q \in childs : sid[p] = sid[q] => p = q

IndInv ==
    /\ TypeOK
    /\ ForkInv
    /\ TableInv
    /\ OneProcessPerStream
    /\ ClientPointersValid
    /\ Supervised
    /\ StoppingToldEveryone

\* The invariant holds initially.
LEMMA InitIndInv == Init => IndInv
BY ForksAssumption
DEF Init, IndInv, TypeOK, ForkInv, TableInv, OneProcessPerStream, ClientPointersValid, Supervised,
    StoppingToldEveryone, Serving, Alive, Pids

\* Starting a stream: the id has no child, so it has no living process either.
LEMMA CreatePreserves ==
    ASSUME IndInv, Serving, NEW s \in StreamIds, CreateChildStream(s),
           UNCHANGED <<daemon, client, vods, told, announced, stopForks>>,
           requested' \subseteq StreamIds
    PROVE  IndInv'
<1> USE ForksAssumption
    DEF IndInv, TypeOK, ForkInv, TableInv, OneProcessPerStream, ClientPointersValid, Supervised,
        StoppingToldEveryone, Serving, Alive, Pids
<1>1. CASE ForkFailed
  BY <1>1 DEF ForkFailed, procs, table
<1>2. CASE Fork(s)
  <2> DEFINE n == forks + 1
  <2>1. n \in Pids /\ n \notin childs /\ proc[n] = "none"
    BY <1>2 DEF Fork
  <2>2. \A p \in childs : sid[p] # s
    BY DEF CreateChildStream, NotFound, FindChildByID
  <2>3. TypeOK'
    BY <1>2, <2>1 DEF Fork, Copies
  <2>4. ForkInv'
    BY <1>2 DEF Fork
  <2>5. TableInv'
    BY <1>2, <2>1, <2>2 DEF Fork
  <2>6. Supervised'
    BY <1>2, <2>1 DEF Fork
  <2>7. OneProcessPerStream'
    BY <2>5, <2>6
  <2>8. ClientPointersValid'
    BY <1>2, <2>1 DEF Fork
  <2>9. StoppingToldEveryone'
    BY <1>2, <2>1 DEF Fork
  <2> QED  BY <2>3, <2>4, <2>5, <2>6, <2>7, <2>8, <2>9
<1> QED  BY <1>1, <1>2 DEF CreateChildStream

\* The end of the service empties the table; the living processes stay.
LEMMA GonePreserves == ASSUME IndInv, Gone PROVE IndInv'
BY DEF Gone, past, IndInv, TypeOK, ForkInv, TableInv, OneProcessPerStream, ClientPointersValid,
       Supervised, StoppingToldEveryone, Serving, Alive, Pids

\* A process ends.
LEMMA ExitPreserves ==
    ASSUME IndInv, NEW p \in Pids, ChildExits(p)
    PROVE  IndInv'
BY DEF ChildExits, conns, table, past, IndInv, TypeOK, ForkInv, TableInv, OneProcessPerStream,
       ClientPointersValid, Supervised, StoppingToldEveryone, Serving, Alive, Pids

\* A pipe client is closed.
LEMMA PipePreserves ==
    ASSUME IndInv, NEW p \in Pids, PipeError(p)
    PROVE  IndInv'
BY DEF PipeError, conns, procs, past, IndInv, TypeOK, ForkInv, TableInv, OneProcessPerStream,
       ClientPointersValid, Supervised, StoppingToldEveryone, Serving, Alive, Pids

\* A dead process is reaped.
LEMMA ReapPreserves ==
    ASSUME IndInv, NEW p \in Pids, ChildStatusChanged(p)
    PROVE  IndInv'
BY DEF ChildStatusChanged, conns, IndInv, TypeOK, ForkInv, TableInv, OneProcessPerStream,
       ClientPointersValid, Supervised, StoppingToldEveryone, Serving, Alive, Pids

\* Processes are commanded; the stop of the service reaches every child that
\* has a pipe client.
LEMMA StopPreserves ==
    ASSUME IndInv, NEW c \in Clients,
           StopService(c) \/ \E s \in StreamIds : StopStream(c, s)
    PROVE  IndInv'
<1>1. UNCHANGED <<conns, table, procs, announced>> /\ Serving
  BY DEF StopService, StopStream, Serving, past
<1>2. told \subseteq told' /\ told' \subseteq Pids
  <2>1. clientPtr \subseteq Pids /\ told \subseteq Pids
    BY DEF IndInv, TypeOK
  <2> QED  BY <2>1 DEF StopService, StopStream, SendStop
<1>3. \/ daemon' = "stopping" /\ stopForks' = forks
      \/ daemon' = daemon /\ stopForks' = stopForks
  BY DEF StopService, StopStream, past
<1>4. TypeOK'
  BY <1>1, <1>2, <1>3, ForksAssumption DEF IndInv, TypeOK, conns, table, procs, Pids
<1>5. ForkInv'
  BY <1>1, <1>3, ForksAssumption DEF IndInv, TypeOK, ForkInv, procs, table, Pids
<1>6. TableInv' /\ OneProcessPerStream' /\ ClientPointersValid' /\ Supervised'
  BY <1>1, <1>3
  DEF IndInv, TableInv, OneProcessPerStream, ClientPointersValid, Supervised, Serving, Alive,
      procs, table, Pids
<1>7. StoppingToldEveryone'
  <2>1. CASE StopService(c)
    <3>1. Alive \cap clientPtr \subseteq told'
      BY <2>1 DEF StopService, SendStop, IndInv, ClientPointersValid
    <3> QED  BY <1>1, <3>1 DEF StoppingToldEveryone, Alive, procs, table
  <2>2. CASE \E s \in StreamIds : StopStream(c, s)
    BY <1>1, <1>2, <2>2
    DEF StopStream, IndInv, StoppingToldEveryone, Alive, procs, table, past
  <2> QED  BY <2>1, <2>2
<1> QED  BY <1>4, <1>5, <1>6, <1>7 DEF IndInv

\* What concerns connections and links only.
LEMMA ConnectionPreserves ==
    ASSUME IndInv, UNCHANGED <<daemon, table, procs, told, past>>,
           client' \in [Clients -> {"off", "connected", "verified"}],
           vods' \subseteq StreamIds, requested' \subseteq StreamIds
    PROVE  IndInv'
BY DEF table, procs, past, IndInv, TypeOK, ForkInv, TableInv, OneProcessPerStream,
       ClientPointersValid, Supervised, StoppingToldEveryone, Serving, Alive, Pids

\* Every handler and every process preserves the invariant.
LEMMA StepIndInv == IndInv /\ [Next]_vars => IndInv'
<1> SUFFICES ASSUME IndInv, [Next]_vars  PROVE IndInv'
  OBVIOUS
<1>0. TypeOK
  BY DEF IndInv
<1>1. ASSUME NEW c \in Clients, Accepted(c) \/ ClientLost(c) \/ Activate(c)  PROVE IndInv'
  BY <1>0, <1>1, ConnectionPreserves DEF Accepted, ClientLost, Activate, TypeOK
<1>2. ASSUME NEW c \in Clients, NEW lines \in SUBSET StreamIds, SyncService(c, lines)
      PROVE  IndInv'
  BY <1>0, <1>2, ConnectionPreserves DEF SyncService, TypeOK
<1>3. ASSUME NEW c \in Clients, NEW s \in StreamIds, StartStream(c, s)  PROVE IndInv'
  BY <1>0, <1>3, CreatePreserves DEF StartStream, conns, TypeOK
<1>4. ASSUME NEW c \in Clients, StopService(c) \/ \E s \in StreamIds : StopStream(c, s)
      PROVE  IndInv'
  BY <1>4, StopPreserves
<1>5. ASSUME NEW s \in StreamIds, OnHttpRequest(s)  PROVE IndInv'
  BY <1>0, <1>5, ConnectionPreserves DEF OnHttpRequest, TypeOK
<1>6. ASSUME NEW s \in StreamIds, VodRequested(s)  PROVE IndInv'
  <2>1. CASE CreateChildStream(s)
    BY <1>0, <1>6, <2>1, CreatePreserves DEF VodRequested, past, TypeOK
  <2>2. CASE UNCHANGED <<procs, table>>
    BY <1>0, <1>6, <2>2, ConnectionPreserves DEF VodRequested, TypeOK
  <2> QED  BY <1>6, <2>1, <2>2 DEF VodRequested
<1>7. ASSUME NEW p \in Pids, ChildExits(p) \/ ChildSeesEof(p)  PROVE IndInv'
  BY <1>7, ExitPreserves DEF ChildSeesEof
<1>8. ASSUME NEW p \in Pids, PipeError(p) \/ PipeEof(p)  PROVE IndInv'
  BY <1>8, PipePreserves DEF PipeEof
<1>9. ASSUME NEW p \in Pids, ChildStatusChanged(p)  PROVE IndInv'
  BY <1>9, ReapPreserves
<1>10. CASE QuitTimer \/ DaemonCrash
  BY <1>10, GonePreserves DEF QuitTimer, DaemonCrash
<1>11. CASE Terminated \/ UNCHANGED vars
  BY <1>0, <1>11, ConnectionPreserves DEF Terminated, vars, conns, TypeOK
<1> QED  BY <1>1, <1>2, <1>3, <1>4, <1>5, <1>6, <1>7, <1>8, <1>9, <1>10, <1>11
         DEF Next, ClientEvent, VodEvent, ChildEvent

-----------------------------------------------------------------------------
\* The inductive invariant holds in every reachable state.
THEOREM Invariance == Spec => []IndInv
<1>1. Init => IndInv  BY InitIndInv
<1>2. IndInv /\ [Next]_vars => IndInv'  BY StepIndInv
<1> QED  BY <1>1, <1>2, PTL DEF Spec

\* Every variable keeps its type; only processes that fork() returned are
\* children.
THEOREM TypeCorrect == Spec => []TypeOK
<1>1. IndInv => TypeOK  BY DEF IndInv
<1> QED  BY <1>1, Invariance, PTL

\* No stream runs in two processes, for any number of clients and streams.
THEOREM NoDuplicates == Spec => []OneProcessPerStream
<1>1. IndInv => OneProcessPerStream  BY DEF IndInv
<1> QED  BY <1>1, Invariance, PTL

\* SendStop and SendRestart never use a deleted pipe client.
THEOREM PointersValid == Spec => []ClientPointersValid
<1>1. IndInv => ClientPointersValid  BY DEF IndInv
<1> QED  BY <1>1, Invariance, PTL

\* The table of children is exactly the processes that are not reaped.
THEOREM TableComplete == Spec => []Supervised
<1>1. IndInv => Supervised  BY DEF IndInv
<1> QED  BY <1>1, Invariance, PTL

\* StopService reaches every process that can be reached.
THEOREM StopReachesAll == Spec => []StoppingToldEveryone
<1>1. IndInv => StoppingToldEveryone  BY DEF IndInv
<1> QED  BY <1>1, Invariance, PTL

-----------------------------------------------------------------------------
(* Requests and their answers                                              *)

\* Requests that went there, answers that come back, and open, the table of the
\* end that asked: what is on its way is in the table, and only once.
OnTheWay(there, back, open) ==
    /\ \A k \in 1..Len(there) : there[k].kind = "request" =>
           /\ there[k].id \in open
           /\ \A l \in 1..Len(there) :
                  there[l].kind = "request" /\ there[l].id = there[k].id => l = k
           /\ \A l \in 1..Len(back) : back[l].kind = "response" => back[l].id # there[k].id
    /\ \A k \in 1..Len(back) : back[k].kind = "response" =>
           /\ back[k].id \in open
           /\ \A l \in 1..Len(back) :
                  back[l].kind = "response" /\ back[l].id = back[k].id => l = k

\* A sequence without its head, at its places.
LEMMA TailPlaces ==
    ASSUME NEW M, NEW s \in Seq(M), s # <<>>
    PROVE  /\ Tail(s) \in Seq(M) /\ Head(s) \in M /\ Head(s) = s[1] /\ 1 \in 1..Len(s)
           /\ Len(Tail(s)) = Len(s) - 1 /\ Len(s) \in Nat
           /\ \A k \in 1..Len(Tail(s)) : k + 1 \in 1..Len(s) /\ k + 1 # 1 /\ Tail(s)[k] = s[k + 1]
<1>1. Len(s) \in Nat /\ Len(s) # 0
  BY EmptySeq, LenProperties
<1> QED  BY <1>1, HeadTailProperties

\* A sequence and one more, at its places.
LEMMA AppendPlaces ==
    ASSUME NEW M, NEW s \in Seq(M), NEW e \in M
    PROVE  /\ Append(s, e) \in Seq(M) /\ Len(s) \in Nat
           /\ Len(Append(s, e)) = Len(s) + 1 /\ Append(s, e)[Len(s) + 1] = e
           /\ \A k \in 1..Len(Append(s, e)) : k = Len(s) + 1 \/ k \in 1..Len(s)
           /\ \A k \in 1..Len(s) : Append(s, e)[k] = s[k] /\ k # Len(s) + 1
BY AppendProperties, LenProperties

\* A new request goes out: its number is in the table from now on.
LEMMA Asks ==
    ASSUME NEW M, NEW there \in Seq(M), NEW back, NEW open, OnTheWay(there, back, open),
           NEW e \in M, e.kind = "request", e.id \notin open
    PROVE  OnTheWay(Append(there, e), back, open \cup {e.id})
<1> DEFINE t == Append(there, e)
<1>1. /\ \A k \in 1..Len(t) : (k = Len(there) + 1 /\ t[k] = e) \/ (k \in 1..Len(there) /\ t[k] = there[k])
  BY AppendPlaces
<1> HIDE DEF t
<1> QED  BY <1>1 DEF OnTheWay, t

\* Something else goes out.
LEMMA Says ==
    ASSUME NEW M, NEW there \in Seq(M), NEW back, NEW open, OnTheWay(there, back, open),
           NEW e \in M, e.kind # "request"
    PROVE  OnTheWay(Append(there, e), back, open)
<1> DEFINE t == Append(there, e)
<1>1. /\ \A k \in 1..Len(t) : (k = Len(there) + 1 /\ t[k] = e) \/ (k \in 1..Len(there) /\ t[k] = there[k])
  BY AppendPlaces
<1> HIDE DEF t
<1> QED  BY <1>1 DEF OnTheWay, t

\* Something that is no answer comes back.
LEMMA Hears ==
    ASSUME NEW M, NEW there, NEW back \in Seq(M), NEW open, OnTheWay(there, back, open),
           NEW e \in M, e.kind # "response"
    PROVE  OnTheWay(there, Append(back, e), open)
<1> DEFINE b == Append(back, e)
<1>1. /\ \A k \in 1..Len(b) : (k = Len(back) + 1 /\ b[k] = e) \/ (k \in 1..Len(back) /\ b[k] = back[k])
  BY AppendPlaces
<1> HIDE DEF b
<1> QED  BY <1>1 DEF OnTheWay, b

\* What arrives is not answered.
LEMMA Drops ==
    ASSUME NEW M, NEW there \in Seq(M), there # <<>>, NEW back, NEW open, OnTheWay(there, back, open)
    PROVE  OnTheWay(Tail(there), back, open)
<1> DEFINE t == Tail(there)
<1>1. \A k \in 1..Len(t) : k \in Nat /\ k + 1 \in 1..Len(there) /\ t[k] = there[k + 1]
  BY TailPlaces
<1> HIDE DEF t
<1> QED  BY <1>1 DEF OnTheWay, t

\* A request arrives and is answered.
LEMMA Answers ==
    ASSUME NEW M, NEW there \in Seq(M), there # <<>>, NEW back \in Seq(M), NEW open,
           OnTheWay(there, back, open), Head(there).kind = "request",
           NEW e \in M, e.kind = "response", e.id = Head(there).id
    PROVE  OnTheWay(Tail(there), Append(back, e), open)
<1> DEFINE t == Tail(there)
           b == Append(back, e)
<1>1. /\ \A k \in 1..Len(t) : k \in Nat /\ k + 1 \in 1..Len(there) /\ k + 1 # 1 /\ t[k] = there[k + 1]
      /\ 1 \in 1..Len(there) /\ there[1] = Head(there)
  BY TailPlaces
<1>2. /\ \A k \in 1..Len(b) : (k = Len(back) + 1 /\ b[k] = e) \/ (k \in 1..Len(back) /\ b[k] = back[k])
  BY AppendPlaces
<1>3. OnTheWay(t, b, open)
  <2> HIDE DEF t, b
  <2>1. ASSUME NEW k \in 1..Len(t), t[k].kind = "request"
        PROVE  /\ t[k].id \in open
               /\ \A l \in 1..Len(t) : t[l].kind = "request" /\ t[l].id = t[k].id => l = k
               /\ \A l \in 1..Len(b) : b[l].kind = "response" => b[l].id # t[k].id
    <3>1. t[k].id # there[1].id
      BY <1>1, <2>1 DEF OnTheWay
    <3>2. k + 1 \in 1..Len(there) /\ t[k] = there[k + 1]
      BY <1>1
    <3>3. t[k].id \in open
      BY <2>1, <3>2 DEF OnTheWay
    <3>4. \A l \in 1..Len(t) : t[l].kind = "request" /\ t[l].id = t[k].id => l = k
      BY <1>1, <2>1, <3>2 DEF OnTheWay
    <3>5. \A l \in 1..Len(b) : b[l].kind = "response" => b[l].id # t[k].id
      BY <1>1, <1>2, <2>1, <3>1, <3>2 DEF OnTheWay
    <3> QED  BY <3>3, <3>4, <3>5
  <2>2. ASSUME NEW k \in 1..Len(b), b[k].kind = "response"
        PROVE  /\ b[k].id \in open
               /\ \A l \in 1..Len(b) : b[l].kind = "response" /\ b[l].id = b[k].id => l = k
    <3>1. \A l \in 1..Len(back) : back[l].kind = "response" => back[l].id # e.id
      BY <1>1 DEF OnTheWay
    <3>2. e.id \in open
      BY <1>1 DEF OnTheWay
    <3> QED  BY <1>2, <2>2, <3>1, <3>2 DEF OnTheWay
  <2> QED  BY <2>1, <2>2 DEF OnTheWay
<1> QED  BY <1>3

\* An answer arrives: it finds its request, and no other has it any more.
LEMMA Finds ==
    ASSUME NEW M, NEW there, NEW back \in Seq(M), back # <<>>, NEW open,
           OnTheWay(there, back, open), Head(back).kind = "response"
    PROVE  /\ Head(back).id \in open
           /\ OnTheWay(there, Tail(back), open \ {Head(back).id})
<1> DEFINE b == Tail(back)
<1>1. /\ \A k \in 1..Len(b) : k \in Nat /\ k + 1 \in 1..Len(back) /\ k + 1 # 1 /\ b[k] = back[k + 1]
      /\ 1 \in 1..Len(back) /\ back[1] = Head(back)
  BY TailPlaces
<1> HIDE DEF b
<1> QED  BY <1>1 DEF OnTheWay, b

\* Something that comes back is read.
LEMMA Reads ==
    ASSUME NEW M, NEW there, NEW back \in Seq(M), back # <<>>, NEW open, OnTheWay(there, back, open)
    PROVE  OnTheWay(there, Tail(back), open)
<1> DEFINE b == Tail(back)
<1>1. \A k \in 1..Len(b) : k \in Nat /\ k + 1 \in 1..Len(back) /\ b[k] = back[k + 1]
  BY TailPlaces
<1> HIDE DEF b
<1> QED  BY <1>1 DEF OnTheWay, b

-----------------------------------------------------------------------------
Methods ==
    {"stop", "restart", "server_ping"} \cup {r[1] : r \in UNION {UNION Range(Requests[c]) : c \in Peers}}

Message ==
    [kind : {"request"}, id : Nat, method : Methods, params : Params]
      \cup [kind : {"response"}, id : Nat, ok : BOOLEAN]
      \cup [kind : {"notification", "garbage"}]

ProtocolTypeOK ==
    /\ conn \in [Peers -> {"open", "closing", "closed"}] /\ verified \subseteq Peers
    /\ toService \in [Peers -> Seq(Message)] /\ toClient \in [Peers -> Seq(Message)]
    /\ toChild \in Seq(Message) /\ fromChild \in Seq(Message)
    /\ nextId \in Nat /\ pending \in [Peers \cup {"child"} -> SUBSET Nat]
    /\ DOMAIN asked = Peers /\ asked = [c \in Peers |-> asked[c]]
    /\ \A c \in Peers : DOMAIN asked[c] \subseteq Nat
    /\ count \in [Peers -> Nat]

\* The next number of every end is new to its table.
NewIdInv ==
    /\ \A c \in Peers : \A i \in DOMAIN asked[c] : i <= count[c]
    /\ \A x \in Peers \cup {"child"} : \A i \in pending[x] : i < nextId

\* A client's requests and the answers to them.
ClientInv == \A c \in Peers : OnTheWay(toService[c], toClient[c], DOMAIN asked[c])

\* The service's pings and the answers to them.
PingInv == \A c \in Peers : conn[c] # "closed" => OnTheWay(toClient[c], toService[c], pending[c])

\* The commands to the stream process and its answers.
ChildInv ==
    /\ child = "none" => toChild = <<>> /\ fromChild = <<>>
    /\ \A k \in 1..Len(toChild) : toChild[k].kind = "request"
    /\ linked => OnTheWay(toChild, fromChild, pending["child"])

ProtocolInv ==
    ProtocolTypeOK /\ NewIdInv /\ ClientInv /\ PingInv /\ ChildInv /\ ~stray

\* Messages are messages.
LEMMA MessageTypes ==
    /\ \A i \in Nat, m \in Methods, p \in Params :
           Request(i, m, p) \in Message /\ Request(i, m, p).kind = "request" /\ Request(i, m, p).id = i
    /\ \A i \in Nat, ok \in BOOLEAN :
           Response(i, ok) \in Message /\ Response(i, ok).kind = "response" /\ Response(i, ok).id = i
    /\ Notification \in Message /\ Notification.kind = "notification"
    /\ [kind |-> "garbage"] \in Message /\ [kind |-> "garbage"].kind = "garbage"
    /\ \A m \in Message : m.kind \in {"request", "response"} => m.id \in Nat
<1>1. \A i \in Nat, m \in Methods, p \in Params :
           Request(i, m, p) \in Message /\ Request(i, m, p).kind = "request" /\ Request(i, m, p).id = i
  BY DEF Request, Message
<1>2. ASSUME NEW i \in Nat, NEW ok \in BOOLEAN
      PROVE  Response(i, ok) \in Message /\ Response(i, ok).kind = "response" /\ Response(i, ok).id = i
  <2>1. Response(i, ok) \in [kind : {"response"}, id : Nat, ok : BOOLEAN]
    BY Zenon DEF Response
  <2>2. Response(i, ok).kind = "response" /\ Response(i, ok).id = i
    BY DEF Response
  <2> QED  BY <2>1, <2>2 DEF Message
<1>3. Notification \in Message /\ Notification.kind = "notification"
  BY DEF Notification, Message
<1>4. [kind |-> "garbage"] \in Message /\ [kind |-> "garbage"].kind = "garbage"
  BY DEF Message
<1>5. \A m \in Message : m.kind \in {"request", "response"} => m.id \in Nat
  BY DEF Message
<1> QED  BY <1>1, <1>2, <1>3, <1>4, <1>5

\* Nothing is on its way over a new connection.
LEMMA NothingYet == ASSUME NEW open  PROVE OnTheWay(<<>>, <<>>, open)
<1>1. Len(<<>>) = 0
  BY EmptySeq
<1> QED  BY <1>1 DEF OnTheWay

\* The invariant holds initially.
LEMMA InitProtocolInv == ProtocolInit => ProtocolInv
<1> SUFFICES ASSUME ProtocolInit  PROVE ProtocolInv
  OBVIOUS
<1>1. <<>> \in Seq(Message) /\ DOMAIN <<>> = {}
  BY EmptySeq
<1>2. ProtocolTypeOK
  BY <1>1 DEF ProtocolInit, ProtocolTypeOK
<1>3. NewIdInv
  BY <1>1 DEF ProtocolInit, NewIdInv
<1>4. ClientInv /\ PingInv /\ ChildInv /\ ~stray
  BY NothingYet DEF ProtocolInit, ClientInv, PingInv, ChildInv
<1> QED  BY <1>2, <1>3, <1>4 DEF ProtocolInv

\* What a handler of a request may do to the conversations: it answers or not,
\* and sends a command to the stream, or starts it, or neither.
LEMMA HandlersAnswer ==
    ASSUME NEW c \in Peers, NEW m, HandleRequestServiceCommand(c, m)
    PROVE  /\ toClient' = toClient \/ \E ok \in BOOLEAN : Answer(c, m, ok)
           /\ verified' = verified \/ verified' = verified \cup {c}
           /\ \/ UNCHANGED <<childVars, nextId, pending>>
              \/ SendCommand("stop") \/ SendCommand("restart")
              \/ /\ child = "none" /\ child' = "running" /\ linked' = TRUE
                 /\ UNCHANGED <<toChild, fromChild, reports, nextId, pending>>
<1> USE DEF Ignored, Others
<1> DEFINE Effect ==
           /\ toClient' = toClient \/ \E ok \in BOOLEAN : Answer(c, m, ok)
           /\ verified' = verified \/ verified' = verified \cup {c}
           /\ \/ UNCHANGED <<childVars, nextId, pending>>
              \/ SendCommand("stop") \/ SendCommand("restart")
              \/ /\ child = "none" /\ child' = "running" /\ linked' = TRUE
                 /\ UNCHANGED <<toChild, fromChild, reports, nextId, pending>>
<1>1. Registered \in BOOLEAN /\ (~stopping) \in BOOLEAN
  <2>1. Registered \in BOOLEAN
    BY DEF Registered
  <2>2. (~stopping) \in BOOLEAN
    BY Zenon
  <2> QED  BY <2>1, <2>2
<1>2. ASSUME HandleRequestClientStartStream(c, m)  PROVE Effect
  BY <1>2, Zenon DEF HandleRequestClientStartStream
<1>3. ASSUME HandleRequestClientStopStream(c, m)  PROVE Effect
  BY <1>1, <1>3, Zenon DEF HandleRequestClientStopStream
<1>4. ASSUME HandleRequestClientRestartStream(c, m)  PROVE Effect
  BY <1>1, <1>4, Zenon DEF HandleRequestClientRestartStream
<1>5. ASSUME \/ HandleRequestClientGetLogStream(c, m) \/ HandleRequestClientGetPipelineStream(c, m)
             \/ HandleRequestClientPrepareService(c, m) \/ HandleRequestClientSyncService(c, m)
             \/ HandleRequestClientPingService(c, m) \/ HandleRequestClientGetLogService(c, m)
      PROVE  Effect
  BY <1>5, Zenon DEF HandleRequestClientGetLogStream, HandleRequestClientGetPipelineStream,
     HandleRequestClientPrepareService, HandleRequestClientSyncService,
     HandleRequestClientPingService, HandleRequestClientGetLogService
<1>6. ASSUME HandleRequestClientStopService(c, m)  PROVE Effect
  BY <1>1, <1>6, Zenon DEF HandleRequestClientStopService
<1>7. ASSUME HandleRequestClientActivate(c, m)  PROVE Effect
  <2>1. CASE m.params = "good"
    BY <1>7, <2>1, Zenon DEF HandleRequestClientActivate
  <2>2. CASE m.params \in {"incomplete", "wrong license"}
    <3>1. m.params # "good"
      BY <2>2
    <3>2. Answer(c, m, FALSE) /\ UNCHANGED Others
      BY <1>7, <2>2, <3>1 DEF HandleRequestClientActivate
    <3> QED  BY <3>2, Zenon
  <2>3. CASE m.params # "good" /\ m.params \notin {"incomplete", "wrong license"}
    BY <1>7, <2>3, Zenon DEF HandleRequestClientActivate
  <2> QED  BY <2>1, <2>2, <2>3
<1>8. ASSUME Ignored  PROVE Effect
  BY <1>8, Zenon
<1> HIDE DEF Effect, Ignored
<1>9. Effect
  BY <1>2, <1>3, <1>4, <1>5, <1>6, <1>7, <1>8 DEF HandleRequestServiceCommand
<1> QED  BY <1>9 DEF Effect

\* A command to the stream process: its number is new.
LEMMA CommandKeeps ==
    ASSUME ProtocolInv, NEW method \in Methods, SendCommand(method)
    PROVE  /\ nextId' \in Nat /\ nextId < nextId' /\ toChild' \in Seq(Message) /\ fromChild' = fromChild
           /\ pending' \in [Peers \cup {"child"} -> SUBSET Nat]
           /\ \A x \in Peers : pending'[x] = pending[x]
           /\ \A i \in pending'["child"] : i < nextId'
           /\ ChildInv'
<1> DEFINE e == Request(nextId, method, "none")
<1>1. e \in Message /\ e.kind = "request" /\ e.id = nextId
  <2>1. nextId \in Nat
    BY DEF ProtocolInv, ProtocolTypeOK
  <2>2. "none" \in Params
    BY DEF Params
  <2> QED  BY <2>1, <2>2, MessageTypes
<1>2. nextId \in Nat /\ nextId' = nextId + 1
  BY DEF ProtocolInv, ProtocolTypeOK, SendCommand, NextRequestID
<1>3. /\ toChild \in Seq(Message) /\ pending \in [Peers \cup {"child"} -> SUBSET Nat]
      /\ \A i \in pending["child"] : i < nextId
  BY DEF ProtocolInv, ProtocolTypeOK, NewIdInv
<1>4. UNCHANGED <<child, linked, fromChild>>
  BY DEF SendCommand
<1>5. CASE linked /\ child = "running"
  <2>1. /\ toChild' = Append(toChild, e)
        /\ pending' = [pending EXCEPT !["child"] = @ \cup {nextId}]
    BY <1>5 DEF SendCommand
  <2> HIDE DEF e
  <2>2. pending'["child"] = pending["child"] \cup {e.id} /\ e.id \notin pending["child"]
    BY <1>1, <1>2, <1>3, <2>1
  <2>3. OnTheWay(toChild, fromChild, pending["child"])
    BY <1>5 DEF ProtocolInv, ChildInv
  <2>4. OnTheWay(toChild', fromChild', pending'["child"])
    BY <1>1, <1>3, <1>4, <2>1, <2>2, <2>3, Asks
  <2>5. \A k \in 1..Len(toChild') : toChild'[k].kind = "request"
    BY <1>1, <1>3, <2>1, AppendPlaces DEF ProtocolInv, ChildInv
  <2>6. ChildInv'
    BY <1>4, <1>5, <2>4, <2>5 DEF ChildInv
  <2>7. "child" \notin Peers
    BY RequestsAssumption
  <2> QED  BY <1>1, <1>2, <1>3, <1>4, <2>1, <2>2, <2>6, <2>7, AppendPlaces
<1>6. CASE ~(linked /\ child = "running")
  <2>1. UNCHANGED <<toChild, pending>>
    BY <1>6 DEF SendCommand
  <2>2. ChildInv'
    BY <1>4, <2>1 DEF ProtocolInv, ChildInv
  <2> QED  BY <1>2, <1>3, <1>4, <2>1, <2>2
<1> QED  BY <1>5, <1>6

\* DaemonDataReceived: requests, answers to pings, and what is neither.
LEMMA DaemonReadsInv ==
    ASSUME ProtocolInv, NEW c \in Peers, DaemonDataReceived(c)
    PROVE  ProtocolInv'
<1> DEFINE m == Head(toService[c])
           q == toService[c]
<1>1. /\ q \in Seq(Message) /\ q # <<>> /\ conn[c] # "closed" /\ toClient[c] \in Seq(Message)
      /\ toService' = [toService EXCEPT ![c] = Tail(@)] /\ asked' = asked /\ count' = count
  BY DEF DaemonDataReceived, ProtocolInv, ProtocolTypeOK
<1>2. m \in Message /\ Tail(q) \in Seq(Message)
  BY <1>1, TailPlaces
<1>3. /\ OnTheWay(q, toClient[c], DOMAIN asked[c]) /\ OnTheWay(toClient[c], q, pending[c])
  BY <1>1 DEF ProtocolInv, ClientInv, PingInv
<1>4. /\ toService' \in [Peers -> Seq(Message)] /\ toService'[c] = Tail(q)
      /\ \A d \in Peers \ {c} : toService'[d] = toService[d]
  BY <1>1, <1>2 DEF ProtocolInv, ProtocolTypeOK
<1>5. /\ OnTheWay(Tail(q), toClient[c], DOMAIN asked[c]) /\ OnTheWay(toClient[c], Tail(q), pending[c])
  BY <1>1, <1>3, Drops, Reads
<1> HIDE DEF m, q
<1>6. CASE m.kind = "request"
  <2>1. HandleRequestServiceCommand(c, m) /\ conn' = conn /\ stray' = stray
    BY <1>6 DEF DaemonDataReceived, m
  <2>2. PICK s \in Seq(Message) : /\ toClient' = [toClient EXCEPT ![c] = s]
                                  /\ OnTheWay(Tail(q), s, DOMAIN asked[c])
                                  /\ OnTheWay(s, Tail(q), pending[c])
    <3>1. CASE toClient' = toClient
      <4>1. toClient = [toClient EXCEPT ![c] = toClient[c]]
        BY DEF ProtocolInv, ProtocolTypeOK
      <4> QED  BY <1>1, <1>5, <3>1, <4>1
    <3>2. ASSUME NEW ok \in BOOLEAN, Answer(c, m, ok)
          PROVE  \E s \in Seq(Message) : /\ toClient' = [toClient EXCEPT ![c] = s]
                                         /\ OnTheWay(Tail(q), s, DOMAIN asked[c])
                                         /\ OnTheWay(s, Tail(q), pending[c])
      <4> DEFINE e == Response(m.id, ok)
                 s == Append(toClient[c], e)
      <4>1. e \in Message /\ e.kind = "response" /\ e.id = m.id
        BY <1>2, <1>6, MessageTypes
      <4>2. toClient' = [toClient EXCEPT ![c] = s]
        BY <3>2 DEF Answer
      <4> HIDE DEF e
      <4>3. OnTheWay(Tail(q), s, DOMAIN asked[c])
        BY <1>1, <1>3, <1>6, <4>1, Answers DEF m, q
      <4>4. OnTheWay(s, Tail(q), pending[c])
        BY <1>1, <1>5, <4>1, Says
      <4>5. s \in Seq(Message)
        BY <1>1, <4>1, AppendPlaces
      <4> QED  BY <4>2, <4>3, <4>4, <4>5
    <3> QED  BY <2>1, <3>1, <3>2, HandlersAnswer
  <2>3. /\ verified' \subseteq Peers
    <3>1. verified' = verified \/ verified' = verified \cup {c}
      BY <2>1, HandlersAnswer
    <3> QED  BY <3>1 DEF ProtocolInv, ProtocolTypeOK
  <2>4. /\ nextId' \in Nat /\ nextId <= nextId' /\ toChild' \in Seq(Message) /\ fromChild' = fromChild
        /\ pending' \in [Peers \cup {"child"} -> SUBSET Nat]
        /\ \A x \in Peers : pending'[x] = pending[x]
        /\ \A i \in pending'["child"] : i < nextId'
        /\ ChildInv'
    <3>1. CASE UNCHANGED <<childVars, nextId, pending>>
      BY <3>1 DEF childVars, ProtocolInv, ProtocolTypeOK, NewIdInv, ChildInv
    <3>2. CASE SendCommand("stop") \/ SendCommand("restart")
      <4>1. "stop" \in Methods /\ "restart" \in Methods
        BY DEF Methods
      <4>2. /\ nextId' \in Nat /\ nextId < nextId' /\ toChild' \in Seq(Message) /\ fromChild' = fromChild
            /\ pending' \in [Peers \cup {"child"} -> SUBSET Nat]
            /\ \A x \in Peers : pending'[x] = pending[x]
            /\ \A i \in pending'["child"] : i < nextId'
            /\ ChildInv'
        BY <3>2, <4>1, CommandKeeps
      <4>3. nextId \in Nat
        BY DEF ProtocolInv, ProtocolTypeOK
      <4> QED  BY <4>2, <4>3
    <3>3. CASE /\ child = "none" /\ child' = "running" /\ linked' = TRUE
               /\ UNCHANGED <<toChild, fromChild, reports, nextId, pending>>
      <4>1. ChildInv'
        BY <3>3, NothingYet DEF ProtocolInv, ChildInv
      <4> QED  BY <3>3, <4>1 DEF ProtocolInv, ProtocolTypeOK, NewIdInv
    <3> QED  BY <2>1, <3>1, <3>2, <3>3, HandlersAnswer
  <2>5. /\ toClient' \in [Peers -> Seq(Message)] /\ toClient'[c] = s
        /\ \A d \in Peers \ {c} : toClient'[d] = toClient[d]
    BY <2>2 DEF ProtocolInv, ProtocolTypeOK
  <2>6. ProtocolTypeOK'
    BY <1>1, <1>4, <2>1, <2>3, <2>4, <2>5 DEF ProtocolInv, ProtocolTypeOK
  <2>7. NewIdInv'
    BY <1>1, <2>4 DEF ProtocolInv, ProtocolTypeOK, NewIdInv
  <2>8. ClientInv'
    BY <1>1, <1>4, <2>2, <2>5 DEF ProtocolInv, ClientInv
  <2>9. PingInv'
    BY <1>4, <2>1, <2>2, <2>4, <2>5 DEF ProtocolInv, PingInv
  <2> QED  BY <2>1, <2>4, <2>6, <2>7, <2>8, <2>9 DEF ProtocolInv
<1>7. CASE m.kind = "response"
  <2>1. HandleResponceServiceCommand(c, m) /\ conn' = conn
    BY <1>7 DEF DaemonDataReceived, m
  <2>2. UNCHANGED <<toClient, verified, childVars, nextId>>
    BY <2>1 DEF HandleResponceServiceCommand
  <2>3. m.id \in pending[c] /\ OnTheWay(toClient[c], Tail(q), pending[c] \ {m.id})
    BY <1>1, <1>3, <1>7, Finds DEF m, q
  <2>4. /\ pending' \in [Peers \cup {"child"} -> SUBSET Nat] /\ pending'["child"] = pending["child"]
        /\ pending'[c] \subseteq pending[c] /\ OnTheWay(toClient[c], Tail(q), pending'[c]) /\ ~stray'
        /\ \A x \in Peers \ {c} : pending'[x] = pending[x]
    <3>1. CASE c \in verified
      <4>1. pending' = [pending EXCEPT ![c] = @ \ {m.id}] /\ stray' = (stray \/ m.id \notin pending[c])
        BY <2>1, <3>1 DEF HandleResponceServiceCommand, PopRequestByID
      <4> QED  BY <2>3, <4>1, RequestsAssumption DEF ProtocolInv, ProtocolTypeOK
    <3>2. CASE c \notin verified
      BY <1>5, <2>1, <3>2 DEF HandleResponceServiceCommand, ProtocolInv, ProtocolTypeOK
    <3> QED  BY <3>1, <3>2
  <2>5. ProtocolTypeOK'
    BY <1>1, <1>4, <2>1, <2>2, <2>4 DEF ProtocolInv, ProtocolTypeOK, childVars
  <2>6. NewIdInv'
    BY <1>1, <2>2, <2>4 DEF ProtocolInv, NewIdInv
  <2>7. ClientInv'
    BY <1>1, <1>4, <1>5, <2>2 DEF ProtocolInv, ClientInv
  <2>8. PingInv'
    BY <1>4, <2>1, <2>2, <2>4 DEF ProtocolInv, PingInv
  <2>9. ChildInv'
    BY <2>2, <2>4 DEF ProtocolInv, ChildInv, childVars
  <2> QED  BY <2>4, <2>5, <2>6, <2>7, <2>8, <2>9 DEF ProtocolInv
<1>8. CASE m.kind \notin {"request", "response"}
  <2>1. /\ Delete({c}) /\ pending' = [pending EXCEPT ![c] = {}]
        /\ UNCHANGED <<toClient, stopping, childVars, nextId, stray>>
    BY <1>8 DEF DaemonDataReceived, m
  <2>2. /\ pending' \in [Peers \cup {"child"} -> SUBSET Nat] /\ pending'["child"] = pending["child"]
        /\ pending'[c] = {} /\ \A x \in Peers \ {c} : pending'[x] = pending[x]
    BY <2>1, RequestsAssumption DEF ProtocolInv, ProtocolTypeOK
  <2>3. /\ conn' \in [Peers -> {"open", "closing", "closed"}] /\ conn'[c] = "closed"
        /\ verified' \subseteq Peers /\ \A x \in Peers \ {c} : conn'[x] = conn[x]
    BY <2>1 DEF Delete, ProtocolInv, ProtocolTypeOK
  <2>4. ProtocolTypeOK'
    BY <1>1, <1>4, <2>1, <2>2, <2>3 DEF ProtocolInv, ProtocolTypeOK, childVars
  <2>5. NewIdInv'
    BY <1>1, <2>1, <2>2 DEF ProtocolInv, NewIdInv
  <2>6. ClientInv'
    BY <1>1, <1>4, <1>5, <2>1 DEF ProtocolInv, ClientInv
  <2>7. PingInv'
    BY <1>4, <2>1, <2>2, <2>3 DEF ProtocolInv, PingInv
  <2>8. ChildInv' /\ ~stray'
    BY <2>1, <2>2 DEF ProtocolInv, ChildInv, childVars
  <2> QED  BY <2>4, <2>5, <2>6, <2>7, <2>8 DEF ProtocolInv
<1> QED  BY <1>6, <1>7, <1>8

\* SetToSeq lists every element.
LEMMA AllListed ==
    ASSUME NEW S, IsFiniteSet(S)
    PROVE  /\ Len(SetToSeq(S)) \in Nat
           /\ \A x \in S : \E i \in 1..Len(SetToSeq(S)) : SetToSeq(S)[i] = x
<1> DEFINE n == Cardinality(S)
           f == SetToSeq(S)
<1>1. n \in Nat /\ IsFiniteSet(1..n) /\ Cardinality(1..n) = n
  BY FS_CardinalityType, FS_Interval
<1>2. PICK g \in Bijection(1..n, S) : TRUE
  BY FS_CardinalityType DEF ExistsBijection
<1>3. g \in [1..n -> S] /\ IsInjective(g)
  BY <1>2 DEF Bijection, Injection, IsInjective
<1>4. f \in [1..n -> S] /\ IsInjective(f)
  BY <1>3 DEF SetToSeq
<1> HIDE DEF f, n
<1>5. f \in Injection(1..n, S)
  BY <1>4 DEF Injection, IsInjective
<1>6. f \in Surjection(1..n, S)
  BY <1>1, <1>5, FS_Injection DEF n
<1>7. \A x \in S : \E i \in 1..n : f[i] = x
  BY <1>6 DEF Surjection
<1>8. f \in Seq(S) /\ Len(f) = n
  BY <1>1, <1>4, SeqDef, LenProperties
<1> QED  BY <1>1, <1>7, <1>8 DEF f

\* The ping timer: the numbers it gives out are new.
LEMMA PingInvKept ==
    ASSUME ProtocolInv, PingTimer
    PROVE  ProtocolInv'
<1> DEFINE order == SetToSeq(verified)
           number == [c \in verified |-> nextId + (CHOOSE i \in 1..Len(order) : order[i] = c) - 1]
           failed == {c \in verified : conn[c] = "closing"}
           pinged == verified \ failed
<1>1. verified \subseteq Peers /\ IsFiniteSet(verified) /\ nextId \in Nat
  BY RequestsAssumption, FS_Subset DEF ProtocolInv, ProtocolTypeOK
<1>2. Len(order) \in Nat /\ \A c \in verified : \E i \in 1..Len(order) : order[i] = c
  BY <1>1, AllListed
<1>3. \A c \in verified : number[c] \in Nat /\ nextId <= number[c] /\ number[c] < nextId + Len(order)
  <2> SUFFICES ASSUME NEW c \in verified
               PROVE  number[c] \in Nat /\ nextId <= number[c] /\ number[c] < nextId + Len(order)
    OBVIOUS
  <2> DEFINE i == CHOOSE i \in 1..Len(order) : order[i] = c
  <2>1. i \in 1..Len(order)
    BY <1>2
  <2>2. number[c] = nextId + i - 1
    OBVIOUS
  <2> HIDE DEF i, number, order
  <2> QED  BY <1>1, <1>2, <2>1, <2>2
<1> HIDE DEF order, number
<1>4. /\ nextId' = nextId + Len(order)
      /\ toClient' = [c \in Peers |-> IF c \in pinged
             THEN Append(toClient[c], Request(number[c], "server_ping", "good")) ELSE toClient[c]]
      /\ pending' = [x \in DOMAIN pending |-> IF x \in pinged THEN pending[x] \cup {number[x]}
                                         ELSE IF x \in failed THEN {} ELSE pending[x]]
      /\ Delete(failed)
      /\ UNCHANGED <<toService, asked, sure, count, active, childVars, stopping, stray>>
  BY DEF PingTimer, order, number
<1> HIDE DEF failed, pinged
<1>5. pinged \subseteq verified /\ failed \subseteq verified /\ pinged \cap failed = {}
  BY DEF pinged, failed
<1>6. ASSUME NEW c \in pinged
      PROVE  LET e == Request(number[c], "server_ping", "good")
             IN  /\ e \in Message /\ e.kind = "request" /\ e.id = number[c]
                 /\ toClient'[c] = Append(toClient[c], e) /\ toClient'[c] \in Seq(Message)
                 /\ pending'[c] = pending[c] \cup {e.id} /\ e.id \notin pending[c]
  <2> DEFINE e == Request(number[c], "server_ping", "good")
  <2>1. number[c] \in Nat /\ "server_ping" \in Methods /\ "good" \in Params
    BY <1>3, <1>5, <1>6 DEF Methods, Params
  <2>2. e \in Message /\ e.kind = "request" /\ e.id = number[c]
    BY <2>1, MessageTypes
  <2>3. c \in Peers /\ c \in verified
    BY <1>1, <1>5, <1>6
  <2>4. toClient'[c] = Append(toClient[c], e)
    BY <1>4, <2>3
  <2> HIDE DEF e
  <2>5. toClient'[c] \in Seq(Message)
    BY <2>2, <2>3, <2>4, AppendPlaces DEF ProtocolInv, ProtocolTypeOK
  <2>6. pending'[c] = pending[c] \cup {e.id}
    BY <1>4, <1>6, <2>2, <2>3 DEF ProtocolInv, ProtocolTypeOK
  <2>7. e.id \notin pending[c]
    BY <1>1, <1>3, <2>2, <2>3 DEF ProtocolInv, ProtocolTypeOK, NewIdInv
  <2> QED  BY <2>2, <2>4, <2>5, <2>6, <2>7 DEF e
<1>7. ASSUME NEW c \in Peers, c \notin pinged
      PROVE  toClient'[c] = toClient[c] /\ (pending'[c] = pending[c] \/ (c \in failed /\ pending'[c] = {}))
  <2>1. c \in DOMAIN pending
    BY DEF ProtocolInv, ProtocolTypeOK
  <2>2. pending'[c] = IF c \in failed THEN {} ELSE pending[c]
    BY <1>4, <1>7, <2>1
  <2>3. toClient'[c] = toClient[c]
    BY <1>4, <1>7
  <2> QED  BY <2>2, <2>3
<1>8. pending'["child"] = pending["child"] /\ pending' = [x \in Peers \cup {"child"} |-> pending'[x]]
  BY <1>1, <1>4, <1>5, RequestsAssumption DEF ProtocolInv, ProtocolTypeOK
<1>9. ASSUME NEW x \in Peers \cup {"child"}
      PROVE  pending'[x] \in SUBSET Nat /\ \A i \in pending'[x] : i < nextId'
  <2>0. pending[x] \in SUBSET Nat /\ nextId' \in Nat /\ nextId <= nextId' /\ \A i \in pending[x] : i < nextId'
    BY <1>1, <1>2, <1>4 DEF ProtocolInv, ProtocolTypeOK, NewIdInv
  <2>1. CASE x \in pinged
    <3>1. pending'[x] = pending[x] \cup {number[x]}
      BY <1>6, <2>1
    <3>2. number[x] \in Nat /\ number[x] < nextId'
      BY <1>3, <1>4, <1>5, <2>1
    <3> QED  BY <2>0, <3>1, <3>2
  <2>2. CASE x \notin pinged
    BY <1>7, <1>8, <2>0, <2>2
  <2> QED  BY <2>1, <2>2
<1>10. ProtocolTypeOK'
  <2>1. conn' \in [Peers -> {"open", "closing", "closed"}] /\ verified' \subseteq Peers
    BY <1>1, <1>4 DEF Delete, ProtocolInv, ProtocolTypeOK
  <2>2. toClient' \in [Peers -> Seq(Message)]
    BY <1>4, <1>6, <1>7 DEF ProtocolInv, ProtocolTypeOK
  <2>3. pending' \in [Peers \cup {"child"} -> SUBSET Nat]
    BY <1>8, <1>9
  <2>4. nextId' \in Nat
    BY <1>1, <1>2, <1>4
  <2> QED  BY <1>4, <2>1, <2>2, <2>3, <2>4 DEF ProtocolInv, ProtocolTypeOK, childVars
<1>11. NewIdInv'
  BY <1>4, <1>9 DEF ProtocolInv, NewIdInv
<1>12. ClientInv'
  <2> SUFFICES ASSUME NEW c \in Peers
               PROVE  OnTheWay(toService[c], toClient'[c], DOMAIN asked[c])
    BY <1>4 DEF ClientInv
  <2>0. OnTheWay(toService[c], toClient[c], DOMAIN asked[c]) /\ toClient[c] \in Seq(Message)
    BY DEF ProtocolInv, ClientInv, ProtocolTypeOK
  <2>1. CASE c \in pinged
    <3> DEFINE e == Request(number[c], "server_ping", "good")
    <3>1. e \in Message /\ e.kind = "request" /\ toClient'[c] = Append(toClient[c], e)
      BY <1>6, <2>1
    <3> HIDE DEF e
    <3>2. e.kind # "response"
      BY <3>1
    <3> QED  BY <2>0, <3>1, <3>2, Hears
  <2>2. CASE c \notin pinged
    BY <1>7, <2>0, <2>2
  <2> QED  BY <2>1, <2>2
<1>13. PingInv'
  <2> SUFFICES ASSUME NEW c \in Peers, conn'[c] # "closed"
               PROVE  OnTheWay(toClient'[c], toService[c], pending'[c])
    BY <1>4 DEF PingInv
  <2>1. conn[c] # "closed" /\ c \notin failed
    BY <1>4 DEF Delete
  <2>0. OnTheWay(toClient[c], toService[c], pending[c]) /\ toClient[c] \in Seq(Message)
    BY <2>1 DEF ProtocolInv, PingInv, ProtocolTypeOK
  <2>2. CASE c \in pinged
    <3> DEFINE e == Request(number[c], "server_ping", "good")
    <3>1. /\ e \in Message /\ e.kind = "request" /\ toClient'[c] = Append(toClient[c], e)
          /\ pending'[c] = pending[c] \cup {e.id} /\ e.id \notin pending[c]
      BY <1>6, <2>2
    <3> HIDE DEF e
    <3> QED  BY <2>0, <3>1, Asks
  <2>3. CASE c \notin pinged
    BY <1>7, <2>0, <2>1, <2>3
  <2> QED  BY <2>2, <2>3
<1>14. ChildInv' /\ ~stray'
  BY <1>4, <1>8 DEF ProtocolInv, ChildInv, childVars
<1> QED  BY <1>10, <1>11, <1>12, <1>13, <1>14 DEF ProtocolInv

\* A client sends, in its turn.
LEMMA ClientSendsInv ==
    ASSUME ProtocolInv, NEW c \in Peers, NEW r \in UNION Range(Requests[c]), ClientSends(c, r[1], r[2])
    PROVE  ProtocolInv'
<1> DEFINE i == count[c] + 1
           e == Request(i, r[1], r[2])
<1>1. count[c] \in Nat /\ i \in Nat /\ toService[c] \in Seq(Message) /\ toClient[c] \in Seq(Message)
  BY DEF ProtocolInv, ProtocolTypeOK
<1>2. r[1] \in Methods
  BY DEF Methods
<1>3. r[2] \in Params
  <2>1. i \in DOMAIN Requests[c] /\ <<r[1], r[2]>> \in Requests[c][i]
    BY DEF ClientSends
  <2>2. <<r[1], r[2]>>[2] = r[2]
    OBVIOUS
  <2> QED  BY <2>1, <2>2, RequestsAssumption
<1>4. e \in Message /\ e.kind = "request" /\ e.id = i
  BY <1>1, <1>2, <1>3, MessageTypes
<1>5. /\ count' = [count EXCEPT ![c] = i] /\ toService' = [toService EXCEPT ![c] = Append(@, e)]
      /\ asked' = [asked EXCEPT ![c] = [n \in DOMAIN @ \cup {i} |->
                                            IF n = i THEN r[1] = "activate" ELSE @[n]]]
      /\ UNCHANGED <<conn, verified, toClient, childVars, nextId, pending, stray>>
  BY DEF ClientSends
<1> HIDE DEF e
<1>6. i \notin DOMAIN asked[c]
  BY <1>1 DEF ProtocolInv, NewIdInv, ProtocolTypeOK
<1> HIDE DEF i
<1>7. /\ DOMAIN asked' = Peers /\ asked' = [d \in Peers |-> asked'[d]]
      /\ DOMAIN asked'[c] = DOMAIN asked[c] \cup {i} /\ \A d \in Peers \ {c} : asked'[d] = asked[d]
  BY <1>5 DEF ProtocolInv, ProtocolTypeOK
<1>8. /\ Append(toService[c], e) \in Seq(Message) /\ toService'[c] = Append(toService[c], e)
      /\ \A d \in Peers \ {c} : toService'[d] = toService[d]
  BY <1>1, <1>4, <1>5, AppendPlaces DEF ProtocolInv, ProtocolTypeOK
<1>9. toService' \in [Peers -> Seq(Message)] /\ count' \in [Peers -> Nat]
  BY <1>1, <1>5, <1>8 DEF ProtocolInv, ProtocolTypeOK
<1>10. ProtocolTypeOK'
  BY <1>1, <1>5, <1>7, <1>9 DEF ProtocolInv, ProtocolTypeOK, childVars
<1>11. NewIdInv'
  <2>1. count'[c] = i /\ i = count[c] + 1 /\ \A d \in Peers \ {c} : count'[d] = count[d]
    BY <1>5 DEF i, ProtocolInv, ProtocolTypeOK
  <2> QED  BY <1>1, <1>5, <1>7, <2>1 DEF ProtocolInv, ProtocolTypeOK, NewIdInv
<1>12. ClientInv'
  <2>1. OnTheWay(toService[c], toClient[c], DOMAIN asked[c])
    BY DEF ProtocolInv, ClientInv
  <2>2. OnTheWay(toService'[c], toClient'[c], DOMAIN asked'[c])
    BY <1>1, <1>4, <1>5, <1>6, <1>7, <1>8, <2>1, Asks
  <2> QED  BY <1>5, <1>7, <1>8, <2>2 DEF ProtocolInv, ClientInv
<1>13. PingInv'
  <2>0. e.kind # "response"
    BY <1>4
  <2>1. conn[c] # "closed" => OnTheWay(toClient[c], toService[c], pending[c])
    BY DEF ProtocolInv, PingInv
  <2>2. conn[c] # "closed" => OnTheWay(toClient'[c], toService'[c], pending'[c])
    BY <1>1, <1>4, <1>5, <1>8, <2>0, <2>1, Hears
  <2> QED  BY <1>5, <1>8, <2>2 DEF ProtocolInv, PingInv
<1>14. ChildInv' /\ ~stray'
  BY <1>5 DEF ProtocolInv, ChildInv, childVars
<1> QED  BY <1>10, <1>11, <1>12, <1>13, <1>14 DEF ProtocolInv

\* Whatever else a client writes that is neither request nor answer.
LEMMA ClientGarblesInv ==
    ASSUME ProtocolInv, NEW c \in Peers, ClientGarbles(c)
    PROVE  ProtocolInv'
<1> DEFINE e == [kind |-> "garbage"]
<1>1. e \in Message /\ e.kind # "request" /\ e.kind # "response"
  BY MessageTypes
<1>2. /\ count' = [count EXCEPT ![c] = @ + 1] /\ toService' = [toService EXCEPT ![c] = Append(@, e)]
      /\ UNCHANGED <<conn, verified, toClient, asked, childVars, nextId, pending, stray>>
  BY DEF ClientGarbles
<1> HIDE DEF e
<1>3. toService[c] \in Seq(Message) /\ toClient[c] \in Seq(Message) /\ count[c] \in Nat
  BY DEF ProtocolInv, ProtocolTypeOK
<1>4. /\ Append(toService[c], e) \in Seq(Message) /\ toService'[c] = Append(toService[c], e)
      /\ \A d \in Peers \ {c} : toService'[d] = toService[d]
  BY <1>1, <1>2, <1>3, AppendPlaces DEF ProtocolInv, ProtocolTypeOK
<1>5. toService' \in [Peers -> Seq(Message)] /\ count' \in [Peers -> Nat]
      /\ \A d \in Peers : count[d] <= count'[d]
  BY <1>2, <1>3, <1>4 DEF ProtocolInv, ProtocolTypeOK
<1>6. ProtocolTypeOK'
  BY <1>2, <1>5 DEF ProtocolInv, ProtocolTypeOK, childVars
<1>7. NewIdInv'
  <2>1. ASSUME NEW d \in Peers, NEW i \in DOMAIN asked[d]  PROVE i <= count'[d]
    <3>1. i \in Nat /\ i <= count[d] /\ count[d] \in Nat /\ count'[d] \in Nat /\ count[d] <= count'[d]
      BY <1>5, <2>1 DEF ProtocolInv, ProtocolTypeOK, NewIdInv
    <3> QED  BY <3>1
  <2> QED  BY <1>2, <2>1 DEF ProtocolInv, NewIdInv
<1>8. ClientInv'
  <2>1. OnTheWay(toService[c], toClient[c], DOMAIN asked[c])
    BY DEF ProtocolInv, ClientInv
  <2>2. OnTheWay(toService'[c], toClient'[c], DOMAIN asked'[c])
    BY <1>1, <1>2, <1>3, <1>4, <2>1, Says
  <2> QED  BY <1>2, <1>4, <2>2 DEF ProtocolInv, ClientInv
<1>9. PingInv'
  <2>1. conn[c] # "closed" => OnTheWay(toClient[c], toService[c], pending[c])
    BY DEF ProtocolInv, PingInv
  <2>2. conn[c] # "closed" => OnTheWay(toClient'[c], toService'[c], pending'[c])
    BY <1>1, <1>2, <1>3, <1>4, <2>1, Hears
  <2> QED  BY <1>2, <1>4, <2>2 DEF ProtocolInv, PingInv
<1>10. ChildInv' /\ ~stray'
  BY <1>2 DEF ProtocolInv, ChildInv, childVars
<1> QED  BY <1>6, <1>7, <1>8, <1>9, <1>10 DEF ProtocolInv

\* A client reads: an answer, a ping it answers or not, or a report.
LEMMA ClientReadsInv ==
    ASSUME ProtocolInv, NEW c \in Peers, ClientReads(c)
    PROVE  ProtocolInv'
<1> DEFINE q == toClient[c]
           m == Head(q)
<1>1. /\ q \in Seq(Message) /\ q # <<>> /\ toService[c] \in Seq(Message) /\ conn[c] = "open"
      /\ toClient' = [toClient EXCEPT ![c] = Tail(@)]
      /\ UNCHANGED <<conn, verified, count, childVars, nextId, pending>>
  BY DEF ClientReads, ProtocolInv, ProtocolTypeOK
<1>2. m \in Message /\ Tail(q) \in Seq(Message)
  BY <1>1, TailPlaces
<1>3. /\ OnTheWay(toService[c], q, DOMAIN asked[c]) /\ OnTheWay(q, toService[c], pending[c])
  BY <1>1 DEF ProtocolInv, ClientInv, PingInv
<1>4. /\ OnTheWay(toService[c], Tail(q), DOMAIN asked[c]) /\ OnTheWay(Tail(q), toService[c], pending[c])
  BY <1>1, <1>3, Drops, Reads
<1>5. /\ toClient' \in [Peers -> Seq(Message)] /\ toClient'[c] = Tail(q)
      /\ \A d \in Peers \ {c} : toClient'[d] = toClient[d]
  BY <1>1, <1>2 DEF ProtocolInv, ProtocolTypeOK
<1>6. \/ /\ m.kind = "response" /\ stray' = (stray \/ m.id \notin DOMAIN asked[c])
         /\ asked' = [asked EXCEPT ![c] = [n \in DOMAIN @ \ {m.id} |-> @[n]]]
         /\ toService' = toService
      \/ /\ m.kind = "request" /\ toService' = [toService EXCEPT ![c] = Append(@, Response(m.id, TRUE))]
         /\ UNCHANGED <<stray, asked>>
      \/ UNCHANGED <<toService, stray, asked>>
  BY DEF ClientReads
<1> HIDE DEF q, m
<1>7. /\ DOMAIN asked' = Peers /\ asked' = [d \in Peers |-> asked'[d]]
      /\ DOMAIN asked'[c] \subseteq DOMAIN asked[c] /\ \A d \in Peers \ {c} : asked'[d] = asked[d]
  <2>1. DOMAIN asked = Peers /\ asked = [d \in Peers |-> asked[d]]
    BY DEF ProtocolInv, ProtocolTypeOK
  <2>2. CASE asked' = [asked EXCEPT ![c] = [n \in DOMAIN @ \ {m.id} |-> @[n]]]
    BY <2>1, <2>2
  <2>3. CASE asked' = asked
    BY <2>1, <2>3
  <2> QED  BY <1>6, <2>2, <2>3
<1>8. /\ ~stray' /\ toService' \in [Peers -> Seq(Message)]
      /\ \A d \in Peers \ {c} : toService'[d] = toService[d]
      /\ OnTheWay(toService'[c], Tail(q), DOMAIN asked'[c])
      /\ OnTheWay(Tail(q), toService'[c], pending[c])
  <2>1. CASE /\ m.kind = "response" /\ stray' = (stray \/ m.id \notin DOMAIN asked[c])
             /\ asked' = [asked EXCEPT ![c] = [n \in DOMAIN @ \ {m.id} |-> @[n]]]
             /\ toService' = toService
    <3>1. m.id \in DOMAIN asked[c] /\ OnTheWay(toService[c], Tail(q), DOMAIN asked[c] \ {m.id})
      BY <1>1, <1>3, <2>1, Finds DEF m
    <3>2. DOMAIN asked'[c] = DOMAIN asked[c] \ {m.id}
      BY <2>1 DEF ProtocolInv, ProtocolTypeOK
    <3> QED  BY <1>4, <2>1, <3>1, <3>2 DEF ProtocolInv, ProtocolTypeOK
  <2>2. CASE /\ m.kind = "request" /\ toService' = [toService EXCEPT ![c] = Append(@, Response(m.id, TRUE))]
             /\ UNCHANGED <<stray, asked>>
    <3> DEFINE e == Response(m.id, TRUE)
    <3>1. e \in Message /\ e.kind = "response" /\ e.id = m.id
      BY <1>2, <2>2, MessageTypes
    <3>2. e.kind # "request"
      BY <3>1
    <3>3. toService' = [toService EXCEPT ![c] = Append(@, e)]
      BY <2>2
    <3> HIDE DEF e
    <3>4. /\ Append(toService[c], e) \in Seq(Message) /\ toService'[c] = Append(toService[c], e)
          /\ \A d \in Peers \ {c} : toService'[d] = toService[d]
      BY <1>1, <3>1, <3>3, AppendPlaces DEF ProtocolInv, ProtocolTypeOK
    <3>5. toService' \in [Peers -> Seq(Message)]
      BY <3>3, <3>4 DEF ProtocolInv, ProtocolTypeOK
    <3>6. OnTheWay(toService'[c], Tail(q), DOMAIN asked'[c])
      <4>1. OnTheWay(Append(toService[c], e), Tail(q), DOMAIN asked[c])
        BY <1>1, <1>4, <3>1, <3>2, Says
      <4>2. asked' = asked
        BY <2>2
      <4> QED  BY <3>4, <4>1, <4>2
    <3>7. OnTheWay(Tail(q), toService'[c], pending[c])
      <4>1. Head(q).kind = "request" /\ e.id = Head(q).id
        BY <2>2, <3>1 DEF m
      <4>2. OnTheWay(Tail(q), Append(toService[c], e), pending[c])
        BY <1>1, <1>3, <3>1, <4>1, Answers
      <4> QED  BY <3>4, <4>2
    <3> QED  BY <2>2, <3>4, <3>5, <3>6, <3>7 DEF ProtocolInv
  <2>3. CASE UNCHANGED <<toService, stray, asked>>
    BY <1>4, <2>3 DEF ProtocolInv, ProtocolTypeOK
  <2> QED  BY <1>6, <2>1, <2>2, <2>3
<1>9. ProtocolTypeOK'
  BY <1>1, <1>5, <1>7, <1>8 DEF ProtocolInv, ProtocolTypeOK, childVars
<1>10. NewIdInv'
  BY <1>1, <1>7 DEF ProtocolInv, NewIdInv
<1>11. ClientInv'
  BY <1>5, <1>7, <1>8 DEF ProtocolInv, ClientInv
<1>12. PingInv'
  BY <1>1, <1>5, <1>8 DEF ProtocolInv, PingInv
<1>13. ChildInv'
  BY <1>1 DEF ProtocolInv, ChildInv, childVars
<1> QED  BY <1>8, <1>9, <1>10, <1>11, <1>12, <1>13 DEF ProtocolInv

\* What is broadcast is neither request nor answer.
LEMMA BroadcastKeeps ==
    ASSUME ProtocolInv, BroadcastClients, UNCHANGED <<conn, toService, asked>>,
           \A c \in Peers : pending'[c] = pending[c]
    PROVE  toClient' \in [Peers -> Seq(Message)] /\ ClientInv' /\ PingInv'
<1>1. Notification \in Message /\ Notification.kind # "request" /\ Notification.kind # "response"
  BY MessageTypes
<1>2. toClient' = [c \in Peers |-> IF c \in verified THEN Append(toClient[c], Notification) ELSE toClient[c]]
  BY DEF BroadcastClients
<1>3. ASSUME NEW c \in Peers
      PROVE  /\ toClient'[c] \in Seq(Message)
             /\ OnTheWay(toService[c], toClient'[c], DOMAIN asked[c])
             /\ conn[c] # "closed" => OnTheWay(toClient'[c], toService[c], pending[c])
  <2>1. toClient[c] \in Seq(Message) /\ OnTheWay(toService[c], toClient[c], DOMAIN asked[c])
    BY DEF ProtocolInv, ProtocolTypeOK, ClientInv
  <2>2. conn[c] # "closed" => OnTheWay(toClient[c], toService[c], pending[c])
    BY DEF ProtocolInv, PingInv
  <2>3. CASE c \in verified
    <3>1. toClient'[c] = Append(toClient[c], Notification)
      BY <1>2, <2>3
    <3> QED  BY <1>1, <2>1, <2>2, <3>1, AppendPlaces, Hears, Says
  <2>4. CASE c \notin verified
    <3>1. toClient'[c] = toClient[c]
      BY <1>2, <2>4
    <3> QED  BY <2>1, <2>2, <3>1
  <2> QED  BY <2>3, <2>4
<1>4. toClient' \in [Peers -> Seq(Message)]
  BY <1>2, <1>3
<1> QED  BY <1>3, <1>4 DEF ClientInv, PingInv

\* PipeDataReceived: answers and reports of the stream process.
LEMMA PipeReadsInv ==
    ASSUME ProtocolInv, PipeDataReceived
    PROVE  ProtocolInv'
<1> DEFINE m == Head(fromChild)
<1>1. /\ linked /\ fromChild # <<>> /\ fromChild \in Seq(Message) /\ fromChild' = Tail(fromChild)
      /\ UNCHANGED <<conn, verified, toService, asked, count, child, linked, toChild, nextId>>
  BY DEF PipeDataReceived, ProtocolInv, ProtocolTypeOK
<1>2. /\ Tail(fromChild) \in Seq(Message)
  BY <1>1, TailPlaces
<1>3. OnTheWay(toChild, fromChild, pending["child"])
  BY <1>1 DEF ProtocolInv, ChildInv
<1>4. child # "none"
  BY <1>1 DEF ProtocolInv, ChildInv
<1> HIDE DEF m
<1>5. CASE m.kind = "response"
  <2>1. /\ pending' = [pending EXCEPT !["child"] = @ \ {m.id}] /\ toClient' = toClient
        /\ stray' = (stray \/ m.id \notin pending["child"])
    BY <1>5 DEF PipeDataReceived, HandleResponceStreamsCommand, PopRequestByID, m
  <2>2. m.id \in pending["child"] /\ OnTheWay(toChild, Tail(fromChild), pending["child"] \ {m.id})
    BY <1>1, <1>3, <1>5, Finds DEF m
  <2>3. /\ pending' \in [Peers \cup {"child"} -> SUBSET Nat] /\ pending'["child"] = pending["child"] \ {m.id}
        /\ \A c \in Peers : pending'[c] = pending[c]
    BY <2>1, RequestsAssumption DEF ProtocolInv, ProtocolTypeOK
  <2>4. ProtocolTypeOK'
    BY <1>1, <1>2, <2>1, <2>3 DEF ProtocolInv, ProtocolTypeOK
  <2>5. NewIdInv'
    BY <1>1, <2>3 DEF ProtocolInv, NewIdInv
  <2>6. ClientInv' /\ PingInv'
    BY <1>1, <2>1, <2>3 DEF ProtocolInv, ClientInv, PingInv
  <2>7. ChildInv' /\ ~stray'
    BY <1>1, <1>4, <2>1, <2>2, <2>3 DEF ProtocolInv, ChildInv
  <2> QED  BY <2>4, <2>5, <2>6, <2>7 DEF ProtocolInv
<1>6. CASE m.kind # "response"
  <2>1. BroadcastClients /\ UNCHANGED <<pending, stray>>
    BY <1>6 DEF PipeDataReceived, HandleRequestStreamsCommand, m
  <2>2. toClient' \in [Peers -> Seq(Message)] /\ ClientInv' /\ PingInv'
    BY <1>1, <2>1, BroadcastKeeps
  <2>3. ProtocolTypeOK'
    BY <1>1, <1>2, <2>1, <2>2 DEF ProtocolInv, ProtocolTypeOK
  <2>4. NewIdInv'
    BY <1>1, <2>1 DEF ProtocolInv, NewIdInv
  <2>5. OnTheWay(toChild, Tail(fromChild), pending["child"])
    BY <1>1, <1>3, Reads
  <2>6. ChildInv' /\ ~stray'
    BY <1>1, <1>4, <2>1, <2>5 DEF ProtocolInv, ChildInv
  <2> QED  BY <2>2, <2>3, <2>4, <2>6 DEF ProtocolInv
<1> QED  BY <1>5, <1>6

\* Every step of the service, its clients and the stream process preserves the
\* invariant.
LEMMA StepProtocolInv == ProtocolInv /\ [ProtocolNext]_protocolVars => ProtocolInv'
<1> SUFFICES ASSUME ProtocolInv, [ProtocolNext]_protocolVars  PROVE ProtocolInv'
  OBVIOUS
<1>1. ASSUME NEW c \in Peers, PeerLost(c)  PROVE ProtocolInv'
  <2>1. /\ Delete({c}) /\ pending' = [pending EXCEPT ![c] = {}]
        /\ UNCHANGED <<toService, toClient, asked, count, childVars, nextId, stray>>
    BY <1>1 DEF PeerLost
  <2>2. /\ pending' \in [Peers \cup {"child"} -> SUBSET Nat] /\ pending'["child"] = pending["child"]
        /\ pending'[c] = {} /\ \A x \in Peers \ {c} : pending'[x] = pending[x]
    BY <2>1, RequestsAssumption DEF ProtocolInv, ProtocolTypeOK
  <2>3. /\ conn' \in [Peers -> {"open", "closing", "closed"}] /\ conn'[c] = "closed"
        /\ verified' \subseteq Peers /\ \A x \in Peers \ {c} : conn'[x] = conn[x]
    BY <2>1 DEF Delete, ProtocolInv, ProtocolTypeOK
  <2>4. ProtocolTypeOK'
    BY <2>1, <2>2, <2>3 DEF ProtocolInv, ProtocolTypeOK, childVars
  <2>5. NewIdInv'
    BY <2>1, <2>2 DEF ProtocolInv, NewIdInv
  <2>6. ClientInv' /\ PingInv'
    BY <2>1, <2>2, <2>3 DEF ProtocolInv, ClientInv, PingInv
  <2>7. ChildInv' /\ ~stray'
    BY <2>1, <2>2 DEF ProtocolInv, ChildInv, childVars
  <2> QED  BY <2>4, <2>5, <2>6, <2>7 DEF ProtocolInv
<1>2. ASSUME NEW c \in Peers, ClientCloses(c)  PROVE ProtocolInv'
  <2>1. /\ conn[c] = "open" /\ conn' = [conn EXCEPT ![c] = "closing"]
        /\ UNCHANGED <<verified, toService, toClient, asked, count, childVars, nextId, pending, stray>>
    BY <1>2 DEF ClientCloses
  <2>2. conn' \in [Peers -> {"open", "closing", "closed"}]
        /\ \A x \in Peers : conn'[x] # "closed" => conn[x] # "closed"
    BY <2>1 DEF ProtocolInv, ProtocolTypeOK
  <2>3. ProtocolTypeOK'
    BY <2>1, <2>2 DEF ProtocolInv, ProtocolTypeOK, childVars
  <2>4. NewIdInv' /\ ClientInv' /\ PingInv' /\ ChildInv' /\ ~stray'
    BY <2>1, <2>2 DEF ProtocolInv, NewIdInv, ClientInv, PingInv, ChildInv, childVars
  <2> QED  BY <2>3, <2>4 DEF ProtocolInv
<1>3. ASSUME ConnectionsClosed  PROVE ProtocolInv'
  <2>1. /\ Delete(Peers) /\ linked' = FALSE /\ pending' = [x \in DOMAIN pending |-> {}]
        /\ UNCHANGED <<toService, toClient, asked, count, child, toChild, fromChild, nextId, stray>>
    BY <1>3 DEF ConnectionsClosed
  <2>2. /\ pending' \in [Peers \cup {"child"} -> SUBSET Nat]
        /\ \A x \in Peers \cup {"child"} : pending'[x] = {}
    BY <2>1 DEF ProtocolInv, ProtocolTypeOK
  <2>3. /\ conn' \in [Peers -> {"open", "closing", "closed"}] /\ verified' \subseteq Peers
        /\ \A x \in Peers : conn'[x] = "closed"
    BY <2>1 DEF Delete, ProtocolInv, ProtocolTypeOK
  <2>4. ProtocolTypeOK'
    BY <2>1, <2>2, <2>3 DEF ProtocolInv, ProtocolTypeOK
  <2>5. NewIdInv' /\ ClientInv' /\ PingInv' /\ ChildInv' /\ ~stray'
    BY <2>1, <2>2, <2>3 DEF ProtocolInv, NewIdInv, ClientInv, PingInv, ChildInv
  <2> QED  BY <2>4, <2>5 DEF ProtocolInv
<1>4. ASSUME PipeLost  PROVE ProtocolInv'
  <2>1. /\ linked' = FALSE /\ pending' = [pending EXCEPT !["child"] = {}]
        /\ UNCHANGED <<conversation, child, toChild, fromChild, nextId, stray>>
    BY <1>4 DEF PipeLost
  <2>2. /\ pending' \in [Peers \cup {"child"} -> SUBSET Nat] /\ pending'["child"] = {}
        /\ \A x \in Peers : pending'[x] = pending[x]
    BY <2>1, RequestsAssumption DEF ProtocolInv, ProtocolTypeOK
  <2>3. ProtocolTypeOK'
    BY <2>1, <2>2 DEF ProtocolInv, ProtocolTypeOK, conversation
  <2>4. NewIdInv' /\ ClientInv' /\ PingInv' /\ ChildInv' /\ ~stray'
    BY <2>1, <2>2 DEF ProtocolInv, NewIdInv, ClientInv, PingInv, ChildInv, conversation
  <2> QED  BY <2>3, <2>4 DEF ProtocolInv
<1>5. ASSUME ExitBroadcast  PROVE ProtocolInv'
  <2>1. /\ BroadcastClients /\ child' = "reaped"
        /\ UNCHANGED <<conn, verified, toService, asked, count, linked, toChild, fromChild, nextId, pending, stray>>
    BY <1>5 DEF ExitBroadcast
  <2>2. toClient' \in [Peers -> Seq(Message)] /\ ClientInv' /\ PingInv'
    BY <2>1, BroadcastKeeps
  <2>3. ProtocolTypeOK'
    BY <2>1, <2>2 DEF ProtocolInv, ProtocolTypeOK
  <2>4. NewIdInv' /\ ChildInv' /\ ~stray'
    BY <2>1 DEF ProtocolInv, NewIdInv, ChildInv
  <2> QED  BY <2>2, <2>3, <2>4 DEF ProtocolInv
<1>6. ASSUME ChildReads  PROVE ProtocolInv'
  <2> DEFINE e == Response(Head(toChild).id, TRUE)
  <2>1. /\ child = "running" /\ toChild # <<>> /\ toChild \in Seq(Message) /\ fromChild \in Seq(Message)
        /\ toChild' = Tail(toChild) /\ fromChild' = Append(fromChild, e)
        /\ UNCHANGED <<conversation, child, linked, nextId, pending, stray>>
    BY <1>6 DEF ChildReads, ProtocolInv, ProtocolTypeOK
  <2>2. Tail(toChild) \in Seq(Message) /\ Head(toChild) \in Message
    BY <2>1, TailPlaces
  <2>3. Head(toChild).kind = "request"
    BY <2>1, TailPlaces DEF ProtocolInv, ChildInv
  <2>4. e \in Message /\ e.kind = "response" /\ e.id = Head(toChild).id
    BY <2>2, <2>3, MessageTypes
  <2> HIDE DEF e
  <2>5. linked => OnTheWay(Tail(toChild), Append(fromChild, e), pending["child"])
    BY <2>1, <2>3, <2>4, Answers DEF ProtocolInv, ChildInv
  <2>6. \A k \in 1..Len(Tail(toChild)) : Tail(toChild)[k].kind = "request"
    BY <2>1, TailPlaces DEF ProtocolInv, ChildInv
  <2>7. ChildInv'
    BY <2>1, <2>5, <2>6 DEF ChildInv
  <2>8. fromChild' \in Seq(Message)
    BY <2>1, <2>4, AppendPlaces
  <2>9. ProtocolTypeOK'
    BY <2>1, <2>2, <2>8 DEF ProtocolInv, ProtocolTypeOK, conversation
  <2>10. NewIdInv' /\ ClientInv' /\ PingInv' /\ ~stray'
    BY <2>1 DEF ProtocolInv, NewIdInv, ClientInv, PingInv, conversation
  <2> QED  BY <2>7, <2>9, <2>10 DEF ProtocolInv
<1>7. ASSUME ChildReports  PROVE ProtocolInv'
  <2>1. /\ child = "running" /\ fromChild' = Append(fromChild, Notification) /\ fromChild \in Seq(Message)
        /\ UNCHANGED <<conversation, child, linked, toChild, nextId, pending, stray>>
    BY <1>7 DEF ChildReports, ProtocolInv, ProtocolTypeOK
  <2>2. Notification \in Message /\ Notification.kind # "response"
    BY MessageTypes
  <2>3. fromChild' \in Seq(Message)
    BY <2>1, <2>2, AppendPlaces
  <2>4. linked => OnTheWay(toChild, fromChild', pending["child"])
    BY <2>1, <2>2, Hears DEF ProtocolInv, ChildInv
  <2>5. ProtocolTypeOK'
    BY <2>1, <2>3 DEF ProtocolInv, ProtocolTypeOK, conversation
  <2>6. NewIdInv' /\ ClientInv' /\ PingInv' /\ ChildInv' /\ ~stray'
    BY <2>1, <2>4 DEF ProtocolInv, NewIdInv, ClientInv, PingInv, ChildInv, conversation
  <2> QED  BY <2>5, <2>6 DEF ProtocolInv
<1>8. ASSUME ChildEnds  PROVE ProtocolInv'
  <2>1. /\ child' = "dead" /\ toChild' = <<>>
        /\ UNCHANGED <<conversation, linked, fromChild, nextId, pending, stray>>
    BY <1>8 DEF ChildEnds
  <2>2. <<>> \in Seq(Message) /\ Len(<<>>) = 0
    BY EmptySeq
  <2>3. ProtocolTypeOK'
    BY <2>1, <2>2 DEF ProtocolInv, ProtocolTypeOK, conversation
  <2>4. linked => OnTheWay(<<>>, fromChild, pending["child"])
    BY <2>2 DEF ProtocolInv, ChildInv, OnTheWay
  <2>5. NewIdInv' /\ ClientInv' /\ PingInv' /\ ChildInv' /\ ~stray'
    BY <2>1, <2>4 DEF ProtocolInv, NewIdInv, ClientInv, PingInv, ChildInv, conversation
  <2> QED  BY <2>3, <2>5 DEF ProtocolInv
<1>9. CASE UNCHANGED protocolVars
  <2>1. ProtocolTypeOK'
    BY <1>9 DEF ProtocolInv, ProtocolTypeOK, protocolVars, conversation, childVars
  <2>2. NewIdInv' /\ ClientInv' /\ PingInv' /\ ChildInv' /\ ~stray'
    BY <1>9 DEF ProtocolInv, NewIdInv, ClientInv, PingInv, ChildInv, protocolVars, conversation, childVars
  <2> QED  BY <2>1, <2>2 DEF ProtocolInv
<1> QED
  BY <1>1, <1>2, <1>3, <1>4, <1>5, <1>6, <1>7, <1>8, <1>9, DaemonReadsInv, PingInvKept, ClientSendsInv,
     ClientGarblesInv, ClientReadsInv, PipeReadsInv
  DEF ProtocolNext, NoConversation

\* Every answer that arrives, a client's to a ping, the stream's to a command and
\* the service's to a request, finds the one request it belongs to in the table
\* of the end that asked (PopRequestByID), for any number of clients, requests,
\* pings and commands and whatever is closed or ends meanwhile.
THEOREM NoStrayAnswers == ProtocolSpec => [](~stray)
<1>1. ProtocolInit => ProtocolInv  BY InitProtocolInv
<1>2. ProtocolInv /\ [ProtocolNext]_protocolVars => ProtocolInv'  BY StepProtocolInv
<1>3. ProtocolInv => ~stray  BY DEF ProtocolInv
<1> QED  BY <1>1, <1>2, <1>3, PTL DEF ProtocolSpec

-----------------------------------------------------------------------------
(* Messages: the way of a member                                           *)

\* The JSON form w without the members in O.
Left(w, O) == [m \in DOMAIN w \ O |-> w[m]]

\* The member that a field is written to.
KeyOf(c, f) ==
    CASE f = "input" -> IF c = "InputUri" THEN "uri" ELSE "input_streams"
      [] f = "output" -> IF c = "OutputUri" THEN "uri" ELSE "output_streams"
      [] f = "rss_bytes" -> "rss"
      [] f = "cpu_load" -> "cpu"
      [] f = "gpu_load" -> "gpu"
      [] f \in {"stream_id", "uid"} -> "id"
      [] f = "feedback_dir" -> "feedback_directory"
      [] f = "license" -> "license_key"
      [] f = "users" -> "subscribers"
      [] f = "feedback" -> "feedback_directory"
      [] f = "timeshifts" -> "timeshifts_directory"
      [] f = "hls" -> "hls_directory"
      [] f = "playlists" -> "playlists_directory"
      [] f = "dvb" -> "dvb_directory"
      [] f = "capture_card" -> "capture_card_directory"
      [] f = "vods_in" -> "vods_in_directory"
      [] f = "vods" -> "vods_directory"
      [] f = "uptime" -> "load_average"
      [] f = "mem_total" -> "memory_total"
      [] f = "mem_free" -> "memory_free"
      [] f = "mem_avail" -> "memory_available"
      [] f = "net_bytes_recv" -> "bandwidth_in"
      [] f = "net_bytes_send" -> "bandwidth_out"
      [] f = "sys_uptime" -> "uptime"
      [] f = "current_ts" -> "timestamp"
      [] f = "proj_ver" -> "version"
      [] f = "ch" -> "channels"
      [] OTHER -> f

\* The object that FieldsArrive compares the fields of the read one with: x, but for
\* the fields that do not arrive as they were sent.
Carried(c, x, h) ==
    IF c \in {"Logo", "UserInfo", "StatisticInfo"}
    THEN [f \in DOMAIN x |-> IF f \in Lossy(c) THEN LeftOf(f, x[f], h) ELSE x[f]]
    ELSE x

\* The object y is what is left of x after h relays and without the members in O.
Arrived(c, x, y, h, O) ==
    /\ DOMAIN y = DOMAIN x
    /\ \A f \in DOMAIN x :
          y[f] = IF KeyOf(c, f) \in O THEN Default(c)[f] ELSE Carried(c, x, h)[f]

\* A message without the members in O is read, into what is left of x, or refused.
Delivered(c, x, O, r) == (O = {} => r.ok) /\ (r.ok => Arrived(c, x, r.v, 0, O))

\* An integer comes back as it was: a size_t as an int64_t and back, and an int
\* that json-c clamps.
LEMMA WidthsKept ==
    /\ \A n \in Sizes : ToSize(ToInt64(n)) = n
    /\ \A n \in Ints : AsInt(n) = n
BY WidthAssumption DEF Sizes, Ints, ToSize, ToInt64, AsInt

\* What is read of a member that was written, and what of one that was left out.
MembersRead(j, w, O) ==
    \A k \in DOMAIN w :
        /\ Has(j, k) <=> k \notin O
        /\ k \notin O => j[k] = w[k]
        /\ \A d : /\ Get(j, k, d) = IF k \in O THEN d ELSE w[k]
                  /\ \A n \in Sizes : w[k] = ToInt64(n) =>
                        GetSize(j, k, d) = IF k \in O THEN d ELSE n
                  /\ w[k] \in Ints => GetInt(j, k, d) = IF k \in O THEN d ELSE w[k]

\* json-c gives back what was put into it, and a default for what is not there.
LEMMA ReadBack == ASSUME NEW w, NEW O  PROVE MembersRead(Left(w, O), w, O)
<1> DEFINE j == Left(w, O)
<1>1. \A k \in DOMAIN w : /\ k \in DOMAIN j <=> k \notin O
                          /\ k \notin O => j[k] = w[k]
  BY DEF Left
<1> HIDE DEF j
<1> QED  BY <1>1, WidthsKept DEF MembersRead, Has, Get, GetSize, GetInt, j

\* Most classes carry all of an object.
LEMMA CarriedWhole ==
    ASSUME NEW c, c \notin {"Logo", "UserInfo", "StatisticInfo"}, NEW x, NEW h
    PROVE  Carried(c, x, h) = x
BY DEF Carried

\* The objects that a reader starts from.
LEMMA Defaults ==
    /\ Default("InputUri") = NoInputUri
    /\ Default("OutputUri") = NoOutputUri
    /\ Default("Logo") = NoLogo
    /\ Default("StatisticInfo") = NoStatistic
    /\ Default("ChangedSouresInfo") = NoChangedSources
    /\ Default("stream::StreamInfo") = NoStreamInfo
    /\ Default("stream::GetLogInfo") = NoStreamLog
    /\ Default("stream::QuitStatusInfo") = NoQuitStatus
    /\ Default("stream::StartInfo") = NoStart
    /\ Default("service::LicenseInfo") = NoLicense
    /\ Default("service::StopInfo") = NoStop
    /\ Default("service::GetLogInfo") = NoServiceLog
    /\ Default("service::SyncInfo") = NoSync
    /\ Default("service::PrepareInfo") = NoPrepare
    /\ Default("service::ServerInfo") = NoServerInfo
    /\ Default("service::FullServiceInfo") = NoFullService
    /\ Default("UserInfo") = NoUser
    /\ Default("UserRpcInfo") = NoUserRpc
    /\ Default("ServerAuthInfo") = NoServerAuth
BY DEF Default

-----------------------------------------------------------------------------
(* Messages: the classes                                                   *)

\* A url of an input.
LEMMA InputUriArrives ==
    ASSUME NEW x \in InputUris, NEW O
    PROVE  Delivered("InputUri", x, O, InputUriDeSerialize(Left(InputUriSerialize(x).v, O)))
<1> DEFINE w == InputUriSerialize(x).v
           j == Left(w, O)
           r == InputUriDeSerialize(j)
           y == r.v
<1>1. /\ DOMAIN w = {"id", "uri", "user_agent"}
      /\ w["id"] = ToInt64(x.id) /\ w["uri"] = x.input /\ w["user_agent"] = x.user_agent
  BY DEF InputUriSerialize, Ok
<1>2. /\ DOMAIN x = {"id", "input", "user_agent"}
      /\ x.id \in Sizes /\ x.user_agent \in Ints
  BY DEF InputUris
<1>3. MembersRead(j, w, O)
  BY ReadBack
<1> HIDE DEF w, j
<1>4. /\ GetSize(j, "id", 0) = IF "id" \in O THEN 0 ELSE x.id
      /\ Get(j, "uri", "") = IF "uri" \in O THEN "" ELSE x.input
      /\ GetInt(j, "user_agent", 0) = IF "user_agent" \in O THEN 0 ELSE x.user_agent
  BY <1>1, <1>2, <1>3 DEF MembersRead
<1>5. r.ok
  BY DEF InputUriDeSerialize, Ok
<1>6. /\ DOMAIN y = DOMAIN x
      /\ y["id"] = IF "id" \in O THEN 0 ELSE x.id
      /\ y["input"] = IF "uri" \in O THEN "" ELSE x.input
      /\ y["user_agent"] = IF "user_agent" \in O THEN 0 ELSE x.user_agent
  BY <1>2, <1>4 DEF InputUriDeSerialize, Ok
<1> HIDE DEF r, y
<1>7. /\ Default("InputUri") = NoInputUri /\ Carried("InputUri", x, 0) = x
      /\ NoInputUri["id"] = 0 /\ NoInputUri["input"] = ""
      /\ NoInputUri["user_agent"] = 0
  BY Defaults, CarriedWhole DEF NoInputUri
<1>8. /\ KeyOf("InputUri", "id") = "id" /\ KeyOf("InputUri", "input") = "uri"
      /\ KeyOf("InputUri", "user_agent") = "user_agent"
  BY DEF KeyOf
<1>9. Arrived("InputUri", x, y, 0, O)
  BY <1>2, <1>6, <1>7, <1>8 DEF Arrived
<1> QED  BY <1>5, <1>9 DEF Delivered, j, w, r, y

\* A url of an output.
LEMMA OutputUriArrives ==
    ASSUME NEW x \in Objects("OutputUri"), NEW O
    PROVE  Delivered("OutputUri", x, O, OutputUriDeSerialize(Left(OutputUriSerialize(x).v, O)))
<1> DEFINE w == OutputUriSerialize(x).v
           j == Left(w, O)
           r == OutputUriDeSerialize(j)
           y == r.v
<1>1. /\ DOMAIN w = {"id", "uri", "http_root"}
      /\ w["id"] = ToInt64(x.id) /\ w["uri"] = x.output /\ w["http_root"] = x.http_root
  BY DEF OutputUriSerialize, Ok
<1>2. /\ DOMAIN x = {"id", "output", "http_root"}
      /\ x.id \in Sizes
  BY DEF Objects
<1>3. MembersRead(j, w, O)
  BY ReadBack
<1> HIDE DEF w, j
<1>4. /\ GetSize(j, "id", 0) = IF "id" \in O THEN 0 ELSE x.id
      /\ Get(j, "uri", "") = IF "uri" \in O THEN "" ELSE x.output
      /\ Get(j, "http_root", "") = IF "http_root" \in O THEN "" ELSE x.http_root
  BY <1>1, <1>2, <1>3 DEF MembersRead
<1>5. r.ok
  BY DEF OutputUriDeSerialize, Ok
<1>6. /\ DOMAIN y = DOMAIN x
      /\ y["id"] = IF "id" \in O THEN 0 ELSE x.id
      /\ y["output"] = IF "uri" \in O THEN "" ELSE x.output
      /\ y["http_root"] = IF "http_root" \in O THEN "" ELSE x.http_root
  BY <1>2, <1>4 DEF OutputUriDeSerialize, Ok
<1> HIDE DEF r, y
<1>7. /\ Default("OutputUri") = NoOutputUri /\ Carried("OutputUri", x, 0) = x
      /\ NoOutputUri["id"] = 0 /\ NoOutputUri["output"] = ""
      /\ NoOutputUri["http_root"] = ""
  BY Defaults, CarriedWhole DEF NoOutputUri
<1>8. /\ KeyOf("OutputUri", "id") = "id" /\ KeyOf("OutputUri", "output") = "uri"
      /\ KeyOf("OutputUri", "http_root") = "http_root"
  BY DEF KeyOf
<1>9. Arrived("OutputUri", x, y, 0, O)
  BY <1>2, <1>6, <1>7, <1>8 DEF Arrived
<1> QED  BY <1>5, <1>9 DEF Delivered, j, w, r, y

\* A request about a stream.
LEMMA StreamInfoArrives ==
    ASSUME NEW x \in Objects("stream::StreamInfo"), NEW O
    PROVE  Delivered("stream::StreamInfo", x, O, StreamInfoDeSerialize(Left(StreamInfoSerialize(x).v, O)))
<1> DEFINE w == StreamInfoSerialize(x).v
           j == Left(w, O)
           r == StreamInfoDeSerialize(j)
           y == r.v
<1>1. /\ DOMAIN w = {"id"}
      /\ w["id"] = x.stream_id
  BY DEF StreamInfoSerialize, Ok
<1>2. /\ DOMAIN x = {"stream_id"}
  BY DEF Objects
<1>3. MembersRead(j, w, O)
  BY ReadBack
<1> HIDE DEF w, j
<1>4. /\ "id" \notin O => j["id"] = x.stream_id
      /\ Has(j, "id") <=> "id" \notin O
  BY <1>1, <1>2, <1>3 DEF MembersRead
<1>5. r.ok <=> "id" \notin O
  BY <1>4 DEF StreamInfoDeSerialize, Ok, Inval, Has
<1>6. ASSUME r.ok
      PROVE  /\ DOMAIN y = DOMAIN x
             /\ y["stream_id"] = IF "id" \in O THEN "" ELSE x.stream_id
  BY <1>2, <1>4, <1>5, <1>6 DEF StreamInfoDeSerialize, Ok, Inval
<1> HIDE DEF r, y
<1>7. /\ Default("stream::StreamInfo") = NoStreamInfo /\ Carried("stream::StreamInfo", x, 0) = x
      /\ NoStreamInfo["stream_id"] = ""
  BY Defaults, CarriedWhole DEF NoStreamInfo
<1>8. /\ KeyOf("stream::StreamInfo", "stream_id") = "id"
  BY DEF KeyOf
<1>9. r.ok => Arrived("stream::StreamInfo", x, y, 0, O)
  BY <1>2, <1>6, <1>7, <1>8 DEF Arrived
<1> QED  BY <1>5, <1>9 DEF Delivered, j, w, r, y

\* The request for the log of a stream.
LEMMA StreamLogArrives ==
    ASSUME NEW x \in Objects("stream::GetLogInfo"), NEW O
    PROVE  Delivered("stream::GetLogInfo", x, O, StreamLogDeSerialize(Left(StreamLogSerialize(x).v, O)))
<1> DEFINE w == StreamLogSerialize(x).v
           j == Left(w, O)
           r == StreamLogDeSerialize(j)
           y == r.v
<1>1. /\ DOMAIN w = {"id", "feedback_directory", "path"}
      /\ w["id"] = x.stream_id /\ w["feedback_directory"] = x.feedback_dir
      /\ w["path"] = x.path
  BY DEF StreamLogSerialize, StreamInfoSerialize, ++, Ok
<1>2. /\ DOMAIN x = {"stream_id", "feedback_dir", "path"}
  BY DEF Objects
<1>3. MembersRead(j, w, O)
  BY ReadBack
<1> HIDE DEF w, j
<1>4. /\ "id" \notin O => j["id"] = x.stream_id
      /\ "feedback_directory" \notin O => j["feedback_directory"] = x.feedback_dir
      /\ Get(j, "path", "") = IF "path" \in O THEN "" ELSE x.path
      /\ Has(j, "id") <=> "id" \notin O
      /\ Has(j, "feedback_directory") <=> "feedback_directory" \notin O
  BY <1>1, <1>2, <1>3 DEF MembersRead
<1>5. r.ok <=> "id" \notin O /\ "feedback_directory" \notin O
  BY <1>4 DEF StreamLogDeSerialize, StreamInfoDeSerialize, ++, Ok, Inval, Has
<1>6. ASSUME r.ok
      PROVE  /\ DOMAIN y = DOMAIN x
             /\ y["stream_id"] = IF "id" \in O THEN "" ELSE x.stream_id
             /\ y["feedback_dir"] = IF "feedback_directory" \in O THEN "" ELSE x.feedback_dir
             /\ y["path"] = IF "path" \in O THEN "" ELSE x.path
  BY <1>2, <1>4, <1>5, <1>6 DEF StreamLogDeSerialize, StreamInfoDeSerialize, ++, Ok, Inval
<1> HIDE DEF r, y
<1>7. /\ Default("stream::GetLogInfo") = NoStreamLog /\ Carried("stream::GetLogInfo", x, 0) = x
      /\ NoStreamLog["stream_id"] = "" /\ NoStreamLog["feedback_dir"] = ""
      /\ NoStreamLog["path"] = ""
  BY Defaults, CarriedWhole DEF NoStreamLog
<1>8. /\ KeyOf("stream::GetLogInfo", "stream_id") = "id"
      /\ KeyOf("stream::GetLogInfo", "feedback_dir") = "feedback_directory"
      /\ KeyOf("stream::GetLogInfo", "path") = "path"
  BY DEF KeyOf
<1>9. r.ok => Arrived("stream::GetLogInfo", x, y, 0, O)
  BY <1>2, <1>6, <1>7, <1>8 DEF Arrived
<1> QED  BY <1>5, <1>9 DEF Delivered, j, w, r, y

\* The end of a stream.
LEMMA QuitStatusArrives ==
    ASSUME NEW x \in Objects("stream::QuitStatusInfo"), NEW O
    PROVE  Delivered("stream::QuitStatusInfo", x, O, QuitStatusDeSerialize(Left(QuitStatusSerialize(x).v, O)))
<1> DEFINE w == QuitStatusSerialize(x).v
           j == Left(w, O)
           r == QuitStatusDeSerialize(j)
           y == r.v
<1>1. /\ DOMAIN w = {"id", "exit_status", "signal"}
      /\ w["id"] = x.stream_id /\ w["exit_status"] = x.exit_status
      /\ w["signal"] = x.signal
  BY DEF QuitStatusSerialize, StreamInfoSerialize, ++, Ok
<1>2. /\ DOMAIN x = {"stream_id", "exit_status", "signal"}
      /\ x.exit_status \in Ints /\ x.signal \in Ints
  BY DEF Objects
<1>3. MembersRead(j, w, O)
  BY ReadBack
<1> HIDE DEF w, j
<1>4. /\ "id" \notin O => j["id"] = x.stream_id
      /\ "exit_status" \notin O => AsInt(j["exit_status"]) = x.exit_status
      /\ "signal" \notin O => AsInt(j["signal"]) = x.signal
      /\ Has(j, "id") <=> "id" \notin O
      /\ Has(j, "exit_status") <=> "exit_status" \notin O
      /\ Has(j, "signal") <=> "signal" \notin O
  BY <1>1, <1>2, <1>3, WidthsKept DEF MembersRead
<1>5. r.ok <=> "id" \notin O /\ "exit_status" \notin O /\ "signal" \notin O
  BY <1>4 DEF QuitStatusDeSerialize, StreamInfoDeSerialize, ++, Ok, Inval, Has
<1>6. ASSUME r.ok
      PROVE  /\ DOMAIN y = DOMAIN x
             /\ y["stream_id"] = IF "id" \in O THEN "" ELSE x.stream_id
             /\ y["exit_status"] = IF "exit_status" \in O THEN 0 ELSE x.exit_status
             /\ y["signal"] = IF "signal" \in O THEN 0 ELSE x.signal
  BY <1>2, <1>4, <1>5, <1>6 DEF QuitStatusDeSerialize, StreamInfoDeSerialize, ++, Ok, Inval
<1> HIDE DEF r, y
<1>7. /\ Default("stream::QuitStatusInfo") = NoQuitStatus /\ Carried("stream::QuitStatusInfo", x, 0) = x
      /\ NoQuitStatus["stream_id"] = "" /\ NoQuitStatus["exit_status"] = 0
      /\ NoQuitStatus["signal"] = 0
  BY Defaults, CarriedWhole DEF NoQuitStatus
<1>8. /\ KeyOf("stream::QuitStatusInfo", "stream_id") = "id"
      /\ KeyOf("stream::QuitStatusInfo", "exit_status") = "exit_status"
      /\ KeyOf("stream::QuitStatusInfo", "signal") = "signal"
  BY DEF KeyOf
<1>9. r.ok => Arrived("stream::QuitStatusInfo", x, y, 0, O)
  BY <1>2, <1>6, <1>7, <1>8 DEF Arrived
<1> QED  BY <1>5, <1>9 DEF Delivered, j, w, r, y

\* The request to start a stream.
LEMMA StartArrives ==
    ASSUME NEW x \in Objects("stream::StartInfo"), NEW O
    PROVE  Delivered("stream::StartInfo", x, O, StartDeSerialize(Left(StartSerialize(x).v, O)))
<1> DEFINE w == StartSerialize(x).v
           j == Left(w, O)
           r == StartDeSerialize(j)
           y == r.v
<1>1. /\ DOMAIN w = {"config"}
      /\ w["config"] = x.config
  BY DEF StartSerialize, Ok
<1>2. /\ DOMAIN x = {"config"}
  BY DEF Objects
<1>3. MembersRead(j, w, O)
  BY ReadBack
<1> HIDE DEF w, j
<1>4. /\ "config" \notin O => j["config"] = x.config
      /\ Has(j, "config") <=> "config" \notin O
  BY <1>1, <1>2, <1>3 DEF MembersRead
<1>5. r.ok <=> "config" \notin O
  BY <1>4 DEF StartDeSerialize, Ok, Inval, Has
<1>6. ASSUME r.ok
      PROVE  /\ DOMAIN y = DOMAIN x
             /\ y["config"] = IF "config" \in O THEN "" ELSE x.config
  BY <1>2, <1>4, <1>5, <1>6 DEF StartDeSerialize, Ok, Inval
<1> HIDE DEF r, y
<1>7. /\ Default("stream::StartInfo") = NoStart /\ Carried("stream::StartInfo", x, 0) = x
      /\ NoStart["config"] = ""
  BY Defaults, CarriedWhole DEF NoStart
<1>8. /\ KeyOf("stream::StartInfo", "config") = "config"
  BY DEF KeyOf
<1>9. r.ok => Arrived("stream::StartInfo", x, y, 0, O)
  BY <1>2, <1>6, <1>7, <1>8 DEF Arrived
<1> QED  BY <1>5, <1>9 DEF Delivered, j, w, r, y

\* The request of a client to activate.
LEMMA LicenseArrives ==
    ASSUME NEW x \in Objects("service::LicenseInfo"), NEW O
    PROVE  Delivered("service::LicenseInfo", x, O, LicenseDeSerialize(Left(LicenseSerialize(x).v, O)))
<1> DEFINE w == LicenseSerialize(x).v
           j == Left(w, O)
           r == LicenseDeSerialize(j)
           y == r.v
<1>1. /\ DOMAIN w = {"license_key"}
      /\ w["license_key"] = x.license
  BY DEF LicenseSerialize, Ok
<1>2. /\ DOMAIN x = {"license"}
  BY DEF Objects
<1>3. MembersRead(j, w, O)
  BY ReadBack
<1> HIDE DEF w, j
<1>4. /\ Get(j, "license_key", "") = IF "license_key" \in O THEN "" ELSE x.license
  BY <1>1, <1>2, <1>3 DEF MembersRead
<1>5. r.ok
  BY DEF LicenseDeSerialize, Ok
<1>6. /\ DOMAIN y = DOMAIN x
      /\ y["license"] = IF "license_key" \in O THEN "" ELSE x.license
  BY <1>2, <1>4 DEF LicenseDeSerialize, Ok
<1> HIDE DEF r, y
<1>7. /\ Default("service::LicenseInfo") = NoLicense /\ Carried("service::LicenseInfo", x, 0) = x
      /\ NoLicense["license"] = ""
  BY Defaults, CarriedWhole DEF NoLicense
<1>8. /\ KeyOf("service::LicenseInfo", "license") = "license_key"
  BY DEF KeyOf
<1>9. Arrived("service::LicenseInfo", x, y, 0, O)
  BY <1>2, <1>6, <1>7, <1>8 DEF Arrived
<1> QED  BY <1>5, <1>9 DEF Delivered, j, w, r, y

\* The request to stop the service.
LEMMA StopArrives ==
    ASSUME NEW x \in Objects("service::StopInfo"), NEW O
    PROVE  Delivered("service::StopInfo", x, O, StopDeSerialize(Left(StopSerialize(x).v, O)))
<1> DEFINE w == StopSerialize(x).v
           j == Left(w, O)
           r == StopDeSerialize(j)
           y == r.v
<1>1. /\ DOMAIN w = {"license_key", "delay"}
      /\ w["license_key"] = x.license /\ w["delay"] = x.delay
  BY DEF StopSerialize, LicenseSerialize, ++, Ok
<1>2. /\ DOMAIN x = {"license", "delay"}
  BY DEF Objects
<1>3. MembersRead(j, w, O)
  BY ReadBack
<1> HIDE DEF w, j
<1>4. /\ Get(j, "license_key", "") = IF "license_key" \in O THEN "" ELSE x.license
      /\ Get(j, "delay", 0) = IF "delay" \in O THEN 0 ELSE x.delay
  BY <1>1, <1>2, <1>3 DEF MembersRead
<1>5. r.ok
  BY DEF StopDeSerialize, LicenseDeSerialize, ++, Ok
<1>6. /\ DOMAIN y = DOMAIN x
      /\ y["license"] = IF "license_key" \in O THEN "" ELSE x.license
      /\ y["delay"] = IF "delay" \in O THEN 0 ELSE x.delay
  BY <1>2, <1>4 DEF StopDeSerialize, LicenseDeSerialize, ++, Ok
<1> HIDE DEF r, y
<1>7. /\ Default("service::StopInfo") = NoStop /\ Carried("service::StopInfo", x, 0) = x
      /\ NoStop["license"] = "" /\ NoStop["delay"] = 0
  BY Defaults, CarriedWhole DEF NoStop
<1>8. /\ KeyOf("service::StopInfo", "license") = "license_key"
      /\ KeyOf("service::StopInfo", "delay") = "delay"
  BY DEF KeyOf
<1>9. Arrived("service::StopInfo", x, y, 0, O)
  BY <1>2, <1>6, <1>7, <1>8 DEF Arrived
<1> QED  BY <1>5, <1>9 DEF Delivered, j, w, r, y

\* The request for the log of the service.
LEMMA ServiceLogArrives ==
    ASSUME NEW x \in Objects("service::GetLogInfo"), NEW O
    PROVE  Delivered("service::GetLogInfo", x, O, ServiceLogDeSerialize(Left(ServiceLogSerialize(x).v, O)))
<1> DEFINE w == ServiceLogSerialize(x).v
           j == Left(w, O)
           r == ServiceLogDeSerialize(j)
           y == r.v
<1>1. /\ DOMAIN w = {"path"}
      /\ w["path"] = x.path
  BY DEF ServiceLogSerialize, Ok
<1>2. /\ DOMAIN x = {"path"}
  BY DEF Objects
<1>3. MembersRead(j, w, O)
  BY ReadBack
<1> HIDE DEF w, j
<1>4. /\ Get(j, "path", "") = IF "path" \in O THEN "" ELSE x.path
  BY <1>1, <1>2, <1>3 DEF MembersRead
<1>5. r.ok
  BY DEF ServiceLogDeSerialize, Ok
<1>6. /\ DOMAIN y = DOMAIN x
      /\ y["path"] = IF "path" \in O THEN "" ELSE x.path
  BY <1>2, <1>4 DEF ServiceLogDeSerialize, Ok
<1> HIDE DEF r, y
<1>7. /\ Default("service::GetLogInfo") = NoServiceLog /\ Carried("service::GetLogInfo", x, 0) = x
      /\ NoServiceLog["path"] = ""
  BY Defaults, CarriedWhole DEF NoServiceLog
<1>8. /\ KeyOf("service::GetLogInfo", "path") = "path"
  BY DEF KeyOf
<1>9. Arrived("service::GetLogInfo", x, y, 0, O)
  BY <1>2, <1>6, <1>7, <1>8 DEF Arrived
<1> QED  BY <1>5, <1>9 DEF Delivered, j, w, r, y

\* The request that gives the service its streams and users.
LEMMA SyncArrives ==
    ASSUME NEW x \in Objects("service::SyncInfo"), NEW O
    PROVE  Delivered("service::SyncInfo", x, O, SyncDeSerialize(Left(SyncSerialize(x).v, O)))
<1> DEFINE w == SyncSerialize(x).v
           j == Left(w, O)
           r == SyncDeSerialize(j)
           y == r.v
<1>1. /\ DOMAIN w = {"streams", "subscribers"}
      /\ w["streams"] = x.streams /\ w["subscribers"] = x.users
  BY DEF SyncSerialize, Ok
<1>2. /\ DOMAIN x = {"streams", "users"}
  BY DEF Objects
<1>3. MembersRead(j, w, O)
  BY ReadBack
<1> HIDE DEF w, j
<1>4. /\ Get(j, "streams", <<>>) = IF "streams" \in O THEN <<>> ELSE x.streams
      /\ Get(j, "subscribers", <<>>) = IF "subscribers" \in O THEN <<>> ELSE x.users
  BY <1>1, <1>2, <1>3 DEF MembersRead
<1>5. r.ok
  BY DEF SyncDeSerialize, Ok
<1>6. /\ DOMAIN y = DOMAIN x
      /\ y["streams"] = IF "streams" \in O THEN <<>> ELSE x.streams
      /\ y["users"] = IF "subscribers" \in O THEN <<>> ELSE x.users
  BY <1>2, <1>4 DEF SyncDeSerialize, Ok
<1> HIDE DEF r, y
<1>7. /\ Default("service::SyncInfo") = NoSync /\ Carried("service::SyncInfo", x, 0) = x
      /\ NoSync["streams"] = <<>> /\ NoSync["users"] = <<>>
  BY Defaults, CarriedWhole DEF NoSync
<1>8. /\ KeyOf("service::SyncInfo", "streams") = "streams"
      /\ KeyOf("service::SyncInfo", "users") = "subscribers"
  BY DEF KeyOf
<1>9. Arrived("service::SyncInfo", x, y, 0, O)
  BY <1>2, <1>6, <1>7, <1>8 DEF Arrived
<1> QED  BY <1>5, <1>9 DEF Delivered, j, w, r, y

\* The request to prepare directories.
LEMMA PrepareArrives ==
    ASSUME NEW x \in Objects("service::PrepareInfo"), NEW O
    PROVE  Delivered("service::PrepareInfo", x, O, PrepareDeSerialize(Left(PrepareSerialize(x).v, O)))
<1> DEFINE w == PrepareSerialize(x).v
           j == Left(w, O)
           r == PrepareDeSerialize(j)
           y == r.v
<1>1. /\ DOMAIN w = {"feedback_directory", "timeshifts_directory", "hls_directory",
                    "playlists_directory", "dvb_directory", "capture_card_directory",
                    "vods_in_directory", "vods_directory"}
      /\ w["feedback_directory"] = x.feedback
      /\ w["timeshifts_directory"] = x.timeshifts /\ w["hls_directory"] = x.hls
      /\ w["playlists_directory"] = x.playlists /\ w["dvb_directory"] = x.dvb
      /\ w["capture_card_directory"] = x.capture_card
      /\ w["vods_in_directory"] = x.vods_in /\ w["vods_directory"] = x.vods
  BY DEF PrepareSerialize, Ok
<1>2. /\ DOMAIN x = {"feedback", "timeshifts", "hls", "playlists", "dvb", "capture_card",
                    "vods_in", "vods"}
  BY DEF Objects, NoPrepare
<1>3. MembersRead(j, w, O)
  BY ReadBack
<1> HIDE DEF w, j
<1>4. /\ Get(j, "feedback_directory", "") = IF "feedback_directory" \in O THEN "" ELSE x.feedback
      /\ Get(j, "timeshifts_directory", "") = IF "timeshifts_directory" \in O THEN "" ELSE x.timeshifts
      /\ Get(j, "hls_directory", "") = IF "hls_directory" \in O THEN "" ELSE x.hls
      /\ Get(j, "playlists_directory", "") = IF "playlists_directory" \in O THEN "" ELSE x.playlists
      /\ Get(j, "dvb_directory", "") = IF "dvb_directory" \in O THEN "" ELSE x.dvb
      /\ Get(j, "capture_card_directory", "") = IF "capture_card_directory" \in O THEN "" ELSE x.capture_card
      /\ Get(j, "vods_in_directory", "") = IF "vods_in_directory" \in O THEN "" ELSE x.vods_in
      /\ Get(j, "vods_directory", "") = IF "vods_directory" \in O THEN "" ELSE x.vods
  BY <1>1, <1>2, <1>3 DEF MembersRead
<1>5. r.ok
  BY DEF PrepareDeSerialize, Ok
<1>6. /\ DOMAIN y = DOMAIN x
      /\ y["feedback"] = IF "feedback_directory" \in O THEN "" ELSE x.feedback
      /\ y["timeshifts"] = IF "timeshifts_directory" \in O THEN "" ELSE x.timeshifts
      /\ y["hls"] = IF "hls_directory" \in O THEN "" ELSE x.hls
      /\ y["playlists"] = IF "playlists_directory" \in O THEN "" ELSE x.playlists
      /\ y["dvb"] = IF "dvb_directory" \in O THEN "" ELSE x.dvb
      /\ y["capture_card"] = IF "capture_card_directory" \in O THEN "" ELSE x.capture_card
      /\ y["vods_in"] = IF "vods_in_directory" \in O THEN "" ELSE x.vods_in
      /\ y["vods"] = IF "vods_directory" \in O THEN "" ELSE x.vods
  BY <1>2, <1>4 DEF PrepareDeSerialize, Ok
<1> HIDE DEF r, y
<1>7. /\ Default("service::PrepareInfo") = NoPrepare /\ Carried("service::PrepareInfo", x, 0) = x
      /\ NoPrepare["feedback"] = "" /\ NoPrepare["timeshifts"] = ""
      /\ NoPrepare["hls"] = "" /\ NoPrepare["playlists"] = "" /\ NoPrepare["dvb"] = ""
      /\ NoPrepare["capture_card"] = "" /\ NoPrepare["vods_in"] = ""
      /\ NoPrepare["vods"] = ""
  BY Defaults, CarriedWhole DEF NoPrepare
<1>8. /\ KeyOf("service::PrepareInfo", "feedback") = "feedback_directory"
      /\ KeyOf("service::PrepareInfo", "timeshifts") = "timeshifts_directory"
      /\ KeyOf("service::PrepareInfo", "hls") = "hls_directory"
      /\ KeyOf("service::PrepareInfo", "playlists") = "playlists_directory"
      /\ KeyOf("service::PrepareInfo", "dvb") = "dvb_directory"
      /\ KeyOf("service::PrepareInfo", "capture_card") = "capture_card_directory"
      /\ KeyOf("service::PrepareInfo", "vods_in") = "vods_in_directory"
      /\ KeyOf("service::PrepareInfo", "vods") = "vods_directory"
  BY DEF KeyOf
<1>9. Arrived("service::PrepareInfo", x, y, 0, O)
  <2> DEFINE Right(f) == y[f] = IF KeyOf("service::PrepareInfo", f) \in O
                                    THEN Default("service::PrepareInfo")[f]
                                    ELSE Carried("service::PrepareInfo", x, 0)[f]
  <2>1. /\ Right("feedback") /\ Right("timeshifts") /\ Right("hls")
        /\ Right("playlists") /\ Right("dvb") /\ Right("capture_card")
    BY <1>6, <1>7, <1>8
  <2>2. /\ Right("vods_in") /\ Right("vods")
    BY <1>6, <1>7, <1>8
  <2> HIDE DEF Right
  <2>3. \A f \in DOMAIN x : Right(f)
    BY <1>2, <2>1, <2>2
  <2> QED  BY <1>6, <2>3 DEF Arrived, Right
<1> QED  BY <1>5, <1>9 DEF Delivered, j, w, r, y

\* The user that a request is about.
LEMMA UserRpcArrives ==
    ASSUME NEW x \in Objects("UserRpcInfo"), NEW O
    PROVE  Delivered("UserRpcInfo", x, O, UserRpcDeSerialize(Left(UserRpcSerialize(x).v, O)))
<1> DEFINE w == UserRpcSerialize(x).v
           j == Left(w, O)
           r == UserRpcDeSerialize(j)
           y == r.v
<1>1. /\ DOMAIN w = {"user_id", "device_id"}
      /\ w["user_id"] = x.user_id /\ w["device_id"] = x.device_id
  BY DEF UserRpcSerialize, Ok
<1>2. /\ DOMAIN x = {"user_id", "device_id"}
  BY DEF Objects
<1>3. MembersRead(j, w, O)
  BY ReadBack
<1> HIDE DEF w, j
<1>4. /\ Get(j, "user_id", "") = IF "user_id" \in O THEN "" ELSE x.user_id
      /\ Get(j, "device_id", "") = IF "device_id" \in O THEN "" ELSE x.device_id
  BY <1>1, <1>2, <1>3 DEF MembersRead
<1>5. r.ok
  BY DEF UserRpcDeSerialize, Ok
<1>6. /\ DOMAIN y = DOMAIN x
      /\ y["user_id"] = IF "user_id" \in O THEN "" ELSE x.user_id
      /\ y["device_id"] = IF "device_id" \in O THEN "" ELSE x.device_id
  BY <1>2, <1>4 DEF UserRpcDeSerialize, Ok
<1> HIDE DEF r, y
<1>7. /\ Default("UserRpcInfo") = NoUserRpc /\ Carried("UserRpcInfo", x, 0) = x
      /\ NoUserRpc["user_id"] = "" /\ NoUserRpc["device_id"] = ""
  BY Defaults, CarriedWhole DEF NoUserRpc
<1>8. /\ KeyOf("UserRpcInfo", "user_id") = "user_id"
      /\ KeyOf("UserRpcInfo", "device_id") = "device_id"
  BY DEF KeyOf
<1>9. Arrived("UserRpcInfo", x, y, 0, O)
  BY <1>2, <1>6, <1>7, <1>8 DEF Arrived
<1> QED  BY <1>5, <1>9 DEF Delivered, j, w, r, y

\* The account that a subscriber activates with.
LEMMA ServerAuthArrives ==
    ASSUME NEW x \in Objects("ServerAuthInfo"), NEW O, ServerAuthSerialize(x).ok
    PROVE  Delivered("ServerAuthInfo", x, O, ServerAuthDeSerialize(Left(ServerAuthSerialize(x).v, O)))
<1> DEFINE w == ServerAuthSerialize(x).v
           j == Left(w, O)
           r == ServerAuthDeSerialize(j)
           y == r.v
<1>1. /\ DOMAIN w = {"id", "login", "password", "device_id"}
      /\ w["id"] = x.uid /\ w["login"] = x.login /\ w["password"] = x.password
      /\ w["device_id"] = x.device_id
  BY DEF ServerAuthSerialize, Inval, Ok
<1>2. /\ DOMAIN x = {"uid", "login", "password", "device_id"}
  BY DEF Objects
<1>3. MembersRead(j, w, O)
  BY ReadBack
<1> HIDE DEF w, j
<1>4. /\ "id" \notin O => j["id"] = x.uid
      /\ "login" \notin O => j["login"] = x.login
      /\ "password" \notin O => j["password"] = x.password
      /\ "device_id" \notin O => j["device_id"] = x.device_id
      /\ Has(j, "id") <=> "id" \notin O
      /\ Has(j, "login") <=> "login" \notin O
      /\ Has(j, "password") <=> "password" \notin O
      /\ Has(j, "device_id") <=> "device_id" \notin O
  BY <1>1, <1>2, <1>3 DEF MembersRead
<1>5. r.ok <=> "id" \notin O /\ "login" \notin O /\ "password" \notin O /\ "device_id" \notin O
  BY <1>4 DEF ServerAuthDeSerialize, Ok, Inval, Has
<1>6. ASSUME r.ok
      PROVE  /\ DOMAIN y = DOMAIN x
             /\ y["uid"] = IF "id" \in O THEN "" ELSE x.uid
             /\ y["login"] = IF "login" \in O THEN "" ELSE x.login
             /\ y["password"] = IF "password" \in O THEN "" ELSE x.password
             /\ y["device_id"] = IF "device_id" \in O THEN "" ELSE x.device_id
  BY <1>2, <1>4, <1>5, <1>6 DEF ServerAuthDeSerialize, Ok, Inval
<1> HIDE DEF r, y
<1>7. /\ Default("ServerAuthInfo") = NoServerAuth /\ Carried("ServerAuthInfo", x, 0) = x
      /\ NoServerAuth["uid"] = "" /\ NoServerAuth["login"] = ""
      /\ NoServerAuth["password"] = "" /\ NoServerAuth["device_id"] = ""
  BY Defaults, CarriedWhole DEF NoServerAuth
<1>8. /\ KeyOf("ServerAuthInfo", "uid") = "id"
      /\ KeyOf("ServerAuthInfo", "login") = "login"
      /\ KeyOf("ServerAuthInfo", "password") = "password"
      /\ KeyOf("ServerAuthInfo", "device_id") = "device_id"
  BY DEF KeyOf
<1>9. r.ok => Arrived("ServerAuthInfo", x, y, 0, O)
  BY <1>2, <1>6, <1>7, <1>8 DEF Arrived
<1> QED  BY <1>5, <1>9 DEF Delivered, j, w, r, y


\* The users of the servers and a url come back inside of another object.
LEMMA OnlineUsersBack == \A x \in OnlineUsers : OnlineUsersDeSerialize(OnlineUsersSerialize(x).v).v = x
<1> SUFFICES ASSUME NEW x \in OnlineUsers
             PROVE  OnlineUsersDeSerialize(OnlineUsersSerialize(x).v).v = x
  OBVIOUS
<1> DEFINE w == OnlineUsersSerialize(x).v
<1>1. /\ DOMAIN w = {"daemon", "http", "vods", "subscriber"}
      /\ w["daemon"] = ToInt64(x.daemon) /\ w["http"] = ToInt64(x.http)
      /\ w["vods"] = ToInt64(x.vods) /\ w["subscriber"] = ToInt64(x.subscriber)
  BY DEF OnlineUsersSerialize, Ok
<1>2. /\ x.daemon \in Sizes /\ x.http \in Sizes /\ x.vods \in Sizes /\ x.subscriber \in Sizes
      /\ x = [daemon |-> x.daemon, http |-> x.http, vods |-> x.vods, subscriber |-> x.subscriber]
  BY DEF OnlineUsers
<1> HIDE DEF w
<1>3. /\ GetSize(w, "daemon", 0) = x.daemon /\ GetSize(w, "http", 0) = x.http
      /\ GetSize(w, "vods", 0) = x.vods /\ GetSize(w, "subscriber", 0) = x.subscriber
  BY <1>1, <1>2, WidthsKept DEF GetSize, Has
<1>4. OnlineUsersDeSerialize(w).v = x
  BY <1>2, <1>3 DEF OnlineUsersDeSerialize, Ok
<1> QED  BY <1>4 DEF w

\* A url inside of another object comes back as it was.
LEMMA InputUriBack == \A x \in InputUris : InputUriDeSerialize(InputUriSerialize(x).v).v = x
<1> SUFFICES ASSUME NEW x \in InputUris
             PROVE  InputUriDeSerialize(InputUriSerialize(x).v).v = x
  OBVIOUS
<1> DEFINE w == InputUriSerialize(x).v
<1>1. /\ DOMAIN w = {"id", "uri", "user_agent"}
      /\ w["id"] = ToInt64(x.id) /\ w["uri"] = x.input /\ w["user_agent"] = x.user_agent
  BY DEF InputUriSerialize, Ok
<1>2. /\ x.id \in Sizes /\ x.user_agent \in Ints
      /\ x = [id |-> x.id, input |-> x.input, user_agent |-> x.user_agent]
  BY DEF InputUris
<1> HIDE DEF w
<1>3. /\ GetSize(w, "id", 0) = x.id /\ Get(w, "uri", "") = x.input
      /\ GetInt(w, "user_agent", 0) = x.user_agent
  BY <1>1, <1>2, WidthsKept DEF Get, GetInt, GetSize, Has
<1>4. InputUriDeSerialize(w).v = x
  BY <1>2, <1>3 DEF InputUriDeSerialize, Ok
<1> QED  BY <1>4 DEF w

\* A stream that changed to another input.
LEMMA ChangedSourcesArrives ==
    ASSUME NEW x \in Objects("ChangedSouresInfo"), NEW O
    PROVE  Delivered("ChangedSouresInfo", x, O, ChangedSourcesDeSerialize(Left(ChangedSourcesSerialize(x).v, O)))
<1> DEFINE w == ChangedSourcesSerialize(x).v
           j == Left(w, O)
           r == ChangedSourcesDeSerialize(j)
           y == r.v
<1>1. /\ DOMAIN w = {"id", "url"}
      /\ w["id"] = x.id /\ w["url"] = InputUriSerialize(x.url).v
  BY DEF ChangedSourcesSerialize, Ok
<1>2. /\ DOMAIN x = {"id", "url"}
      /\ x.url \in InputUris
  BY DEF Objects
<1>3. MembersRead(j, w, O)
  BY ReadBack
<1> HIDE DEF w, j
<1>4. /\ "id" \notin O => j["id"] = x.id
      /\ Has(j, "url") <=> "url" \notin O
      /\ "url" \notin O => InputUriDeSerialize(j["url"]).v = x.url
      /\ Has(j, "id") <=> "id" \notin O
  BY <1>1, <1>2, <1>3, InputUriBack DEF MembersRead
<1>5. r.ok <=> "id" \notin O
  BY <1>4 DEF ChangedSourcesDeSerialize, Ok, Inval, Has
<1>6. ASSUME r.ok
      PROVE  /\ DOMAIN y = DOMAIN x
             /\ y["id"] = IF "id" \in O THEN "" ELSE x.id
             /\ y["url"] = IF "url" \in O THEN NoInputUri ELSE x.url
  BY <1>2, <1>4, <1>5, <1>6 DEF ChangedSourcesDeSerialize, Ok, Inval
<1> HIDE DEF r, y
<1>7. /\ Default("ChangedSouresInfo") = NoChangedSources /\ Carried("ChangedSouresInfo", x, 0) = x
      /\ NoChangedSources["id"] = "" /\ NoChangedSources["url"] = NoInputUri
  BY Defaults, CarriedWhole DEF NoChangedSources
<1>8. /\ KeyOf("ChangedSouresInfo", "id") = "id"
      /\ KeyOf("ChangedSouresInfo", "url") = "url"
  BY DEF KeyOf
<1>9. r.ok => Arrived("ChangedSouresInfo", x, y, 0, O)
  BY <1>2, <1>6, <1>7, <1>8 DEF Arrived
<1> QED  BY <1>5, <1>9 DEF Delivered, j, w, r, y

\* The load of the service.
LEMMA ServerInfoArrives ==
    ASSUME NEW x \in ServerInfos, NEW O
    PROVE  Delivered("service::ServerInfo", x, O, ServerInfoDeSerialize(Left(ServerInfoSerialize(x).v, O)))
<1> DEFINE w == ServerInfoSerialize(x).v
           j == Left(w, O)
           r == ServerInfoDeSerialize(j)
           y == r.v
<1>1. /\ DOMAIN w = {"cpu", "gpu", "load_average", "memory_total", "memory_free",
                    "memory_available", "hdd_total", "hdd_free", "bandwidth_in",
                    "bandwidth_out", "timestamp", "uptime", "online_users"}
      /\ w["cpu"] = x.cpu_load /\ w["gpu"] = x.gpu_load /\ w["load_average"] = x.uptime
      /\ w["memory_total"] = ToInt64(x.mem_total)
      /\ w["memory_free"] = ToInt64(x.mem_free)
      /\ w["memory_available"] = ToInt64(x.mem_avail)
      /\ w["hdd_total"] = ToInt64(x.hdd_total) /\ w["hdd_free"] = ToInt64(x.hdd_free)
      /\ w["bandwidth_in"] = ToInt64(x.net_bytes_recv)
      /\ w["bandwidth_out"] = ToInt64(x.net_bytes_send) /\ w["timestamp"] = x.current_ts
      /\ w["uptime"] = x.sys_uptime
      /\ w["online_users"] = OnlineUsersSerialize(x.online_users).v
  BY DEF ServerInfoSerialize, Ok
<1>2. /\ DOMAIN x = {"cpu_load", "gpu_load", "uptime", "mem_total", "mem_free",
                    "mem_avail", "hdd_total", "hdd_free", "net_bytes_recv",
                    "net_bytes_send", "current_ts", "sys_uptime", "online_users"}
      /\ x.cpu_load \in Ints /\ x.gpu_load \in Ints /\ x.mem_total \in Sizes
      /\ x.mem_free \in Sizes /\ x.mem_avail \in Sizes /\ x.hdd_total \in Sizes
      /\ x.hdd_free \in Sizes /\ x.net_bytes_recv \in Sizes
      /\ x.net_bytes_send \in Sizes /\ x.online_users \in OnlineUsers
  BY DEF ServerInfos
<1>3. MembersRead(j, w, O)
  BY ReadBack
<1> HIDE DEF w, j
<1>4. /\ GetInt(j, "cpu", 0) = IF "cpu" \in O THEN 0 ELSE x.cpu_load
      /\ GetInt(j, "gpu", 0) = IF "gpu" \in O THEN 0 ELSE x.gpu_load
      /\ Get(j, "load_average", "") = IF "load_average" \in O THEN "" ELSE x.uptime
      /\ GetSize(j, "memory_total", 0) = IF "memory_total" \in O THEN 0 ELSE x.mem_total
      /\ GetSize(j, "memory_free", 0) = IF "memory_free" \in O THEN 0 ELSE x.mem_free
      /\ GetSize(j, "memory_available", 0) = IF "memory_available" \in O THEN 0 ELSE x.mem_avail
      /\ GetSize(j, "hdd_total", 0) = IF "hdd_total" \in O THEN 0 ELSE x.hdd_total
      /\ GetSize(j, "hdd_free", 0) = IF "hdd_free" \in O THEN 0 ELSE x.hdd_free
      /\ GetSize(j, "bandwidth_in", 0) = IF "bandwidth_in" \in O THEN 0 ELSE x.net_bytes_recv
      /\ GetSize(j, "bandwidth_out", 0) = IF "bandwidth_out" \in O THEN 0 ELSE x.net_bytes_send
      /\ Get(j, "timestamp", 0) = IF "timestamp" \in O THEN 0 ELSE x.current_ts
      /\ Get(j, "uptime", 0) = IF "uptime" \in O THEN 0 ELSE x.sys_uptime
      /\ Has(j, "online_users") <=> "online_users" \notin O
      /\ "online_users" \notin O => OnlineUsersDeSerialize(j["online_users"]).v = x.online_users
  <2>1. /\ GetInt(j, "cpu", 0) = IF "cpu" \in O THEN 0 ELSE x.cpu_load
        /\ GetInt(j, "gpu", 0) = IF "gpu" \in O THEN 0 ELSE x.gpu_load
    BY <1>1, <1>2, <1>3 DEF MembersRead
  <2>2. /\ Get(j, "load_average", "") = IF "load_average" \in O THEN "" ELSE x.uptime
    BY <1>1, <1>2, <1>3 DEF MembersRead
  <2>3. /\ GetSize(j, "memory_total", 0) = IF "memory_total" \in O THEN 0 ELSE x.mem_total
        /\ GetSize(j, "memory_free", 0) = IF "memory_free" \in O THEN 0 ELSE x.mem_free
        /\ GetSize(j, "memory_available", 0) = IF "memory_available" \in O THEN 0 ELSE x.mem_avail
    BY <1>1, <1>2, <1>3 DEF MembersRead
  <2>4. /\ GetSize(j, "hdd_total", 0) = IF "hdd_total" \in O THEN 0 ELSE x.hdd_total
        /\ GetSize(j, "hdd_free", 0) = IF "hdd_free" \in O THEN 0 ELSE x.hdd_free
        /\ GetSize(j, "bandwidth_in", 0) = IF "bandwidth_in" \in O THEN 0 ELSE x.net_bytes_recv
    BY <1>1, <1>2, <1>3 DEF MembersRead
  <2>5. /\ GetSize(j, "bandwidth_out", 0) = IF "bandwidth_out" \in O THEN 0 ELSE x.net_bytes_send
    BY <1>1, <1>2, <1>3 DEF MembersRead
  <2>6. /\ Get(j, "timestamp", 0) = IF "timestamp" \in O THEN 0 ELSE x.current_ts
        /\ Get(j, "uptime", 0) = IF "uptime" \in O THEN 0 ELSE x.sys_uptime
    BY <1>1, <1>2, <1>3 DEF MembersRead
  <2>7. /\ Has(j, "online_users") <=> "online_users" \notin O
    BY <1>1, <1>2, <1>3 DEF MembersRead
  <2>8. /\ "online_users" \notin O => OnlineUsersDeSerialize(j["online_users"]).v = x.online_users
    BY <1>1, <1>2, <1>3, OnlineUsersBack DEF MembersRead
  <2> QED  BY <2>1, <2>2, <2>3, <2>4, <2>5, <2>6, <2>7, <2>8
<1>5. r.ok
  BY DEF ServerInfoDeSerialize, Ok
<1>6. /\ DOMAIN y = DOMAIN x
      /\ y["cpu_load"] = IF "cpu" \in O THEN 0 ELSE x.cpu_load
      /\ y["gpu_load"] = IF "gpu" \in O THEN 0 ELSE x.gpu_load
      /\ y["uptime"] = IF "load_average" \in O THEN "" ELSE x.uptime
      /\ y["mem_total"] = IF "memory_total" \in O THEN 0 ELSE x.mem_total
      /\ y["mem_free"] = IF "memory_free" \in O THEN 0 ELSE x.mem_free
      /\ y["mem_avail"] = IF "memory_available" \in O THEN 0 ELSE x.mem_avail
      /\ y["hdd_total"] = IF "hdd_total" \in O THEN 0 ELSE x.hdd_total
      /\ y["hdd_free"] = IF "hdd_free" \in O THEN 0 ELSE x.hdd_free
      /\ y["net_bytes_recv"] = IF "bandwidth_in" \in O THEN 0 ELSE x.net_bytes_recv
      /\ y["net_bytes_send"] = IF "bandwidth_out" \in O THEN 0 ELSE x.net_bytes_send
      /\ y["current_ts"] = IF "timestamp" \in O THEN 0 ELSE x.current_ts
      /\ y["sys_uptime"] = IF "uptime" \in O THEN 0 ELSE x.sys_uptime
      /\ y["online_users"] = IF "online_users" \in O THEN NoOnlineUsers ELSE x.online_users
  BY <1>2, <1>4 DEF ServerInfoDeSerialize, Ok
<1> HIDE DEF r, y
<1>7. /\ Default("service::ServerInfo") = NoServerInfo /\ Carried("service::ServerInfo", x, 0) = x
      /\ NoServerInfo["cpu_load"] = 0 /\ NoServerInfo["gpu_load"] = 0
      /\ NoServerInfo["uptime"] = "" /\ NoServerInfo["mem_total"] = 0
      /\ NoServerInfo["mem_free"] = 0 /\ NoServerInfo["mem_avail"] = 0
      /\ NoServerInfo["hdd_total"] = 0 /\ NoServerInfo["hdd_free"] = 0
      /\ NoServerInfo["net_bytes_recv"] = 0 /\ NoServerInfo["net_bytes_send"] = 0
      /\ NoServerInfo["current_ts"] = 0 /\ NoServerInfo["sys_uptime"] = 0
      /\ NoServerInfo["online_users"] = NoOnlineUsers
  BY Defaults, CarriedWhole DEF NoServerInfo
<1>8. /\ KeyOf("service::ServerInfo", "cpu_load") = "cpu"
      /\ KeyOf("service::ServerInfo", "gpu_load") = "gpu"
      /\ KeyOf("service::ServerInfo", "uptime") = "load_average"
      /\ KeyOf("service::ServerInfo", "mem_total") = "memory_total"
      /\ KeyOf("service::ServerInfo", "mem_free") = "memory_free"
      /\ KeyOf("service::ServerInfo", "mem_avail") = "memory_available"
      /\ KeyOf("service::ServerInfo", "hdd_total") = "hdd_total"
      /\ KeyOf("service::ServerInfo", "hdd_free") = "hdd_free"
      /\ KeyOf("service::ServerInfo", "net_bytes_recv") = "bandwidth_in"
      /\ KeyOf("service::ServerInfo", "net_bytes_send") = "bandwidth_out"
      /\ KeyOf("service::ServerInfo", "current_ts") = "timestamp"
      /\ KeyOf("service::ServerInfo", "sys_uptime") = "uptime"
      /\ KeyOf("service::ServerInfo", "online_users") = "online_users"
  BY DEF KeyOf
<1>9. Arrived("service::ServerInfo", x, y, 0, O)
  <2> DEFINE Right(f) == y[f] = IF KeyOf("service::ServerInfo", f) \in O
                                    THEN Default("service::ServerInfo")[f]
                                    ELSE Carried("service::ServerInfo", x, 0)[f]
  <2>1. /\ Right("cpu_load") /\ Right("gpu_load") /\ Right("uptime")
        /\ Right("mem_total") /\ Right("mem_free") /\ Right("mem_avail")
    BY <1>6, <1>7, <1>8
  <2>2. /\ Right("hdd_total") /\ Right("hdd_free") /\ Right("net_bytes_recv")
        /\ Right("net_bytes_send") /\ Right("current_ts") /\ Right("sys_uptime")
    BY <1>6, <1>7, <1>8
  <2>3. /\ Right("online_users")
    BY <1>6, <1>7, <1>8
  <2> HIDE DEF Right
  <2>4. \A f \in DOMAIN x : Right(f)
    BY <1>2, <2>1, <2>2, <2>3
  <2> QED  BY <1>6, <2>4 DEF Arrived, Right
<1> QED  BY <1>5, <1>9 DEF Delivered, j, w, r, y

\* The greeting of the service.
LEMMA FullServiceArrives ==
    ASSUME NEW x \in FullServiceInfos, NEW O
    PROVE  Delivered("service::FullServiceInfo", x, O, FullServiceDeSerialize(Left(FullServiceSerialize(x).v, O)))
<1> DEFINE w == FullServiceSerialize(x).v
           j == Left(w, O)
           r == FullServiceDeSerialize(j)
           y == r.v
<1>1. /\ DOMAIN w = {"http_host", "vods_host", "subscribers_host", "bandwidth_host",
                    "version", "cpu", "gpu", "load_average", "memory_total",
                    "memory_free", "memory_available", "hdd_total", "hdd_free",
                    "bandwidth_in", "bandwidth_out", "timestamp", "uptime",
                    "online_users"}
      /\ w["http_host"] = x.http_host /\ w["vods_host"] = x.vods_host
      /\ w["subscribers_host"] = x.subscribers_host
      /\ w["bandwidth_host"] = x.bandwidth_host /\ w["version"] = x.proj_ver
      /\ w["cpu"] = x.cpu_load /\ w["gpu"] = x.gpu_load /\ w["load_average"] = x.uptime
      /\ w["memory_total"] = ToInt64(x.mem_total)
      /\ w["memory_free"] = ToInt64(x.mem_free)
      /\ w["memory_available"] = ToInt64(x.mem_avail)
      /\ w["hdd_total"] = ToInt64(x.hdd_total) /\ w["hdd_free"] = ToInt64(x.hdd_free)
      /\ w["bandwidth_in"] = ToInt64(x.net_bytes_recv)
      /\ w["bandwidth_out"] = ToInt64(x.net_bytes_send) /\ w["timestamp"] = x.current_ts
      /\ w["uptime"] = x.sys_uptime
      /\ w["online_users"] = OnlineUsersSerialize(x.online_users).v
  BY DEF FullServiceSerialize, ServerInfoSerialize, ++, Ok
<1>2. /\ DOMAIN x = {"http_host", "vods_host", "subscribers_host", "bandwidth_host",
                    "proj_ver", "cpu_load", "gpu_load", "uptime", "mem_total",
                    "mem_free", "mem_avail", "hdd_total", "hdd_free", "net_bytes_recv",
                    "net_bytes_send", "current_ts", "sys_uptime", "online_users"}
      /\ x.cpu_load \in Ints /\ x.gpu_load \in Ints /\ x.mem_total \in Sizes
      /\ x.mem_free \in Sizes /\ x.mem_avail \in Sizes /\ x.hdd_total \in Sizes
      /\ x.hdd_free \in Sizes /\ x.net_bytes_recv \in Sizes
      /\ x.net_bytes_send \in Sizes /\ x.online_users \in OnlineUsers
  BY DEF FullServiceInfos
<1>3. MembersRead(j, w, O)
  BY ReadBack
<1> HIDE DEF w, j
<1>4. /\ Get(j, "http_host", "") = IF "http_host" \in O THEN "" ELSE x.http_host
      /\ Get(j, "vods_host", "") = IF "vods_host" \in O THEN "" ELSE x.vods_host
      /\ Get(j, "subscribers_host", "") = IF "subscribers_host" \in O THEN "" ELSE x.subscribers_host
      /\ Get(j, "bandwidth_host", "") = IF "bandwidth_host" \in O THEN "" ELSE x.bandwidth_host
      /\ Get(j, "version", "own version") = IF "version" \in O THEN "own version" ELSE x.proj_ver
      /\ GetInt(j, "cpu", 0) = IF "cpu" \in O THEN 0 ELSE x.cpu_load
      /\ GetInt(j, "gpu", 0) = IF "gpu" \in O THEN 0 ELSE x.gpu_load
      /\ Get(j, "load_average", "") = IF "load_average" \in O THEN "" ELSE x.uptime
      /\ GetSize(j, "memory_total", 0) = IF "memory_total" \in O THEN 0 ELSE x.mem_total
      /\ GetSize(j, "memory_free", 0) = IF "memory_free" \in O THEN 0 ELSE x.mem_free
      /\ GetSize(j, "memory_available", 0) = IF "memory_available" \in O THEN 0 ELSE x.mem_avail
      /\ GetSize(j, "hdd_total", 0) = IF "hdd_total" \in O THEN 0 ELSE x.hdd_total
      /\ GetSize(j, "hdd_free", 0) = IF "hdd_free" \in O THEN 0 ELSE x.hdd_free
      /\ GetSize(j, "bandwidth_in", 0) = IF "bandwidth_in" \in O THEN 0 ELSE x.net_bytes_recv
      /\ GetSize(j, "bandwidth_out", 0) = IF "bandwidth_out" \in O THEN 0 ELSE x.net_bytes_send
      /\ Get(j, "timestamp", 0) = IF "timestamp" \in O THEN 0 ELSE x.current_ts
      /\ Get(j, "uptime", 0) = IF "uptime" \in O THEN 0 ELSE x.sys_uptime
      /\ Has(j, "online_users") <=> "online_users" \notin O
      /\ "online_users" \notin O => OnlineUsersDeSerialize(j["online_users"]).v = x.online_users
  <2>1. /\ Get(j, "http_host", "") = IF "http_host" \in O THEN "" ELSE x.http_host
        /\ Get(j, "vods_host", "") = IF "vods_host" \in O THEN "" ELSE x.vods_host
        /\ Get(j, "subscribers_host", "") = IF "subscribers_host" \in O THEN "" ELSE x.subscribers_host
    BY <1>1, <1>2, <1>3 DEF MembersRead
  <2>2. /\ Get(j, "bandwidth_host", "") = IF "bandwidth_host" \in O THEN "" ELSE x.bandwidth_host
        /\ Get(j, "version", "own version") = IF "version" \in O THEN "own version" ELSE x.proj_ver
    BY <1>1, <1>2, <1>3 DEF MembersRead
  <2>3. /\ GetInt(j, "cpu", 0) = IF "cpu" \in O THEN 0 ELSE x.cpu_load
        /\ GetInt(j, "gpu", 0) = IF "gpu" \in O THEN 0 ELSE x.gpu_load
    BY <1>1, <1>2, <1>3 DEF MembersRead
  <2>4. /\ Get(j, "load_average", "") = IF "load_average" \in O THEN "" ELSE x.uptime
    BY <1>1, <1>2, <1>3 DEF MembersRead
  <2>5. /\ GetSize(j, "memory_total", 0) = IF "memory_total" \in O THEN 0 ELSE x.mem_total
        /\ GetSize(j, "memory_free", 0) = IF "memory_free" \in O THEN 0 ELSE x.mem_free
        /\ GetSize(j, "memory_available", 0) = IF "memory_available" \in O THEN 0 ELSE x.mem_avail
    BY <1>1, <1>2, <1>3 DEF MembersRead
  <2>6. /\ GetSize(j, "hdd_total", 0) = IF "hdd_total" \in O THEN 0 ELSE x.hdd_total
        /\ GetSize(j, "hdd_free", 0) = IF "hdd_free" \in O THEN 0 ELSE x.hdd_free
        /\ GetSize(j, "bandwidth_in", 0) = IF "bandwidth_in" \in O THEN 0 ELSE x.net_bytes_recv
    BY <1>1, <1>2, <1>3 DEF MembersRead
  <2>7. /\ GetSize(j, "bandwidth_out", 0) = IF "bandwidth_out" \in O THEN 0 ELSE x.net_bytes_send
    BY <1>1, <1>2, <1>3 DEF MembersRead
  <2>8. /\ Get(j, "timestamp", 0) = IF "timestamp" \in O THEN 0 ELSE x.current_ts
        /\ Get(j, "uptime", 0) = IF "uptime" \in O THEN 0 ELSE x.sys_uptime
    BY <1>1, <1>2, <1>3 DEF MembersRead
  <2>9. /\ Has(j, "online_users") <=> "online_users" \notin O
    BY <1>1, <1>2, <1>3 DEF MembersRead
  <2>10. /\ "online_users" \notin O => OnlineUsersDeSerialize(j["online_users"]).v = x.online_users
    BY <1>1, <1>2, <1>3, OnlineUsersBack DEF MembersRead
  <2> QED  BY <2>1, <2>2, <2>3, <2>4, <2>5, <2>6, <2>7, <2>8, <2>9, <2>10
<1>5. r.ok
  BY DEF FullServiceDeSerialize, ServerInfoDeSerialize, ++, Ok
<1>6. /\ DOMAIN y = DOMAIN x
      /\ y["http_host"] = IF "http_host" \in O THEN "" ELSE x.http_host
      /\ y["vods_host"] = IF "vods_host" \in O THEN "" ELSE x.vods_host
      /\ y["subscribers_host"] = IF "subscribers_host" \in O THEN "" ELSE x.subscribers_host
      /\ y["bandwidth_host"] = IF "bandwidth_host" \in O THEN "" ELSE x.bandwidth_host
      /\ y["proj_ver"] = IF "version" \in O THEN "own version" ELSE x.proj_ver
      /\ y["cpu_load"] = IF "cpu" \in O THEN 0 ELSE x.cpu_load
      /\ y["gpu_load"] = IF "gpu" \in O THEN 0 ELSE x.gpu_load
      /\ y["uptime"] = IF "load_average" \in O THEN "" ELSE x.uptime
      /\ y["mem_total"] = IF "memory_total" \in O THEN 0 ELSE x.mem_total
      /\ y["mem_free"] = IF "memory_free" \in O THEN 0 ELSE x.mem_free
      /\ y["mem_avail"] = IF "memory_available" \in O THEN 0 ELSE x.mem_avail
      /\ y["hdd_total"] = IF "hdd_total" \in O THEN 0 ELSE x.hdd_total
      /\ y["hdd_free"] = IF "hdd_free" \in O THEN 0 ELSE x.hdd_free
      /\ y["net_bytes_recv"] = IF "bandwidth_in" \in O THEN 0 ELSE x.net_bytes_recv
      /\ y["net_bytes_send"] = IF "bandwidth_out" \in O THEN 0 ELSE x.net_bytes_send
      /\ y["current_ts"] = IF "timestamp" \in O THEN 0 ELSE x.current_ts
      /\ y["sys_uptime"] = IF "uptime" \in O THEN 0 ELSE x.sys_uptime
      /\ y["online_users"] = IF "online_users" \in O THEN NoOnlineUsers ELSE x.online_users
  BY <1>2, <1>4 DEF FullServiceDeSerialize, ServerInfoDeSerialize, ++, Ok
<1> HIDE DEF r, y
<1>7. /\ Default("service::FullServiceInfo") = NoFullService /\ Carried("service::FullServiceInfo", x, 0) = x
      /\ NoFullService["http_host"] = "" /\ NoFullService["vods_host"] = ""
      /\ NoFullService["subscribers_host"] = "" /\ NoFullService["bandwidth_host"] = ""
      /\ NoFullService["proj_ver"] = "own version" /\ NoFullService["cpu_load"] = 0
      /\ NoFullService["gpu_load"] = 0 /\ NoFullService["uptime"] = ""
      /\ NoFullService["mem_total"] = 0 /\ NoFullService["mem_free"] = 0
      /\ NoFullService["mem_avail"] = 0 /\ NoFullService["hdd_total"] = 0
      /\ NoFullService["hdd_free"] = 0 /\ NoFullService["net_bytes_recv"] = 0
      /\ NoFullService["net_bytes_send"] = 0 /\ NoFullService["current_ts"] = 0
      /\ NoFullService["sys_uptime"] = 0
      /\ NoFullService["online_users"] = NoOnlineUsers
  BY Defaults, CarriedWhole DEF NoFullService, NoServerInfo, ++
<1>8. /\ KeyOf("service::FullServiceInfo", "http_host") = "http_host"
      /\ KeyOf("service::FullServiceInfo", "vods_host") = "vods_host"
      /\ KeyOf("service::FullServiceInfo", "subscribers_host") = "subscribers_host"
      /\ KeyOf("service::FullServiceInfo", "bandwidth_host") = "bandwidth_host"
      /\ KeyOf("service::FullServiceInfo", "proj_ver") = "version"
      /\ KeyOf("service::FullServiceInfo", "cpu_load") = "cpu"
      /\ KeyOf("service::FullServiceInfo", "gpu_load") = "gpu"
      /\ KeyOf("service::FullServiceInfo", "uptime") = "load_average"
      /\ KeyOf("service::FullServiceInfo", "mem_total") = "memory_total"
      /\ KeyOf("service::FullServiceInfo", "mem_free") = "memory_free"
      /\ KeyOf("service::FullServiceInfo", "mem_avail") = "memory_available"
      /\ KeyOf("service::FullServiceInfo", "hdd_total") = "hdd_total"
      /\ KeyOf("service::FullServiceInfo", "hdd_free") = "hdd_free"
      /\ KeyOf("service::FullServiceInfo", "net_bytes_recv") = "bandwidth_in"
      /\ KeyOf("service::FullServiceInfo", "net_bytes_send") = "bandwidth_out"
      /\ KeyOf("service::FullServiceInfo", "current_ts") = "timestamp"
      /\ KeyOf("service::FullServiceInfo", "sys_uptime") = "uptime"
      /\ KeyOf("service::FullServiceInfo", "online_users") = "online_users"
  BY DEF KeyOf
<1>9. Arrived("service::FullServiceInfo", x, y, 0, O)
  <2> DEFINE Right(f) == y[f] = IF KeyOf("service::FullServiceInfo", f) \in O
                                    THEN Default("service::FullServiceInfo")[f]
                                    ELSE Carried("service::FullServiceInfo", x, 0)[f]
  <2>1. /\ Right("http_host") /\ Right("vods_host") /\ Right("subscribers_host")
        /\ Right("bandwidth_host") /\ Right("proj_ver") /\ Right("cpu_load")
    BY <1>6, <1>7, <1>8
  <2>2. /\ Right("gpu_load") /\ Right("uptime") /\ Right("mem_total")
        /\ Right("mem_free") /\ Right("mem_avail") /\ Right("hdd_total")
    BY <1>6, <1>7, <1>8
  <2>3. /\ Right("hdd_free") /\ Right("net_bytes_recv") /\ Right("net_bytes_send")
        /\ Right("current_ts") /\ Right("sys_uptime") /\ Right("online_users")
    BY <1>6, <1>7, <1>8
  <2> HIDE DEF Right
  <2>4. \A f \in DOMAIN x : Right(f)
    BY <1>2, <2>1, <2>2, <2>3
  <2> QED  BY <1>6, <2>4 DEF Arrived, Right
<1> QED  BY <1>5, <1>9 DEF Delivered, j, w, r, y


\* The logo of a stream.
LEMMA LogoArrives ==
    ASSUME NEW x \in Objects("Logo"), NEW O
    PROVE  Delivered("Logo", x, O, LogoFromString(Left(LogoToString(x).v, O)))
<1> DEFINE w == LogoToString(x).v
           j == Left(w, O)
           r == LogoFromString(j)
           y == r.v
           rounded == ((x.alpha + 5) \div 10) * 10
           z == Carried("Logo", x, 0)
<1>1. /\ DOMAIN w = {"path", "position", "alpha"}
      /\ w["path"] = x.path /\ w["position"] = x.position /\ w["alpha"] = rounded
  BY DEF LogoToString, Ok
<1>2. DOMAIN x = {"path", "position", "alpha"}
  BY DEF Objects
<1>3. MembersRead(j, w, O)
  BY ReadBack
<1>4. z["path"] = x.path /\ z["position"] = x.position /\ z["alpha"] = rounded
  BY <1>2 DEF Carried, Lossy, LeftOf
<1> HIDE DEF w, j, rounded
<1>5. /\ Get(j, "path", "") = IF "path" \in O THEN "" ELSE x.path
      /\ Get(j, "position", <<0, 0>>) = IF "position" \in O THEN <<0, 0>> ELSE x.position
      /\ Get(j, "alpha", 0) = IF "alpha" \in O THEN 0 ELSE rounded
  BY <1>1, <1>2, <1>3 DEF MembersRead
<1>6. /\ r.ok /\ DOMAIN y = DOMAIN x
      /\ y["path"] = IF "path" \in O THEN "" ELSE x.path
      /\ y["position"] = IF "position" \in O THEN <<0, 0>> ELSE x.position
      /\ y["alpha"] = IF "alpha" \in O THEN 0 ELSE rounded
  BY <1>2, <1>5 DEF LogoFromString, Ok
<1> HIDE DEF r, y, z
<1>7. /\ Default("Logo") = NoLogo
      /\ NoLogo["path"] = "" /\ NoLogo["position"] = <<0, 0>> /\ NoLogo["alpha"] = 0
  BY Defaults DEF NoLogo
<1>8. /\ KeyOf("Logo", "path") = "path" /\ KeyOf("Logo", "position") = "position"
      /\ KeyOf("Logo", "alpha") = "alpha"
  BY DEF KeyOf
<1>9. Arrived("Logo", x, y, 0, O)
  BY <1>2, <1>4, <1>6, <1>7, <1>8 DEF Arrived, z
<1> QED  BY <1>6, <1>9 DEF Delivered, j, w, r, y

-----------------------------------------------------------------------------
(* Messages: the loops over arrays                                         *)

\* A sequence of n elements with one more.
LEMMA OneMore ==
    ASSUME NEW n \in Nat, NEW f, NEW s, s = [i \in 1 .. n |-> f[i]], NEW e, e = f[n + 1]
    PROVE  Append(s, e) = [i \in 1 .. n + 1 |-> f[i]]
<1> DEFINE S == {f[i] : i \in 1 .. n + 1}
           t == Append(s, e)
<1>1. s \in Seq(S) /\ e \in S /\ Len(s) = n
  OBVIOUS
<1>2. /\ t \in Seq(S) /\ Len(t) = n + 1
      /\ \A i \in 1 .. n : t[i] = s[i]
      /\ t[n + 1] = e
  BY <1>1, AppendProperties
<1>3. \A i \in 1 .. n + 1 : t[i] = f[i]
  BY <1>2
<1>4. t = [i \in 1 .. n + 1 |-> t[i]]
  BY <1>2
<1> QED  BY <1>3, <1>4

\* The array grows by one result after another.
LEMMA CollectSteps ==
    ASSUME NEW n \in Nat, NEW rs, DOMAIN rs = 1 .. n
    PROVE  \E p : /\ p[0] = <<>>
                  /\ \A k \in 1 .. n : p[k] = PushBack(p[k - 1], rs[k])
                  /\ Collect(rs) = p[n]
<1>1. \A base : \E p : /\ p[0] = base
                       /\ \A k \in 1 .. n : p[k] = PushBack(p[k - 1], rs[k])
                       /\ Collected!Fold(base, rs) = p[n]
  BY Collected!FoldSteps
<1>2. Collect(rs) = Collected!Fold(<<>>, rs)
  BY DEF Collect, Collected!Fold, FoldLeft, Collected!FoldLeft, MapThenFoldSet,
         Collected!MapThenFoldSet, Max, Collected!Max
<1> QED  BY <1>1, <1>2

\* A property of 0 that each number up to n hands to the next is one of n: Bad
\* are the numbers without it.
LEMMA Reached ==
    ASSUME NEW n \in Nat, NEW Bad \in SUBSET (0 .. n), 0 \notin Bad,
           \A k \in 1 .. n : k \in Bad => k - 1 \in Bad
    PROVE  Bad = {}
<1> SUFFICES ASSUME Bad # {}  PROVE FALSE
  OBVIOUS
<1>1. Bad \in SUBSET Nat
  OBVIOUS
<1>2. PICK k \in Bad : \A m \in Bad : k <= m
  BY <1>1, Collected!LeastNumber
<1>3. k \in 1 .. n /\ k - 1 \in Bad
  BY <1>2
<1> QED  BY <1>2, <1>3

\* Every one of the results is a value.
AllOk(rs, n) == DOMAIN rs = 1 .. n /\ \A i \in 1 .. n : rs[i].ok

\* An array of which all elements can be read, or written, comes through whole.
LEMMA CollectsAll ==
    ASSUME NEW n \in Nat, NEW rs, AllOk(rs, n)
    PROVE  Collect(rs) = [i \in 1 .. n |-> rs[i].v]
<1>1. DOMAIN rs = 1 .. n
  BY DEF AllOk
<1>2. PICK p : /\ p[0] = <<>>
               /\ \A k \in 1 .. n : p[k] = PushBack(p[k - 1], rs[k])
               /\ Collect(rs) = p[n]
  BY <1>1, CollectSteps
<1> DEFINE Good(k) == p[k] = [i \in 1 .. k |-> rs[i].v]
           Bad == {k \in 0 .. n : ~Good(k)}
<1>3. Good(0)
  BY <1>2
<1>4. ASSUME NEW k \in 1 .. n, Good(k - 1)  PROVE Good(k)
  <2>1. p[k] = Append(p[k - 1], rs[k].v)
    <3>1. rs[k].ok
      BY DEF AllOk
    <3>2. p[k] = PushBack(p[k - 1], rs[k])
      BY <1>2
    <3> QED  BY <3>1, <3>2 DEF PushBack
  <2>2. k - 1 \in Nat /\ k - 1 + 1 = k
    OBVIOUS
  <2> DEFINE f == [i \in 1 .. n |-> rs[i].v]
  <2>3. p[k - 1] = [i \in 1 .. k - 1 |-> f[i]] /\ rs[k].v = f[k - 1 + 1]
    BY <1>4, <2>2
  <2>4. [i \in 1 .. k |-> f[i]] = [i \in 1 .. k |-> rs[i].v]
    OBVIOUS
  <2> HIDE DEF f
  <2>5. Append(p[k - 1], rs[k].v) = [i \in 1 .. k - 1 + 1 |-> f[i]]
    BY <2>2, <2>3, OneMore
  <2> QED  BY <2>1, <2>2, <2>4, <2>5
<1> HIDE DEF Good
<1>5. Bad = {}
  <2>1. Bad \in SUBSET (0 .. n) /\ 0 \notin Bad
    BY <1>3
  <2>2. \A k \in 1 .. n : k \in Bad => k - 1 \in Bad
    BY <1>4
  <2> HIDE DEF Bad
  <2> QED  BY <2>1, <2>2, Reached
<1>6. Good(n)
  BY <1>5
<1> QED  BY <1>2, <1>6 DEF Good


-----------------------------------------------------------------------------
(* Messages: a user and its devices                                        *)

\* A sequence of valid devices.
Valid(v) == v \in Seq(Devices) /\ \A i \in 1 .. Len(v) : DeviceIsValid(v[i])

\* Devices as an array of JSON objects.
Written(v) == [i \in 1 .. Len(v) |-> DeviceSerialize(v[i]).v]

\* A valid device is written, with an int64_t for its connections, and what was
\* written is read as that device.
LEMMA DeviceThere ==
    ASSUME NEW d \in Devices, DeviceIsValid(d)
    PROVE  /\ DeviceSerialize(d) = Ok(DeviceSerialize(d).v)
           /\ DeviceDeSerialize(DeviceSerialize(d).v) = Ok(d)
<1> DEFINE w == [id |-> d.id, connections |-> ToInt64(d.connections)]
<1>1. DeviceSerialize(d) = Ok(w) /\ Ok(w).v = w
  BY DEF DeviceSerialize, Ok
<1>2. ToSize(ToInt64(d.connections)) = d.connections
  <2>1. d.connections \in Sizes
    BY DEF Devices
  <2> QED  BY <2>1, WidthsKept
<1>3. DeviceDeSerialize(w) = Ok([id |-> d.id, connections |-> ToSize(ToInt64(d.connections))])
  BY DEF DeviceDeSerialize, Has
<1>4. d = [id |-> d.id, connections |-> d.connections]
  BY DEF Devices
<1> HIDE DEF w
<1> QED  BY <1>1, <1>2, <1>3, <1>4

\* The valid devices, one after another.
LEMMA ValidSteps ==
    ASSUME NEW n \in Nat, NEW ds, DOMAIN ds = 1 .. n
    PROVE  \E p : /\ p[0] = <<>>
                  /\ \A k \in 1 .. n : p[k] = KeepValid(p[k - 1], ds[k])
                  /\ ValidDevices(ds) = p[n]
<1>1. \A base : \E p : /\ p[0] = base
                       /\ \A k \in 1 .. n : p[k] = KeepValid(p[k - 1], ds[k])
                       /\ Filtered!Fold(base, ds) = p[n]
  BY Filtered!FoldSteps
<1>2. ValidDevices(ds) = Filtered!Fold(<<>>, ds)
  BY DEF ValidDevices, Filtered!Fold, FoldLeft, Filtered!FoldLeft, MapThenFoldSet,
         Filtered!MapThenFoldSet, Max, Filtered!Max
<1> QED  BY <1>1, <1>2

\* One more device is written behind those before it.
LEMMA WrittenMore ==
    ASSUME NEW v, Valid(v), NEW d \in Devices, DeviceIsValid(d)
    PROVE  /\ Valid(Append(v, d))
           /\ Append(Written(v), DeviceSerialize(d).v) = Written(Append(v, d))
<1> DEFINE n == Len(v)
           t == Append(v, d)
           f == [i \in 1 .. n + 1 |-> DeviceSerialize(t[i]).v]
           w == Written(v)
<1>1. n \in Nat /\ v \in Seq(Devices)
  BY LenProperties DEF Valid
<1>2. /\ t \in Seq(Devices) /\ Len(t) = n + 1
      /\ \A i \in 1 .. n : t[i] = v[i]
      /\ t[n + 1] = d
  BY <1>1, AppendProperties
<1>3. Valid(t)
  <2> SUFFICES ASSUME NEW i \in 1 .. n + 1  PROVE DeviceIsValid(t[i])
    BY <1>2 DEF Valid
  <2>1. CASE i = n + 1
    BY <1>2, <2>1
  <2>2. CASE i # n + 1
    <3>1. i \in 1 .. n
      BY <1>1, <2>2
    <3> QED  BY <1>2, <3>1 DEF Valid
  <2> QED  BY <2>1, <2>2
<1>4. Written(t) = f
  BY <1>2 DEF Written
<1>5. w = [i \in 1 .. n |-> f[i]] /\ DeviceSerialize(d).v = f[n + 1]
  BY <1>1, <1>2 DEF Written
<1>6. f = [i \in 1 .. n + 1 |-> f[i]]
  OBVIOUS
<1> HIDE DEF n, f, w
<1>7. Append(w, DeviceSerialize(d).v) = [i \in 1 .. n + 1 |-> f[i]]
  BY <1>1, <1>5, OneMore
<1> QED  BY <1>3, <1>4, <1>6, <1>7 DEF w

\* What is written of the devices of a user are the valid ones, in their order.
LEMMA DevicesWritten ==
    ASSUME NEW ds \in Seq(Devices)
    PROVE  /\ Valid(ValidDevices(ds))
           /\ Collect([i \in 1 .. Len(ds) |-> DeviceSerialize(ds[i])]) = Written(ValidDevices(ds))
<1> DEFINE n == Len(ds)
           rs == [i \in 1 .. n |-> DeviceSerialize(ds[i])]
<1>1. n \in Nat /\ DOMAIN ds = 1 .. n /\ \A i \in 1 .. n : ds[i] \in Devices
  BY LenProperties, ElementOfSeq
<1>2. DOMAIN rs = 1 .. n /\ \A k \in 1 .. n : rs[k] = DeviceSerialize(ds[k])
  OBVIOUS
<1> HIDE DEF n, rs
<1>3. PICK p : /\ p[0] = <<>>
               /\ \A k \in 1 .. n : p[k] = PushBack(p[k - 1], rs[k])
               /\ Collect(rs) = p[n]
  BY <1>1, <1>2, CollectSteps
<1>4. PICK q : /\ q[0] = <<>>
               /\ \A k \in 1 .. n : q[k] = KeepValid(q[k - 1], ds[k])
               /\ ValidDevices(ds) = q[n]
  BY <1>1, ValidSteps
<1> DEFINE Good(k) == Valid(q[k]) /\ p[k] = Written(q[k])
           Bad == {k \in 0 .. n : ~Good(k)}
<1>5. Good(0)
  <2>1. Valid(<<>>)
    BY DEF Valid
  <2>2. Written(<<>>) = <<>>
    BY DEF Written
  <2> QED  BY <1>3, <1>4, <2>1, <2>2
<1>6. ASSUME NEW k \in 1 .. n, Good(k - 1)  PROVE Good(k)
  <2>1. /\ p[k] = PushBack(p[k - 1], DeviceSerialize(ds[k]))
        /\ q[k] = KeepValid(q[k - 1], ds[k])
        /\ ds[k] \in Devices
    BY <1>1, <1>2, <1>3, <1>4
  <2>2. CASE DeviceIsValid(ds[k])
    <3>1. q[k] = Append(q[k - 1], ds[k])
      BY <2>1, <2>2 DEF KeepValid
    <3>2. p[k] = Append(p[k - 1], DeviceSerialize(ds[k]).v)
      <4>1. DeviceSerialize(ds[k]).ok
        BY <2>2 DEF DeviceSerialize, Ok
      <4> QED  BY <2>1, <4>1 DEF PushBack
    <3> QED  BY <1>6, <2>1, <2>2, <3>1, <3>2, WrittenMore
  <2>3. CASE ~DeviceIsValid(ds[k])
    <3>1. q[k] = q[k - 1]
      BY <2>1, <2>3 DEF KeepValid
    <3>2. p[k] = p[k - 1]
      <4>1. ~DeviceSerialize(ds[k]).ok
        BY <2>3 DEF DeviceSerialize, Inval
      <4> QED  BY <2>1, <4>1 DEF PushBack
    <3> QED  BY <1>6, <3>1, <3>2
  <2> QED  BY <2>2, <2>3
<1> HIDE DEF Good
<1>7. Bad = {}
  <2>1. Bad \in SUBSET (0 .. n) /\ 0 \notin Bad
    BY <1>5
  <2>2. \A k \in 1 .. n : k \in Bad => k - 1 \in Bad
    BY <1>1, <1>6
  <2> HIDE DEF Bad
  <2> QED  BY <1>1, <2>1, <2>2, Reached
<1>8. Good(n)
  BY <1>1, <1>7
<1> QED  BY <1>3, <1>4, <1>8 DEF Good, rs, n

\* Valid devices that were written are read as they were.
LEMMA DevicesRead ==
    ASSUME NEW v, Valid(v), NEW arr, arr = Written(v)
    PROVE  Collect([i \in 1 .. Len(arr) |-> DeviceDeSerialize(arr[i])]) = v
<1> DEFINE n == Len(v)
           rs == [i \in 1 .. Len(arr) |-> DeviceDeSerialize(arr[i])]
<1>1. /\ n \in Nat /\ DOMAIN v = 1 .. n
      /\ \A i \in 1 .. n : v[i] \in Devices /\ DeviceIsValid(v[i])
      /\ v = [i \in 1 .. n |-> v[i]]
  BY LenProperties, ElementOfSeq DEF Valid
<1>2. Len(arr) = n /\ \A i \in 1 .. n : arr[i] = DeviceSerialize(v[i]).v
  <2> DEFINE f == [i \in 1 .. n |-> DeviceSerialize(v[i]).v]
  <2>1. arr = f /\ DOMAIN f = 1 .. n /\ \A i \in 1 .. n : f[i] = DeviceSerialize(v[i]).v
    BY DEF Written
  <2> HIDE DEF n, f
  <2>2. Len(arr) = n
    BY <1>1, <2>1
  <2> QED  BY <2>1, <2>2
<1>3. DOMAIN rs = 1 .. n /\ \A i \in 1 .. n : rs[i] = Ok(v[i])
  <2>1. \A i \in 1 .. n : DeviceDeSerialize(arr[i]) = Ok(v[i])
    BY <1>1, <1>2, DeviceThere
  <2> QED  BY <1>2, <2>1
<1> HIDE DEF n, rs
<1>4. \A i \in 1 .. n : rs[i].ok /\ rs[i].v = v[i]
  BY <1>3 DEF Ok
<1>5. Collect(rs) = [i \in 1 .. n |-> rs[i].v]
  BY <1>1, <1>3, <1>4, CollectsAll DEF AllOk
<1>6. [i \in 1 .. n |-> rs[i].v] = [i \in 1 .. n |-> v[i]]
  BY <1>4
<1> QED  BY <1>1, <1>5, <1>6 DEF rs

\* A user: every field, and the valid ones of the devices.
LEMMA UserArrives ==
    ASSUME NEW x \in Objects("UserInfo"), UserIsValid(x), NEW O
    PROVE  Delivered("UserInfo", x, O, UserDeSerialize(Left(UserSerialize(x).v, O)))
<1> DEFINE w == UserSerialize(x).v
           j == Left(w, O)
           r == UserDeSerialize(j)
           y == r.v
           v == ValidDevices(x.devices)
           arr == Get(j, "devices", <<>>)
           back == Collect([i \in 1 .. Len(arr) |-> DeviceDeSerialize(arr[i])])
           z == Carried("UserInfo", x, 0)
<1>1. /\ DOMAIN x = {"uid", "login", "password", "ch", "devices", "status"}
      /\ x.devices \in Seq(Devices)
  BY DEF Objects
<1>2. /\ DOMAIN w = {"id", "login", "password", "status", "channels", "devices"}
      /\ w["id"] = x.uid /\ w["login"] = x.login /\ w["password"] = x.password
      /\ w["status"] = x.status /\ w["channels"] = x.ch
      /\ w["devices"] = Collect([i \in 1 .. Len(x.devices) |-> DeviceSerialize(x.devices[i])])
  BY DEF UserSerialize, Ok
<1>3. Valid(v) /\ w["devices"] = Written(v)
  BY <1>1, <1>2, DevicesWritten
<1>4. MembersRead(j, w, O)
  BY ReadBack
<1>5. /\ z["uid"] = x.uid /\ z["login"] = x.login /\ z["password"] = x.password
      /\ z["ch"] = x.ch /\ z["status"] = x.status /\ z["devices"] = v
  BY <1>1 DEF Carried, Lossy, LeftOf
<1> HIDE DEF w, j, v
<1>6. back = IF "devices" \in O THEN <<>> ELSE v
  <2>1. arr = IF "devices" \in O THEN <<>> ELSE Written(v)
    BY <1>2, <1>3, <1>4 DEF MembersRead
  <2>2. Valid(<<>>) /\ Written(<<>>) = <<>>
    BY DEF Valid, Written
  <2> HIDE DEF arr
  <2> QED  BY <1>3, <2>1, <2>2, DevicesRead
<1> DEFINE need == {"id", "login", "password", "status"} \subseteq DOMAIN j
<1>7. need <=> {"id", "login", "password", "status"} \cap O = {}
  BY <1>2, <1>4 DEF MembersRead, Has
<1>8. /\ "channels" \notin O => Get(j, "channels", "") = x.ch
      /\ "channels" \in O => Get(j, "channels", "") = ""
  BY <1>2, <1>4 DEF MembersRead
<1>9. need => /\ j["id"] = x.uid /\ j["login"] = x.login
              /\ j["password"] = x.password /\ j["status"] = x.status
  BY <1>2, <1>4, <1>7 DEF MembersRead
<1>10. CASE need
  <2>1. /\ r.ok /\ DOMAIN y = DOMAIN x
        /\ y["uid"] = j["id"] /\ y["login"] = j["login"] /\ y["password"] = j["password"]
        /\ y["status"] = j["status"] /\ y["ch"] = Get(j, "channels", "")
        /\ y["devices"] = back
    BY <1>1, <1>10 DEF UserDeSerialize, Ok
  <2> HIDE DEF r, y, z, back, need
  <2>2. /\ Default("UserInfo") = NoUser
        /\ NoUser["ch"] = "" /\ NoUser["devices"] = <<>>
    BY Defaults DEF NoUser
  <2>3. /\ KeyOf("UserInfo", "uid") = "id" /\ KeyOf("UserInfo", "login") = "login"
        /\ KeyOf("UserInfo", "password") = "password" /\ KeyOf("UserInfo", "status") = "status"
        /\ KeyOf("UserInfo", "ch") = "channels" /\ KeyOf("UserInfo", "devices") = "devices"
    BY DEF KeyOf
  <2> DEFINE Right(f) == y[f] = IF KeyOf("UserInfo", f) \in O THEN Default("UserInfo")[f]
                                ELSE z[f]
  <2>4. Right("uid") /\ Right("login") /\ Right("password") /\ Right("status")
    BY <1>5, <1>7, <1>9, <1>10, <2>1, <2>3
  <2>5. Right("ch")
    BY <1>5, <1>8, <2>1, <2>2, <2>3
  <2>6. Right("devices")
    BY <1>5, <1>6, <2>1, <2>2, <2>3
  <2>7. \A f \in DOMAIN x : Right(f)
    <3> HIDE DEF Right
    <3> QED  BY <1>1, <2>4, <2>5, <2>6
  <2>8. Arrived("UserInfo", x, y, 0, O)
    BY <2>1, <2>7 DEF Arrived, z
  <2> QED  BY <2>1, <2>8 DEF Delivered, j, w, r, y
<1>11. CASE ~need
  <2>1. ~r.ok /\ O # {}
    BY <1>7, <1>11 DEF UserDeSerialize, Inval
  <2> HIDE DEF r, need
  <2> QED  BY <2>1 DEF Delivered, j, w, r
<1> QED  BY <1>10, <1>11


-----------------------------------------------------------------------------
(* Messages: a statistic and its channels                                  *)

\* Channels as an array of JSON objects.
WrittenChannels(ch) == [i \in 1 .. Len(ch) |-> ChannelStatsSerialize(ch[i]).v]

\* A channel keeps all but its total and its time.
LEMMA ChannelThere ==
    ASSUME NEW s \in ChannelStatistics
    PROVE  /\ ChannelStatsDeSerialize(ChannelStatsSerialize(s).v) = Ok(LeftOfChannel(s))
           /\ LeftOfChannel(s) \in ChannelStatistics
<1> DEFINE w == ChannelStatsSerialize(s).v
           k == LeftOfChannel(s)
<1>1. s.id \in Sizes /\ s.prev_total_bytes \in Sizes /\ s.bps \in Sizes
  BY DEF ChannelStatistics
<1>2. /\ ToSize(ToInt64(s.id)) = s.id /\ ToSize(ToInt64(s.bps)) = s.bps
      /\ ToSize(ToInt64(s.prev_total_bytes)) = s.prev_total_bytes
  BY <1>1, WidthsKept
<1>3. /\ DOMAIN w = {"id", "last_update_time", "prev_total_bytes", "total_bytes", "bps", "dbps"}
      /\ w["id"] = ToInt64(s.id) /\ w["prev_total_bytes"] = ToInt64(s.prev_total_bytes)
      /\ w["total_bytes"] = ToInt64(s.prev_total_bytes) /\ w["bps"] = ToInt64(s.bps)
      /\ w["dbps"] = s.desire
  BY DEF ChannelStatsSerialize, Ok
<1> HIDE DEF w
<1>4. ChannelStatsDeSerialize(w) =
        Ok([id |-> s.id, last_update_time |-> Now, total_bytes |-> s.prev_total_bytes,
            prev_total_bytes |-> s.prev_total_bytes, bps |-> s.bps, desire |-> s.desire])
  BY <1>2, <1>3 DEF ChannelStatsDeSerialize, Has, Get, GetSize
<1>5. k = [id |-> s.id, last_update_time |-> Now, total_bytes |-> s.prev_total_bytes,
           prev_total_bytes |-> s.prev_total_bytes, bps |-> s.bps, desire |-> s.desire]
  <2>1. DOMAIN s = {"id", "last_update_time", "total_bytes", "prev_total_bytes", "bps", "desire"}
    BY DEF ChannelStatistics
  <2>2. k = [[s EXCEPT !.total_bytes = s.prev_total_bytes] EXCEPT !.last_update_time = Now]
    BY DEF LeftOfChannel
  <2> QED  BY <2>1, <2>2
<1>6. k \in ChannelStatistics
  <2>1. s.desire \in Texts /\ Now \in Int
    BY WidthAssumption DEF ChannelStatistics
  <2> HIDE DEF k
  <2> QED  BY <1>1, <1>5, <2>1 DEF ChannelStatistics
<1> QED  BY <1>4, <1>5, <1>6 DEF w

\* All channels are written.
LEMMA ChannelsWritten ==
    ASSUME NEW ch \in Seq(ChannelStatistics)
    PROVE  WriteChannels(ch) = WrittenChannels(ch)
<1> DEFINE n == Len(ch)
           rs == [i \in 1 .. n |-> ChannelStatsSerialize(ch[i])]
<1>1. n \in Nat
  BY LenProperties
<1>2. DOMAIN rs = 1 .. n /\ \A i \in 1 .. n : rs[i] = ChannelStatsSerialize(ch[i])
  OBVIOUS
<1>3. WriteChannels(ch) = Collect(rs)
  BY DEF WriteChannels
<1> HIDE DEF n, rs
<1>4. \A i \in 1 .. n : rs[i].ok
  BY <1>2 DEF ChannelStatsSerialize, Ok
<1>5. Collect(rs) = [i \in 1 .. n |-> rs[i].v]
  BY <1>1, <1>2, <1>4, CollectsAll DEF AllOk
<1>6. [i \in 1 .. n |-> rs[i].v] = [i \in 1 .. n |-> ChannelStatsSerialize(ch[i]).v]
  BY <1>2
<1> QED  BY <1>3, <1>5, <1>6 DEF WrittenChannels, n

\* What every reading makes of the channels.
Turned(ch) == [i \in 1 .. Len(ch) |-> LeftOfChannel(ch[Len(ch) - i + 1])]

\* They are read from the last to the first.
LEMMA ChannelsRead ==
    ASSUME NEW ch \in Seq(ChannelStatistics), NEW arr, arr = WrittenChannels(ch)
    PROVE  ReadChannels(arr) = Turned(ch) /\ Turned(ch) \in Seq(ChannelStatistics)
<1> DEFINE n == Len(ch)
           rs == [i \in 1 .. Len(arr) |-> ChannelStatsDeSerialize(arr[Len(arr) - i + 1])]
<1>1. n \in Nat /\ \A i \in 1 .. n : ch[i] \in ChannelStatistics
  BY LenProperties, ElementOfSeq
<1>2. Len(arr) = n /\ \A i \in 1 .. n : arr[i] = ChannelStatsSerialize(ch[i]).v
  <2> DEFINE f == [i \in 1 .. n |-> ChannelStatsSerialize(ch[i]).v]
  <2>1. arr = f /\ DOMAIN f = 1 .. n /\ \A i \in 1 .. n : f[i] = ChannelStatsSerialize(ch[i]).v
    BY DEF WrittenChannels
  <2> HIDE DEF n, f
  <2>2. Len(arr) = n
    BY <1>1, <2>1
  <2> QED  BY <2>1, <2>2
<1>3. ReadChannels(arr) = Collect(rs)
  BY DEF ReadChannels
<1>4. \A i \in 1 .. n : n - i + 1 \in 1 .. n
  BY <1>1
<1>5. DOMAIN rs = 1 .. n /\ \A i \in 1 .. n : rs[i] = Ok(LeftOfChannel(ch[n - i + 1]))
  <2>1. \A i \in 1 .. n : ChannelStatsDeSerialize(arr[i]) = Ok(LeftOfChannel(ch[i]))
    BY <1>1, <1>2, ChannelThere
  <2>2. DOMAIN rs = 1 .. n /\ \A i \in 1 .. n : rs[i] = ChannelStatsDeSerialize(arr[n - i + 1])
    BY <1>2
  <2> HIDE DEF n, rs
  <2> QED  BY <1>4, <2>1, <2>2
<1> HIDE DEF n, rs
<1>6. \A i \in 1 .. n : rs[i].ok /\ rs[i].v = LeftOfChannel(ch[n - i + 1])
  BY <1>5 DEF Ok
<1>7. Collect(rs) = [i \in 1 .. n |-> rs[i].v]
  BY <1>1, <1>5, <1>6, CollectsAll DEF AllOk
<1>8. [i \in 1 .. n |-> rs[i].v] = [i \in 1 .. n |-> LeftOfChannel(ch[n - i + 1])]
  BY <1>6
<1>9. \A i \in 1 .. n : LeftOfChannel(ch[n - i + 1]) \in ChannelStatistics
  BY <1>1, <1>4, ChannelThere
<1> QED  BY <1>1, <1>3, <1>7, <1>8, <1>9 DEF Turned, n

\* The channels after h relays: read once more they are turned round again.
LEMMA TurnedOften ==
    ASSUME NEW ch \in Seq(ChannelStatistics)
    PROVE  /\ LeftOfChannels(ch, 0) = Turned(ch)
           /\ \A h \in Nat : /\ LeftOfChannels(ch, h) \in Seq(ChannelStatistics)
                             /\ Turned(LeftOfChannels(ch, h)) = LeftOfChannels(ch, h + 1)
<1> DEFINE n == Len(ch)
           kept == [i \in 1 .. n |-> LeftOfChannel(ch[i])]
           back == [i \in 1 .. n |-> LeftOfChannel(ch[n - i + 1])]
<1>1. n \in Nat /\ \A i \in 1 .. n : ch[i] \in ChannelStatistics
  BY LenProperties, ElementOfSeq
<1>2. \A i \in 1 .. n : n - i + 1 \in 1 .. n /\ n - (n - i + 1) + 1 = i
  BY <1>1
<1>3. \A s \in ChannelStatistics : LeftOfChannel(s) \in ChannelStatistics
  BY ChannelThere
<1>4. \A s \in ChannelStatistics : LeftOfChannel(LeftOfChannel(s)) = LeftOfChannel(s)
  BY DEF LeftOfChannel, ChannelStatistics
<1>5. /\ kept \in Seq(ChannelStatistics) /\ Len(kept) = n
      /\ \A i \in 1 .. n : kept[i] = LeftOfChannel(ch[i])
  BY <1>1, <1>3
<1>6. /\ back \in Seq(ChannelStatistics) /\ Len(back) = n
      /\ \A i \in 1 .. n : back[i] = LeftOfChannel(ch[n - i + 1])
  BY <1>1, <1>2, <1>3
<1>7. Reverse(kept) = back
  <2>1. Reverse(kept) = [i \in 1 .. n |-> kept[n - i + 1]]
    BY <1>5 DEF Reverse
  <2>2. \A i \in 1 .. n : kept[n - i + 1] = LeftOfChannel(ch[n - i + 1])
    BY <1>2, <1>5
  <2> HIDE DEF kept, n
  <2> QED  BY <2>1, <2>2
<1>8. Turned(kept) = back
  <2>1. Turned(kept) = [i \in 1 .. n |-> LeftOfChannel(kept[n - i + 1])]
    BY <1>5 DEF Turned
  <2>2. \A i \in 1 .. n : LeftOfChannel(kept[n - i + 1]) = LeftOfChannel(ch[n - i + 1])
    BY <1>1, <1>2, <1>4, <1>5
  <2> HIDE DEF kept, n
  <2> QED  BY <2>1, <2>2
<1>9. Turned(back) = kept
  <2>1. Turned(back) = [i \in 1 .. n |-> LeftOfChannel(back[n - i + 1])]
    BY <1>6 DEF Turned
  <2>2. \A i \in 1 .. n : LeftOfChannel(back[n - i + 1]) = LeftOfChannel(ch[i])
    BY <1>1, <1>2, <1>4, <1>6
  <2> HIDE DEF back, n
  <2> QED  BY <2>1, <2>2
<1>10. Turned(ch) = back
  BY DEF Turned
<1>11. \A h \in Nat : LeftOfChannels(ch, h) = IF h % 2 = 0 THEN back ELSE kept
  BY <1>7 DEF LeftOfChannels
<1> HIDE DEF kept, back, n
<1>12. \A h \in Nat : (h % 2 = 0) <=> ((h + 1) % 2 # 0)
  OBVIOUS
<1>13. LeftOfChannels(ch, 0) = back
  BY <1>11
<1>14. ASSUME NEW h \in Nat
       PROVE  /\ LeftOfChannels(ch, h) \in Seq(ChannelStatistics)
              /\ Turned(LeftOfChannels(ch, h)) = LeftOfChannels(ch, h + 1)
  <2>1. h + 1 \in Nat
    OBVIOUS
  <2>2. CASE h % 2 = 0
    BY <1>6, <1>9, <1>11, <1>12, <2>1, <2>2
  <2>3. CASE h % 2 # 0
    BY <1>5, <1>8, <1>11, <1>12, <2>1, <2>3
  <2> QED  BY <2>2, <2>3
<1> QED  BY <1>10, <1>13, <1>14

\* A statistic is written only if it names a stream.
Named(x) == x.id # ""

\* A statistic, whose rss is an int when it is read.
LEMMA StatisticArrives ==
    ASSUME NEW x \in Statistics, Named(x), NEW O
    PROVE  Delivered("StatisticInfo", x, O, StatisticDeSerialize(Left(StatisticSerialize(x).v, O)))
<1> DEFINE w == StatisticSerialize(x).v
           j == Left(w, O)
           r == StatisticDeSerialize(j)
           y == r.v
           z == Carried("StatisticInfo", x, 0)
           ins == ReadChannels(Get(j, "input_streams", <<>>))
           outs == ReadChannels(Get(j, "output_streams", <<>>))
<1>1. /\ DOMAIN x = {"id", "type", "status", "input", "output", "start_time",
                     "loop_start_time", "restarts", "cpu_load", "rss_bytes", "timestamp"}
      /\ x.input \in Seq(ChannelStatistics) /\ x.output \in Seq(ChannelStatistics)
      /\ x.type \in Ints /\ x.status \in Ints /\ x.restarts \in Sizes
      /\ x.rss_bytes \in 0 .. Int64Max
  BY DEF Statistics
<1>2. /\ DOMAIN w = {"id", "type", "input_streams", "output_streams", "loop_start_time", "rss",
                     "cpu", "status", "restarts", "start_time", "timestamp"}
      /\ w["id"] = x.id /\ w["type"] = x.type /\ w["status"] = x.status
      /\ w["input_streams"] = WriteChannels(x.input)
      /\ w["output_streams"] = WriteChannels(x.output)
  BY DEF Named, StatisticSerialize, Ok
<1>3. /\ w["loop_start_time"] = x.loop_start_time /\ w["start_time"] = x.start_time
      /\ w["cpu"] = x.cpu_load /\ w["timestamp"] = x.timestamp
      /\ w["restarts"] = ToInt64(x.restarts) /\ w["rss"] = ToInt64(x.rss_bytes)
  BY DEF Named, StatisticSerialize, Ok
<1>4. w["rss"] = x.rss_bytes
  <2> HIDE DEF w
  <2> QED  BY <1>1, <1>3, WidthAssumption DEF ToInt64
<1>5. MembersRead(j, w, O)
  BY ReadBack
<1>6. /\ z["id"] = x.id /\ z["type"] = x.type /\ z["status"] = x.status
      /\ z["start_time"] = x.start_time /\ z["loop_start_time"] = x.loop_start_time
      /\ z["restarts"] = x.restarts /\ z["cpu_load"] = x.cpu_load /\ z["timestamp"] = x.timestamp
      /\ z["input"] = LeftOfChannels(x.input, 0) /\ z["output"] = LeftOfChannels(x.output, 0)
      /\ z["rss_bytes"] = AsInt(x.rss_bytes)
  BY <1>1 DEF Carried, Lossy, LeftOf
<1> HIDE DEF w, j, z
<1>7. /\ ins = IF "input_streams" \in O THEN <<>> ELSE z["input"]
      /\ outs = IF "output_streams" \in O THEN <<>> ELSE z["output"]
  <2>1. /\ ReadChannels(WriteChannels(x.input)) = z["input"]
        /\ ReadChannels(WriteChannels(x.output)) = z["output"]
    BY <1>1, <1>6, ChannelsWritten, ChannelsRead, TurnedOften
  <2>2. ReadChannels(<<>>) = <<>>
    <3> DEFINE S == Seq(ChannelStatistics)
    <3>1. <<>> \in S
      OBVIOUS
    <3>2. WrittenChannels(<<>>) = <<>>
      BY DEF WrittenChannels
    <3>3. Turned(<<>>) = <<>>
      BY DEF Turned
    <3> QED  BY <3>1, <3>2, <3>3, ChannelsRead
  <2>3. /\ Get(j, "input_streams", <<>>) =
              IF "input_streams" \in O THEN <<>> ELSE WriteChannels(x.input)
        /\ Get(j, "output_streams", <<>>) =
              IF "output_streams" \in O THEN <<>> ELSE WriteChannels(x.output)
    BY <1>2, <1>5 DEF MembersRead
  <2> QED  BY <2>1, <2>2, <2>3
<1>8. /\ Has(j, "id") <=> "id" \notin O
      /\ Has(j, "type") <=> "type" \notin O
      /\ "id" \notin O => j["id"] = x.id
      /\ "type" \notin O => j["type"] = x.type
  BY <1>2, <1>5 DEF MembersRead
<1>9. /\ Get(j, "start_time", 0) = IF "start_time" \in O THEN 0 ELSE x.start_time
      /\ Get(j, "loop_start_time", 0) = IF "loop_start_time" \in O THEN 0 ELSE x.loop_start_time
      /\ Get(j, "cpu", 0) = IF "cpu" \in O THEN 0 ELSE x.cpu_load
      /\ Get(j, "timestamp", 0) = IF "timestamp" \in O THEN 0 ELSE x.timestamp
  BY <1>2, <1>3, <1>5 DEF MembersRead
<1>10. GetInt(j, "status", 0) = IF "status" \in O THEN 0 ELSE x.status
  BY <1>1, <1>2, <1>5 DEF MembersRead
<1>11. GetSize(j, "restarts", 0) = IF "restarts" \in O THEN 0 ELSE x.restarts
  <2>1. "restarts" \in DOMAIN w /\ w["restarts"] = ToInt64(x.restarts) /\ x.restarts \in Sizes
    BY <1>1, <1>2, <1>3
  <2> QED  BY <1>5, <2>1 DEF MembersRead
<1>12. GetInt(j, "rss", 0) = IF "rss" \in O THEN 0 ELSE z["rss_bytes"]
  <2>1. Has(j, "rss") <=> "rss" \notin O
    BY <1>2, <1>5 DEF MembersRead
  <2>2. "rss" \notin O => j["rss"] = x.rss_bytes
    BY <1>2, <1>4, <1>5 DEF MembersRead
  <2> QED  BY <1>6, <2>1, <2>2 DEF GetInt
<1>13. CASE "id" \in O \/ "type" \in O
  <2>1. ~r.ok /\ O # {}
    BY <1>8, <1>13 DEF StatisticDeSerialize, Inval
  <2> HIDE DEF r
  <2> QED  BY <2>1 DEF Delivered, j, w, r
<1>14. CASE "id" \notin O /\ "type" \notin O
  <2>0. AsInt(x.type) = x.type
    BY <1>1, WidthsKept
  <2> HIDE DEF ins, outs
  <2>1. /\ r.ok /\ DOMAIN y = DOMAIN x
        /\ y["id"] = x.id /\ y["type"] = x.type /\ y["input"] = ins /\ y["output"] = outs
    BY <1>1, <1>8, <1>14, <2>0 DEF StatisticDeSerialize, Ok, ins, outs
  <2>2. /\ y["status"] = GetInt(j, "status", 0)
        /\ y["start_time"] = Get(j, "start_time", 0)
        /\ y["loop_start_time"] = Get(j, "loop_start_time", 0)
        /\ y["restarts"] = GetSize(j, "restarts", 0)
        /\ y["cpu_load"] = Get(j, "cpu", 0)
        /\ y["rss_bytes"] = GetInt(j, "rss", 0)
        /\ y["timestamp"] = Get(j, "timestamp", 0)
    BY <1>8, <1>14 DEF StatisticDeSerialize, Ok
  <2> HIDE DEF r, y
  <2>3. /\ Default("StatisticInfo") = NoStatistic
        /\ NoStatistic["status"] = 0 /\ NoStatistic["input"] = <<>>
        /\ NoStatistic["output"] = <<>> /\ NoStatistic["start_time"] = 0
        /\ NoStatistic["loop_start_time"] = 0 /\ NoStatistic["restarts"] = 0
        /\ NoStatistic["cpu_load"] = 0 /\ NoStatistic["rss_bytes"] = 0
        /\ NoStatistic["timestamp"] = 0
    BY Defaults DEF NoStatistic
  <2> DEFINE K(f) == KeyOf("StatisticInfo", f)
  <2>4. /\ K("id") = "id" /\ K("type") = "type" /\ K("status") = "status"
        /\ K("start_time") = "start_time" /\ K("loop_start_time") = "loop_start_time"
        /\ K("restarts") = "restarts" /\ K("timestamp") = "timestamp"
    BY DEF KeyOf
  <2>5. /\ K("input") = "input_streams" /\ K("output") = "output_streams"
        /\ K("cpu_load") = "cpu" /\ K("rss_bytes") = "rss"
    BY DEF KeyOf
  <2> DEFINE Right(f) == y[f] = IF K(f) \in O THEN Default("StatisticInfo")[f] ELSE z[f]
  <2> HIDE DEF K
  <2>6. Right("id") /\ Right("type")
    BY <1>6, <1>14, <2>1, <2>4
  <2>7. Right("input") /\ Right("output")
    BY <1>7, <2>1, <2>3, <2>5
  <2>8. Right("status") /\ Right("restarts") /\ Right("rss_bytes")
    BY <1>6, <1>10, <1>11, <1>12, <2>2, <2>3, <2>4, <2>5
  <2>9. Right("start_time") /\ Right("loop_start_time")
    BY <1>6, <1>9, <2>2, <2>3, <2>4
  <2>10. Right("cpu_load") /\ Right("timestamp")
    BY <1>6, <1>9, <2>2, <2>3, <2>4, <2>5
  <2>11. \A f \in DOMAIN x : Right(f)
    <3> HIDE DEF Right
    <3> QED  BY <1>1, <2>6, <2>7, <2>8, <2>9, <2>10
  <2>12. Arrived("StatisticInfo", x, y, 0, O)
    BY <2>1, <2>11 DEF Arrived, K, z
  <2> QED  BY <2>1, <2>12 DEF Delivered, j, w, r, y
<1> QED  BY <1>13, <1>14


-----------------------------------------------------------------------------
(* Messages: every class                                                   *)

\* The functions that write and read the objects of a class.
LEMMA Writers == \A x :
    /\ Serialize("InputUri", x) = InputUriSerialize(x)
    /\ Serialize("OutputUri", x) = OutputUriSerialize(x)
    /\ Serialize("Logo", x) = LogoToString(x)
    /\ Serialize("StatisticInfo", x) = StatisticSerialize(x)
    /\ Serialize("ChangedSouresInfo", x) = ChangedSourcesSerialize(x)
    /\ Serialize("stream::StreamInfo", x) = StreamInfoSerialize(x)
    /\ Serialize("stream::GetLogInfo", x) = StreamLogSerialize(x)
    /\ Serialize("stream::QuitStatusInfo", x) = QuitStatusSerialize(x)
    /\ Serialize("stream::StartInfo", x) = StartSerialize(x)
    /\ Serialize("service::LicenseInfo", x) = LicenseSerialize(x)
    /\ Serialize("service::StopInfo", x) = StopSerialize(x)
    /\ Serialize("service::GetLogInfo", x) = ServiceLogSerialize(x)
    /\ Serialize("service::SyncInfo", x) = SyncSerialize(x)
    /\ Serialize("service::PrepareInfo", x) = PrepareSerialize(x)
    /\ Serialize("service::ServerInfo", x) = ServerInfoSerialize(x)
    /\ Serialize("service::FullServiceInfo", x) = FullServiceSerialize(x)
    /\ Serialize("UserInfo", x) = UserSerialize(x)
    /\ Serialize("UserRpcInfo", x) = UserRpcSerialize(x)
    /\ Serialize("ServerAuthInfo", x) = ServerAuthSerialize(x)
BY DEF Serialize

\* The same for DoDeSerialize.
LEMMA Readers == \A j :
    /\ DeSerialize("InputUri", j) = InputUriDeSerialize(j)
    /\ DeSerialize("OutputUri", j) = OutputUriDeSerialize(j)
    /\ DeSerialize("Logo", j) = LogoFromString(j)
    /\ DeSerialize("StatisticInfo", j) = StatisticDeSerialize(j)
    /\ DeSerialize("ChangedSouresInfo", j) = ChangedSourcesDeSerialize(j)
    /\ DeSerialize("stream::StreamInfo", j) = StreamInfoDeSerialize(j)
    /\ DeSerialize("stream::GetLogInfo", j) = StreamLogDeSerialize(j)
    /\ DeSerialize("stream::QuitStatusInfo", j) = QuitStatusDeSerialize(j)
    /\ DeSerialize("stream::StartInfo", j) = StartDeSerialize(j)
    /\ DeSerialize("service::LicenseInfo", j) = LicenseDeSerialize(j)
    /\ DeSerialize("service::StopInfo", j) = StopDeSerialize(j)
    /\ DeSerialize("service::GetLogInfo", j) = ServiceLogDeSerialize(j)
    /\ DeSerialize("service::SyncInfo", j) = SyncDeSerialize(j)
    /\ DeSerialize("service::PrepareInfo", j) = PrepareDeSerialize(j)
    /\ DeSerialize("service::ServerInfo", j) = ServerInfoDeSerialize(j)
    /\ DeSerialize("service::FullServiceInfo", j) = FullServiceDeSerialize(j)
    /\ DeSerialize("UserInfo", j) = UserDeSerialize(j)
    /\ DeSerialize("UserRpcInfo", j) = UserRpcDeSerialize(j)
    /\ DeSerialize("ServerAuthInfo", j) = ServerAuthDeSerialize(j)
BY DEF DeSerialize

\* An object that can be written.
Sendable(c, x) == Serialize(c, x).ok

\* Whatever the class: what was written is read again, field by field, and a
\* complete message is not refused.
LEMMA Delivery ==
    ASSUME NEW c \in ClassNames, NEW x \in Objects(c), Sendable(c, x), NEW O
    PROVE  Delivered(c, x, O, DeSerialize(c, Left(Serialize(c, x).v, O)))
<1>1. CASE c = "InputUri"
  <2>1. /\ Serialize(c, x) = InputUriSerialize(x)
        /\ \A j : DeSerialize(c, j) = InputUriDeSerialize(j)
    BY <1>1, Writers, Readers
  <2>2. x \in InputUris
    BY <1>1 DEF Objects
  <2> QED  BY <1>1, <2>1, <2>2, InputUriArrives
<1>2. CASE c = "OutputUri"
  <2>1. /\ Serialize(c, x) = OutputUriSerialize(x)
        /\ \A j : DeSerialize(c, j) = OutputUriDeSerialize(j)
    BY <1>2, Writers, Readers
  <2>2. x \in Objects("OutputUri")
    BY <1>2
  <2> QED  BY <1>2, <2>1, <2>2, OutputUriArrives
<1>3. CASE c = "Logo"
  <2>1. /\ Serialize(c, x) = LogoToString(x)
        /\ \A j : DeSerialize(c, j) = LogoFromString(j)
    BY <1>3, Writers, Readers
  <2>2. x \in Objects("Logo")
    BY <1>3
  <2> QED  BY <1>3, <2>1, <2>2, LogoArrives
<1>4. CASE c = "StatisticInfo"
  <2>1. /\ Serialize(c, x) = StatisticSerialize(x)
        /\ \A j : DeSerialize(c, j) = StatisticDeSerialize(j)
    BY <1>4, Writers, Readers
  <2>2. x \in Statistics
    BY <1>4 DEF Objects
  <2>3. Named(x)
    <3>1. StatisticSerialize(x).ok
      BY <2>1 DEF Sendable
    <3>2. x.id = "" => StatisticSerialize(x) = Inval
      BY DEF StatisticSerialize
    <3>3. ~Inval.ok
      BY DEF Inval
    <3> QED  BY <3>1, <3>2, <3>3 DEF Named
  <2> QED  BY <1>4, <2>1, <2>2, <2>3, StatisticArrives
<1>5. CASE c = "ChangedSouresInfo"
  <2>1. /\ Serialize(c, x) = ChangedSourcesSerialize(x)
        /\ \A j : DeSerialize(c, j) = ChangedSourcesDeSerialize(j)
    BY <1>5, Writers, Readers
  <2>2. x \in Objects("ChangedSouresInfo")
    BY <1>5
  <2> QED  BY <1>5, <2>1, <2>2, ChangedSourcesArrives
<1>6. CASE c = "stream::StreamInfo"
  <2>1. /\ Serialize(c, x) = StreamInfoSerialize(x)
        /\ \A j : DeSerialize(c, j) = StreamInfoDeSerialize(j)
    BY <1>6, Writers, Readers
  <2>2. x \in Objects("stream::StreamInfo")
    BY <1>6
  <2> QED  BY <1>6, <2>1, <2>2, StreamInfoArrives
<1>7. CASE c = "stream::GetLogInfo"
  <2>1. /\ Serialize(c, x) = StreamLogSerialize(x)
        /\ \A j : DeSerialize(c, j) = StreamLogDeSerialize(j)
    BY <1>7, Writers, Readers
  <2>2. x \in Objects("stream::GetLogInfo")
    BY <1>7
  <2> QED  BY <1>7, <2>1, <2>2, StreamLogArrives
<1>8. CASE c = "stream::QuitStatusInfo"
  <2>1. /\ Serialize(c, x) = QuitStatusSerialize(x)
        /\ \A j : DeSerialize(c, j) = QuitStatusDeSerialize(j)
    BY <1>8, Writers, Readers
  <2>2. x \in Objects("stream::QuitStatusInfo")
    BY <1>8
  <2> QED  BY <1>8, <2>1, <2>2, QuitStatusArrives
<1>9. CASE c = "stream::StartInfo"
  <2>1. /\ Serialize(c, x) = StartSerialize(x)
        /\ \A j : DeSerialize(c, j) = StartDeSerialize(j)
    BY <1>9, Writers, Readers
  <2>2. x \in Objects("stream::StartInfo")
    BY <1>9
  <2> QED  BY <1>9, <2>1, <2>2, StartArrives
<1>10. CASE c = "service::LicenseInfo"
  <2>1. /\ Serialize(c, x) = LicenseSerialize(x)
        /\ \A j : DeSerialize(c, j) = LicenseDeSerialize(j)
    BY <1>10, Writers, Readers
  <2>2. x \in Objects("service::LicenseInfo")
    BY <1>10
  <2> QED  BY <1>10, <2>1, <2>2, LicenseArrives
<1>11. CASE c = "service::StopInfo"
  <2>1. /\ Serialize(c, x) = StopSerialize(x)
        /\ \A j : DeSerialize(c, j) = StopDeSerialize(j)
    BY <1>11, Writers, Readers
  <2>2. x \in Objects("service::StopInfo")
    BY <1>11
  <2> QED  BY <1>11, <2>1, <2>2, StopArrives
<1>12. CASE c = "service::GetLogInfo"
  <2>1. /\ Serialize(c, x) = ServiceLogSerialize(x)
        /\ \A j : DeSerialize(c, j) = ServiceLogDeSerialize(j)
    BY <1>12, Writers, Readers
  <2>2. x \in Objects("service::GetLogInfo")
    BY <1>12
  <2> QED  BY <1>12, <2>1, <2>2, ServiceLogArrives
<1>13. CASE c = "service::SyncInfo"
  <2>1. /\ Serialize(c, x) = SyncSerialize(x)
        /\ \A j : DeSerialize(c, j) = SyncDeSerialize(j)
    BY <1>13, Writers, Readers
  <2>2. x \in Objects("service::SyncInfo")
    BY <1>13
  <2> QED  BY <1>13, <2>1, <2>2, SyncArrives
<1>14. CASE c = "service::PrepareInfo"
  <2>1. /\ Serialize(c, x) = PrepareSerialize(x)
        /\ \A j : DeSerialize(c, j) = PrepareDeSerialize(j)
    BY <1>14, Writers, Readers
  <2>2. x \in Objects("service::PrepareInfo")
    BY <1>14
  <2> QED  BY <1>14, <2>1, <2>2, PrepareArrives
<1>15. CASE c = "service::ServerInfo"
  <2>1. /\ Serialize(c, x) = ServerInfoSerialize(x)
        /\ \A j : DeSerialize(c, j) = ServerInfoDeSerialize(j)
    BY <1>15, Writers, Readers
  <2>2. x \in ServerInfos
    BY <1>15 DEF Objects
  <2> QED  BY <1>15, <2>1, <2>2, ServerInfoArrives
<1>16. CASE c = "service::FullServiceInfo"
  <2>1. /\ Serialize(c, x) = FullServiceSerialize(x)
        /\ \A j : DeSerialize(c, j) = FullServiceDeSerialize(j)
    BY <1>16, Writers, Readers
  <2>2. x \in FullServiceInfos
    BY <1>16 DEF Objects
  <2> QED  BY <1>16, <2>1, <2>2, FullServiceArrives
<1>17. CASE c = "UserInfo"
  <2>1. /\ Serialize(c, x) = UserSerialize(x)
        /\ \A j : DeSerialize(c, j) = UserDeSerialize(j)
    BY <1>17, Writers, Readers
  <2>2. x \in Objects("UserInfo")
    BY <1>17
  <2>3. UserIsValid(x)
    BY <2>1 DEF Sendable, UserSerialize, Inval
  <2> QED  BY <1>17, <2>1, <2>2, <2>3, UserArrives
<1>18. CASE c = "UserRpcInfo"
  <2>1. /\ Serialize(c, x) = UserRpcSerialize(x)
        /\ \A j : DeSerialize(c, j) = UserRpcDeSerialize(j)
    BY <1>18, Writers, Readers
  <2>2. x \in Objects("UserRpcInfo")
    BY <1>18
  <2> QED  BY <1>18, <2>1, <2>2, UserRpcArrives
<1>19. CASE c = "ServerAuthInfo"
  <2>1. /\ Serialize(c, x) = ServerAuthSerialize(x)
        /\ \A j : DeSerialize(c, j) = ServerAuthDeSerialize(j)
    BY <1>19, Writers, Readers
  <2>2. x \in Objects("ServerAuthInfo")
    BY <1>19
  <2>3. ServerAuthSerialize(x).ok
    BY <2>1 DEF Sendable
  <2> QED  BY <1>19, <2>1, <2>2, <2>3, ServerAuthArrives
<1> QED
  BY <1>1, <1>2, <1>3, <1>4, <1>5, <1>6, <1>7, <1>8, <1>9, <1>10,
     <1>11, <1>12, <1>13, <1>14, <1>15, <1>16, <1>17, <1>18, <1>19 DEF ClassNames


\* Different fields of an object are written to different members.
LEMMA KeysDiffer ==
    ASSUME NEW c \in ClassNames, NEW x \in Objects(c),
           NEW f \in DOMAIN x, NEW g \in DOMAIN x, KeyOf(c, f) = KeyOf(c, g)
    PROVE  f = g
<1>1. CASE c = "InputUri"
  <2>1. DOMAIN x = {"id", "input", "user_agent"}
    BY <1>1 DEF Objects, InputUris
  <2>2. /\ KeyOf(c, "id") = "id"
        /\ KeyOf(c, "input") = "uri"
        /\ KeyOf(c, "user_agent") = "user_agent"
    BY <1>1 DEF KeyOf
  <2> QED  BY <2>1, <2>2
<1>2. CASE c = "OutputUri"
  <2>1. DOMAIN x = {"id", "output", "http_root"}
    BY <1>2 DEF Objects
  <2>2. /\ KeyOf(c, "id") = "id"
        /\ KeyOf(c, "output") = "uri"
        /\ KeyOf(c, "http_root") = "http_root"
    BY <1>2 DEF KeyOf
  <2> QED  BY <2>1, <2>2
<1>3. CASE c = "Logo"
  <2>1. DOMAIN x = {"path", "position", "alpha"}
    BY <1>3 DEF Objects
  <2>2. /\ KeyOf(c, "path") = "path"
        /\ KeyOf(c, "position") = "position"
        /\ KeyOf(c, "alpha") = "alpha"
    BY <1>3 DEF KeyOf
  <2> QED  BY <2>1, <2>2
<1>4. CASE c = "StatisticInfo"
  <2>1. DOMAIN x = {"id", "type", "status", "input", "output", "start_time",
                       "loop_start_time", "restarts", "cpu_load", "rss_bytes", "timestamp"}
    BY <1>4 DEF Objects, Statistics
  <2>2. /\ KeyOf(c, "id") = "id"
        /\ KeyOf(c, "type") = "type"
        /\ KeyOf(c, "status") = "status"
        /\ KeyOf(c, "input") = "input_streams"
    BY <1>4 DEF KeyOf
  <2>3. /\ KeyOf(c, "output") = "output_streams"
        /\ KeyOf(c, "start_time") = "start_time"
        /\ KeyOf(c, "loop_start_time") = "loop_start_time"
        /\ KeyOf(c, "restarts") = "restarts"
    BY <1>4 DEF KeyOf
  <2>4. /\ KeyOf(c, "cpu_load") = "cpu"
        /\ KeyOf(c, "rss_bytes") = "rss"
        /\ KeyOf(c, "timestamp") = "timestamp"
    BY <1>4 DEF KeyOf
  <2> QED  BY <2>1, <2>2, <2>3, <2>4
<1>5. CASE c = "ChangedSouresInfo"
  <2>1. DOMAIN x = {"id", "url"}
    BY <1>5 DEF Objects
  <2>2. /\ KeyOf(c, "id") = "id"
        /\ KeyOf(c, "url") = "url"
    BY <1>5 DEF KeyOf
  <2> QED  BY <2>1, <2>2
<1>6. CASE c = "stream::StreamInfo"
  <2>1. DOMAIN x = {"stream_id"}
    BY <1>6 DEF Objects
  <2> QED  BY <2>1
<1>7. CASE c = "stream::GetLogInfo"
  <2>1. DOMAIN x = {"stream_id", "feedback_dir", "path"}
    BY <1>7 DEF Objects
  <2>2. /\ KeyOf(c, "stream_id") = "id"
        /\ KeyOf(c, "feedback_dir") = "feedback_directory"
        /\ KeyOf(c, "path") = "path"
    BY <1>7 DEF KeyOf
  <2> QED  BY <2>1, <2>2
<1>8. CASE c = "stream::QuitStatusInfo"
  <2>1. DOMAIN x = {"stream_id", "exit_status", "signal"}
    BY <1>8 DEF Objects
  <2>2. /\ KeyOf(c, "stream_id") = "id"
        /\ KeyOf(c, "exit_status") = "exit_status"
        /\ KeyOf(c, "signal") = "signal"
    BY <1>8 DEF KeyOf
  <2> QED  BY <2>1, <2>2
<1>9. CASE c = "stream::StartInfo"
  <2>1. DOMAIN x = {"config"}
    BY <1>9 DEF Objects
  <2> QED  BY <2>1
<1>10. CASE c = "service::LicenseInfo"
  <2>1. DOMAIN x = {"license"}
    BY <1>10 DEF Objects
  <2> QED  BY <2>1
<1>11. CASE c = "service::StopInfo"
  <2>1. DOMAIN x = {"license", "delay"}
    BY <1>11 DEF Objects
  <2>2. /\ KeyOf(c, "license") = "license_key"
        /\ KeyOf(c, "delay") = "delay"
    BY <1>11 DEF KeyOf
  <2> QED  BY <2>1, <2>2
<1>12. CASE c = "service::GetLogInfo"
  <2>1. DOMAIN x = {"path"}
    BY <1>12 DEF Objects
  <2> QED  BY <2>1
<1>13. CASE c = "service::SyncInfo"
  <2>1. DOMAIN x = {"streams", "users"}
    BY <1>13 DEF Objects
  <2>2. /\ KeyOf(c, "streams") = "streams"
        /\ KeyOf(c, "users") = "subscribers"
    BY <1>13 DEF KeyOf
  <2> QED  BY <2>1, <2>2
<1>14. CASE c = "service::PrepareInfo"
  <2>1. DOMAIN x = {"feedback", "timeshifts", "hls", "playlists", "dvb", "capture_card",
                       "vods_in", "vods"}
    BY <1>14 DEF Objects, NoPrepare
  <2>2. /\ KeyOf(c, "feedback") = "feedback_directory"
        /\ KeyOf(c, "timeshifts") = "timeshifts_directory"
        /\ KeyOf(c, "hls") = "hls_directory"
        /\ KeyOf(c, "playlists") = "playlists_directory"
    BY <1>14 DEF KeyOf
  <2>3. /\ KeyOf(c, "dvb") = "dvb_directory"
        /\ KeyOf(c, "capture_card") = "capture_card_directory"
        /\ KeyOf(c, "vods_in") = "vods_in_directory"
        /\ KeyOf(c, "vods") = "vods_directory"
    BY <1>14 DEF KeyOf
  <2> QED  BY <2>1, <2>2, <2>3
<1>15. CASE c = "service::ServerInfo"
  <2>1. DOMAIN x = {"cpu_load", "gpu_load", "uptime", "mem_total", "mem_free", "mem_avail",
                       "hdd_total", "hdd_free", "net_bytes_recv", "net_bytes_send",
                       "current_ts", "sys_uptime", "online_users"}
    BY <1>15 DEF Objects, ServerInfos
  <2>2. /\ KeyOf(c, "cpu_load") = "cpu"
        /\ KeyOf(c, "gpu_load") = "gpu"
        /\ KeyOf(c, "uptime") = "load_average"
        /\ KeyOf(c, "mem_total") = "memory_total"
    BY <1>15 DEF KeyOf
  <2>3. /\ KeyOf(c, "mem_free") = "memory_free"
        /\ KeyOf(c, "mem_avail") = "memory_available"
        /\ KeyOf(c, "hdd_total") = "hdd_total"
        /\ KeyOf(c, "hdd_free") = "hdd_free"
    BY <1>15 DEF KeyOf
  <2>4. /\ KeyOf(c, "net_bytes_recv") = "bandwidth_in"
        /\ KeyOf(c, "net_bytes_send") = "bandwidth_out"
        /\ KeyOf(c, "current_ts") = "timestamp"
        /\ KeyOf(c, "sys_uptime") = "uptime"
    BY <1>15 DEF KeyOf
  <2>5. /\ KeyOf(c, "online_users") = "online_users"
    BY <1>15 DEF KeyOf
  <2> QED  BY <2>1, <2>2, <2>3, <2>4, <2>5
<1>16. CASE c = "service::FullServiceInfo"
  <2>1. DOMAIN x = {"http_host", "vods_host", "subscribers_host", "bandwidth_host",
                       "proj_ver", "cpu_load", "gpu_load", "uptime", "mem_total",
                       "mem_free", "mem_avail", "hdd_total", "hdd_free", "net_bytes_recv",
                       "net_bytes_send", "current_ts", "sys_uptime", "online_users"}
    BY <1>16 DEF Objects, FullServiceInfos
  <2>2. /\ KeyOf(c, "http_host") = "http_host"
        /\ KeyOf(c, "vods_host") = "vods_host"
        /\ KeyOf(c, "subscribers_host") = "subscribers_host"
        /\ KeyOf(c, "bandwidth_host") = "bandwidth_host"
    BY <1>16 DEF KeyOf
  <2>3. /\ KeyOf(c, "proj_ver") = "version"
        /\ KeyOf(c, "cpu_load") = "cpu"
        /\ KeyOf(c, "gpu_load") = "gpu"
        /\ KeyOf(c, "uptime") = "load_average"
    BY <1>16 DEF KeyOf
  <2>4. /\ KeyOf(c, "mem_total") = "memory_total"
        /\ KeyOf(c, "mem_free") = "memory_free"
        /\ KeyOf(c, "mem_avail") = "memory_available"
        /\ KeyOf(c, "hdd_total") = "hdd_total"
    BY <1>16 DEF KeyOf
  <2>5. /\ KeyOf(c, "hdd_free") = "hdd_free"
        /\ KeyOf(c, "net_bytes_recv") = "bandwidth_in"
        /\ KeyOf(c, "net_bytes_send") = "bandwidth_out"
        /\ KeyOf(c, "current_ts") = "timestamp"
    BY <1>16 DEF KeyOf
  <2>6. /\ KeyOf(c, "sys_uptime") = "uptime"
        /\ KeyOf(c, "online_users") = "online_users"
    BY <1>16 DEF KeyOf
  <2> QED  BY <2>1, <2>2, <2>3, <2>4, <2>5, <2>6
<1>17. CASE c = "UserInfo"
  <2>1. DOMAIN x = {"uid", "login", "password", "ch", "devices", "status"}
    BY <1>17 DEF Objects
  <2>2. /\ KeyOf(c, "uid") = "id"
        /\ KeyOf(c, "login") = "login"
        /\ KeyOf(c, "password") = "password"
        /\ KeyOf(c, "ch") = "channels"
    BY <1>17 DEF KeyOf
  <2>3. /\ KeyOf(c, "devices") = "devices"
        /\ KeyOf(c, "status") = "status"
    BY <1>17 DEF KeyOf
  <2> QED  BY <2>1, <2>2, <2>3
<1>18. CASE c = "UserRpcInfo"
  <2>1. DOMAIN x = {"user_id", "device_id"}
    BY <1>18 DEF Objects
  <2>2. /\ KeyOf(c, "user_id") = "user_id"
        /\ KeyOf(c, "device_id") = "device_id"
    BY <1>18 DEF KeyOf
  <2> QED  BY <2>1, <2>2
<1>19. CASE c = "ServerAuthInfo"
  <2>1. DOMAIN x = {"uid", "login", "password", "device_id"}
    BY <1>19 DEF Objects
  <2>2. /\ KeyOf(c, "uid") = "id"
        /\ KeyOf(c, "login") = "login"
        /\ KeyOf(c, "password") = "password"
        /\ KeyOf(c, "device_id") = "device_id"
    BY <1>19 DEF KeyOf
  <2> QED  BY <2>1, <2>2
<1> QED
  BY <1>1, <1>2, <1>3, <1>4, <1>5, <1>6, <1>7, <1>8, <1>9, <1>10,
     <1>11, <1>12, <1>13, <1>14, <1>15, <1>16, <1>17, <1>18, <1>19 DEF ClassNames

\* The fields that did not arrive.
Lost(c, x, y, h) == {f \in DOMAIN y : y[f] # Carried(c, x, h)[f]}

\* Each member that is left out costs at most one field, which holds its default.
LEMMA OneEach ==
    ASSUME NEW c \in ClassNames, NEW x \in Objects(c), NEW y, NEW h, NEW O, IsFiniteSet(O),
           Arrived(c, x, y, h, O)
    PROVE  /\ DOMAIN y = DOMAIN x
           /\ Cardinality(Lost(c, x, y, h)) <= Cardinality(O)
           /\ \A f \in Lost(c, x, y, h) : y[f] = Default(c)[f]
<1> DEFINE lost == Lost(c, x, y, h)
           keys == [f \in lost |-> KeyOf(c, f)]
<1>1. DOMAIN y = DOMAIN x
  BY DEF Arrived
<1>2. \A f \in lost : KeyOf(c, f) \in O /\ y[f] = Default(c)[f]
  BY <1>1 DEF Arrived, Lost
<1>3. \A f, g \in lost : KeyOf(c, f) = KeyOf(c, g) => f = g
  BY <1>1, KeysDiffer DEF Lost
<1> HIDE DEF lost
<1>4. keys \in [lost -> O] /\ \A f, g \in lost : keys[f] = keys[g] => f = g
  BY <1>2, <1>3
<1> HIDE DEF keys
<1>5. keys \in Injection(lost, O)
  BY <1>4 DEF Injection, IsInjective
<1>6. Cardinality(lost) <= Cardinality(O)
  BY <1>5, FS_Injection
<1> QED  BY <1>1, <1>2, <1>6 DEF lost


-----------------------------------------------------------------------------
(* Messages: the answer about directories                                  *)

\* An entry of the answer: for the member k, that named the directory dir.
Entry(e, k, dir, files) ==
    /\ DOMAIN e = {k} /\ e[k].path = dir
    /\ Has(e[k], "result") <=> dir \in Creatable \ {""}
    /\ Has(e[k], "result") => e[k].content = files

\* MakeDirectoryStateResponce: an entry says of its directory whether it could be
\* prepared, and lists the files that were loaded.
LEMMA DirectoryReported ==
    ASSUME NEW dir, NEW key
    PROVE  /\ Entry(MakeDirectoryStateResponce(DirectoryState(dir, key)), key, dir, {})
           /\ Entry(MakeDirectoryStateResponce(LoadContent(DirectoryState(dir, key))),
                    key, dir, Content[dir])
<1> DEFINE s == DirectoryState(dir, key)
           t == LoadContent(s)
           e == MakeDirectoryStateResponce(s)
           d == MakeDirectoryStateResponce(t)
<1>1. s.key = key /\ s.dir = dir /\ s.content = {}
  BY DEF DirectoryState
<1>2. s.is_valid <=> dir \in Creatable \ {""}
  BY DEF DirectoryState, CreateAndCheckDir
<1>3. CASE s.is_valid
  <2>1. t.key = key /\ t.dir = dir /\ t.is_valid /\ t.content = Content[dir]
    <3>1. t = [s EXCEPT !.content = Content[s.dir]]
      BY <1>3 DEF LoadContent
    <3>2. DOMAIN s = {"key", "dir", "content", "is_valid"}
      BY DEF DirectoryState
    <3> HIDE DEF s, t
    <3> QED  BY <1>1, <1>3, <3>1, <3>2
  <2> HIDE DEF s, t
  <2>2. /\ e = [k \in {key} |-> [path |-> dir, result |-> "OK", content |-> {}]]
        /\ d = [k \in {key} |-> [path |-> dir, result |-> "OK", content |-> Content[dir]]]
    BY <1>1, <1>3, <2>1 DEF MakeDirectoryStateResponce
  <2> HIDE DEF e, d
  <2>3. Entry(e, key, dir, {})
    BY <1>2, <1>3, <2>2 DEF Entry, Has
  <2>4. Entry(d, key, dir, Content[dir])
    BY <1>2, <1>3, <2>2 DEF Entry, Has
  <2> QED  BY <2>3, <2>4 DEF e, d, s, t
<1>4. CASE ~s.is_valid
  <2>1. t = s
    BY <1>4 DEF LoadContent
  <2> HIDE DEF s, t
  <2>2. e = [k \in {key} |-> [path |-> dir, error |-> TRUE]]
    BY <1>1, <1>4 DEF MakeDirectoryStateResponce
  <2>3. d = e
    BY <2>1
  <2> HIDE DEF e, d
  <2>4. DOMAIN e = {key} /\ e[key].path = dir /\ ~Has(e[key], "result")
    BY <2>2 DEF Has
  <2> QED  BY <1>2, <1>4, <2>3, <2>4 DEF Entry, e, d, s, t
<1> QED  BY <1>3, <1>4

\* The answer g reports on every directory that the request w names.
Reports(g, w) ==
    \A k \in DOMAIN PrepareSerialize(NoPrepare).v :
        \E i \in 1..Len(g) :
            /\ DOMAIN g[i] = {k}
            /\ g[i][k].path = Get(w, k, "")
            /\ Has(g[i][k], "result") <=> Get(w, k, "") \in Creatable \ {""}
            /\ Has(g[i][k], "result") =>
                 g[i][k].content = IF k = "vods_in_directory" THEN Content[w[k]] ELSE {}

\* MakeDirectoryResponce: each of the eight directories has its entry.
LEMMA AllReported ==
    ASSUME NEW w, NEW p, p = PrepareDeSerialize(w).v,
           NEW g, g = MakeDirectoryResponce(Directories(p))
    PROVE  Reports(g, w)
<1> DEFINE D == Directories(p)
           keys == {"feedback_directory", "timeshifts_directory", "hls_directory",
                    "playlists_directory", "dvb_directory", "capture_card_directory",
                    "vods_in_directory", "vods_directory"}
           Line(i, k) == Entry(g[i], k, Get(w, k, ""),
                                  IF k = "vods_in_directory" THEN Content[Get(w, k, "")] ELSE {})
<1>1. DOMAIN PrepareSerialize(NoPrepare).v = keys
  BY DEF PrepareSerialize, Ok
<1>2. /\ p.feedback = Get(w, "feedback_directory", "")
      /\ p.timeshifts = Get(w, "timeshifts_directory", "")
      /\ p.hls = Get(w, "hls_directory", "")
      /\ p.playlists = Get(w, "playlists_directory", "")
      /\ p.dvb = Get(w, "dvb_directory", "")
      /\ p.capture_card = Get(w, "capture_card_directory", "")
      /\ p.vods_in = Get(w, "vods_in_directory", "")
      /\ p.vods = Get(w, "vods_directory", "")
  BY DEF PrepareDeSerialize, Ok
<1>3. Len(D) = 8
  BY DEF Directories
<1>4. /\ D[1] = DirectoryState(p.feedback, "feedback_directory")
      /\ D[2] = DirectoryState(p.timeshifts, "timeshifts_directory")
      /\ D[3] = DirectoryState(p.hls, "hls_directory")
      /\ D[4] = DirectoryState(p.playlists, "playlists_directory")
      /\ D[5] = DirectoryState(p.dvb, "dvb_directory")
      /\ D[6] = DirectoryState(p.capture_card, "capture_card_directory")
      /\ D[7] = LoadContent(DirectoryState(p.vods_in, "vods_in_directory"))
      /\ D[8] = DirectoryState(p.vods, "vods_directory")
  BY DEF Directories
<1> HIDE DEF D
<1>5. g = [i \in 1 .. 8 |-> MakeDirectoryStateResponce(D[i])]
  BY <1>3 DEF MakeDirectoryResponce, D
<1>6. Len(g) = 8 /\ \A i \in 1 .. 8 : g[i] = MakeDirectoryStateResponce(D[i])
  BY <1>5
<1> DEFINE State(k) == DirectoryState(Get(w, k, ""), k)
<1>7. /\ g[1] = MakeDirectoryStateResponce(State("feedback_directory"))
      /\ g[2] = MakeDirectoryStateResponce(State("timeshifts_directory"))
      /\ g[3] = MakeDirectoryStateResponce(State("hls_directory"))
      /\ g[4] = MakeDirectoryStateResponce(State("playlists_directory"))
      /\ g[5] = MakeDirectoryStateResponce(State("dvb_directory"))
      /\ g[6] = MakeDirectoryStateResponce(State("capture_card_directory"))
      /\ g[7] = MakeDirectoryStateResponce(LoadContent(State("vods_in_directory")))
      /\ g[8] = MakeDirectoryStateResponce(State("vods_directory"))
  <2>1. /\ D[1] = State("feedback_directory")
        /\ D[2] = State("timeshifts_directory")
        /\ D[3] = State("hls_directory")
        /\ D[4] = State("playlists_directory")
        /\ D[5] = State("dvb_directory")
        /\ D[6] = State("capture_card_directory")
        /\ D[7] = LoadContent(State("vods_in_directory"))
        /\ D[8] = State("vods_directory")
    BY <1>2, <1>4
  <2> HIDE DEF State
  <2> QED  BY <1>6, <2>1
<1>8. /\ Entry(g[1], "feedback_directory", Get(w, "feedback_directory", ""), {})
      /\ Entry(g[2], "timeshifts_directory", Get(w, "timeshifts_directory", ""), {})
      /\ Entry(g[3], "hls_directory", Get(w, "hls_directory", ""), {})
      /\ Entry(g[4], "playlists_directory", Get(w, "playlists_directory", ""), {})
      /\ Entry(g[5], "dvb_directory", Get(w, "dvb_directory", ""), {})
      /\ Entry(g[6], "capture_card_directory", Get(w, "capture_card_directory", ""), {})
      /\ Entry(g[7], "vods_in_directory", Get(w, "vods_in_directory", ""), Content[Get(w, "vods_in_directory", "")])
      /\ Entry(g[8], "vods_directory", Get(w, "vods_directory", ""), {})
  <2>1. Entry(g[1], "feedback_directory", Get(w, "feedback_directory", ""), {})
    BY <1>7, DirectoryReported
  <2>2. Entry(g[2], "timeshifts_directory", Get(w, "timeshifts_directory", ""), {})
    BY <1>7, DirectoryReported
  <2>3. Entry(g[3], "hls_directory", Get(w, "hls_directory", ""), {})
    BY <1>7, DirectoryReported
  <2>4. Entry(g[4], "playlists_directory", Get(w, "playlists_directory", ""), {})
    BY <1>7, DirectoryReported
  <2>5. Entry(g[5], "dvb_directory", Get(w, "dvb_directory", ""), {})
    BY <1>7, DirectoryReported
  <2>6. Entry(g[6], "capture_card_directory", Get(w, "capture_card_directory", ""), {})
    BY <1>7, DirectoryReported
  <2>7. Entry(g[7], "vods_in_directory", Get(w, "vods_in_directory", ""), Content[Get(w, "vods_in_directory", "")])
    BY <1>7, DirectoryReported
  <2>8. Entry(g[8], "vods_directory", Get(w, "vods_directory", ""), {})
    BY <1>7, DirectoryReported
  <2> QED  BY <2>1, <2>2, <2>3, <2>4, <2>5, <2>6, <2>7, <2>8
<1>9. Line(1, "feedback_directory") /\ Line(2, "timeshifts_directory")
      /\ Line(3, "hls_directory") /\ Line(4, "playlists_directory")
  BY <1>8
<1>10. Line(5, "dvb_directory") /\ Line(6, "capture_card_directory")
       /\ Line(7, "vods_in_directory") /\ Line(8, "vods_directory")
  BY <1>8
<1>11. \A k \in keys : \E i \in 1 .. 8 : Line(i, k)
  <2> HIDE DEF Line
  <2> QED  BY <1>9, <1>10
<1>12. ASSUME NEW k \in keys
       PROVE  \E i \in 1..Len(g) :
                /\ DOMAIN g[i] = {k}
                /\ g[i][k].path = Get(w, k, "")
                /\ Has(g[i][k], "result") <=> Get(w, k, "") \in Creatable \ {""}
                /\ Has(g[i][k], "result") =>
                     g[i][k].content = IF k = "vods_in_directory" THEN Content[w[k]] ELSE {}
  <2>1. PICK i \in 1 .. 8 : Line(i, k)
    BY <1>11
  <2>2. Get(w, k, "") # "" => Get(w, k, "") = w[k]
    BY DEF Get
  <2> HIDE DEF keys
  <2> QED  BY <1>6, <2>1, <2>2 DEF Entry
<1> QED  BY <1>1, <1>12 DEF Reports


-----------------------------------------------------------------------------
(* Messages: relays                                                        *)

\* What is written is a JSON object, also when nothing was left out of it.
LEMMA WholeWire ==
    ASSUME NEW c \in ClassNames, NEW x, Sendable(c, x)
    PROVE  Left(Serialize(c, x).v, {}) = Serialize(c, x).v
<1> SUFFICES Serialize(c, x).v = [m \in DOMAIN Serialize(c, x).v |-> Serialize(c, x).v[m]]
  BY DEF Left
<1> DEFINE w == Serialize(c, x).v
<1> SUFFICES w = [m \in DOMAIN w |-> w[m]]
  OBVIOUS
<1>0. \A v : Ok(v).v = v
  BY DEF Ok
<1>1. CASE c = "InputUri"
  <2>1. Serialize(c, x) = InputUriSerialize(x)
    BY <1>1, Writers
  <2> QED  BY <1>0, <2>1 DEF InputUriSerialize, Ok
<1>2. CASE c = "OutputUri"
  <2>1. Serialize(c, x) = OutputUriSerialize(x)
    BY <1>2, Writers
  <2> QED  BY <1>0, <2>1 DEF OutputUriSerialize, Ok
<1>3. CASE c = "Logo"
  <2>1. Serialize(c, x) = LogoToString(x)
    BY <1>3, Writers
  <2> QED  BY <1>0, <2>1 DEF LogoToString, Ok
<1>4. CASE c = "StatisticInfo"
  <2>1. Serialize(c, x) = StatisticSerialize(x)
    BY <1>4, Writers
  <2>2. \/ StatisticSerialize(x) = Inval
        \/ StatisticSerialize(x) =
             Ok([id |-> x.id, type |-> x.type,
                 input_streams |-> WriteChannels(x.input),
                 output_streams |-> WriteChannels(x.output),
                 loop_start_time |-> x.loop_start_time,
                 rss |-> ToInt64(x.rss_bytes), cpu |-> x.cpu_load,
                 status |-> x.status, restarts |-> ToInt64(x.restarts),
                 start_time |-> x.start_time, timestamp |-> x.timestamp])
    BY DEF StatisticSerialize
  <2>3. ~Inval.ok
    BY DEF Inval
  <2>4. StatisticSerialize(x) # Inval
    BY <2>1, <2>3 DEF Sendable
  <2> QED  BY <1>0, <2>1, <2>2, <2>4
<1>5. CASE c = "ChangedSouresInfo"
  <2>1. Serialize(c, x) = ChangedSourcesSerialize(x)
    BY <1>5, Writers
  <2> QED  BY <1>0, <2>1 DEF ChangedSourcesSerialize, Ok
<1>6. CASE c = "stream::StreamInfo"
  <2>1. Serialize(c, x) = StreamInfoSerialize(x)
    BY <1>6, Writers
  <2> QED  BY <1>0, <2>1 DEF StreamInfoSerialize, Ok
<1>7. CASE c = "stream::GetLogInfo"
  <2>1. Serialize(c, x) = StreamLogSerialize(x)
    BY <1>7, Writers
  <2> QED  BY <1>0, <2>1 DEF StreamLogSerialize, Ok, ++
<1>8. CASE c = "stream::QuitStatusInfo"
  <2>1. Serialize(c, x) = QuitStatusSerialize(x)
    BY <1>8, Writers
  <2> QED  BY <1>0, <2>1 DEF QuitStatusSerialize, Ok, ++
<1>9. CASE c = "stream::StartInfo"
  <2>1. Serialize(c, x) = StartSerialize(x)
    BY <1>9, Writers
  <2> QED  BY <1>0, <2>1 DEF StartSerialize, Ok
<1>10. CASE c = "service::LicenseInfo"
  <2>1. Serialize(c, x) = LicenseSerialize(x)
    BY <1>10, Writers
  <2> QED  BY <1>0, <2>1 DEF LicenseSerialize, Ok
<1>11. CASE c = "service::StopInfo"
  <2>1. Serialize(c, x) = StopSerialize(x)
    BY <1>11, Writers
  <2> QED  BY <1>0, <2>1 DEF StopSerialize, Ok, ++
<1>12. CASE c = "service::GetLogInfo"
  <2>1. Serialize(c, x) = ServiceLogSerialize(x)
    BY <1>12, Writers
  <2> QED  BY <1>0, <2>1 DEF ServiceLogSerialize, Ok
<1>13. CASE c = "service::SyncInfo"
  <2>1. Serialize(c, x) = SyncSerialize(x)
    BY <1>13, Writers
  <2> QED  BY <1>0, <2>1 DEF SyncSerialize, Ok
<1>14. CASE c = "service::PrepareInfo"
  <2>1. Serialize(c, x) = PrepareSerialize(x)
    BY <1>14, Writers
  <2> QED  BY <1>0, <2>1 DEF PrepareSerialize, Ok
<1>15. CASE c = "service::ServerInfo"
  <2>1. Serialize(c, x) = ServerInfoSerialize(x)
    BY <1>15, Writers
  <2> QED  BY <1>0, <2>1 DEF ServerInfoSerialize, Ok
<1>16. CASE c = "service::FullServiceInfo"
  <2>1. Serialize(c, x) = FullServiceSerialize(x)
    BY <1>16, Writers
  <2> QED  BY <1>0, <2>1 DEF FullServiceSerialize, Ok, ++
<1>17. CASE c = "UserInfo"
  <2>1. Serialize(c, x) = UserSerialize(x)
    BY <1>17, Writers
  <2> QED  BY <1>0, <2>1 DEF UserSerialize, Ok, Inval, Sendable
<1>18. CASE c = "UserRpcInfo"
  <2>1. Serialize(c, x) = UserRpcSerialize(x)
    BY <1>18, Writers
  <2> QED  BY <1>0, <2>1 DEF UserRpcSerialize, Ok
<1>19. CASE c = "ServerAuthInfo"
  <2>1. Serialize(c, x) = ServerAuthSerialize(x)
    BY <1>19, Writers
  <2>2. \/ ServerAuthSerialize(x) = Inval
        \/ ServerAuthSerialize(x) = Ok([id |-> x.uid, login |-> x.login, password |-> x.password,
                                        device_id |-> x.device_id])
    BY DEF ServerAuthSerialize
  <2>3. ~Inval.ok
    BY DEF Inval
  <2>4. ServerAuthSerialize(x) # Inval
    BY <2>1, <2>3 DEF Sendable
  <2> QED  BY <1>0, <2>1, <2>2, <2>4
<1> QED
  BY <1>1, <1>2, <1>3, <1>4, <1>5, <1>6, <1>7, <1>8, <1>9, <1>10,
     <1>11, <1>12, <1>13, <1>14, <1>15, <1>16, <1>17, <1>18, <1>19 DEF ClassNames

\* The reports that the service relays.
Relayed == {"StatisticInfo", "ChangedSouresInfo"}

\* What the service makes of a report is an object again.
LEMMA ReadIsRecord ==
    ASSUME NEW c \in Relayed, NEW j, NEW y, y = DeSerialize(c, j).v, DeSerialize(c, j) # Inval
    PROVE  y = [f \in DOMAIN y |-> y[f]]
<1>0. \A v : Ok(v).v = v
  BY DEF Ok
<1>1. CASE c = "StatisticInfo"
  <2>1. DeSerialize(c, j) = StatisticDeSerialize(j)
    BY <1>1, Readers
  <2>2. StatisticDeSerialize(j) =
            Ok([id |-> j.id, type |-> AsInt(j.type),
                status |-> GetInt(j, "status", 0),
                input |-> ReadChannels(Get(j, "input_streams", <<>>)),
                output |-> ReadChannels(Get(j, "output_streams", <<>>)),
                start_time |-> Get(j, "start_time", 0),
                loop_start_time |-> Get(j, "loop_start_time", 0),
                restarts |-> GetSize(j, "restarts", 0),
                cpu_load |-> Get(j, "cpu", 0),
                rss_bytes |-> GetInt(j, "rss", 0),
                timestamp |-> Get(j, "timestamp", 0)])
    BY <2>1 DEF StatisticDeSerialize
  <2> QED  BY <1>0, <2>1, <2>2
<1>2. CASE c = "ChangedSouresInfo"
  <2>1. DeSerialize(c, j) = ChangedSourcesDeSerialize(j)
    BY <1>2, Readers
  <2>2. ChangedSourcesDeSerialize(j) =
            Ok([id |-> j.id, url |-> IF Has(j, "url") THEN InputUriDeSerialize(j.url).v
                                     ELSE NoInputUri])
    BY <2>1 DEF ChangedSourcesDeSerialize
  <2> QED  BY <1>0, <2>1, <2>2
<1> QED  BY <1>1, <1>2 DEF Relayed

\* The object that arrived: of the same class, and one that can be written unless
\* something was left out.
LEMMA ArrivedIsObject ==
    ASSUME NEW c \in Relayed, NEW x \in Objects(c), Sendable(c, x), NEW h \in Nat, NEW O,
           NEW y, Arrived(c, x, y, h, O), y = [f \in DOMAIN y |-> y[f]]
    PROVE  y \in Objects(c) /\ (O = {} => Sendable(c, y))
<1>1. CASE c = "StatisticInfo"
  <2> DEFINE z == Carried("StatisticInfo", x, h)
             N == NoStatistic
  <2>1. /\ x \in Statistics
        /\ DOMAIN x = {"id", "type", "status", "input", "output", "start_time",
                       "loop_start_time", "restarts", "cpu_load", "rss_bytes", "timestamp"}
    BY <1>1 DEF Objects, Statistics
  <2>2. /\ x.id \in Texts /\ x.type \in Ints /\ x.status \in Ints
        /\ x.input \in Seq(ChannelStatistics) /\ x.output \in Seq(ChannelStatistics)
        /\ x.restarts \in Sizes /\ x.rss_bytes \in 0 .. Int64Max
    BY <2>1 DEF Statistics
  <2>3. /\ x.start_time \in Int /\ x.loop_start_time \in Int
        /\ x.cpu_load \in Int /\ x.timestamp \in Int
    BY <2>1 DEF Statistics
  <2>4. /\ z["id"] = x.id /\ z["type"] = x.type /\ z["status"] = x.status
        /\ z["start_time"] = x.start_time /\ z["loop_start_time"] = x.loop_start_time
        /\ z["restarts"] = x.restarts /\ z["cpu_load"] = x.cpu_load /\ z["timestamp"] = x.timestamp
        /\ z["input"] = LeftOfChannels(x.input, h) /\ z["output"] = LeftOfChannels(x.output, h)
        /\ z["rss_bytes"] = AsInt(x.rss_bytes)
    BY <2>1 DEF Carried, Lossy, LeftOf
  <2>5. /\ LeftOfChannels(x.input, h) \in Seq(ChannelStatistics)
        /\ LeftOfChannels(x.output, h) \in Seq(ChannelStatistics)
    BY <2>2, TurnedOften
  <2>6. AsInt(x.rss_bytes) \in 0 .. Int64Max
    BY <2>2, WidthAssumption DEF AsInt
  <2>7. /\ N["id"] = "" /\ N["type"] = 0 /\ N["status"] = 0 /\ N["start_time"] = 0
        /\ N["loop_start_time"] = 0 /\ N["restarts"] = 0 /\ N["cpu_load"] = 0
        /\ N["timestamp"] = 0 /\ N["rss_bytes"] = 0
        /\ N["input"] = <<>> /\ N["output"] = <<>>
    BY DEF NoStatistic
  <2>8. /\ 0 \in Ints /\ 0 \in Sizes /\ 0 \in Int /\ 0 \in 0 .. Int64Max
        /\ <<>> \in Seq(ChannelStatistics)
    BY WidthAssumption DEF Ints, Sizes
  <2>9. /\ DOMAIN y = DOMAIN x
        /\ \A f \in DOMAIN x : y[f] = N[f] \/ y[f] = z[f]
    BY <1>1, Defaults DEF Arrived
  <2> HIDE DEF z, N
  <2>10. y["id"] \in Texts
    <3>1. "" \in Texts
      BY DEF Texts
    <3> QED  BY <2>1, <2>2, <2>4, <2>7, <2>9, <3>1
  <2>11. y["type"] \in Ints /\ y["status"] \in Ints
    <3>1. /\ y["type"] = 0 \/ y["type"] = x.type
          /\ y["status"] = 0 \/ y["status"] = x.status
      BY <2>1, <2>4, <2>7, <2>9
    <3>2. 0 \in Ints /\ x.type \in Ints /\ x.status \in Ints
      BY <2>2, <2>8
    <3> QED  BY <3>1, <3>2
  <2>12. y["input"] \in Seq(ChannelStatistics) /\ y["output"] \in Seq(ChannelStatistics)
    <3> DEFINE S == Seq(ChannelStatistics)
    <3>1. /\ y["input"] = <<>> \/ y["input"] = z["input"]
          /\ y["output"] = <<>> \/ y["output"] = z["output"]
      BY <2>1, <2>7, <2>9
    <3>2. <<>> \in S /\ z["input"] \in S /\ z["output"] \in S
      BY <2>4, <2>5, <2>8
    <3> HIDE DEF S
    <3>3. y["input"] \in S /\ y["output"] \in S
      BY <3>1, <3>2
    <3> QED  BY <3>3 DEF S
  <2>13. y["restarts"] \in Sizes
    <3>1. y["restarts"] = 0 \/ y["restarts"] = x.restarts
      BY <2>1, <2>4, <2>7, <2>9
    <3>2. 0 \in Sizes /\ x.restarts \in Sizes
      BY <2>2, <2>8
    <3> QED  BY <3>1, <3>2
  <2>14. y["rss_bytes"] \in 0 .. Int64Max
    <3>1. y["rss_bytes"] = 0 \/ y["rss_bytes"] = AsInt(x.rss_bytes)
      BY <2>1, <2>4, <2>7, <2>9
    <3> QED  BY <2>6, <2>8, <3>1
  <2>15. /\ y["start_time"] \in Int /\ y["loop_start_time"] \in Int
         /\ y["cpu_load"] \in Int /\ y["timestamp"] \in Int
    <3>1. /\ y["start_time"] = 0 \/ y["start_time"] = x.start_time
          /\ y["loop_start_time"] = 0 \/ y["loop_start_time"] = x.loop_start_time
          /\ y["cpu_load"] = 0 \/ y["cpu_load"] = x.cpu_load
          /\ y["timestamp"] = 0 \/ y["timestamp"] = x.timestamp
      BY <2>1, <2>4, <2>7, <2>9
    <3> QED  BY <2>3, <3>1
  <2>16. y \in Statistics
    BY <2>1, <2>9, <2>10, <2>11, <2>12, <2>13, <2>14, <2>15 DEF Statistics
  <2>17. O = {} => Sendable(c, y)
    <3> SUFFICES ASSUME O = {}  PROVE Sendable(c, y)
      OBVIOUS
    <3>1. y["id"] = x.id
      BY <1>1, <2>1, <2>4 DEF Arrived, z
    <3>2. Serialize(c, x) = StatisticSerialize(x) /\ Serialize(c, y) = StatisticSerialize(y)
      BY <1>1, Writers
    <3>3. StatisticSerialize(x).ok
      BY <3>2 DEF Sendable
    <3>4. x.id = "" => StatisticSerialize(x) = Inval
      BY DEF StatisticSerialize
    <3>5. ~Inval.ok
      BY DEF Inval
    <3>6. x.id # ""
      BY <3>3, <3>4, <3>5
    <3>7. StatisticSerialize(y).ok
      BY <3>1, <3>6 DEF StatisticSerialize, Ok
    <3> QED  BY <3>2, <3>7 DEF Sendable
  <2> QED  BY <1>1, <2>16, <2>17 DEF Objects
<1>2. CASE c = "ChangedSouresInfo"
  <2> DEFINE N == NoChangedSources
  <2>1. DOMAIN x = {"id", "url"} /\ x.id \in Texts /\ x.url \in InputUris
    BY <1>2 DEF Objects
  <2>2. N["id"] = "" /\ N["url"] = NoInputUri
    BY DEF NoChangedSources
  <2>3. NoInputUri \in InputUris
    BY WidthAssumption DEF NoInputUri, InputUris, Sizes, Ints, Texts
  <2>4. /\ DOMAIN y = DOMAIN x
        /\ \A f \in DOMAIN x : y[f] = N[f] \/ y[f] = x[f]
    BY <1>2, Defaults, CarriedWhole DEF Arrived
  <2> HIDE DEF N
  <2>5. y["id"] \in Texts
    <3>1. "" \in Texts
      BY DEF Texts
    <3> QED  BY <2>1, <2>2, <2>4, <3>1
  <2>6. y["url"] \in InputUris
    BY <2>1, <2>2, <2>3, <2>4
  <2>7. y \in [id : Texts, url : InputUris]
    BY <2>1, <2>4, <2>5, <2>6
  <2>8. Sendable(c, y)
    BY <1>2, Writers DEF Sendable, ChangedSourcesSerialize, Ok
  <2> QED  BY <1>2, <2>7, <2>8 DEF Objects
<1> QED  BY <1>1, <1>2 DEF Relayed

\* A report that is relayed once more and read: what is left of the first object.
LEMMA OnceMore ==
    ASSUME NEW c \in Relayed, NEW x \in Objects(c), NEW h \in Nat, NEW O, NEW y, NEW z,
           Arrived(c, x, y, h, O), Arrived(c, y, z, 0, {})
    PROVE  Arrived(c, x, z, h + 1, O)
<1>1. /\ DOMAIN y = DOMAIN x /\ DOMAIN z = DOMAIN x
      /\ \A f \in DOMAIN x : z[f] = Carried(c, y, 0)[f]
      /\ \A f \in DOMAIN x :
            y[f] = IF KeyOf(c, f) \in O THEN Default(c)[f] ELSE Carried(c, x, h)[f]
  BY DEF Arrived
<1> DEFINE Right(f) == z[f] = IF KeyOf(c, f) \in O THEN Default(c)[f] ELSE Carried(c, x, h + 1)[f]
<1> SUFFICES \A f \in DOMAIN x : Right(f)
  BY <1>1 DEF Arrived
<1>2. CASE c = "ChangedSouresInfo"
  <2>1. Carried(c, y, 0) = y /\ Carried(c, x, h) = x /\ Carried(c, x, h + 1) = x
    BY <1>2, CarriedWhole
  <2> QED  BY <1>1, <2>1
<1>3. CASE c = "StatisticInfo"
  <2> DEFINE a == Carried(c, x, h)
             b == Carried(c, x, h + 1)
             d == Carried(c, y, 0)
             N == NoStatistic
             plain == {"id", "type", "status", "start_time", "loop_start_time", "restarts",
                       "cpu_load", "timestamp"}
  <2>1. /\ x \in Statistics
        /\ DOMAIN x = plain \union {"input", "output", "rss_bytes"}
    BY <1>3 DEF Objects, Statistics
  <2>2. /\ x.input \in Seq(ChannelStatistics) /\ x.output \in Seq(ChannelStatistics)
        /\ x.rss_bytes \in 0 .. Int64Max
    BY <2>1 DEF Statistics
  <2>3. /\ \A f \in plain : a[f] = x[f]
        /\ a["input"] = LeftOfChannels(x.input, h) /\ a["output"] = LeftOfChannels(x.output, h)
        /\ a["rss_bytes"] = AsInt(x.rss_bytes)
    BY <1>3, <2>1 DEF Carried, Lossy, LeftOf
  <2>4. /\ \A f \in plain : b[f] = x[f]
        /\ b["input"] = LeftOfChannels(x.input, h + 1) /\ b["output"] = LeftOfChannels(x.output, h + 1)
        /\ b["rss_bytes"] = AsInt(x.rss_bytes)
    BY <1>3, <2>1 DEF Carried, Lossy, LeftOf
  <2>5. /\ \A f \in plain : d[f] = y[f]
        /\ d["input"] = LeftOfChannels(y.input, 0) /\ d["output"] = LeftOfChannels(y.output, 0)
        /\ d["rss_bytes"] = AsInt(y.rss_bytes)
    BY <1>1, <1>3, <2>1 DEF Carried, Lossy, LeftOf
  <2>6. Default(c) = N /\ N["input"] = <<>> /\ N["output"] = <<>> /\ N["rss_bytes"] = 0
    BY <1>3, Defaults DEF NoStatistic
  <2>7. Turned(<<>>) = <<>>
    BY DEF Turned
  <2>8. \A s \in Seq(ChannelStatistics) :
            /\ LeftOfChannels(s, h) \in Seq(ChannelStatistics)
            /\ LeftOfChannels(LeftOfChannels(s, h), 0) = LeftOfChannels(s, h + 1)
    BY TurnedOften
  <2>9. LeftOfChannels(<<>>, 0) = <<>>
    <3>1. <<>> \in Seq(ChannelStatistics)
      OBVIOUS
    <3> QED  BY <2>7, <3>1, TurnedOften
  <2>10. AsInt(AsInt(x.rss_bytes)) = AsInt(x.rss_bytes) /\ AsInt(0) = 0
    BY <2>2, WidthAssumption DEF AsInt
  <2> HIDE DEF a, b, d, N
  <2>11. \A f \in plain : Right(f)
    <3> SUFFICES ASSUME NEW f \in plain  PROVE Right(f)
      OBVIOUS
    <3>1. f \in DOMAIN x
      BY <2>1
    <3>2. z[f] = d[f] /\ y[f] = IF KeyOf(c, f) \in O THEN N[f] ELSE a[f]
      BY <1>1, <2>6, <3>1 DEF a, d
    <3>3. d[f] = y[f] /\ a[f] = b[f]
      BY <2>3, <2>4, <2>5
    <3> QED  BY <2>6, <3>2, <3>3 DEF b
  <2>12. Right("input")
    <3>1. z["input"] = d["input"] /\ y["input"] = IF KeyOf(c, "input") \in O THEN <<>> ELSE a["input"]
      BY <1>1, <2>1, <2>6 DEF a, d
    <3> QED  BY <2>2, <2>3, <2>4, <2>5, <2>6, <2>8, <2>9, <3>1 DEF b
  <2>13. Right("output")
    <3>1. z["output"] = d["output"] /\ y["output"] = IF KeyOf(c, "output") \in O THEN <<>> ELSE a["output"]
      BY <1>1, <2>1, <2>6 DEF a, d
    <3> QED  BY <2>2, <2>3, <2>4, <2>5, <2>6, <2>8, <2>9, <3>1 DEF b
  <2>14. Right("rss_bytes")
    <3>1. /\ z["rss_bytes"] = d["rss_bytes"]
          /\ y["rss_bytes"] = IF KeyOf(c, "rss_bytes") \in O THEN 0 ELSE a["rss_bytes"]
      BY <1>1, <2>1, <2>6 DEF a, d
    <3> QED  BY <2>3, <2>4, <2>5, <2>6, <2>10, <3>1 DEF b
  <2> HIDE DEF Right
  <2> QED  BY <2>1, <2>11, <2>12, <2>13, <2>14
<1> QED  BY <1>2, <1>3 DEF Relayed


-----------------------------------------------------------------------------
(* Messages: the invariant                                                 *)

\* The JSON form w on its way, of the object x without the members in O, or of
\* what was left of it when it was relayed the last time.
InTransit(c, x, w, h, O) ==
    /\ Sendable(c, x)
    /\ h = 0 => w = Left(Serialize(c, x).v, O)
    /\ h # 0 => /\ c \in Relayed
                /\ \E y \in Objects(c) : /\ Sendable(c, y) /\ w = Serialize(c, y).v
                                         /\ Arrived(c, x, y, h - 1, O)

\* What a reader makes of it.
LEMMA ReadInTransit ==
    ASSUME NEW c \in ClassNames, NEW x \in Objects(c), NEW w, NEW h \in Nat, NEW O,
           InTransit(c, x, w, h, O), NEW r, r = DeSerialize(c, w)
    PROVE  (O = {} => r.ok) /\ (r.ok => Arrived(c, x, r.v, h, O))
<1>1. CASE h = 0
  <2>1. Sendable(c, x) /\ w = Left(Serialize(c, x).v, O)
    BY <1>1 DEF InTransit
  <2>2. Delivered(c, x, O, DeSerialize(c, w))
    BY <2>1, Delivery
  <2> QED  BY <1>1, <2>2 DEF Delivered
<1>2. CASE h # 0
  <2>1. PICK y \in Objects(c) : /\ Sendable(c, y) /\ w = Serialize(c, y).v
                                /\ Arrived(c, x, y, h - 1, O)
    BY <1>2 DEF InTransit
  <2>2. c \in Relayed
    BY <1>2 DEF InTransit
  <2>3. w = Left(Serialize(c, y).v, {})
    BY <2>1, WholeWire
  <2>4. Delivered(c, y, {}, DeSerialize(c, w))
    BY <2>1, <2>3, Delivery
  <2>5. r.ok /\ Arrived(c, y, r.v, 0, {})
    BY <2>4 DEF Delivered
  <2>6. h - 1 \in Nat /\ h - 1 + 1 = h
    BY <1>2
  <2>7. Arrived(c, x, r.v, h - 1 + 1, O)
    BY <2>1, <2>2, <2>5, <2>6, OnceMore
  <2> QED  BY <2>5, <2>6, <2>7
<1> QED  BY <1>1, <1>2

\* What is true of a message in each of its phases: on its way it is that of an
\* object, read it is what is left of the one sent, and one that is refused was
\* not complete or was never written.
MessageInv ==
    /\ hops \in Nat /\ IsFiniteSet(omitted)
    /\ phase \in {"idle", "sent", "read", "refused", "answered"}
    /\ phase # "idle" => cls \in ClassNames /\ sent \in Objects(cls)
    /\ phase = "sent" => InTransit(cls, sent, wire, hops, omitted)
    /\ phase = "read" => Arrived(cls, sent, got, hops, omitted)
    /\ (phase = "read" /\ cls = "service::PrepareInfo") => got = PrepareDeSerialize(wire).v
    /\ phase = "answered" => Reports(got, wire)
    /\ phase = "refused" => (Sendable(cls, sent) => omitted # {})

\* Nothing has been sent.
LEMMA MessageInvInit == MessageInit => MessageInv
<1> SUFFICES ASSUME MessageInit  PROVE MessageInv
  OBVIOUS
<1>1. IsFiniteSet({})
  BY FS_EmptySet
<1> QED  BY <1>1 DEF MessageInit, MessageInv

\* An object is written, whole, or is not valid.
LEMMA SendKeeps ==
    ASSUME MessageInv, NEW c \in Classes, NEW x \in Values[c], Send(c, x)
    PROVE  MessageInv'
<1>1. c \in ClassNames /\ x \in Objects(c)
  BY ObjectsAssumption
<1>2. /\ cls' = c /\ sent' = x /\ wire' = Serialize(c, x).v
      /\ omitted' = {} /\ hops' = 0
  BY DEF Send
<1>3. IsFiniteSet({})
  BY FS_EmptySet
<1>4. CASE Sendable(c, x)
  <2>1. phase' = "sent"
    BY <1>4 DEF Send, Sendable
  <2>2. Serialize(c, x).v = Left(Serialize(c, x).v, {})
    BY <1>1, <1>4, WholeWire
  <2>3. InTransit(c, x, wire', 0, {})
    BY <1>2, <1>4, <2>2 DEF InTransit
  <2> QED  BY <1>1, <1>2, <1>3, <2>1, <2>3 DEF MessageInv
<1>5. CASE ~Sendable(c, x)
  <2>1. phase' = "refused"
    BY <1>5 DEF Send, Sendable
  <2> QED  BY <1>1, <1>2, <1>3, <1>5, <2>1 DEF MessageInv
<1> QED  BY <1>4, <1>5

\* One more member is left out.
LEMMA OmitKeeps ==
    ASSUME MessageInv, NEW k, Omit(k)
    PROVE  MessageInv'
<1>1. /\ phase = "sent" /\ hops = 0
      /\ omitted' = omitted \union {k}
      /\ wire' = [m \in DOMAIN wire \ {k} |-> wire[m]]
      /\ phase' = phase /\ cls' = cls /\ sent' = sent /\ hops' = hops
  BY DEF Omit
<1>2. /\ cls \in ClassNames /\ sent \in Objects(cls) /\ IsFiniteSet(omitted)
      /\ InTransit(cls, sent, wire, hops, omitted)
  BY <1>1 DEF MessageInv
<1>3. IsFiniteSet(omitted')
  BY <1>1, <1>2, FS_AddElement
<1> DEFINE w == Serialize(cls, sent).v
<1>4. Sendable(cls, sent) /\ wire = Left(w, omitted)
  BY <1>1, <1>2 DEF InTransit
<1> HIDE DEF w
<1>5. wire' = Left(w, omitted')
  BY <1>1, <1>4 DEF Left
<1>6. InTransit(cls, sent, wire', 0, omitted')
  BY <1>4, <1>5 DEF InTransit, w
<1> QED  BY <1>1, <1>2, <1>3, <1>6 DEF MessageInv

\* The service reads a report and writes what it read: an object of the same
\* class, which only a report that was not complete can fail to give.
LEMMA RelayKeeps ==
    ASSUME MessageInv, Relay
    PROVE  MessageInv'
<1> DEFINE r == DeSerialize(cls, wire)
           y == r.v
           back == IF r.ok THEN Serialize(cls, y) ELSE Inval
<1>1. /\ phase = "sent" /\ cls \in Relayed
      /\ wire' = back.v /\ phase' = IF back.ok THEN "sent" ELSE "refused"
      /\ hops' = hops + 1
      /\ cls' = cls /\ sent' = sent /\ omitted' = omitted
  BY DEF Relay, Relayed
<1>2. /\ cls \in ClassNames /\ sent \in Objects(cls) /\ IsFiniteSet(omitted) /\ hops \in Nat
      /\ InTransit(cls, sent, wire, hops, omitted)
  BY <1>1 DEF MessageInv
<1>3. (omitted = {} => r.ok) /\ (r.ok => Arrived(cls, sent, y, hops, omitted))
  BY <1>2, ReadInTransit
<1>4. Sendable(cls, sent)
  BY <1>2 DEF InTransit
<1>5. ~Inval.ok
  BY DEF Inval
<1>6. r.ok => /\ y \in Objects(cls)
              /\ omitted = {} => Sendable(cls, y)
  <2> SUFFICES ASSUME r.ok
               PROVE  y \in Objects(cls) /\ (omitted = {} => Sendable(cls, y))
    OBVIOUS
  <2>1. r # Inval
    BY <1>5
  <2>2. y = [f \in DOMAIN y |-> y[f]]
    BY <1>1, <2>1, ReadIsRecord
  <2>3. Arrived(cls, sent, y, hops, omitted)
    BY <1>3
  <2> HIDE DEF r, y
  <2> QED  BY <1>1, <1>2, <1>4, <2>2, <2>3, ArrivedIsObject
<1> HIDE DEF r, y
<1>7. CASE r.ok /\ Sendable(cls, y)
  <2>1. phase' = "sent" /\ wire' = Serialize(cls, y).v
    BY <1>1, <1>7 DEF Sendable
  <2>2. hops + 1 # 0 /\ hops + 1 - 1 = hops /\ hops + 1 \in Nat
    BY <1>2
  <2>3. InTransit(cls, sent, wire', hops + 1, omitted)
    <3> DEFINE h == hops + 1
               At(v) == /\ Sendable(cls, v) /\ wire' = Serialize(cls, v).v
                        /\ Arrived(cls, sent, v, h - 1, omitted)
    <3>1. h # 0 /\ h - 1 = hops
      <4>1. hops \in Nat
        BY <1>2
      <4> QED  BY <4>1
    <3> HIDE DEF h
    <3>2. y \in Objects(cls) /\ At(y)
      <4>1. y \in Objects(cls)
        BY <1>6, <1>7
      <4>2. Arrived(cls, sent, y, hops, omitted)
        BY <1>3, <1>7
      <4>3. Arrived(cls, sent, y, h - 1, omitted)
        BY <3>1, <4>2
      <4> QED  BY <1>7, <2>1, <4>1, <4>3
    <3>3. \E v \in Objects(cls) : At(v)
      BY <3>2
    <3>4. cls \in Relayed
      BY <1>1
    <3>5. InTransit(cls, sent, wire', h, omitted)
      BY <1>4, <3>1, <3>3, <3>4 DEF InTransit
    <3> QED  BY <3>5 DEF h
  <2> QED  BY <1>1, <1>2, <2>1, <2>2, <2>3 DEF MessageInv
<1>8. CASE ~(r.ok /\ Sendable(cls, y))
  <2>1. phase' = "refused" /\ omitted # {}
    BY <1>1, <1>3, <1>5, <1>6, <1>8 DEF Sendable
  <2>2. hops + 1 \in Nat
    BY <1>2
  <2> QED  BY <1>1, <1>2, <2>1, <2>2 DEF MessageInv
<1> QED  BY <1>7, <1>8

\* A reader takes what is left of the object, or refuses.
LEMMA ReceiveKeeps ==
    ASSUME MessageInv, Receive
    PROVE  MessageInv'
<1> DEFINE r == DeSerialize(cls, wire)
<1>1. /\ phase = "sent" /\ got' = r.v /\ phase' = IF r.ok THEN "read" ELSE "refused"
      /\ cls' = cls /\ sent' = sent /\ omitted' = omitted /\ hops' = hops /\ wire' = wire
  BY DEF Receive
<1>2. /\ cls \in ClassNames /\ sent \in Objects(cls) /\ IsFiniteSet(omitted) /\ hops \in Nat
      /\ InTransit(cls, sent, wire, hops, omitted)
  BY <1>1 DEF MessageInv
<1>3. (omitted = {} => r.ok) /\ (r.ok => Arrived(cls, sent, r.v, hops, omitted))
  BY <1>2, ReadInTransit
<1>4. cls = "service::PrepareInfo" => r.v = PrepareDeSerialize(wire).v
  BY Readers
<1> HIDE DEF r
<1>5. CASE r.ok
  <2>1. phase' = "read"
    BY <1>1, <1>5
  <2> QED  BY <1>1, <1>2, <1>3, <1>4, <1>5, <2>1 DEF MessageInv
<1>6. CASE ~r.ok
  <2>1. phase' = "refused"
    BY <1>1, <1>6
  <2> QED  BY <1>1, <1>2, <1>3, <1>6, <2>1 DEF MessageInv
<1> QED  BY <1>5, <1>6

\* The request about directories is answered.
LEMMA PrepareKeeps ==
    ASSUME MessageInv, Prepare
    PROVE  MessageInv'
<1>1. /\ phase = "read" /\ cls = "service::PrepareInfo"
      /\ got' = MakeDirectoryResponce(Directories(got)) /\ phase' = "answered"
      /\ cls' = cls /\ sent' = sent /\ omitted' = omitted /\ hops' = hops /\ wire' = wire
  BY DEF Prepare
<1>2. /\ cls \in ClassNames /\ sent \in Objects(cls) /\ IsFiniteSet(omitted) /\ hops \in Nat
      /\ got = PrepareDeSerialize(wire).v
  BY <1>1 DEF MessageInv
<1>3. Reports(got', wire)
  BY <1>1, <1>2, AllReported
<1> QED  BY <1>1, <1>2, <1>3 DEF MessageInv

\* A message on its way, relayed or not, is that of an object without what the
\* peer left out; an object that was read is what is left of the one sent, and a
\* message is refused only when it was not complete.
THEOREM MessageInvariant == MessageSpec => []MessageInv
<1>1. MessageInit => MessageInv
  BY MessageInvInit
<1>2. MessageInv /\ [MessageNext]_messageVars => MessageInv'
  <2> SUFFICES ASSUME MessageInv, [MessageNext]_messageVars  PROVE MessageInv'
    OBVIOUS
  <2>1. ASSUME NEW c \in Classes, NEW x \in Values[c], Send(c, x)  PROVE MessageInv'
    BY <2>1, SendKeeps
  <2>2. ASSUME NEW k, Omit(k)  PROVE MessageInv'
    BY <2>2, OmitKeeps
  <2>3. CASE Relay
    BY <2>3, RelayKeeps
  <2>4. CASE Receive
    BY <2>4, ReceiveKeeps
  <2>5. CASE Prepare
    BY <2>5, PrepareKeeps
  <2>6. CASE UNCHANGED messageVars
    BY <2>6 DEF messageVars, MessageInv
  <2> QED  BY <2>1, <2>2, <2>3, <2>4, <2>5, <2>6 DEF MessageNext
<1> QED  BY <1>1, <1>2, PTL DEF MessageSpec

\* DoDeSerialize and SerializeFields of every class, for any objects, any members
\* left out and any number of relays: every field arrives but those whose members
\* were left out, a complete message is never refused, and the answer about
\* directories reports on each of them.
THEOREM FieldsOfMessagesArrive == MessageSpec => []FieldsArrive
<1>1. MessageInv => FieldsArrive
  <2> SUFFICES ASSUME MessageInv  PROVE FieldsArrive
    OBVIOUS
  <2>1. PrepareReportsEach
    BY DEF MessageInv, Reports, PrepareReportsEach
  <2>2. (phase = "refused" /\ Serialize(cls, sent).ok) => omitted # {}
    BY DEF MessageInv, Sendable
  <2>3. ASSUME phase = "read"
        PROVE  LET arrives(f) == got[f] = IF f \in Lossy(cls) THEN LeftOf(f, sent[f], hops) ELSE sent[f]
                   lost == {f \in DOMAIN got : ~arrives(f)}
               IN  /\ DOMAIN got = DOMAIN sent
                   /\ Cardinality(lost) <= Cardinality(omitted)
                   /\ \A f \in lost : got[f] = Default(cls)[f]
    <3>1. /\ cls \in ClassNames /\ sent \in Objects(cls) /\ IsFiniteSet(omitted)
          /\ Arrived(cls, sent, got, hops, omitted)
      BY <2>3 DEF MessageInv
    <3>2. /\ DOMAIN got = DOMAIN sent
          /\ Cardinality(Lost(cls, sent, got, hops)) <= Cardinality(omitted)
          /\ \A f \in Lost(cls, sent, got, hops) : got[f] = Default(cls)[f]
      BY <3>1, OneEach
    <3>3. \A f \in DOMAIN sent :
             Carried(cls, sent, hops)[f] = IF f \in Lossy(cls) THEN LeftOf(f, sent[f], hops) ELSE sent[f]
      BY DEF Carried, Lossy
    <3>4. Lost(cls, sent, got, hops) =
             {f \in DOMAIN got : ~(got[f] = IF f \in Lossy(cls) THEN LeftOf(f, sent[f], hops) ELSE sent[f])}
      BY <3>2, <3>3 DEF Lost
    <3> QED  BY <3>2, <3>4
  <2> QED  BY <2>1, <2>2, <2>3 DEF FieldsArrive
<1> QED  BY <1>1, MessageInvariant, PTL

=============================================================================
