------------------------------ MODULE NodeStats -----------------------------
(***************************************************************************)
(* The statistics of the machine: what the service reads from the kernel's *)
(* counters for its clients, on a timer and for a client that activates,   *)
(* each time as the difference to the time before, whoever that was for.   *)
(***************************************************************************)
EXTENDS Integers, FiniteSets, Functions

CONSTANTS
    Interfaces,   \* network interfaces
    Loopback,     \* those whose name begins with "lo"
    Word,         \* the counters are of uint64_t: numbers below Word
    MaxClock,     \* bound on the clock, in milliseconds
    Steps,        \* by how many milliseconds the clock moves
    Amounts,      \* how many bytes come in such a step
    Loads         \* what the processors do in it: time for user, guest, idle, iowait

ASSUME StatsAssumption ==
    /\ IsFiniteSet(Interfaces) /\ Loopback \subseteq Interfaces
    /\ Word \in Nat \ {0} /\ MaxClock \in Nat
    /\ Steps \subseteq Nat \ {0} /\ Amounts \subseteq Nat
    /\ Loads \subseteq [user : Nat, guest : Nat, idle : Nat, iowait : Nat]
    /\ \A l \in Loads : l.guest <= l.user

VARIABLES
    clock,     \* the time
    net,       \* interface -> its bytes, for those that are there
    cpu,       \* /proc/stat: user time, the part of it for guests, idle time
               \* and time waited for devices
    prev,      \* node_stats_: the shots and the time of the last statistics
    running,   \* the loop of the service runs
    vanished,  \* history: an interface went, and its bytes with it
    received,  \* history: bytes that have come
    reported   \* history: bytes and busy time in all the statistics so far

kernel == <<clock, net, cpu>>
statVars == <<kernel, prev, running, vanished, received, reported>>

\* Every interface but the loopback; a file that cannot be read counts as zero.
GetMachineNetShot ==
    LET here == DOMAIN net \ Loopback
    IN  SumFunctionOnSet(net, here)

\* The time for guests is taken out of user time, and what was waited for
\* devices is read and not kept.
GetMachineCpuShot == [user |-> cpu.user - cpu.guest, idle |-> cpu.idle, iowait |-> 0]

StatInit ==
    /\ clock = 0 /\ net = [i \in Interfaces |-> 0]
    /\ cpu = [user |-> 0, guest |-> 0, idle |-> 0, iowait |-> 0]
    /\ prev = [net |-> 0, cpu |-> [user |-> 0, idle |-> 0, iowait |-> 0], time |-> 0]
    /\ running = FALSE /\ vanished = FALSE /\ received = 0
    /\ reported = [net |-> 0, busy |-> 0]

Minus(a, b) == (a - b) % Word

\* Busy time as a part of all the time between two shots.
GetCpuMachineLoad(before, next) ==
    LET idle == Minus(next.idle + next.iowait, before.idle + before.iowait)
        total == Minus(next.user + next.idle + next.iowait,
                       before.user + before.idle + before.iowait)
    IN  [busy |-> total - idle, total |-> total]

\* Before the loop: the first shots.
ExecShots ==
    /\ ~running /\ running' = TRUE
    /\ prev' = [net |-> GetMachineNetShot, cpu |-> GetMachineCpuShot, time |-> clock]
    /\ reported' = [net |-> received, busy |-> cpu.user]
    /\ UNCHANGED <<kernel, vanished, received>>

Seconds == LET diff == (clock - prev.time) \div 1000
           IN  IF diff = 0 THEN 1 ELSE diff

Rate == Minus(GetMachineNetShot, prev.net) \div Seconds

Told == [net |-> reported.net + Rate * Seconds,
         busy |-> reported.busy + GetCpuMachineLoad(prev.cpu, GetMachineCpuShot).busy]

\* Mutant: only the statistics of the timer move the shots on.
ShotsOfTimerOnly(full) ==
    /\ running
    /\ reported' = Told
    /\ prev' = IF full THEN prev
               ELSE [net |-> GetMachineNetShot, cpu |-> GetMachineCpuShot, time |-> clock]
    /\ UNCHANGED <<kernel, running, vanished, received>>

\* full: for a client that has just activated, else for all of them.
MakeServiceStats(full) ==
    /\ running
    /\ reported' = Told
    /\ prev' = [net |-> GetMachineNetShot, cpu |-> GetMachineCpuShot, time |-> clock]
    /\ UNCHANGED <<kernel, running, vanished, received>>

\* The machine works for some time.
Works(ms) ==
    /\ clock + ms <= MaxClock /\ clock' = clock + ms
    /\ \E i \in DOMAIN net, bytes \in Amounts :
           /\ net' = [net EXCEPT ![i] = @ + bytes]
           /\ received' = IF i \in Loopback THEN received ELSE received + bytes
    /\ \E l \in Loads : cpu' = [f \in DOMAIN cpu |-> cpu[f] + l[f]]
    /\ UNCHANGED <<prev, running, vanished, reported>>

\* An interface is taken down.
Vanishes(i) ==
    /\ i \in DOMAIN net \ Loopback /\ Cardinality(DOMAIN net) > 1
    /\ net' = [j \in DOMAIN net \ {i} |-> net[j]]
    /\ vanished' = TRUE
    /\ UNCHANGED <<clock, cpu, prev, running, received, reported>>

StatNext ==
    \/ \E ms \in Steps : Works(ms)
    \/ \E i \in Interfaces : Vanishes(i)
    \/ ExecShots
    \/ \E full \in BOOLEAN : MakeServiceStats(full)

StatSpec == StatInit /\ [][StatNext]_statVars

\* Nothing is reported twice, although the statistics of the timer and of the
\* clients that activate share their last shots: all the bytes per second
\* times their seconds are no more than came over the network, and all the
\* busy time no more than the processors worked. An interface that goes is
\* the exception, its bytes are missing from the next shot.
MeasuredOnce ==
    /\ ~vanished => reported.net <= received
    /\ reported.busy <= cpu.user
=============================================================================
