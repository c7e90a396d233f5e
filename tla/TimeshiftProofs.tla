--------------------------- MODULE TimeshiftProofs --------------------------
(***************************************************************************)
(* The directory of a timeshift for any durations, delays, life times and  *)
(* any number of sessions. Three invariants build on each other: the chunks*)
(* of the directory are in the order of their time and the recorder is at  *)
(* or after the last one (DirInv); where the recording has not paused they *)
(* follow each other without a gap, each as long as a chunk may be         *)
(* (SessionInv); and a player that began there stays behind the recorder   *)
(* and before the clean-up (PlayerInv). The list of the catchup rests on   *)
(* the first alone (ListInv).                                              *)
(***************************************************************************)
EXTENDS Timeshift, TLAPS, WellFoundedInduction, SequenceTheorems

Indices == DOMAIN files

Players ==
    [state : {"looking", "playing", "starved"}, index : Int, until : Nat,
     found : Nat, since : Nat, window : Nat]

\* The indices of a directory are bounded, though by nothing the program knows.
Bounded == \E u \in Nat : \A i \in Indices : i <= u

TypeOK ==
    /\ kind \in Kinds /\ now \in Nat
    /\ files \in [Indices -> [from : Nat, mtime : Nat]] /\ Indices \subseteq Nat
    /\ Bounded
    /\ on \in BOOLEAN /\ open \in BOOLEAN
    /\ began \in Nat /\ began <= now /\ since \in Nat /\ since <= now
    /\ index \in Nat \cup {Invalid}
    /\ player \in Players

DirInv ==
    /\ \A i \in Indices : files[i].from <= files[i].mtime /\ files[i].mtime <= now
    /\ \A i, j \in Indices : i < j => files[i].mtime <= files[j].mtime
    /\ on => IF index = Invalid THEN Indices = {} ELSE \A j \in Indices : j <= index
    /\ open => on /\ index \in Indices /\ files[index].mtime = now

\* Chunk i is followed by its successor or is the one that is written, and it
\* follows its predecessor unless that was the first or is removed.
Follows(i) ==
    /\ since <= files[i].from /\ files[i].mtime <= files[i].from + Longest
    /\ \/ /\ i + 1 \in Indices
          /\ files[i].mtime >= files[i].from + Shortest
          /\ files[i + 1].from = files[i].mtime
       \/ files[i].mtime = now /\ \A j \in Indices : j <= i
    /\ \/ files[i].from = since
       \/ /\ i - 1 \in Indices
          /\ files[i - 1].mtime = files[i].from /\ files[i - 1].mtime > since
       \/ files[i].from < now - LifeTime[kind]

SessionInv ==
    kind = "recorder" =>
        /\ on /\ ~open => since = now
        /\ open => since <= files[index].from
        /\ \A i \in Indices : files[i].mtime > since => Follows(i)

\* The player is on its way, where the recording has not paused since it began.
OnItsWay ==
    /\ player.window = Duration /\ player.since = since
    /\ Longest < 2 * Duration /\ Longest <= Delay
    /\ player.since + 2 * Longest <= player.found - Delay
    /\ LifeTime[kind] >= Delay + 2 * Longest - Shortest

\* The chunk that begins at from is due at player.until: it is then at least a
\* chunk old, and within two chunks of the moment that is wanted.
Due(from) ==
    /\ from + Longest <= player.until
    /\ player.until - Delay - 2 * Longest < from /\ from <= player.until - Delay

\* The next chunk of the player is there and due.
Ready ==
    /\ player.index \in Indices /\ files[player.index].mtime > since
    /\ Due(files[player.index].from)

\* The next chunk of the player is the next of the recorder, which has to begin
\* it now: the one before is as long as it may be.
Close ==
    /\ player.index - 1 \in Indices /\ files[player.index - 1].mtime > since
    /\ files[player.index - 1].from + Longest <= now
    /\ Due(files[player.index - 1].from + Longest)
    /\ \A j \in Indices : j < player.index

PlayerInv ==
    /\ player.state # "looking" => kind = "recorder" /\ player.found <= now
    /\ player.state = "playing" => now <= player.until
    /\ OnItsWay /\ player.state = "playing" => Ready \/ Close
    /\ PlayerNotStarved

-----------------------------------------------------------------------------
(* Numbers                                                                 *)

\* A set of natural numbers that is not empty has its Min.
LEMMA MinIs ==
    ASSUME NEW T \in SUBSET Nat, T # {}
    PROVE  Min(T) \in T /\ \A y \in T : Min(T) =< y
<1> DEFINE R == {p \in Nat \X Nat : p[1] < p[2]}
<1>1. IsWellFoundedOn(R, Nat)
  BY NatLessThanWellFounded DEF OpToRel
<1>2. PICK x \in T : \A y \in T : <<y, x>> \notin R
  BY <1>1, WFMin
<1>3. ASSUME NEW y \in T  PROVE x =< y
  <2>1. x \in Nat /\ y \in Nat
    OBVIOUS
  <2>2. ~(y < x)
    BY <1>2, <2>1
  <2> QED  BY <2>1, <2>2
<1> QED  BY <1>3 DEF Min

\* One that is bounded as well has its Max.
LEMMA MaxIs ==
    ASSUME NEW T \in SUBSET Nat, T # {}, NEW u \in Nat, \A i \in T : i <= u
    PROVE  Max(T) \in T /\ \A y \in T : y <= Max(T)
<1> DEFINE B == {n \in Nat : \A i \in T : i <= n}
<1>1. B \in SUBSET Nat /\ B # {}
  OBVIOUS
<1> DEFINE m == Min(B)
<1>2. m \in B /\ \A y \in B : m =< y
  BY <1>1, MinIs
<1> HIDE DEF m
<1>3. m \in T
  <2> SUFFICES ASSUME m \notin T  PROVE FALSE
    OBVIOUS
  <2>1. \A i \in T : i \in Nat /\ i <= m /\ i # m
    BY <1>2
  <2>2. m \in Nat /\ m # 0
    <3>1. PICK i \in T : TRUE
      OBVIOUS
    <3> QED  BY <1>2, <2>1, <3>1
  <2>3. m - 1 \in Nat /\ \A i \in T : i <= m - 1
    BY <2>1, <2>2
  <2>4. m - 1 \in B
    BY <2>3
  <2> QED  BY <1>2, <2>2, <2>4
<1>4. \A y \in T : m >= y
  BY <1>2
<1>5. \A x \in T : (\A y \in T : x >= y) => x = m
  BY <1>2, <1>3
<1> QED  BY <1>3, <1>4, <1>5 DEF Max

\* The larger of two.
LEMMA MaxOfTwo ==
    ASSUME NEW a \in Int, NEW b \in Int
    PROVE  Max({a, b}) = IF a >= b THEN a ELSE b
BY DEF Max

-----------------------------------------------------------------------------
(* The directory                                                           *)

\* FindLastChunk is the largest index, or none.
LEMMA LastChunk ==
    ASSUME TypeOK
    PROVE  /\ Indices = {} => FindLastChunk = Invalid
           /\ Indices # {} => /\ FindLastChunk \in Indices
                              /\ \A j \in Indices : j <= FindLastChunk
<1>1. CASE Indices = {}
  BY <1>1 DEF FindLastChunk, Indices
<1>2. CASE Indices # {}
  <2>1. PICK u \in Nat : \A i \in Indices : i <= u
    BY DEF TypeOK, Bounded
  <2>2. Indices \in SUBSET Nat
    BY DEF TypeOK
  <2>3. Max(Indices) \in Indices /\ \A j \in Indices : j <= Max(Indices)
    BY <1>2, <2>1, <2>2, MaxIs
  <2> QED  BY <1>2, <2>3 DEF FindLastChunk, Indices
<1> QED  BY <1>1, <1>2

\* A recorder goes on at the last chunk or after it.
LEMMA NextStrategy ==
    ASSUME TypeOK
    PROVE  /\ Indices = {} => GetNextChunkStrategy = Invalid
           /\ Indices # {} => /\ GetNextChunkStrategy \in Nat
                              /\ \A j \in Indices : j <= GetNextChunkStrategy
           /\ Indices # {} /\ kind = "catchup" => GetNextChunkStrategy = FindLastChunk + 1
<1>1. CASE Indices = {}
  <2>1. FindLastChunk = Invalid
    BY <1>1, LastChunk
  <2> QED  BY <1>1, <2>1 DEF GetNextChunkStrategy
<1>2. CASE Indices # {}
  <2>0. Indices \subseteq Nat
    BY DEF TypeOK
  <2>1. /\ FindLastChunk \in Indices /\ FindLastChunk \in Nat /\ FindLastChunk # Invalid
        /\ \A j \in Indices : j \in Nat /\ j <= FindLastChunk
    <3>1. FindLastChunk \in Indices /\ \A j \in Indices : j <= FindLastChunk
      BY <1>2, LastChunk
    <3> QED  BY <2>0, <3>1 DEF Invalid
  <2>2. CASE kind = "catchup"
    BY <1>2, <2>1, <2>2 DEF GetNextChunkStrategy
  <2>3. CASE kind # "catchup"
    <3> DEFINE diff == now - files[FindLastChunk].mtime
    <3>1. diff \in Int /\ (diff > 0 => diff \div Duration \in Nat)
      BY <2>1, TimeshiftAssumption DEF TypeOK
    <3>2. GetNextChunkStrategy = IF diff > 0 THEN FindLastChunk + (diff \div Duration) ELSE FindLastChunk
      BY <2>1, <2>3 DEF GetNextChunkStrategy
    <3> HIDE DEF diff
    <3> QED  BY <1>2, <2>1, <2>3, <3>1, <3>2
  <2> QED  BY <2>2, <2>3
<1> QED  BY <1>1, <1>2

\* CalcNextIndex is the index of a chunk that is not there, after all that are.
LEMMA NextIndex ==
    ASSUME TypeOK, DirInv, on
    PROVE  /\ CalcNextIndex \in Nat /\ \A j \in Indices : j < CalcNextIndex
           /\ index # Invalid => index <= CalcNextIndex
           /\ index \in Indices => CalcNextIndex = index + 1
BY DEF TypeOK, DirInv, CalcNextIndex, Indices, Invalid
Base == TypeOK /\ DirInv

\* The indices and times of the directory are numbers.
LEMMA Times ==
    ASSUME Base
    PROVE  /\ now \in Nat /\ since \in Nat /\ LifeTime[kind] \in Nat /\ Duration \in Nat \ {0} /\ Delay \in Nat
           /\ Shortest \in Nat /\ Longest \in Nat /\ 1 <= Shortest
           /\ Shortest <= Duration /\ Duration <= Longest
           /\ \A i \in Indices : i \in Nat /\ files[i].from \in Nat /\ files[i].mtime \in Nat
BY TimeshiftAssumption DEF Base, TypeOK

ChunkAdded ==
    /\ on /\ on' = on /\ open' = TRUE /\ index' = CalcNextIndex
    /\ Indices' = Indices \cup {index'} /\ index' \in Nat
    /\ files' \in [Indices' -> [from : Nat, mtime : Nat]]
    /\ files'[index'].from = now /\ files'[index'].mtime = now
    /\ \A i \in Indices : files'[i] = files[i] /\ i < index'
    /\ open => index' = index + 1 /\ now - files[index].from \in Shortest..Longest
    /\ UNCHANGED <<kind, now, began, since, player>>

\* What OnPathSet does to the directory and to the recorder.
LEMMA PathSetFiles ==
    ASSUME Base, NEW sample, OnPathSet(sample)
    PROVE  ChunkAdded
<1>1. on /\ on' = on /\ open' = TRUE /\ index' = CalcNextIndex
  BY DEF OnPathSet
<1>2. /\ CalcNextIndex \in Nat /\ (\A j \in Indices : j < CalcNextIndex)
      /\ (index \in Indices => CalcNextIndex = index + 1)
  BY <1>1, NextIndex DEF Base
<1>3. files' = [i \in DOMAIN files \union {CalcNextIndex} |->
                    IF i = CalcNextIndex THEN [from |-> now, mtime |-> now] ELSE files[i]]
  BY DEF OnPathSet
<1>4. Indices' = Indices \cup {index'}
  BY <1>1, <1>3 DEF Indices
<1>5. files'[index'] = [from |-> now, mtime |-> now]
  BY <1>1, <1>3
<1>6. ASSUME NEW i \in Indices  PROVE files'[i] = files[i] /\ i < index'
  <2>1. i < index'
    BY <1>1, <1>2, <1>6
  <2>2. i \in Nat
    BY DEF Base, TypeOK
  <2>3. i # CalcNextIndex
    BY <1>1, <1>2, <2>1, <2>2
  <2> QED  BY <1>3, <2>1, <2>3 DEF Indices
<1>7. files' \in [Indices' -> [from : Nat, mtime : Nat]]
  <2>1. files' = [i \in Indices' |-> files'[i]]
    BY <1>1, <1>3, <1>4 DEF Indices
  <2>2. \A i \in Indices' : files'[i] \in [from : Nat, mtime : Nat]
    <3>1. now \in Nat /\ \A i \in Indices : files[i] \in [from : Nat, mtime : Nat]
      BY DEF Base, TypeOK
    <3> QED  BY <1>4, <1>5, <1>6, <3>1
  <2> QED  BY <2>1, <2>2
<1>8. open => index' = index + 1 /\ now - files[index].from \in Shortest..Longest
  BY <1>1, <1>2 DEF Base, DirInv, OnPathSet
<1>9. UNCHANGED <<kind, now, began, since, player>>
  BY DEF OnPathSet
<1> QED  BY <1>1, <1>2, <1>4, <1>5, <1>6, <1>7, <1>8, <1>9 DEF ChunkAdded

OldRemoved ==
    /\ on /\ Indices' = {i \in Indices : files[i].mtime >= now - LifeTime[kind]}
    /\ files' \in [Indices' -> [from : Nat, mtime : Nat]]
    /\ \A i \in Indices' : files'[i] = files[i]
    /\ open' = open /\ (open => index \in Indices')
    /\ UNCHANGED <<kind, now, on, began, index, since, player>>

\* What the clean-up leaves is a part of the directory, and the chunk that is
\* written is in it.
LEMMA TimerFiles ==
    ASSUME Base, HandleMainTimerTick
    PROVE  OldRemoved
<1>1. /\ on
      /\ files' = [i \in {j \in DOMAIN files : files[j].mtime >= now - LifeTime[kind]} |-> files[i]]
  BY DEF HandleMainTimerTick, RemoveOldFilesByTime
<1>2. Indices' = {i \in Indices : files[i].mtime >= now - LifeTime[kind]}
  BY <1>1 DEF Indices
<1>3. \A i \in Indices' : files'[i] = files[i]
  BY <1>1, <1>2 DEF Indices
<1>4. files' \in [Indices' -> [from : Nat, mtime : Nat]]
  <2>1. files' = [i \in Indices' |-> files'[i]]
    BY <1>1, <1>2 DEF Indices
  <2>2. \A i \in Indices' : files'[i] \in [from : Nat, mtime : Nat]
    BY <1>2, <1>3 DEF Base, TypeOK
  <2> QED  BY <2>1, <2>2
<1>5. open' = open /\ (open => index \in Indices')
  <2>1. open => index \in Indices /\ files[index].mtime = now
    BY DEF Base, DirInv
  <2>2. now \in Nat /\ LifeTime[kind] \in Nat
    BY TimeshiftAssumption DEF Base, TypeOK
  <2>3. open => index \in Indices'
    BY <1>2, <2>1, <2>2
  <2>4. open' = (open /\ index \in Indices') /\ open \in BOOLEAN
    BY Zenon DEF HandleMainTimerTick, Indices, Base, TypeOK
  <2> QED  BY <2>3, <2>4
<1>6. UNCHANGED <<kind, now, on, began, index, since, player>>
  BY DEF HandleMainTimerTick
<1> QED  BY <1>1, <1>2, <1>3, <1>4, <1>5, <1>6 DEF OldRemoved

SecondAdded ==
    /\ Indices' = Indices
    /\ files' \in [Indices' -> [from : Nat, mtime : Nat]]
    /\ \A i \in Indices : /\ files'[i].from = files[i].from
                          /\ files'[i].mtime = IF open /\ i = index THEN now + 1 ELSE files[i].mtime
    /\ now' = now + 1 /\ UNCHANGED <<kind, on, began, index, open, player>>
    /\ since' = IF open \/ kind = "catchup" THEN since ELSE now + 1

\* A second adds to the time of the chunk that is written.
LEMMA TickFiles ==
    ASSUME Base, Tick
    PROVE  SecondAdded
<1>1. CASE open
  <2>1. files' = [files EXCEPT ![index].mtime = now + 1] /\ index \in Indices
    BY <1>1 DEF Tick, Base, DirInv
  <2> QED  BY <1>1, <2>1 DEF Tick, Base, TypeOK, Indices, SecondAdded
<1>2. CASE ~open
  BY <1>2 DEF Tick, Base, TypeOK, Indices, SecondAdded
<1> QED  BY <1>1, <1>2

\* A recorder that stops or is killed leaves the directory.
LEMMA DestroyedBase ==
    ASSUME Base, Destroyed, UNCHANGED <<kind, now, files, since, player>>
    PROVE  Base'
<1>1. on' \in BOOLEAN /\ open' \in BOOLEAN /\ ~on' /\ ~open'
  BY Zenon DEF Destroyed
<1>2. TypeOK'
  BY <1>1 DEF Base, TypeOK, Bounded, Destroyed, Indices, Invalid
<1>3. DirInv'
  BY <1>1 DEF Base, DirInv, Destroyed, Indices
<1> QED  BY <1>2, <1>3 DEF Base
\* The player does not touch the directory.
LEMMA PlayerBase ==
    ASSUME Base, player' \in Players,
           UNCHANGED <<kind, now, files, on, began, index, open, since>>
    PROVE  Base'
BY DEF Base, TypeOK, Bounded, DirInv, Indices

\* What the player becomes is a player.
LEMMA PlayerType ==
    ASSUME Base, (\E window \in Windows : PlayerFind(window)) \/ PlayerNext \/ PlayerRestart
    PROVE  player' \in Players
<1> USE DEF Players
<1>1. ASSUME NEW window \in Windows, PlayerFind(window)  PROVE player' \in Players
  <2>1. window \in Nat
    BY TimeshiftAssumption
  <2>2. FindChunkToPlay(window) \in Int
    <3> DEFINE fit == {i \in DOMAIN files : InWindow(i, window)}
               before == {i \in DOMAIN files : i < Min(fit)}
    <3>1. PICK u \in Nat : \A i \in Indices : i <= u
      BY DEF Base, TypeOK, Bounded
    <3>2. fit \in SUBSET Nat /\ before \in SUBSET Nat /\ \A i \in before : i <= u
      BY <3>1 DEF Base, TypeOK, Indices
    <3>3. fit # {} => Min(fit) \in Int
      BY <3>2, MinIs
    <3>4. FindChunkToPlay(window) = IF fit = {} THEN Invalid
              ELSE IF (Desired - files[Min(fit)].mtime) + window > 0 /\ before # {}
              THEN Max(before) ELSE Min(fit)
      BY DEF FindChunkToPlay
    <3> HIDE DEF fit, before
    <3>5. before # {} => Max(before) \in before
      BY <3>2, MaxIs
    <3>6. before # {} => Max(before) \in Int
      <4>1. before # {} => Max(before) \in Nat
        BY <3>2, <3>5, Zenon
      <4> QED  BY <4>1
    <3> QED  BY <3>3, <3>4, <3>6 DEF Invalid
  <2> QED  BY <1>1, <2>1, <2>2 DEF PlayerFind, Base, TypeOK
<1>2. CASE PlayerNext
  <2>1. CASE player.index \in DOMAIN files
    <3> DEFINE d == files[player.index].mtime - files[player.index].from
    <3>1. d \in Nat
      BY <2>1 DEF Base, TypeOK, DirInv, Indices
    <3>2. Max({1, d}) \in Nat
      BY <3>1, MaxOfTwo
    <3>3. player' = [player EXCEPT !.index = @ + 1, !.until = now + Max({1, d})]
      BY <1>2, <2>1 DEF PlayerNext
    <3>4. player \in Players /\ now \in Nat
      BY DEF Base, TypeOK
    <3> DEFINE m == now + Max({1, d})
    <3>5. m \in Nat /\ player.index + 1 \in Int
      BY <3>2, <3>4
    <3>6. player' = [player EXCEPT !.index = player.index + 1, !.until = m]
      BY <3>3
    <3> HIDE DEF d, m
    <3> QED  BY <3>4, <3>5, <3>6
  <2>2. CASE player.index \notin DOMAIN files
    BY <1>2, <2>2 DEF PlayerNext, Base, TypeOK
  <2> QED  BY <2>1, <2>2
<1>3. CASE PlayerRestart
  BY <1>3 DEF PlayerRestart, Looking, Invalid
<1> QED  BY <1>1, <1>2, <1>3

\* A chunk is added after all others, with the latest time.
LEMMA AddedBase ==
    ASSUME Base, ChunkAdded
    PROVE  Base'
<1>1. TypeOK'
  <2>1. Bounded'
    <3>1. \A i \in Indices' : i <= index'
      BY Times DEF ChunkAdded
    <3> QED  BY <3>1 DEF ChunkAdded, Bounded
  <2>2. on' \in BOOLEAN /\ open' \in BOOLEAN
    BY DEF ChunkAdded, Base, TypeOK
  <2> QED  BY <2>1, <2>2 DEF ChunkAdded, Base, TypeOK
<1>2. \A i \in Indices' : files'[i].from <= files'[i].mtime /\ files'[i].mtime <= now
  BY Times DEF ChunkAdded, Base, DirInv
<1>3. ASSUME NEW i \in Indices', NEW j \in Indices', i < j
      PROVE  files'[i].mtime <= files'[j].mtime
  <2>1. i \in Indices /\ files'[i] = files[i]
    BY <1>3, Times DEF ChunkAdded
  <2>2. CASE j = index'
    BY <1>2, <2>2, Times DEF ChunkAdded
  <2>3. CASE j # index'
    BY <1>3, <2>1, <2>3 DEF ChunkAdded, Base, DirInv
  <2> QED  BY <2>2, <2>3
<1>4. on' /\ index' # Invalid /\ (\A j \in Indices' : j <= index') /\ index' \in Indices'
  BY Times DEF ChunkAdded, Invalid
<1>5. DirInv'
  BY <1>2, <1>3, <1>4 DEF ChunkAdded, DirInv
<1> QED  BY <1>1, <1>5 DEF Base

\* Every step preserves the order of the directory.
LEMMA StepBase ==
    ASSUME Base, [Next]_vars
    PROVE  Base'
<1>1. CASE StartRecorder
  <2>1. on' \in BOOLEAN /\ open' \in BOOLEAN /\ ~open'
    BY <1>1, Zenon DEF StartRecorder
  <2>2. IF Indices = {} THEN index' = Invalid ELSE index' \in Nat /\ \A j \in Indices : j <= index'
    BY <1>1, NextStrategy DEF StartRecorder, Base
  <2>3. since' \in Nat /\ since' <= now
    BY <1>1 DEF StartRecorder, Base, TypeOK
  <2>4. TypeOK'
    BY <1>1, <2>1, <2>2, <2>3 DEF StartRecorder, Base, TypeOK, Bounded, Indices
  <2>5. DirInv'
    BY <1>1, <2>1, <2>2 DEF StartRecorder, Base, TypeOK, DirInv, Indices, Invalid
  <2> QED  BY <2>4, <2>5 DEF Base
<1>2. ASSUME NEW sample \in {"timed", "untimed", "none"}, OnPathSet(sample)  PROVE Base'
  BY <1>2, PathSetFiles, AddedBase
<1>3. CASE HandleMainTimerTick
  <2>1. OldRemoved
    BY <1>3, TimerFiles
  <2>2. Bounded' /\ Indices' \subseteq Nat
    BY <2>1 DEF OldRemoved, Base, TypeOK, Bounded
  <2>3. TypeOK'
    BY <2>1, <2>2 DEF OldRemoved, Base, TypeOK
  <2>4. DirInv'
    BY <2>1, <2>2 DEF OldRemoved, Base, DirInv
  <2> QED  BY <2>3, <2>4 DEF Base
<1>4. CASE StopRecorder \/ CrashRecorder
  BY <1>4, DestroyedBase DEF StopRecorder, CrashRecorder
<1>5. CASE (\E window \in Windows : PlayerFind(window)) \/ PlayerNext \/ PlayerRestart
  <2>1. player' \in Players
    BY <1>5, PlayerType
  <2>2. UNCHANGED <<kind, now, files, on, began, index, open, since>>
    BY <1>5 DEF PlayerFind, PlayerNext, PlayerRestart
  <2> QED  BY <2>1, <2>2, PlayerBase
<1>6. CASE Tick
  <2>1. SecondAdded
    BY <1>6, TickFiles
  <2>2. since' \in Nat /\ since' <= now' /\ Bounded'
    <3>1. since' \in Nat /\ since' <= now'
      BY <2>1 DEF SecondAdded, Base, TypeOK
    <3>2. Bounded /\ Indices' = Indices
      BY <2>1 DEF SecondAdded, Base, TypeOK
    <3> QED  BY <3>1, <3>2 DEF Bounded
  <2>3. TypeOK'
    BY <2>1, <2>2 DEF SecondAdded, Base, TypeOK
  <2>4. \A i \in Indices : files'[i].from <= files'[i].mtime /\ files'[i].mtime <= now'
    BY <2>1, Times DEF SecondAdded, Base, DirInv
  <2>5. ASSUME NEW i \in Indices, NEW j \in Indices, i < j
        PROVE  files'[i].mtime <= files'[j].mtime
    <3>1. files[i].mtime <= files[j].mtime /\ files[i].mtime <= now /\ files[j].mtime <= now
      BY <2>5 DEF Base, DirInv
    <3>2. ~(open /\ i = index)
      <4>1. i \in Nat /\ j \in Nat
        BY Times
      <4> QED  BY <2>5, <4>1 DEF Base, DirInv, Invalid
    <3> QED  BY <2>1, <3>1, <3>2, Times DEF SecondAdded
  <2>6. DirInv'
    BY <2>1, <2>4, <2>5 DEF SecondAdded, Base, DirInv
  <2> QED  BY <2>3, <2>6 DEF Base
<1>7. CASE UNCHANGED vars
  BY <1>7 DEF vars, Base, TypeOK, Bounded, DirInv, Indices
<1> QED  BY <1>1, <1>2, <1>3, <1>4, <1>5, <1>6, <1>7 DEF Next
\* The directory is in order initially.
LEMMA InitBase == Init => Base
<1> SUFFICES ASSUME Init  PROVE Base
  OBVIOUS
<1>1. on \in BOOLEAN /\ open \in BOOLEAN /\ ~on /\ ~open
  BY Zenon DEF Init
<1>2. Indices = {}
  BY DEF Init, Indices
<1>3. files \in [Indices -> [from : Nat, mtime : Nat]]
  BY DEF Init, Indices
<1>4. player \in Players
  BY DEF Init, Looking, Players, Invalid
<1>5. TypeOK
  BY <1>1, <1>2, <1>3, <1>4 DEF Init, TypeOK, Bounded, Invalid
<1>6. DirInv
  BY <1>1, <1>2 DEF DirInv
<1> QED  BY <1>5, <1>6 DEF Base

\* The directory is in order in every reachable state.
THEOREM DirectoryInOrder == Spec => []Base
<1>1. Init => Base  BY InitBase
<1>2. Base /\ [Next]_vars => Base'  BY StepBase
<1> QED  BY <1>1, <1>2, PTL DEF Spec

\* No step gives splitmuxsink the path of a chunk that is there, whatever was
\* started, stopped, killed and removed before: the beginning of a chunk never
\* changes, and a new one comes after all others.
THEOREM ChunksStay == Spec => ChunksAreKept
<1> DEFINE Kept == \A i \in DOMAIN files' :
                       /\ i \in DOMAIN files => files'[i].from = files[i].from
                       /\ i \notin DOMAIN files => \A j \in DOMAIN files : j < i
<1>1. Base /\ [Next]_vars => [Kept]_vars
  <2> SUFFICES ASSUME Base, Next  PROVE Kept
    OBVIOUS
  <2>1. ASSUME NEW sample \in {"timed", "untimed", "none"}, OnPathSet(sample)  PROVE Kept
    <3>1. ChunkAdded
      BY <2>1, PathSetFiles
    <3> QED  BY <3>1 DEF ChunkAdded, Indices
  <2>2. CASE HandleMainTimerTick
    <3>1. OldRemoved
      BY <2>2, TimerFiles
    <3> QED  BY <3>1 DEF OldRemoved, Indices
  <2>3. CASE Tick
    <3>1. SecondAdded
      BY <2>3, TickFiles
    <3> QED  BY <3>1 DEF SecondAdded, Indices
  <2>4. CASE UNCHANGED files
    BY <2>4
  <2> QED  BY <2>1, <2>2, <2>3, <2>4 DEF Next, StartRecorder, StopRecorder, CrashRecorder,
                                         PlayerFind, PlayerNext, PlayerRestart
<1> QED  BY <1>1, DirectoryInOrder, PTL DEF Spec, ChunksAreKept

-----------------------------------------------------------------------------
(* A recording without a pause                                             *)

\* A chunk that follows still does when nothing of it and its neighbours changes.
LEMMA FollowsKept ==
    ASSUME Base, NEW i \in Indices, Follows(i), files[i].mtime > since,
           Indices' = Indices, files' = files, UNCHANGED <<kind, now, since>>
    PROVE  Follows(i)'
BY DEF Follows

\* Every step preserves the structure of the session.
LEMMA StepSession ==
    ASSUME Base, SessionInv, [Next]_vars
    PROVE  SessionInv'
<1> SUFFICES ASSUME kind' = "recorder"
             PROVE  /\ on' /\ ~open' => since' = now'
                    /\ open' => since' <= files'[index'].from
                    /\ \A i \in Indices' : files'[i].mtime > since' => Follows(i)'
  BY DEF SessionInv
<1>0. kind' = kind /\ kind = "recorder"
  BY DEF Next, vars, StartRecorder, OnPathSet, HandleMainTimerTick, StopRecorder, CrashRecorder,
         PlayerFind, PlayerNext, PlayerRestart, Tick
<1>a. /\ on /\ ~open => since = now
      /\ open => since <= files[index].from
      /\ \A i \in Indices : files[i].mtime > since => Follows(i)
  BY <1>0 DEF SessionInv
<1>b. \A i \in Indices : files[i].from <= files[i].mtime /\ files[i].mtime <= now
  BY DEF Base, DirInv
<1>1. CASE StartRecorder
  <2>1. since' = now /\ now' = now /\ files' = files /\ ~open'
    BY <1>0, <1>1 DEF StartRecorder
  <2>2. \A i \in Indices' : ~(files'[i].mtime > since')
    BY <1>b, <2>1, Times DEF Indices
  <2> QED  BY <2>1, <2>2
<1>2. ASSUME NEW sample \in {"timed", "untimed", "none"}, OnPathSet(sample)
      PROVE  SessionInv'
  <2>1. ChunkAdded
    BY <1>2, PathSetFiles
  <2>2. CASE ~open
    <3>1. since' = now /\ now' = now
      BY <1>a, <2>1, <2>2 DEF ChunkAdded
    <3>2. \A i \in Indices' : ~(files'[i].mtime > since')
      BY <1>b, <2>1, <3>1, Times DEF ChunkAdded
    <3>3. since' <= files'[index'].from
      BY <2>1, <3>1, Times DEF ChunkAdded
    <3>4. ~(on' /\ ~open')
      BY <2>1 DEF ChunkAdded
    <3> QED  BY <3>2, <3>3, <3>4 DEF SessionInv
  <2>3. CASE open
    <3>1. /\ index \in Indices /\ files[index].mtime = now /\ since <= files[index].from
          /\ index' = index + 1
          /\ files[index].from + Shortest <= now /\ now <= files[index].from + Longest
          /\ \A j \in Indices : j <= index
      <4>1. /\ index \in Indices /\ files[index].mtime = now /\ since <= files[index].from
            /\ index' = index + 1 /\ now - files[index].from \in Shortest..Longest
        BY <1>a, <2>1, <2>3 DEF ChunkAdded, Base, DirInv
      <4>2. \A j \in Indices : j <= index
        BY <2>3, <4>1, Times DEF Base, DirInv, Invalid
      <4> QED  BY <4>1, <4>2, Times
    <3>2. /\ files'[index'].from = now /\ files'[index'].mtime = now
          /\ Indices' = Indices \cup {index'} /\ \A i \in Indices : files'[i] = files[i] /\ i < index'
          /\ UNCHANGED <<kind, now, since>>
      BY <2>1 DEF ChunkAdded
    <3>3. since < now
      BY <3>1, Times
    <3>4. ASSUME NEW n, n = index'  PROVE Follows(n)'
      <4>1. n = index + 1 /\ n - 1 = index
        BY <3>1, <3>4, Times
      <4>2. \A j \in Indices' : j <= n
        BY <3>1, <3>2, <3>4, <4>1, Times
      <4>3. files'[n].from = now /\ files'[n].mtime = now /\ files'[index].mtime = now
            /\ index \in Indices'
        BY <3>1, <3>2, <3>4
      <4> QED  BY <3>2, <3>3, <4>1, <4>2, <4>3, Times DEF Follows
    <3>5. ASSUME NEW i \in Indices, files'[i].mtime > since'  PROVE Follows(i)'
      <4>1. Follows(i) /\ files'[i] = files[i]
        BY <1>a, <3>2, <3>5
      <4>2. i - 1 \in Indices => files'[i - 1] = files[i - 1] /\ i - 1 \in Indices'
        BY <3>2
      <4>3. CASE i = index
        BY <3>1, <3>2, <4>1, <4>2, <4>3, Times DEF Follows
      <4>4. CASE i # index
        <5>1. i + 1 \in Indices
          BY <3>1, <4>1, <4>4, Times DEF Follows
        <5>2. i + 1 \in Indices' /\ files'[i + 1] = files[i + 1]
          BY <3>2, <5>1
        <5>3. /\ files[i].mtime >= files[i].from + Shortest
              /\ files[i + 1].from = files[i].mtime
          BY <3>1, <4>1, <4>4, <5>1, Times DEF Follows
        <5> QED  BY <3>2, <4>1, <4>2, <5>2, <5>3 DEF Follows
      <4> QED  BY <4>3, <4>4
    <3>6. since' <= files'[index'].from /\ ~(on' /\ ~open')
      BY <2>1, <3>2, <3>3, Times DEF ChunkAdded
    <3>7. ASSUME NEW i \in Indices', files'[i].mtime > since'  PROVE Follows(i)'
      BY <3>2, <3>4, <3>5, <3>7
    <3> QED  BY <3>6, <3>7 DEF SessionInv
  <2> QED  BY <2>2, <2>3
<1>3. CASE HandleMainTimerTick
  <2>1. OldRemoved
    BY <1>3, TimerFiles
  <2>2. ASSUME NEW i \in Indices', files'[i].mtime > since'  PROVE Follows(i)'
    <3>1. /\ i \in Indices /\ files'[i] = files[i] /\ Follows(i) /\ i \in Nat
          /\ files[i].mtime >= now - LifeTime[kind] /\ UNCHANGED <<kind, now, since>>
      BY <1>a, <2>1, <2>2, Times DEF OldRemoved
    <3>2. ASSUME i + 1 \in Indices  PROVE i + 1 \in Indices' /\ files'[i + 1] = files[i + 1]
      <4>1. files[i].mtime <= files[i + 1].mtime
        BY <3>1, <3>2 DEF Base, DirInv
      <4>2. files[i + 1].mtime >= now - LifeTime[kind]
        BY <3>1, <3>2, <4>1, Times
      <4> QED  BY <2>1, <3>2, <4>2 DEF OldRemoved
    <3>3. \A j \in Indices' : j \in Indices
      BY <2>1 DEF OldRemoved
    <3>4. ASSUME i - 1 \in Indices, files[i - 1].mtime = files[i].from
          PROVE  \/ i - 1 \in Indices' /\ files'[i - 1] = files[i - 1]
                 \/ files[i].from < now - LifeTime[kind]
      BY <2>1, <3>1, <3>4, Times DEF OldRemoved
    <3> QED  BY <3>1, <3>2, <3>3, <3>4 DEF Follows
  <2>3. /\ on' /\ ~open' => since' = now'
        /\ open' => since' <= files'[index'].from
    BY <1>a, <2>1 DEF OldRemoved
  <2> QED  BY <2>2, <2>3
<1>4. CASE StopRecorder \/ CrashRecorder
  <2>1. ~on' /\ ~open' /\ UNCHANGED <<kind, now, since, files>>
    BY <1>4 DEF StopRecorder, CrashRecorder, Destroyed
  <2> QED  BY <1>a, <2>1, FollowsKept DEF Indices
<1>5. CASE (\E window \in Windows : PlayerFind(window)) \/ PlayerNext \/ PlayerRestart \/ UNCHANGED vars
  <2>1. UNCHANGED <<kind, now, files, on, index, open, since>>
    BY <1>5 DEF PlayerFind, PlayerNext, PlayerRestart, vars
  <2> QED  BY <1>a, <2>1, FollowsKept DEF Indices
<1>6. CASE Tick
  <2>1. SecondAdded
    BY <1>6, TickFiles
  <2>2. CASE ~open
    <3>1. since' = now + 1 /\ now' = now + 1 /\ ~open'
      BY <1>0, <2>1, <2>2 DEF SecondAdded
    <3>2. \A i \in Indices' : ~(files'[i].mtime > since')
      BY <1>b, <2>1, <2>2, <3>1, Times DEF SecondAdded
    <3> QED  BY <3>1, <3>2
  <2>3. CASE open
    <3>1. /\ index \in Indices /\ files[index].mtime = now /\ since <= files[index].from
          /\ \A j \in Indices : j <= index
      BY <1>a, <2>3, Times DEF Base, DirInv, Invalid
    <3>2. now - files[index].from < Longest
      BY <1>6, <2>3 DEF Tick
    <3>3. /\ since' = since /\ now' = now + 1 /\ kind' = kind /\ Indices' = Indices
          /\ open' = open /\ index' = index
          /\ files'[index].mtime = now + 1 /\ files'[index].from = files[index].from
          /\ \A i \in Indices : i # index => /\ files'[i].from = files[i].from
                                             /\ files'[i].mtime = files[i].mtime
      BY <2>1, <2>3, <3>1 DEF SecondAdded
    <3>4. ASSUME NEW i \in Indices, files'[i].mtime > since'  PROVE Follows(i)'
      <4>1. CASE i = index
        <5>1. since <= files[index].from /\ now + 1 <= files[index].from + Longest
          BY <3>1, <3>2, Times
        <5>2. CASE since = now
          <6>1. files[index].from = since
            BY <1>b, <3>1, <5>2, Times
          <6> QED  BY <3>1, <3>3, <4>1, <5>1, <6>1 DEF Follows
        <5>3. CASE since # now
          <6>1. files[index].mtime > since
            BY <1>b, <3>1, <5>3, Times
          <6>2. Follows(index)
            BY <1>a, <3>1, <6>1
          <6>3. index - 1 \in Indices => index - 1 # index
            BY <3>1, Times
          <6> QED  BY <3>1, <3>3, <4>1, <5>1, <6>2, <6>3, Times DEF Follows
        <5> QED  BY <5>2, <5>3
      <4>2. CASE i # index
        <5>1. Follows(i) /\ i \in Nat /\ index \in Nat /\ i <= index
          BY <1>a, <3>1, <3>3, <3>4, <4>2, Times
        <5>2. i + 1 \in Indices /\ files[i].mtime >= files[i].from + Shortest /\ files[i + 1].from = files[i].mtime
          BY <3>1, <4>2, <5>1 DEF Follows
        <5>3. i - 1 \in Indices => i - 1 # index
          BY <5>1
        <5> QED  BY <3>3, <4>2, <5>1, <5>2, <5>3, Times DEF Follows
      <4> QED  BY <4>1, <4>2
    <3> QED  BY <2>3, <3>1, <3>3, <3>4
  <2> QED  BY <2>2, <2>3
<1>7. (\E sample \in {"timed", "untimed", "none"} : OnPathSet(sample)) =>
          (/\ on' /\ ~open' => since' = now'
           /\ open' => since' <= files'[index'].from
           /\ \A i \in Indices' : files'[i].mtime > since' => Follows(i)')
  BY <1>0, <1>2 DEF SessionInv
<1> QED  BY <1>1, <1>3, <1>4, <1>5, <1>6, <1>7 DEF Next

\* Where the recording has not paused for two chunks before the moment that is
\* wanted and there is a chunk that ends after it, FindChunkToPlay takes one
\* that begins at the moment or less than two chunks before it.
LEMMA ChunkToPlay ==
    ASSUME Base, SessionInv, kind = "recorder", LifeTime[kind] >= Delay + Longest,
           Longest < 2 * Duration, since + 2 * Longest <= Desired, NEW q \in Indices, files[q].mtime > Desired
    PROVE  /\ FindChunkToPlay(Duration) \in Indices
           /\ files[FindChunkToPlay(Duration)].mtime > since
           /\ files[FindChunkToPlay(Duration)].from <= Desired
           /\ Desired - files[FindChunkToPlay(Duration)].from < 2 * Longest
<1> DEFINE Q == {i \in Indices : files[i].mtime > Desired}
           fit == {i \in Indices : InWindow(i, Duration)}
           c == Min(Q)
           before == {i \in Indices : i < c}
<1>0. Indices \subseteq Nat /\ Desired = now - Delay
  BY DEF Base, TypeOK, Desired
<1>1. c \in Q /\ \A y \in Q : c <= y
  <2>1. Q \in SUBSET Nat /\ Q # {}
    BY <1>0
  <2> QED  BY <2>1, MinIs
<1> HIDE DEF c
<1>2. c \in Indices /\ c \in Nat /\ files[c].mtime > Desired /\ Desired > since
  BY <1>0, <1>1, Times
<1>3. Follows(c)
  BY <1>0, <1>2, Times DEF SessionInv
<1>4. /\ since <= files[c].from /\ files[c].mtime <= files[c].from + Longest
      /\ c - 1 \in Indices /\ files[c - 1].mtime = files[c].from /\ files[c - 1].mtime > since
  <2>1. /\ since <= files[c].from /\ files[c].mtime <= files[c].from + Longest
        /\ \/ files[c].from = since
           \/ /\ c - 1 \in Indices
              /\ files[c - 1].mtime = files[c].from /\ files[c - 1].mtime > since
           \/ files[c].from < now - LifeTime[kind]
    BY <1>3 DEF Follows
  <2> QED  BY <1>0, <1>2, <2>1, Times
<1>5. files[c].from <= Desired
  <2>1. ~(files[c - 1].mtime > Desired)
    BY <1>1, <1>2, <1>4
  <2>2. files[c - 1].mtime \in Nat /\ Desired \in Int
    <3>1. c - 1 \in Indices
      BY <1>4
    <3>2. now - Delay \in Int /\ \A i \in Indices : files[i].mtime \in Nat
      BY Times
    <3> QED  BY <1>0, <3>1, <3>2
  <2> QED  BY <1>4, <2>1, <2>2
<1>6. c \in fit /\ \A y \in fit : c <= y
  <2>1. \A y \in Indices : InWindow(y, Duration) => files[y].mtime > Desired
    BY <1>0, Times DEF InWindow
  <2>2. InWindow(c, Duration)
    BY <1>0, <1>2, <1>4, <1>5, Times DEF InWindow
  <2> QED  BY <1>1, <1>2, <2>1, <2>2
<1>7. Min(fit) = c
  <2>1. fit \in SUBSET Nat /\ fit # {}
    BY <1>0, <1>6
  <2>2. Min(fit) \in fit /\ \A y \in fit : Min(fit) <= y
    BY <2>1, MinIs
  <2>3. Min(fit) \in Nat
    BY <2>1, <2>2
  <2> DEFINE m == Min(fit)
  <2>4. m <= c /\ c <= m
    BY <1>6, <2>2
  <2> HIDE DEF m
  <2> QED  BY <1>2, <2>3, <2>4 DEF m
<1>8. before # {} /\ Max(before) = c - 1
  <2>1. before \in SUBSET Nat /\ c - 1 \in before /\ \A i \in before : i <= c
    <3>1. c - 1 \in Indices /\ c - 1 < c
      <4>1. c \in Nat
        BY <1>2
      <4> QED  BY <1>4, <4>1
    <3>2. ASSUME NEW i \in Indices, i < c  PROVE i <= c
      <4>1. i \in Nat /\ c \in Nat
        BY <1>0, <1>2
      <4> QED  BY <3>2, <4>1
    <3> QED  BY <1>0, <3>1, <3>2
  <2>2. Max(before) \in before /\ \A y \in before : y <= Max(before)
    BY <1>2, <2>1, MaxIs
  <2>3. Max(before) \in Nat
    BY <2>1, <2>2
  <2> QED  BY <1>2, <2>1, <2>2, <2>3
<1>9. /\ (Desired - files[c].mtime) + Duration > 0 => FindChunkToPlay(Duration) = c - 1
      /\ ~((Desired - files[c].mtime) + Duration > 0) => FindChunkToPlay(Duration) = c
  <2>1. FindChunkToPlay(Duration) =
            IF fit = {} THEN Invalid
            ELSE IF (Desired - files[Min(fit)].mtime) + Duration > 0
                    /\ {i \in Indices : i < Min(fit)} # {}
            THEN Max({i \in Indices : i < Min(fit)})
            ELSE Min(fit)
    BY DEF FindChunkToPlay, Indices
  <2> QED  BY <1>6, <1>7, <1>8, <2>1
<1> HIDE DEF Q, fit, before
<1>10. CASE (Desired - files[c].mtime) + Duration > 0
  <2>1. Follows(c - 1)
    BY <1>0, <1>4 DEF SessionInv
  <2>2. files[c - 1].from <= files[c - 1].mtime
    BY <1>4 DEF Base, DirInv
  <2>3. files[c - 1].mtime <= files[c - 1].from + Longest
    BY <2>1 DEF Follows
  <2> DEFINE from == files[c - 1].from
             next == files[c].from
             end == files[c].mtime
  <2>5. /\ from \in Nat /\ next \in Nat /\ end \in Nat /\ now \in Nat /\ Delay \in Nat
        /\ Longest \in Nat
        /\ from <= next /\ next <= from + Longest /\ next <= now - Delay
        /\ end <= next + Longest /\ end > now - Delay
    BY <1>0, <1>2, <1>4, <1>5, <2>2, <2>3, Times
  <2>6. from <= Desired /\ Desired - from < 2 * Longest
    <3> HIDE DEF from, next, end
    <3> QED  BY <1>0, <2>5
  <2>7. FindChunkToPlay(Duration) = c - 1
    BY <1>9, <1>10
  <2> QED  BY <1>4, <2>6, <2>7
<1>11. CASE ~((Desired - files[c].mtime) + Duration > 0)
  <2>1. /\ files[c].from <= Desired /\ Desired - files[c].from < 2 * Longest
        /\ files[c].mtime > since
    BY <1>0, <1>2, <1>4, <1>5, <1>11, Times
  <2> QED  BY <1>2, <1>9, <1>11, <2>1
<1> QED  BY <1>10, <1>11

\* A recorder that has not paused writes to a chunk, which ends now.
LEMMA MomentThere ==
    ASSUME Base, SessionInv
    PROVE  FindsTheMoment
<1> SUFFICES ASSUME kind = "recorder", on, Longest < 2 * Duration,
                    since + 2 * Longest <= Desired, Desired < now,
                    LifeTime[kind] >= Delay + Longest
             PROVE  /\ FindChunkToPlay(Duration) # Invalid
                    /\ files[FindChunkToPlay(Duration)].from <= Desired
                    /\ Desired - files[FindChunkToPlay(Duration)].from <= 2 * Longest
  BY DEF FindsTheMoment
<1>1. open
  BY Times DEF SessionInv, Desired
<1>2. index \in Indices /\ files[index].mtime > Desired
  BY <1>1 DEF Base, DirInv
<1> DEFINE i == FindChunkToPlay(Duration)
<1>3. i \in Indices /\ files[i].from <= Desired /\ Desired - files[i].from < 2 * Longest
  BY <1>2, ChunkToPlay
<1> HIDE DEF i
<1>4. i # Invalid
  BY <1>3, Times DEF Invalid
<1>5. Desired - files[i].from <= 2 * Longest
  BY <1>3, Times DEF Desired
<1> QED  BY <1>3, <1>4, <1>5 DEF i

\* Where the recording has not paused, the chunks follow each other.
THEOREM ChunksFollow == Spec => [](Base /\ SessionInv)
<1>1. Init => Base /\ SessionInv
  <2>1. Init => ~on /\ ~open /\ Indices = {}
    BY DEF Init, Indices
  <2> QED  BY <2>1, InitBase DEF SessionInv
<1>2. Base /\ SessionInv /\ [Next]_vars => (Base /\ SessionInv)'
  BY StepBase, StepSession
<1> QED  BY <1>1, <1>2, PTL DEF Spec

\* FindChunkToPlay finds the moment: where the recording has not paused for the
\* delay and two chunks more, the player gets a chunk that begins with or before
\* the moment it wants and at most two chunks early, for any durations.
THEOREM MomentFound == Spec => []FindsTheMoment
BY ChunksFollow, MomentThere, PTL

-----------------------------------------------------------------------------
(* The player                                                              *)

\* What is known of a player is numbers.
LEMMA PlayerTimes ==
    ASSUME Base
    PROVE  /\ player.index \in Int /\ player.until \in Nat /\ player.found \in Nat
           /\ player.since \in Nat /\ player.window \in Nat
BY DEF Base, TypeOK, Players

\* A player that is on its way lags the clock by two chunks or more.
LEMMA LagsBehind ==
    ASSUME Base, PlayerInv, player.state # "looking",
           player.since + 2 * Longest <= player.found - Delay
    PROVE  player.since < now
<1>1. player.found <= now
  BY DEF PlayerInv
<1> QED  BY <1>1, Times, PlayerTimes

\* The recorder at its next chunk: when that is the chunk the player is close
\* to, it is due.
LEMMA ReadyAfterPathSet ==
    ASSUME Base, SessionInv, ChunkAdded, kind = "recorder", since < now, Ready \/ Close
    PROVE  (Ready \/ Close)'
<1>0. /\ index' = index + 1 /\ index \in Indices /\ now - files[index].from \in Shortest..Longest
      /\ \A j \in Indices : j <= index
  <2>1. open
    BY Times DEF SessionInv, ChunkAdded
  <2> QED  BY <2>1, Times DEF ChunkAdded, Base, DirInv, Invalid
<1>1. /\ \A i \in Indices : i \in Indices' /\ files'[i] = files[i]
      /\ index' \in Indices' /\ files'[index'].from = now /\ files'[index'].mtime = now
      /\ UNCHANGED <<since, player>>
  BY DEF ChunkAdded
<1>2. CASE Ready
  BY <1>1, <1>2 DEF Ready, Due
<1>3. CASE Close
  <2>1. player.index - 1 = index
    BY <1>0, <1>3, Times, PlayerTimes DEF Close
  <2>2. player.index = index' /\ files[index].from + Longest = now
    BY <1>0, <1>3, <2>1, Times, PlayerTimes DEF Close
  <2>3. Due(now)
    BY <1>3, <2>1, <2>2 DEF Close
  <2>4. player' = player /\ since' = since /\ files'[player.index].from = now
        /\ files'[player.index].mtime = now /\ player.index \in Indices'
    BY <1>1, <2>2
  <2> QED  BY <2>3, <2>4 DEF Ready, Due
<1> QED  BY <1>2, <1>3

\* The clean-up leaves the next chunk of the player, and the one that is written.
LEMMA ReadyAfterTimer ==
    ASSUME Base, SessionInv, OldRemoved, kind = "recorder", Ready \/ Close,
           now <= player.until, LifeTime[kind] >= Delay + 2 * Longest - Shortest
    PROVE  (Ready \/ Close)'
<1>1. /\ \A i \in Indices : files[i].mtime >= now - LifeTime[kind] => i \in Indices'
      /\ \A i \in Indices' : i \in Indices /\ files'[i] = files[i]
      /\ UNCHANGED <<now, since, player>>
  BY DEF OldRemoved
<1>2. CASE Ready
  <2> DEFINE p == player.index
  <2>1. p \in Indices /\ Follows(p) /\ Due(files[p].from)
    BY <1>2 DEF Ready, SessionInv
  <2>2. files[p].mtime = now \/ files[p].mtime >= files[p].from + Shortest
    BY <2>1 DEF Follows
  <2>3. files[p].mtime >= now - LifeTime[kind]
    BY <2>1, <2>2, Times, PlayerTimes DEF Due
  <2>4. p \in Indices' /\ files'[p] = files[p]
    BY <1>1, <2>1, <2>3
  <2> QED  BY <1>1, <1>2, <2>4 DEF Ready, Due
<1>3. CASE Close
  <2> DEFINE p == player.index - 1
  <2>1. p \in Indices /\ Follows(p) /\ p + 1 \notin Indices
    BY <1>3, Times, PlayerTimes DEF Close, SessionInv
  <2>2. files[p].mtime = now
    BY <2>1 DEF Follows
  <2>3. p \in Indices' /\ files'[p] = files[p]
    BY <1>1, <2>1, <2>2, Times
  <2> QED  BY <1>1, <1>3, <2>3 DEF Close, Due
<1> QED  BY <1>2, <1>3

\* Data that comes changes nothing of it.
LEMMA ReadyAfterTick ==
    ASSUME Base, SecondAdded, since' = since, Ready \/ Close
    PROVE  (Ready \/ Close)'
<1>1. /\ \A i \in Indices : /\ i \in Indices' /\ files'[i].from = files[i].from
                            /\ files[i].mtime > since => files'[i].mtime > since
      /\ Indices' = Indices /\ player' = player
  <2>1. \A i \in Indices : files[i].mtime <= now
    BY DEF Base, DirInv
  <2> QED  BY <2>1, Times DEF SecondAdded
<1>2. CASE Ready
  BY <1>1, <1>2 DEF Ready, Due
<1>3. CASE Close
  <2>1. files[player.index - 1].from + Longest <= now'
    <3>1. now' = now + 1
      BY DEF SecondAdded
    <3>2. files[player.index - 1].from \in Nat /\ files[player.index - 1].from + Longest <= now
      BY <1>3, Times DEF Close
    <3> QED  BY <3>1, <3>2, Times
  <2> QED  BY <1>1, <1>3, <2>1 DEF Close, Due
<1> QED  BY <1>2, <1>3

\* A step of the recorder or of the clock preserves what a player relies on.
LEMMA PlayerWaits ==
    ASSUME Base, PlayerInv, player' = player, kind' = kind,
           now' \in Nat, now <= now', since' = since \/ since' >= now,
           player.state = "playing" => now' <= player.until,
           player.state = "playing" /\ OnItsWay /\ since' = since /\ (Ready \/ Close) =>
               (Ready \/ Close)'
    PROVE  PlayerInv'
<1>1. player.state # "looking" => kind' = "recorder" /\ player'.found <= now'
  BY Times, PlayerTimes DEF PlayerInv
<1>2. ASSUME player.state # "looking", player.since + 2 * Longest <= player.found - Delay,
             player.since = since'
      PROVE  since' = since
  BY <1>2, LagsBehind, Times, PlayerTimes
<1>3. ASSUME OnItsWay', player.state = "playing"
      PROVE  (Ready \/ Close)'
  <2>1. OnItsWay /\ since' = since
    BY <1>2, <1>3 DEF OnItsWay
  <2> QED  BY <1>3, <2>1 DEF PlayerInv
<1>4. PlayerNotStarved'
  BY <1>2 DEF PlayerNotStarved, PlayerInv
<1> QED  BY <1>1, <1>3, <1>4 DEF PlayerInv

\* A player that finds a chunk begins with one that is due.
LEMMA PlayerFinds ==
    ASSUME Base, SessionInv, NEW window \in Windows, PlayerFind(window)
    PROVE  PlayerInv'
<1> DEFINE i == FindChunkToPlay(window)
<1>1. /\ kind = "recorder" /\ i # Invalid
      /\ player' = [state |-> "playing", index |-> i, until |-> now, found |-> now,
                    since |-> since, window |-> window]
      /\ UNCHANGED <<kind, now, files, since>>
  BY DEF PlayerFind
<1>2. ASSUME OnItsWay'  PROVE Ready'
  <2>1. /\ window = Duration /\ Longest < 2 * Duration /\ Longest <= Delay
        /\ since + 2 * Longest <= Desired /\ LifeTime[kind] >= Delay + Longest
    BY <1>1, <1>2, Times DEF OnItsWay, Desired
  <2>2. PICK q \in Indices : InWindow(q, window)
    BY <1>1 DEF FindChunkToPlay, Indices
  <2>3. files[q].mtime > Desired
    BY <2>1, <2>2, Times DEF InWindow, Desired
  <2>4. /\ i \in Indices /\ files[i].mtime > since /\ files[i].from <= Desired
        /\ Desired - files[i].from < 2 * Longest
    BY <1>1, <2>1, <2>3, ChunkToPlay
  <2> HIDE DEF i
  <2>5. /\ now - Delay - 2 * Longest < files[i].from /\ files[i].from <= now - Delay
        /\ files[i].from + Longest <= now
    BY <2>1, <2>4, Times DEF Desired
  <2> QED  BY <1>1, <2>4, <2>5 DEF Ready, Due, Indices
<1>3. PlayerNotStarved'
  BY <1>1 DEF PlayerNotStarved
<1> HIDE DEF i
<1> QED  BY <1>1, <1>2, <1>3, Times DEF PlayerInv

\* A player that is on its way and opens its next chunk finds it, and the one
\* after it is there or is the one the recorder comes to.
LEMMA PlayerGoesOn ==
    ASSUME Base, SessionInv, PlayerInv, PlayerNext
    PROVE  PlayerInv'
<1> DEFINE p == player.index
           length == Max({1, files[p].mtime - files[p].from})
<1>1. /\ player.state = "playing" /\ player.until = now /\ kind = "recorder"
      /\ player.found <= now /\ UNCHANGED <<kind, now, files, since>>
  BY DEF PlayerNext, PlayerInv
<1>2. CASE p \in Indices
  <2>1. player' = [player EXCEPT !.index = p + 1, !.until = now + length]
    BY <1>2 DEF PlayerNext, Indices
  <2>2. /\ player'.index = p + 1 /\ player'.until = now + length /\ player'.state = "playing"
        /\ UNCHANGED <<player.found, player.since, player.window>>
    BY <1>1, <2>1 DEF Base, TypeOK, Players
  <2>3. files[p].mtime - files[p].from \in Int
    BY <1>2, Times
  <2>4. length = IF 1 >= files[p].mtime - files[p].from THEN 1
                 ELSE files[p].mtime - files[p].from
    BY <2>3, MaxOfTwo
  <2>5. length \in Nat
    BY <2>3, <2>4
  <2> HIDE DEF length
  <2>6. ASSUME OnItsWay'  PROVE (Ready \/ Close)'
    <3>1. OnItsWay /\ (Ready \/ Close)
      BY <1>1, <2>2, <2>6 DEF OnItsWay, PlayerInv
    <3>2. Ready
      BY <1>2, <3>1, Times, PlayerTimes DEF Close
    <3>3. Follows(p) /\ files[p].mtime > since /\ Due(files[p].from)
      BY <1>1, <3>2 DEF Ready, SessionInv
    <3>4. files[p].mtime - files[p].from \in 1..Longest
      <4>1. files[p].from + Longest <= now
        BY <1>1, <3>3 DEF Due
      <4>2. files[p].mtime <= files[p].from + Longest
        BY <3>3 DEF Follows
      <4>3. files[p].mtime >= files[p].from + Shortest \/ files[p].mtime = now
        BY <3>3 DEF Follows
      <4> QED  BY <1>2, <4>1, <4>2, <4>3, Times
    <3>5. length = files[p].mtime - files[p].from
      BY <1>2, <2>4, <3>4, Times
    <3>6. ASSUME NEW f, f = files[p].mtime  PROVE Due(f)'
      <4>1. /\ files[p].from + Longest <= now
            /\ now - Delay - 2 * Longest < files[p].from /\ files[p].from <= now - Delay
        BY <1>1, <3>3 DEF Due
      <4>2. /\ f + Longest <= now + length
            /\ (now + length) - Delay - 2 * Longest < f /\ f <= (now + length) - Delay
        BY <1>2, <3>5, <3>6, <4>1, Times
      <4> QED  BY <2>2, <4>2 DEF Due
    <3>7. CASE p + 1 \in Indices
      <4>1. files[p + 1].from = files[p].mtime
        BY <3>3, <3>7, Times, PlayerTimes DEF Follows
      <4>2. files[p].mtime <= files[p + 1].mtime
        BY <1>2, <3>7, Times DEF Base, DirInv
      <4>3. files[p + 1].mtime > since
        BY <1>2, <3>3, <3>7, <4>2, Times
      <4>4. PICK k : k = p + 1
        OBVIOUS
      <4>5. k \in Indices' /\ files'[k].mtime > since' /\ Due(files[k].from)' /\ player'.index = k
        BY <1>1, <2>2, <3>6, <3>7, <4>1, <4>3, <4>4 DEF Indices
      <4> QED  BY <1>1, <4>5 DEF Ready, Due
    <3>8. CASE p + 1 \notin Indices
      <4>1. \A j \in Indices : j < p + 1
        BY <3>3, <3>8, Times, PlayerTimes DEF Follows
      <4>2. PICK k : k = p
        OBVIOUS
      <4>3. player'.index - 1 = k /\ k + 1 = player'.index
        BY <2>2, <4>2, PlayerTimes
      <4>4. /\ k \in Indices' /\ files'[k].mtime > since'
            /\ \A j \in Indices' : j < player'.index
        BY <1>1, <1>2, <2>2, <3>3, <4>1, <4>2 DEF Indices
      <4>5. files[p].mtime = files[p].from + Longest /\ files[p].mtime <= now
        <5>1. files[p].mtime = now /\ files[p].mtime <= files[p].from + Longest
          BY <3>3, <3>8 DEF Follows
        <5>2. files[p].from + Longest <= now
          BY <1>1, <3>3 DEF Due
        <5> QED  BY <1>2, <5>1, <5>2, Times
      <4>6. PICK f : f = files[k].from + Longest
        OBVIOUS
      <4>7. Due(f)' /\ f <= now
        BY <3>6, <4>2, <4>5, <4>6
      <4> QED  BY <1>1, <4>3, <4>4, <4>6, <4>7 DEF Close, Due
    <3> QED  BY <3>7, <3>8
  <2>7. PlayerNotStarved'
    BY <2>2 DEF PlayerNotStarved
  <2> QED  BY <1>1, <2>2, <2>5, <2>6, <2>7, Times DEF PlayerInv
<1>3. CASE p \notin Indices
  <2>1. /\ player'.state = "starved"
        /\ UNCHANGED <<player.found, player.since, player.window>>
    <3>1. player' = [player EXCEPT !.state = "starved"]
      BY <1>3 DEF PlayerNext, Indices
    <3> QED  BY <3>1 DEF Base, TypeOK, Players
  <2>2. ~OnItsWay
    <3> SUFFICES ASSUME OnItsWay  PROVE FALSE
      OBVIOUS
    <3>1. Close
      BY <1>1, <1>3 DEF PlayerInv, Ready
    <3> DEFINE b == p - 1
    <3>2. b \in Indices /\ files[b].mtime > since /\ b + 1 \notin Indices
          /\ files[b].from + Longest + Longest <= now
      BY <1>1, <1>3, <3>1, PlayerTimes DEF Close, Due
    <3>3. Follows(b)
      BY <1>1, <3>2 DEF SessionInv
    <3>4. files[b].mtime = now /\ files[b].mtime <= files[b].from + Longest
      BY <3>2, <3>3 DEF Follows
    <3> QED  BY <3>2, <3>4, Times
  <2>3. PlayerNotStarved'
    BY <1>1, <2>1, <2>2 DEF PlayerNotStarved, OnItsWay
  <2> QED  BY <1>1, <2>1, <2>3 DEF PlayerInv
<1> QED  BY <1>2, <1>3

\* Every step preserves what a player relies on.
LEMMA StepPlayer ==
    ASSUME Base, SessionInv, PlayerInv, [Next]_vars
    PROVE  PlayerInv'
<1>r. player.state # "looking" => kind = "recorder"
  BY DEF PlayerInv
<1>s. OnItsWay /\ player.state = "playing" => since < now
  BY LagsBehind DEF OnItsWay
<1>u. player.state = "playing" => now <= player.until
  BY DEF PlayerInv
<1>1. CASE StartRecorder
  <2>1. /\ player' = player /\ kind' = kind /\ now' = now /\ files' = files
        /\ since' = since \/ since' >= now
    BY <1>1, Times DEF StartRecorder
  <2> QED  BY <1>u, <2>1, PlayerWaits, Times DEF Ready, Close, Due, Indices
<1>2. ASSUME NEW sample \in {"timed", "untimed", "none"}, OnPathSet(sample)
      PROVE  PlayerInv'
  <2>1. ChunkAdded
    BY <1>2, PathSetFiles
  <2>2. player' = player /\ kind' = kind /\ now' = now /\ since' = since
    BY <2>1 DEF ChunkAdded
  <2>3. player.state = "playing" /\ OnItsWay /\ (Ready \/ Close) => (Ready \/ Close)'
    BY <1>r, <1>s, <2>1, ReadyAfterPathSet
  <2> QED  BY <1>u, <2>2, <2>3, PlayerWaits, Times
<1>3. CASE HandleMainTimerTick
  <2>1. OldRemoved
    BY <1>3, TimerFiles
  <2>2. player' = player /\ kind' = kind /\ now' = now /\ since' = since
    BY <2>1 DEF OldRemoved
  <2>3. player.state = "playing" /\ OnItsWay /\ (Ready \/ Close) => (Ready \/ Close)'
    BY <1>r, <1>u, <2>1, ReadyAfterTimer DEF OnItsWay
  <2> QED  BY <1>u, <2>2, <2>3, PlayerWaits, Times
<1>4. CASE StopRecorder \/ CrashRecorder \/ UNCHANGED vars
  <2>1. player' = player /\ kind' = kind /\ now' = now /\ since' = since /\ files' = files
    BY <1>4 DEF StopRecorder, CrashRecorder, vars
  <2> QED  BY <1>u, <2>1, PlayerWaits, Times DEF Ready, Close, Due, Indices
<1>5. CASE Tick
  <2>1. SecondAdded
    BY <1>5, TickFiles
  <2>2. /\ player' = player /\ kind' = kind /\ now' = now + 1
        /\ since' = since \/ since' >= now
    BY <2>1, Times DEF SecondAdded
  <2>3. player.state = "playing" => now' <= player.until
    BY <1>5, <2>2, Times, PlayerTimes DEF Tick
  <2>4. since' = since /\ (Ready \/ Close) => (Ready \/ Close)'
    BY <2>1, ReadyAfterTick
  <2> QED  BY <2>2, <2>3, <2>4, PlayerWaits, Times
<1>6. ASSUME NEW window \in Windows, PlayerFind(window)  PROVE PlayerInv'
  BY <1>6, PlayerFinds
<1>7. CASE PlayerNext
  BY <1>7, PlayerGoesOn
<1>8. CASE PlayerRestart
  <2>1. player'.state = "looking"
    BY <1>8 DEF PlayerRestart, Looking
  <2> QED  BY <2>1 DEF PlayerInv, PlayerNotStarved
<1> QED  BY <1>1, <1>2, <1>3, <1>4, <1>5, <1>6, <1>7, <1>8 DEF Next

\* The clean-up and the player: with a life time of the delay and two chunks less
\* the shortest, a player that knows the duration of the chunks, is behind by one
\* and began where the recording had not paused for two of them, only runs dry
\* when the recording pauses, wherever its key frames are.
THEOREM PlayerIsFed == Spec => []PlayerNotStarved
<1>1. Init => PlayerInv
  BY DEF Init, PlayerInv, PlayerNotStarved, Looking
<1>2. Base /\ SessionInv /\ PlayerInv /\ [Next]_vars => PlayerInv'
  BY StepPlayer
<1>3. PlayerInv => PlayerNotStarved
  BY DEF PlayerInv
<1> QED  BY <1>1, <1>2, <1>3, ChunksFollow, PTL DEF Spec

-----------------------------------------------------------------------------
(* The list of the catchup                                                 *)

Items == [index : Nat, duration : Int]

UpTo(list, n) == \A k \in 1..Len(list) : list[k].index <= n

ListType ==
    /\ chunks \in Seq(Items) /\ m3u8.lines \in Seq(Items) /\ mark \in Int
    /\ emptied \in BOOLEAN /\ silent \in BOOLEAN

\* What is listed is at or before the last chunk of the directory, and before
\* the next one of the catchup.
OrderInv ==
    ~emptied =>
        /\ Increasing(chunks) /\ Increasing(m3u8.lines)
        /\ Indices # {} => \E j \in Indices : UpTo(chunks, j) /\ UpTo(m3u8.lines, j)
        /\ on /\ index = Invalid => chunks = <<>> /\ m3u8.lines = <<>>
        /\ on /\ index # Invalid =>
               /\ UpTo(chunks, index) /\ UpTo(m3u8.lines, index)
               /\ ~open => UpTo(chunks, index - 1)

\* The durations that a list has, when every chunk came with a sample.
Spans == Shortest..Longest
Lengths == {NoTime} \cup Spans \cup {Written(d) : d \in Spans}

DurationInv ==
    ~silent =>
        /\ \A k \in 1..Len(chunks) : chunks[k].duration \in Lengths
        /\ \A k \in 1..Len(m3u8.lines) : m3u8.lines[k].duration \in Lengths
        /\ on => IF open THEN mark = NoTime \/ mark = files[index].from - began
                 ELSE mark = NoTime

RecordedListed ==
    on => \A i \in Indices : files[i].from > began =>
              \E k \in 1..Len(chunks) : chunks[k].index = i

ListInv == kind = "catchup" => ListType /\ OrderInv /\ DurationInv /\ RecordedListed

\* A duration is rounded once: what WriteLine wrote and the reader read is
\* written again as it is. It is at most what %.2f can tell apart too long.
LEMMA WrittenOnce ==
    ASSUME NEW d \in Nat
    PROVE  /\ Written(d) \in Nat /\ Written(d) <= d + Hundredth
           /\ Written(Written(d)) = Written(d)
<1> DEFINE h == Hundredth
           r == h \div 2
           q == (d + r) \div h
<1>1. h \in Nat /\ h > 0 /\ d \in Nat
  BY TimeshiftAssumption
<1> HIDE DEF h
<1>2. r \in Nat /\ r < h
  BY <1>1
<1> HIDE DEF r
<1>3. q \in Nat /\ q * h <= d + r
  BY <1>1, <1>2
<1> HIDE DEF q
<1>4. q * h \in Nat
  BY <1>1, <1>3
<1>5. ((q * h) + r) \div h = q
  <2> DEFINE p == ((q * h) + r) \div h
  <2>1. p \in Int /\ p * h <= (q * h) + r /\ (q * h) + r < (p * h) + h
    <3> DEFINE a == (q * h) + r
    <3>1. a \in Nat
      BY <1>2, <1>4
    <3> HIDE DEF a
    <3>2. a \div h \in Int /\ (a \div h) * h <= a /\ a < ((a \div h) * h) + h
      BY <1>1, <3>1
    <3> QED  BY <3>2 DEF a
  <2> HIDE DEF p
  <2>2. ~(p >= q + 1)
    <3> SUFFICES ASSUME p >= q + 1  PROVE FALSE
      OBVIOUS
    <3>1. p * h >= (q * h) + h
      BY <1>1, <1>3, <2>1
    <3> QED  BY <1>1, <1>2, <1>4, <2>1, <3>1
  <2>3. ~(p <= q - 1)
    <3> SUFFICES ASSUME p <= q - 1  PROVE FALSE
      OBVIOUS
    <3>1. (p * h) + h <= q * h
      BY <1>1, <1>3, <2>1
    <3> QED  BY <1>1, <1>2, <1>4, <2>1, <3>1
  <2> QED  BY <1>3, <2>1, <2>2, <2>3 DEF p
<1>6. Written(d) = q * h /\ Written(q * h) = (((q * h) + r) \div h) * h
  BY DEF Written, q, r, h
<1> QED  BY <1>1, <1>2, <1>3, <1>4, <1>5, <1>6 DEF h

\* The lines of the file are the chunks, each with a duration that is rounded.
LEMMA LinesWritten ==
    ASSUME NEW list \in Seq(Items), NEW n \in 0..Len(list), NEW footer
    PROVE  LET lines == M3u8Writer(Completed(list), n, footer).lines
           IN  /\ lines \in Seq(Items) /\ Len(lines) = n
               /\ \A k \in 1..n : /\ lines[k].index = list[k].index
                                  /\ lines[k].duration =
                                         Written(IF list[k].duration # NoTime
                                                 THEN list[k].duration ELSE Duration)
<1> DEFINE lines == M3u8Writer(Completed(list), n, footer).lines
           d(k) == Written(IF list[k].duration # NoTime THEN list[k].duration ELSE Duration)
<1>0. /\ Len(list) \in Nat /\ n \in Nat /\ \A k \in 1..n : k \in 1..Len(list)
      /\ \A k \in 1..Len(list) : list[k] \in Items
  BY ElementOfSeq, LenProperties
<1>1. lines = [k \in 1..n |-> [Completed(list)[k] EXCEPT !.duration = Written(Completed(list)[k].duration)]]
  BY DEF M3u8Writer
<1>2. ASSUME NEW k \in 1..n
      PROVE  lines[k] \in Items /\ lines[k].index = list[k].index /\ lines[k].duration = d(k)
  <2>1. k \in 1..Len(list) /\ list[k] \in Items
    BY <1>0
  <2>2. Completed(list)[k] = IF list[k].duration # NoTime THEN list[k]
                             ELSE [list[k] EXCEPT !.duration = Duration]
    BY <2>1 DEF Completed
  <2>3. /\ Completed(list)[k] \in Items /\ Completed(list)[k].index = list[k].index
        /\ Completed(list)[k].duration = IF list[k].duration # NoTime THEN list[k].duration ELSE Duration
    <3>1. CASE list[k].duration # NoTime
      BY <2>1, <2>2, <3>1
    <3>2. CASE list[k].duration = NoTime
      <4>1. Completed(list)[k] = [list[k] EXCEPT !.duration = Duration]
        BY <2>2, <3>2
      <4>2. Duration \in Int
        BY TimeshiftAssumption
      <4> QED  BY <2>1, <3>2, <4>1, <4>2 DEF Items
    <3> QED  BY <3>1, <3>2
  <2>4. ASSUME NEW x \in Int  PROVE Written(x) \in Int
    <3>1. Hundredth \in Nat \ {0} /\ Hundredth \div 2 \in Int
      BY TimeshiftAssumption
    <3>2. (x + Hundredth \div 2) \div Hundredth \in Int
      BY <3>1
    <3> QED  BY <3>1, <3>2 DEF Written
  <2>5. Written(Completed(list)[k].duration) \in Int
    BY <2>3, <2>4 DEF Items
  <2>6. lines[k] = [Completed(list)[k] EXCEPT !.duration = Written(Completed(list)[k].duration)]
    BY <1>1
  <2> QED  BY <2>3, <2>5, <2>6 DEF Items
<1>3. lines \in [1..n -> Items]
  BY <1>1, <1>2
<1> HIDE DEF lines
<1>4. lines \in Seq(Items) /\ Len(lines) = n
  BY <1>0, <1>3
<1> QED  BY <1>2, <1>4 DEF lines

ListExtended ==
    /\ chunks' \in Seq(Items) /\ Len(chunks') = Len(chunks) + 1
    /\ chunks'[Len(chunks) + 1].index = index' /\ chunks'[Len(chunks) + 1].duration = NoTime
    /\ \A k \in 1..Len(chunks) :
           /\ chunks'[k].index = chunks[k].index
           /\ \/ chunks'[k].duration = chunks[k].duration
              \/ mark # NoTime /\ chunks'[k].duration = now - began - mark

\* OnPathSet gives the last chunk of the list its duration, if it knows it, and
\* adds the new one.
LEMMA PathSetList ==
    ASSUME Base, ListType, kind = "catchup", NEW sample, OnPathSet(sample)
    PROVE  ListExtended
<1> DEFINE n == Len(chunks)
           known == sample = "timed" /\ mark # NoTime /\ chunks # <<>>
           ended == IF known THEN [chunks EXCEPT ![n].duration = now - began - mark] ELSE chunks
<1>1. chunks' = Append(ended, [index |-> index', duration |-> NoTime]) /\ index' \in Nat
  BY PathSetFiles DEF OnPathSet, ChunkAdded
<1>2. n \in Nat /\ chunks \in [1..n -> Items] /\ (chunks # <<>> => n \in 1..n)
  BY LenProperties, EmptySeq DEF ListType
<1>3. now - began - mark \in Int
  BY DEF Base, TypeOK, ListType
<1>4. /\ ended \in Seq(Items) /\ Len(ended) = n
      /\ \A k \in 1..n : /\ ended[k].index = chunks[k].index
                         /\ \/ ended[k].duration = chunks[k].duration
                            \/ mark # NoTime /\ ended[k].duration = now - began - mark
  <2>1. CASE ~known
    BY <2>1 DEF ListType
  <2>2. CASE known
    <3> DEFINE e == [chunks[n] EXCEPT !.duration = now - began - mark]
    <3>1. n \in 1..n /\ chunks[n] \in Items
      BY <1>2, <2>2
    <3>2. e \in Items /\ e.index = chunks[n].index /\ e.duration = now - began - mark
      BY <1>3, <3>1 DEF Items
    <3>3. ended = [chunks EXCEPT ![n] = e]
      BY <2>2
    <3> HIDE DEF e, ended
    <3>4. /\ ended \in Seq(Items) /\ Len(ended) = n
          /\ \A j \in 1..n : ended[j] = IF j = n THEN e ELSE chunks[j]
      BY <3>1, <3>2, <3>3, ExceptSeq DEF ListType
    <3> QED  BY <2>2, <3>2, <3>4
  <2> QED  BY <2>1, <2>2
<1>5. [index |-> index', duration |-> NoTime] \in Items
  BY <1>1 DEF Items, NoTime
<1> HIDE DEF ended
<1>6. /\ chunks' \in Seq(Items) /\ Len(chunks') = n + 1
      /\ chunks'[n + 1] = [index |-> index', duration |-> NoTime]
      /\ \A k \in 1..n : chunks'[k] = ended[k]
  BY <1>1, <1>2, <1>4, <1>5
<1> QED  BY <1>4, <1>6 DEF ListExtended

Saved(n) ==
    /\ m3u8'.lines \in Seq(Items) /\ Len(m3u8'.lines) = n
    /\ \A k \in 1..n : /\ m3u8'.lines[k].index = chunks[k].index
                       /\ m3u8'.lines[k].duration =
                              Written(IF chunks[k].duration # NoTime
                                      THEN chunks[k].duration ELSE Duration)

\* A catchup that stops leaves the file as it was or writes a part of its list;
\* one that is killed leaves it.
LEMMA StopList ==
    ASSUME ListType, StopRecorder \/ CrashRecorder
    PROVE  /\ m3u8' = m3u8 \/ \E n \in 0..Len(chunks) : Saved(n)
           /\ chunks' = <<>> /\ mark' = NoTime /\ ~on' /\ ~open'
           /\ UNCHANGED <<kind, files, emptied, silent>>
<1>1. /\ chunks' = <<>> /\ mark' = NoTime /\ ~on' /\ ~open'
      /\ UNCHANGED <<kind, files, emptied, silent>>
  BY DEF StopRecorder, CrashRecorder, Destroyed
<1>2. m3u8' = m3u8 \/ \E n \in 0..Len(chunks), footer \in BOOLEAN :
                          m3u8' = M3u8Writer(Completed(chunks), n, footer)
  <2>1. Len(chunks) \in 0..Len(chunks)
    BY LenProperties DEF ListType
  <2> QED  BY <2>1 DEF StopRecorder, CrashRecorder
<1>3. ASSUME NEW n \in 0..Len(chunks), NEW footer, m3u8' = M3u8Writer(Completed(chunks), n, footer)
      PROVE  Saved(n)
  <2>1. chunks \in Seq(Items)
    BY DEF ListType
  <2> QED  BY <1>3, <2>1, LinesWritten DEF Saved
<1> QED  BY <1>1, <1>2, <1>3

\* A catchup that starts reads the list of the file.
LEMMA StartList ==
    ASSUME kind = "catchup", StartRecorder
    PROVE  /\ chunks' = m3u8.lines /\ mark' = NoTime /\ on' /\ ~open'
           /\ began' = now /\ index' = GetNextChunkStrategy
           /\ emptied' = (emptied \/ (m3u8.lines # <<>> /\ FindLastChunk = Invalid))
           /\ UNCHANGED <<kind, files, m3u8, silent>>
<1>1. ParseFile(m3u8).chunks = m3u8.lines
  BY DEF ParseFile, ParseChunks, NoFile
<1>2. /\ on' /\ ~open'
      /\ emptied' = (emptied \/ (m3u8.lines # <<>> /\ FindLastChunk = Invalid))
  BY Zenon DEF StartRecorder
<1>3. /\ chunks' = m3u8.lines /\ mark' = NoTime /\ began' = now /\ index' = GetNextChunkStrategy
      /\ UNCHANGED <<kind, files, m3u8, silent>>
  BY <1>1 DEF StartRecorder, MarkCreated
<1> QED  BY <1>2, <1>3

\* All other steps leave the list.
LEMMA ListLeft ==
    ASSUME \/ HandleMainTimerTick \/ Tick \/ PlayerNext \/ PlayerRestart
           \/ UNCHANGED vars \/ \E window \in Windows : PlayerFind(window)
    PROVE  UNCHANGED <<chunks, m3u8, mark, emptied, silent, on, index, began>>
BY DEF HandleMainTimerTick, Tick, PlayerNext, PlayerRestart, PlayerFind, vars

\* The list is a list of chunks.
LEMMA StepListType ==
    ASSUME Base, ListType, kind = "catchup", [Next]_vars
    PROVE  ListType'
<1>1. CASE StartRecorder
  <2>1. /\ chunks' = m3u8.lines /\ m3u8' = m3u8 /\ mark' = NoTime /\ silent' = silent
        /\ emptied' = (emptied \/ (m3u8.lines # <<>> /\ FindLastChunk = Invalid))
    BY <1>1, StartList
  <2>2. emptied' \in BOOLEAN
    BY <2>1, Zenon DEF ListType
  <2> QED  BY <2>1, <2>2 DEF ListType, NoTime
<1>2. ASSUME NEW sample \in {"timed", "untimed", "none"}, OnPathSet(sample)
      PROVE  ListType'
  <2>1. chunks' \in Seq(Items)
    BY <1>2, PathSetList DEF ListExtended
  <2>2. /\ m3u8' = m3u8 /\ emptied' = emptied /\ silent' = (silent \/ sample = "none")
        /\ mark' = CASE sample = "timed" -> now - began
                     [] sample = "untimed" -> NoTime
                     [] OTHER -> mark
    BY <1>2 DEF OnPathSet
  <2>3. silent' \in BOOLEAN
    BY <2>2, Zenon DEF ListType
  <2>4. mark' \in Int
    <3>1. now - began \in Int /\ mark \in Int /\ NoTime \in Int
      BY DEF Base, TypeOK, ListType, NoTime
    <3> QED  BY <1>2, <2>2, <3>1
  <2> QED  BY <2>1, <2>2, <2>3, <2>4 DEF ListType
<1>3. CASE StopRecorder \/ CrashRecorder
  <2>1. m3u8' = m3u8 \/ m3u8'.lines \in Seq(Items)
    BY <1>3, StopList DEF Saved
  <2>2. chunks' = <<>> /\ mark' = NoTime /\ UNCHANGED <<emptied, silent>>
    BY <1>3, StopList
  <2> QED  BY <2>1, <2>2 DEF ListType, NoTime
<1>4. CASE \/ HandleMainTimerTick \/ Tick \/ PlayerNext \/ PlayerRestart
           \/ UNCHANGED vars \/ \E window \in Windows : PlayerFind(window)
  BY <1>4, ListLeft DEF ListType
<1> QED  BY <1>1, <1>2, <1>3, <1>4 DEF Next

\* While it runs, every chunk the catchup has recorded is listed.
LEMMA StepRecorded ==
    ASSUME Base, ListType, RecordedListed, kind = "catchup", [Next]_vars
    PROVE  RecordedListed'
<1>1. CASE StartRecorder
  <2>1. began' = now /\ files' = files
    BY <1>1, StartList
  <2>2. \A i \in Indices : ~(files[i].from > now)
    BY Times DEF Base, DirInv
  <2> QED  BY <2>1, <2>2 DEF RecordedListed, Indices
<1>2. ASSUME NEW sample \in {"timed", "untimed", "none"}, OnPathSet(sample)
      PROVE  RecordedListed'
  <2>1. ChunkAdded
    BY <1>2, PathSetFiles
  <2>2. ListExtended /\ Len(chunks) \in Nat
    BY <1>2, PathSetList, LenProperties DEF ListType
  <2>3. ASSUME NEW i \in Indices', files'[i].from > began'
        PROVE  \E k \in 1..Len(chunks') : chunks'[k].index = i
    <3>1. CASE i = index'
      <4>1. Len(chunks) + 1 \in 1..Len(chunks') /\ chunks'[Len(chunks) + 1].index = i
        BY <2>2, <3>1 DEF ListExtended
      <4> QED  BY <4>1
    <3>2. CASE i # index'
      <4>1. i \in Indices /\ files[i].from > began /\ on
        BY <2>1, <2>3, <3>2 DEF ChunkAdded
      <4>2. PICK k \in 1..Len(chunks) : chunks[k].index = i
        BY <4>1 DEF RecordedListed
      <4>3. k \in 1..Len(chunks') /\ chunks'[k].index = i
        BY <2>2, <4>2 DEF ListExtended
      <4> QED  BY <4>3
    <3> QED  BY <3>1, <3>2
  <2> QED  BY <2>3 DEF RecordedListed
<1>3. CASE StopRecorder \/ CrashRecorder
  BY <1>3, StopList DEF RecordedListed
<1>4. CASE HandleMainTimerTick
  <2>1. OldRemoved /\ UNCHANGED <<chunks, began, on>>
    BY <1>4, TimerFiles, ListLeft
  <2>2. \A i \in Indices' : i \in Indices /\ files'[i] = files[i]
    BY <2>1 DEF OldRemoved
  <2> QED  BY <2>1, <2>2 DEF RecordedListed
<1>5. CASE Tick
  <2>1. SecondAdded /\ UNCHANGED <<chunks, began, on>>
    BY <1>5, TickFiles, ListLeft
  <2>2. \A i \in Indices' : i \in Indices /\ files'[i].from = files[i].from
    BY <2>1 DEF SecondAdded
  <2> QED  BY <2>1, <2>2 DEF RecordedListed
<1>6. CASE \/ PlayerNext \/ PlayerRestart
           \/ UNCHANGED vars \/ \E window \in Windows : PlayerFind(window)
  <2>1. UNCHANGED <<chunks, began, on, files>>
    BY <1>6 DEF PlayerNext, PlayerRestart, PlayerFind, vars
  <2> QED  BY <2>1 DEF RecordedListed, Indices
<1> QED  BY <1>1, <1>2, <1>3, <1>4, <1>5, <1>6 DEF Next

\* With a sample for every chunk, its duration is that of a chunk or the one
\* that is written for it.
LEMMA StepDuration ==
    ASSUME Base, ListType, DurationInv, kind = "catchup", [Next]_vars
    PROVE  DurationInv'
<1>0. NoTime = -1 /\ Duration \in Nat
  BY TimeshiftAssumption DEF NoTime
<1>1. CASE StartRecorder
  <2>1. chunks' = m3u8.lines /\ m3u8' = m3u8 /\ mark' = NoTime /\ silent' = silent /\ ~open'
    BY <1>1, StartList
  <2> QED  BY <2>1 DEF DurationInv, Lengths
<1>2. ASSUME NEW sample \in {"timed", "untimed", "none"}, OnPathSet(sample)
      PROVE  DurationInv'
  <2> SUFFICES ASSUME ~silent'  PROVE DurationInv'
    BY DEF DurationInv
  <2>1. ChunkAdded
    BY <1>2, PathSetFiles
  <2>2. ListExtended /\ Len(chunks) \in Nat
    BY <1>2, PathSetList, LenProperties DEF ListType
  <2>3. /\ m3u8' = m3u8 /\ silent' = (silent \/ sample = "none")
        /\ mark' = CASE sample = "timed" -> now - began
                     [] sample = "untimed" -> NoTime
                     [] OTHER -> mark
    BY <1>2 DEF OnPathSet
  <2>4. ~silent /\ sample # "none"
    BY <2>3
  <2>5. mark' = NoTime \/ mark' = now - began
    BY <1>2, <2>3, <2>4
  <2>6. mark # NoTime => now - began - mark \in Spans
    <3> SUFFICES ASSUME mark # NoTime  PROVE now - began - mark \in Spans
      OBVIOUS
    <3>1. open /\ mark = files[index].from - began
      BY <2>1, <2>4 DEF DurationInv, ChunkAdded
    <3>2. index \in Indices /\ now - files[index].from \in Shortest..Longest
      BY <2>1, <3>1 DEF ChunkAdded, Base, DirInv
    <3>3. began \in Nat
      BY DEF Base, TypeOK
    <3> QED  BY <3>1, <3>2, <3>3, Times DEF Spans
  <2>7. ASSUME NEW k \in 1..Len(chunks')  PROVE chunks'[k].duration \in Lengths
    <3>1. CASE k = Len(chunks) + 1
      BY <2>2, <3>1 DEF ListExtended, Lengths
    <3>2. CASE k # Len(chunks) + 1
      <4>1. k \in 1..Len(chunks)
        BY <2>2, <3>2 DEF ListExtended
      <4> QED  BY <2>2, <2>4, <2>6, <4>1 DEF ListExtended, DurationInv, Lengths
    <3> QED  BY <3>1, <3>2
  <2>8. on' /\ open' /\ files'[index'].from = now /\ began' = began
    BY <2>1 DEF ChunkAdded
  <2> QED  BY <2>3, <2>4, <2>5, <2>7, <2>8 DEF DurationInv, Lengths
<1>3. CASE StopRecorder \/ CrashRecorder
  <2> SUFFICES ASSUME ~silent  PROVE DurationInv'
    BY <1>3, StopList DEF DurationInv
  <2>1. chunks' = <<>> /\ ~on' /\ (m3u8' = m3u8 \/ \E n \in 0..Len(chunks) : Saved(n))
    BY <1>3, StopList
  <2>2. Len(<<>>) = 0 /\ Len(chunks) \in Nat
    BY LenProperties, EmptySeq DEF ListType
  <2>3. ASSUME NEW n \in 0..Len(chunks), Saved(n), NEW k \in 1..Len(m3u8'.lines)
        PROVE  m3u8'.lines[k].duration \in Lengths
    <3>1. k \in 1..n /\ k \in 1..Len(chunks)
      BY <2>2, <2>3 DEF Saved
    <3>2. chunks[k].duration \in Lengths
      BY <3>1 DEF DurationInv
    <3> DEFINE d == IF chunks[k].duration # NoTime THEN chunks[k].duration ELSE Duration
    <3>3. m3u8'.lines[k].duration = Written(d)
      BY <2>3, <3>1 DEF Saved
    <3>4. PICK e \in Spans : d = e \/ d = Written(e)
      <4>1. Duration \in Spans
        BY Times DEF Spans
      <4> QED  BY <3>2, <4>1 DEF Lengths
    <3> HIDE DEF d
    <3>5. e \in Nat
      BY Times DEF Spans
    <3>6. Written(d) = Written(e)
      BY <3>4, <3>5, WrittenOnce
    <3> QED  BY <3>3, <3>6 DEF Lengths
  <2> QED  BY <2>1, <2>2, <2>3 DEF DurationInv, Lengths
<1>4. CASE HandleMainTimerTick
  <2>1. OldRemoved /\ UNCHANGED <<chunks, m3u8, mark, silent>>
    BY <1>4, TimerFiles, ListLeft
  <2>2. open => files'[index].from = files[index].from
    BY <2>1 DEF OldRemoved
  <2>3. UNCHANGED <<open, on, began, index>>
    BY <2>1 DEF OldRemoved
  <2> QED  BY <2>1, <2>2, <2>3 DEF DurationInv, Lengths
<1>5. CASE Tick
  <2>1. SecondAdded /\ UNCHANGED <<chunks, m3u8, mark, silent>>
    BY <1>5, TickFiles, ListLeft
  <2>2. open => files'[index].from = files[index].from
    BY <2>1 DEF SecondAdded, Base, DirInv
  <2>3. UNCHANGED <<open, on, began, index>>
    BY <2>1 DEF SecondAdded
  <2> QED  BY <2>1, <2>2, <2>3 DEF DurationInv, Lengths
<1>6. CASE \/ PlayerNext \/ PlayerRestart
           \/ UNCHANGED vars \/ \E window \in Windows : PlayerFind(window)
  <2>1. UNCHANGED <<chunks, m3u8, mark, silent, open, began, index, on, files>>
    BY <1>6 DEF PlayerNext, PlayerRestart, PlayerFind, vars
  <2> QED  BY <2>1 DEF DurationInv, Lengths
<1> QED  BY <1>1, <1>2, <1>3, <1>4, <1>5, <1>6 DEF Next

\* The indices of a list are numbers.
LEMMA ItemsOf ==
    ASSUME NEW list \in Seq(Items)
    PROVE  \A k \in 1..Len(list) : list[k].index \in Nat
<1>1. \A k \in 1..Len(list) : list[k] \in Items
  BY ElementOfSeq
<1> QED  BY <1>1 DEF Items

\* A list that ends at m and gets one that is after m stays in order.
LEMMA ExtendedInOrder ==
    ASSUME ListType, ListExtended, Increasing(chunks), index' \in Nat,
           \A k \in 1..Len(chunks) : chunks[k].index < index'
    PROVE  Increasing(chunks') /\ UpTo(chunks', index')
<1> DEFINE n == Len(chunks)
<1>0. n \in Nat
  BY LenProperties DEF ListType
<1>1. /\ Len(chunks') = n + 1 /\ chunks'[n + 1].index = index'
      /\ \A k \in 1..n : /\ chunks'[k].index = chunks[k].index
                         /\ chunks'[k].index < index'
  BY DEF ListExtended
<1>2. \A k \in 1..n : chunks'[k].index \in Nat
  <2>1. chunks \in Seq(Items)
    BY DEF ListType
  <2> QED  BY <1>1, <2>1, ItemsOf
<1>3. ASSUME NEW i \in 1..(n + 1), NEW j \in 1..(i - 1)
      PROVE  chunks'[j].index < chunks'[i].index
  <2>1. j \in 1..n
    BY <1>0
  <2>2. CASE i = n + 1
    BY <1>1, <2>1, <2>2
  <2>3. CASE i # n + 1
    <3>1. i \in 1..n
      BY <1>0, <2>3
    <3>2. chunks[j].index < chunks[i].index
      BY <3>1 DEF Increasing
    <3> QED  BY <1>1, <2>1, <3>1, <3>2
  <2> QED  BY <2>2, <2>3
<1>4. ASSUME NEW i \in 1..(n + 1)  PROVE chunks'[i].index <= index'
  <2>1. CASE i = n + 1
    BY <1>1, <2>1
  <2>2. CASE i # n + 1
    BY <1>0, <1>1, <1>2, <2>2
  <2> QED  BY <2>1, <2>2
<1> QED  BY <1>1, <1>3, <1>4 DEF Increasing, UpTo

\* A list that ends at m ends at everything after it.
LEMMA UpToMore ==
    ASSUME NEW list \in Seq(Items), NEW m \in Int, NEW n \in Int, m <= n, UpTo(list, m)
    PROVE  UpTo(list, n)
<1>1. \A k \in 1..Len(list) : list[k].index \in Nat
  BY ItemsOf
<1> QED  BY <1>1 DEF UpTo

\* The list stays in the order of the numbers, unless a catchup with a list found
\* no chunk to go on from.
LEMMA StepOrder ==
    ASSUME Base, ListType, OrderInv, kind = "catchup", [Next]_vars
    PROVE  OrderInv'
<1> SUFFICES ASSUME ~emptied'  PROVE OrderInv'
  BY DEF OrderInv
<1>e. ~emptied
  BY Zenon DEF Next, vars, StartRecorder, OnPathSet, HandleMainTimerTick, StopRecorder,
         CrashRecorder, PlayerFind, PlayerNext, PlayerRestart, Tick
<1>t. chunks \in Seq(Items) /\ m3u8.lines \in Seq(Items) /\ Len(<<>>) = 0
  BY EmptySeq DEF ListType
<1>0. /\ Increasing(chunks) /\ Increasing(m3u8.lines)
      /\ Indices # {} => \E j \in Indices : UpTo(chunks, j) /\ UpTo(m3u8.lines, j)
      /\ on /\ index = Invalid => chunks = <<>> /\ m3u8.lines = <<>>
      /\ on /\ index # Invalid =>
             /\ UpTo(chunks, index) /\ UpTo(m3u8.lines, index)
             /\ ~open => UpTo(chunks, index - 1)
  BY <1>e DEF OrderInv
<1>i. /\ Increasing(<<>>) /\ \A j : UpTo(<<>>, j)
  BY <1>t DEF Increasing, UpTo
<1>1. CASE StartRecorder
  <2>1. /\ chunks' = m3u8.lines /\ m3u8' = m3u8 /\ files' = files /\ index' = GetNextChunkStrategy
        /\ on' /\ ~open' /\ ~(m3u8.lines # <<>> /\ FindLastChunk = Invalid)
    BY <1>1, StartList
  <2>2. CASE Indices = {}
    <3>1. m3u8.lines = <<>> /\ index' = Invalid
      BY <2>1, <2>2, LastChunk, NextStrategy DEF Base
    <3> QED  BY <1>i, <2>1, <2>2, <3>1 DEF OrderInv, Indices
  <2>3. CASE Indices # {}
    <3>1. PICK j \in Indices : UpTo(m3u8.lines, j)
      BY <1>0, <2>3
    <3>2. /\ FindLastChunk \in Indices /\ j <= FindLastChunk /\ index' = FindLastChunk + 1
      BY <2>1, <2>3, LastChunk, NextStrategy DEF Base
    <3>3. j \in Nat /\ FindLastChunk \in Nat /\ index' - 1 = FindLastChunk /\ index' \in Nat
      BY <3>1, <3>2, Times
    <3>4. UpTo(m3u8.lines, FindLastChunk) /\ UpTo(m3u8.lines, index')
      BY <1>t, <3>1, <3>2, <3>3, UpToMore
    <3> QED  BY <1>0, <2>1, <3>1, <3>3, <3>4 DEF OrderInv, Indices, Invalid
  <2> QED  BY <2>2, <2>3
<1>2. ASSUME NEW sample \in {"timed", "untimed", "none"}, OnPathSet(sample)
      PROVE  OrderInv'
  <2>1. ChunkAdded /\ on /\ index' = CalcNextIndex /\ m3u8' = m3u8
    BY <1>2, PathSetFiles DEF OnPathSet
  <2>2. ListExtended
    BY <1>2, PathSetList
  <2>3. index' \in Nat /\ index' \in Indices' /\ open' /\ index' # Invalid
    BY <2>1 DEF ChunkAdded, Invalid
  <2>4. /\ \A k \in 1..Len(chunks) : chunks[k].index < index'
        /\ UpTo(m3u8.lines, index')
    <3>1. CASE index = Invalid
      BY <1>0, <1>i, <1>t, <2>1, <3>1
    <3>2. CASE index # Invalid
      <4>1. index \in Nat /\ index <= index' /\ (open => index < index')
        BY <2>1, <2>3, <3>2, NextIndex DEF Base, TypeOK, DirInv, ChunkAdded
      <4>2. \A k \in 1..Len(chunks) : chunks[k].index \in Nat
        BY <1>t, ItemsOf
      <4>3. \A k \in 1..Len(chunks) : chunks[k].index < index'
        BY <1>0, <2>1, <2>3, <3>2, <4>1, <4>2 DEF UpTo
      <4>4. UpTo(m3u8.lines, index')
        BY <1>0, <1>t, <2>1, <2>3, <3>2, <4>1, UpToMore
      <4> QED  BY <4>3, <4>4
    <3> QED  BY <3>1, <3>2
  <2>5. Increasing(chunks') /\ UpTo(chunks', index')
    BY <1>0, <2>2, <2>3, <2>4, ExtendedInOrder
  <2> QED  BY <1>0, <2>1, <2>3, <2>4, <2>5 DEF OrderInv
<1>3. CASE StopRecorder \/ CrashRecorder
  <2>1. /\ chunks' = <<>> /\ ~on' /\ files' = files
        /\ m3u8' = m3u8 \/ \E n \in 0..Len(chunks) : Saved(n)
    BY <1>3, StopList
  <2>2. ASSUME NEW n \in 0..Len(chunks), Saved(n)
        PROVE  /\ Increasing(m3u8'.lines)
               /\ \A j : UpTo(chunks, j) => UpTo(m3u8'.lines, j)
    <3>1. /\ Len(m3u8'.lines) = n /\ \A k \in 1..n : m3u8'.lines[k].index = chunks[k].index
      BY <2>2 DEF Saved
    <3>2. Len(chunks) \in Nat /\ \A k \in 1..n : k \in 1..Len(chunks) /\ \A j \in 1..(k - 1) : j \in 1..n
      BY <1>t, LenProperties
    <3>3. Increasing(m3u8'.lines)
      BY <1>0, <3>1, <3>2 DEF Increasing
    <3>4. \A j : UpTo(chunks, j) => UpTo(m3u8'.lines, j)
      BY <3>1, <3>2 DEF UpTo
    <3> QED  BY <3>3, <3>4
  <2>3. Increasing(m3u8'.lines)
    BY <1>0, <2>1, <2>2
  <2>4. Indices' # {} => \E j \in Indices' : UpTo(m3u8'.lines, j)
    BY <1>0, <2>1, <2>2 DEF Indices
  <2> QED  BY <1>i, <2>1, <2>3, <2>4 DEF OrderInv
<1>4. CASE HandleMainTimerTick
  <2>1. OldRemoved /\ UNCHANGED <<chunks, m3u8, on, index>>
    BY <1>4, TimerFiles, ListLeft
  <2>2. open' = open
    BY <2>1 DEF OldRemoved
  <2>3. ASSUME NEW i \in Indices'
        PROVE  \E j \in Indices' : UpTo(chunks, j) /\ UpTo(m3u8.lines, j)
    <3>1. i \in Indices /\ files[i].mtime >= now - LifeTime[kind]
      BY <2>1 DEF OldRemoved
    <3>2. PICK j \in Indices : UpTo(chunks, j) /\ UpTo(m3u8.lines, j)
      BY <1>0, <3>1
    <3>3. CASE j <= i
      BY <1>t, <3>1, <3>2, <3>3, UpToMore, Times
    <3>4. CASE ~(j <= i)
      <4>1. files[i].mtime <= files[j].mtime
        BY <3>1, <3>2, <3>4, Times DEF Base, DirInv
      <4>2. files[j].mtime >= now - LifeTime[kind]
        BY <3>1, <3>2, <4>1, Times
      <4>3. j \in Indices'
        BY <2>1, <3>2, <4>2 DEF OldRemoved
      <4> QED  BY <3>2, <4>3
    <3> QED  BY <3>3, <3>4
  <2> QED  BY <1>0, <2>1, <2>2, <2>3 DEF OrderInv
<1>5. CASE Tick
  <2>1. SecondAdded /\ UNCHANGED <<chunks, m3u8, on, index>>
    BY <1>5, TickFiles, ListLeft
  <2>2. Indices' = Indices /\ open' = open
    BY <2>1 DEF SecondAdded
  <2> QED  BY <1>0, <2>1, <2>2 DEF OrderInv
<1>6. CASE \/ PlayerNext \/ PlayerRestart
           \/ UNCHANGED vars \/ \E window \in Windows : PlayerFind(window)
  <2>1. UNCHANGED <<chunks, m3u8, open, index, on, files>>
    BY <1>6 DEF PlayerNext, PlayerRestart, PlayerFind, vars
  <2> QED  BY <1>0, <2>1 DEF OrderInv, Indices
<1> QED  BY <1>1, <1>2, <1>3, <1>4, <1>5, <1>6 DEF Next

\* The catchup and its list over restarts, kills and failed writes: the chunks
\* are listed in the order of their numbers unless all were gone at a start,
\* none is longer than a chunk may be if each came with a sample, and every
\* recorded one is listed.
THEOREM CatchupListed == Spec => []CatchupInOrder
<1>1. Init => ListInv
  <2> SUFFICES ASSUME Init  PROVE ListType /\ OrderInv /\ DurationInv /\ RecordedListed
    BY DEF ListInv
  <2>1. /\ chunks = <<>> /\ m3u8.lines = <<>> /\ mark = NoTime /\ ~on /\ Indices = {}
        /\ Len(<<>>) = 0 /\ <<>> \in Seq(Items)
    BY EmptySeq DEF Init, NoFile, Indices
  <2>2. emptied \in BOOLEAN /\ silent \in BOOLEAN
    BY Zenon DEF Init
  <2> QED  BY <2>1, <2>2 DEF ListType, OrderInv, DurationInv, RecordedListed, Increasing, NoTime
<1>2. Base /\ ListInv /\ [Next]_vars => ListInv'
  <2> SUFFICES ASSUME Base, ListInv, [Next]_vars, kind' = "catchup"
               PROVE  (ListType /\ OrderInv /\ DurationInv /\ RecordedListed)'
    BY DEF ListInv
  <2>1. kind = "catchup"
    BY DEF Next, vars, StartRecorder, OnPathSet, HandleMainTimerTick, StopRecorder,
           CrashRecorder, PlayerFind, PlayerNext, PlayerRestart, Tick
  <2>2. ListType /\ OrderInv /\ DurationInv /\ RecordedListed
    BY <2>1 DEF ListInv
  <2> QED  BY <2>1, <2>2, StepListType, StepOrder, StepDuration, StepRecorded
<1>3. ListInv => CatchupInOrder
  <2> SUFFICES ASSUME ListType, OrderInv, DurationInv, RecordedListed
               PROVE  /\ emptied \/ (Increasing(chunks) /\ Increasing(m3u8.lines))
                      /\ silent \/ \A i \in 1..Len(chunks) : chunks[i].duration <= Longest + Hundredth
                      /\ on => \A i \in DOMAIN files : files[i].from > began =>
                                  \E k \in 1..Len(chunks) : chunks[k].index = i
    BY DEF ListInv, CatchupInOrder
  <2>1. \A d \in Lengths : d <= Longest + Hundredth
    <3>1. /\ Longest \in Nat /\ Hundredth \in Nat
          /\ \A e \in Spans : e \in Nat /\ e <= Longest
      BY TimeshiftAssumption DEF Spans
    <3>2. \A e \in Spans : Written(e) \in Nat /\ Written(e) <= e + Hundredth
      BY <3>1, WrittenOnce
    <3> QED  BY <3>1, <3>2 DEF Lengths, NoTime
  <2> QED  BY <2>1 DEF OrderInv, DurationInv, RecordedListed, Indices
<1> QED  BY <1>1, <1>2, <1>3, DirectoryInOrder, PTL DEF Spec
=============================================================================
