-------------------------- MODULE SubscribersProofs -------------------------
(***************************************************************************)
(* The limits of the subscribers hold for any accounts, connections and    *)
(* limits. connections_ may hold stale and double entries once a           *)
(* connection has activated twice, so that the proof does not rest on its  *)
(* being exact: every active connection has an entry of its account, which *)
(* is why the entries that FindInnerConnectionsByUser counts are never     *)
(* fewer than the active connections.                                      *)
(***************************************************************************)
EXTENDS Subscribers, TLAPS, FiniteSetTheorems, SequenceTheorems

Active(a) == {c \in open : hinfo[c] = a}

\* A deleted client has no account.
GoneInv == \A c \in Conns : c \notin open => hinfo[c] = NoAccount

\* While it runs, a sync has the users among the entries it has gone through,
\* each by the first entry of its login.
SyncInv ==
    /\ \A a \in users : \E i \in 1 .. added :
           IsFirst(i) /\ asked[i].account = a /\ (a \in banned <=> asked[i].banned)
    /\ \A i \in 1 .. added : asked[i].account \in users \cup {NoAccount}
    /\ ~syncing => added = Len(asked)

\* An active connection is registered.
EntryInv ==
    \A a \in Accounts : \A c \in Active(a) : \E i \in Entries(a) : connections[a][i] = c

\* Without a second activation an entry is of an active connection, and its only one.
OnceInv ==
    ~again => \A a \in Accounts : \A i \in Entries(a) :
                  /\ connections[a][i] \in Active(a)
                  /\ \A j \in Entries(a) : connections[a][i] = connections[a][j] => i = j

SubInv ==
    /\ TypeOK /\ IsFiniteSet(open)
    /\ GoneInv /\ SyncInv /\ EntryInv /\ OnceInv
    /\ ConnectionLimit

-----------------------------------------------------------------------------
(* Sequences                                                               *)

\* A set of natural numbers that is not empty has its Min.
LEMMA MinIn ==
    ASSUME NEW T \in SUBSET Nat, T # {}
    PROVE  Min(T) \in T
<1> DEFINE R == {p \in Nat \X Nat : p[1] < p[2]}
<1>1. IsWellFoundedOn(R, Nat)
  BY NatLessThanWellFounded DEF OpToRel
<1>2. PICK x \in T : \A y \in T : <<y, x>> \notin R
  BY <1>1, WFMin
<1>3. ASSUME NEW y \in T  PROVE x =< y
  <2>1. x \in Nat /\ y \in Nat
    OBVIOUS
  <2>2. ~(y < x)
    BY <1>2, <2>1
  <2> QED  BY <2>1, <2>2
<1> QED  BY <1>3 DEF Min

\* t is s without its entry at m.
ErasedAt(s, m, t) ==
    /\ Len(t) = Len(s) - 1
    /\ \A i \in 1 .. Len(s) - 1 : t[i] = IF i < m THEN s[i] ELSE s[i + 1]

\* erase(it) of UnRegisterInnerConnectionByHost: some entry of the client goes,
\* the others keep their order.
LEMMA RemoveFirstEntry ==
    ASSUME NEW S, NEW s \in Seq(S), NEW k \in 1 .. Len(s)
    PROVE  \E m \in 1 .. Len(s) :
              /\ s[m] = s[k]
              /\ RemoveFirst(s, s[k]) \in Seq(S)
              /\ ErasedAt(s, m, RemoveFirst(s, s[k]))
<1> DEFINE e == s[k]
<1> DEFINE I == {i \in 1 .. Len(s) : s[i] = e}
           m == Min(I)
           head == SubSeq(s, 1, m - 1)
           tail == SubSeq(s, m + 1, Len(s))
<1>1. Len(s) \in Nat /\ \A i \in 1 .. Len(s) : s[i] \in S
  BY ElementOfSeq, LenProperties
<1>2. m \in I
  <2>1. I \in SUBSET Nat /\ I # {}
    BY <1>1
  <2> QED  BY <2>1, MinIn
<1>3. RemoveFirst(s, e) = head \o tail
  BY <1>2 DEF RemoveFirst, RemoveAt, SelectInSeq
<1> HIDE DEF m
<1>4. /\ head \in Seq(S) /\ Len(head) = m - 1
      /\ \A i \in 1 .. m - 1 : head[i] = s[i]
  <2>1. m \in Int /\ m - 1 \in Int /\ \A i \in 1 .. m - 1 : s[i] \in S
    BY <1>1, <1>2
  <2> QED  BY <1>1, <1>2, <2>1, SubSeqProperties
<1>5. /\ tail \in Seq(S) /\ Len(tail) = Len(s) - m
      /\ \A i \in 1 .. Len(s) - m : tail[i] = s[m + i]
  <2>1. m + 1 \in Int /\ Len(s) \in Int /\ \A i \in m + 1 .. Len(s) : s[i] \in S
    BY <1>1, <1>2
  <2>2. /\ tail \in Seq(S)
        /\ Len(tail) = IF m + 1 <= Len(s) THEN Len(s) - (m + 1) + 1 ELSE 0
        /\ \A i \in 1 .. Len(s) - (m + 1) + 1 : tail[i] = s[m + 1 + i - 1]
    BY <2>1, SubSeqProperties
  <2> QED  BY <1>1, <1>2, <2>2
<1> HIDE DEF head, tail, e
<1>6. /\ head \o tail \in Seq(S) /\ Len(head \o tail) = Len(s) - 1
      /\ \A i \in 1 .. Len(s) - 1 : (head \o tail)[i] = IF i < m THEN s[i] ELSE s[i + 1]
  <2>1. /\ head \o tail \in Seq(S) /\ Len(head \o tail) = Len(head) + Len(tail)
        /\ \A i \in 1 .. Len(head) + Len(tail) :
              (head \o tail)[i] = IF i <= Len(head) THEN head[i] ELSE tail[i - Len(head)]
    BY <1>4, <1>5, ConcatProperties
  <2>2. ASSUME NEW i \in 1 .. Len(s) - 1  PROVE (head \o tail)[i] = IF i < m THEN s[i] ELSE s[i + 1]
    <3>1. CASE i < m
      <4>1. i \in 1 .. m - 1 /\ i <= Len(head) /\ i \in 1 .. Len(head) + Len(tail)
        BY <1>1, <1>2, <1>4, <1>5, <3>1
      <4> QED  BY <1>4, <2>1, <3>1, <4>1
    <3>2. CASE ~(i < m)
      <4>1. (head \o tail)[i] = tail[i - (m - 1)]
        <5>1. i \in 1 .. Len(head) + Len(tail) /\ ~(i <= Len(head)) /\ Len(head) = m - 1
          BY <1>1, <1>2, <1>4, <1>5, <3>2
        <5> QED  BY <2>1, <5>1
      <4>2. i - (m - 1) \in 1 .. Len(s) - m /\ m + (i - (m - 1)) = i + 1
        BY <1>1, <1>2, <3>2
      <4> QED  BY <1>5, <3>2, <4>1, <4>2
    <3> QED  BY <3>1, <3>2
  <2> QED  BY <1>1, <1>2, <1>4, <1>5, <2>1, <2>2
<1>7. ErasedAt(s, m, RemoveFirst(s, e)) /\ RemoveFirst(s, e) \in Seq(S)
  BY <1>3, <1>6 DEF ErasedAt
<1> QED  BY <1>2, <1>7 DEF e
-----------------------------------------------------------------------------
(* The steps                                                               *)

\* connections_ has finitely many entries for an account, numbered from 1.
LEMMA EntriesFinite ==
    ASSUME TypeOK, NEW a \in Accounts
    PROVE  /\ connections[a] \in Seq(Conns) /\ Len(connections[a]) \in Nat
           /\ Entries(a) = 1 .. Len(connections[a])
           /\ IsFiniteSet(Entries(a))
<1>1. connections[a] \in Seq(Conns)
  BY DEF TypeOK
<1>2. Len(connections[a]) \in Nat /\ Entries(a) = 1 .. Len(connections[a])
  BY <1>1, LenProperties DEF Entries
<1> QED  BY <1>1, <1>2, FS_Interval

\* FindInnerConnectionsByUser finds at least the active connections.
LEMMA ActiveAreFound ==
    ASSUME TypeOK, EntryInv, NEW a \in Accounts
    PROVE  /\ IsFiniteSet(Live(a)) /\ IsFiniteSet(Active(a))
           /\ Cardinality(Active(a)) <= Cardinality(Live(a))
<1>1. IsFiniteSet(Live(a))
  BY EntriesFinite, FS_Subset DEF Live
<1> DEFINE f == [i \in Live(a) |-> connections[a][i]]
<1>2. \A i \in Live(a) : f[i] \in Active(a)
  BY DEF Live, Active
<1>3. \A c \in Active(a) : \E i \in Live(a) : f[i] = c
  BY DEF EntryInv, Live, Active
<1>4. f \in Surjection(Live(a), Active(a))
  BY <1>2, <1>3 DEF Surjection
<1> QED  BY <1>1, <1>4, FS_Surjection

\* An account's limit is kept by a step that activates nothing for it.
LEMMA FewerActive ==
    ASSUME IsFiniteSet(open), ConnectionLimit, NEW a \in Accounts,
           Active(a)' \subseteq Active(a)
    PROVE  Cardinality(Active(a)') <= Limit[a]
<1>1. IsFiniteSet(Active(a))
  BY FS_Subset DEF Active
<1>2. Cardinality(Active(a)') <= Cardinality(Active(a))
  BY <1>1, FS_Subset
<1>3. Cardinality(Active(a)) <= Limit[a]
  BY DEF ConnectionLimit, Active
<1>4. Cardinality(Active(a)') \in Nat /\ Cardinality(Active(a)) \in Nat /\ Limit[a] \in Nat
  BY <1>1, FS_Subset, FS_CardinalityType, LimitAssumption
<1> QED  BY <1>2, <1>3, <1>4
\* Closed() of a connection: its entry goes, and with it nobody else's.
LEMMA ClosedInv ==
    ASSUME SubInv, NEW c \in open, Closed(c), UNCHANGED <<server, finder>>
    PROVE  SubInv'
<1> USE DEF SubInv, Closed, UnRegister, finder
<1>1. c \in Conns /\ (\A d \in Conns : hinfo'[d] = IF d = c THEN NoAccount ELSE hinfo[d])
  BY DEF TypeOK
<1>2. ASSUME NEW a \in Accounts, hinfo[c] # a
      PROVE  connections'[a] = connections[a]
  BY <1>2 DEF TypeOK
<1>3. ASSUME NEW a \in Accounts
      PROVE  /\ connections'[a] \in Seq(Conns)
             /\ \A d \in Active(a)' : \E i \in Entries(a)' : connections'[a][i] = d
             /\ ~again => \A i \in Entries(a)' :
                    /\ connections'[a][i] \in Active(a)'
                    /\ \A j \in Entries(a)' : connections'[a][i] = connections'[a][j] => i = j
  <2>1. Active(a)' = Active(a) \ {c}
    BY <1>1, AccountsAssumption DEF Active, TypeOK
  <2>2. CASE hinfo[c] # a
    BY <1>2, <2>1, <2>2 DEF TypeOK, EntryInv, OnceInv, Entries, Active
  <2>3. CASE hinfo[c] = a
    <3> DEFINE s == connections[a]
               t == connections'[a]
    <3>1. s \in Seq(Conns) /\ Len(s) \in Nat /\ Entries(a) = 1 .. Len(s)
      BY EntriesFinite
    <3>2. t = RemoveFirst(s, c)
      BY <2>3, AccountsAssumption DEF TypeOK
    <3>3. PICK k \in 1 .. Len(s) : s[k] = c
      BY <2>3, <3>1 DEF EntryInv, Active
    <3> HIDE DEF s, t
    <3>4. PICK m \in 1 .. Len(s) :
              /\ s[m] = c /\ t \in Seq(Conns) /\ Len(t) = Len(s) - 1
              /\ \A i \in 1 .. Len(s) - 1 : t[i] = IF i < m THEN s[i] ELSE s[i + 1]
      <4>1. \E m \in 1 .. Len(s) :
              /\ s[m] = s[k]
              /\ RemoveFirst(s, s[k]) \in Seq(Conns)
              /\ ErasedAt(s, m, RemoveFirst(s, s[k]))
        BY <3>1, RemoveFirstEntry
      <4> QED  BY <3>2, <3>3, <4>1 DEF ErasedAt
    <3>5. Entries(a)' = 1 .. Len(s) - 1
      BY <3>4, LenProperties DEF Entries, t
    <3>6. ASSUME NEW d \in Active(a)'  PROVE \E i \in Entries(a)' : t[i] = d
      <4>1. PICK i \in 1 .. Len(s) : s[i] = d
        BY <2>1, <3>1 DEF EntryInv, s
      <4>2. i # m
        BY <2>1, <3>4, <4>1
      <4>3. CASE i < m
        BY <3>1, <3>4, <3>5, <4>1, <4>3
      <4>4. CASE m < i
        <5>1. i - 1 \in 1 .. Len(s) - 1 /\ ~(i - 1 < m) /\ (i - 1) + 1 = i
          BY <3>1, <4>4
        <5> QED  BY <3>4, <3>5, <4>1, <5>1
      <4> QED  BY <3>1, <4>2, <4>3, <4>4
    <3>7. ASSUME ~again, NEW i \in Entries(a)'
          PROVE  /\ t[i] \in Active(a)'
                 /\ \A j \in Entries(a)' : t[i] = t[j] => i = j
      <4> DEFINE at(n) == IF n < m THEN n ELSE n + 1
      <4>1. ASSUME NEW n \in 1 .. Len(s) - 1
            PROVE  at(n) \in 1 .. Len(s) /\ t[n] = s[at(n)] /\ at(n) # m
        <5>1. at(n) \in 1 .. Len(s) /\ at(n) # m
          BY <3>1
        <5> QED  BY <3>4, <5>1
      <4>2. \A n, l \in 1 .. Len(s) - 1 : at(n) = at(l) => n = l
        BY <3>1
      <4>3. \A n \in 1 .. Len(s) : s[n] \in Active(a) /\ \A l \in 1 .. Len(s) : s[n] = s[l] => n = l
        BY <3>1, <3>7 DEF OnceInv, s
      <4> HIDE DEF at
      <4>4. t[i] \in Active(a) /\ t[i] # c
        BY <3>4, <3>5, <4>1, <4>3
      <4>5. ASSUME NEW j \in Entries(a)', t[i] = t[j]  PROVE i = j
        <5>1. at(i) = at(j)
          BY <3>5, <4>1, <4>3, <4>5
        <5> QED  BY <3>5, <4>2, <5>1
      <4> QED  BY <2>1, <4>4, <4>5
    <3> QED  BY <3>4, <3>6, <3>7 DEF t
  <2> QED  BY <2>2, <2>3
<1>4. connections' \in [Accounts -> Seq(Conns)]
  <2>1. connections' \in [Accounts -> {connections'[a] : a \in Accounts}]
    BY DEF TypeOK
  <2> QED  BY <1>3, <2>1
<1>5. TypeOK'
  BY <1>1, <1>4 DEF TypeOK
<1>6. IsFiniteSet(open') /\ GoneInv' /\ SyncInv'
  <2>1. IsFiniteSet(open')
    BY FS_RemoveElement
  <2>2. GoneInv'
    BY <1>1 DEF GoneInv
  <2> QED  BY <2>1, <2>2 DEF SyncInv, IsFirst
<1>7. EntryInv' /\ OnceInv'
  BY <1>3 DEF EntryInv, OnceInv
<1>8. ConnectionLimit'
  <2>1. \A a \in Accounts : Active(a)' \subseteq Active(a)
    BY <1>1, AccountsAssumption DEF Active, TypeOK
  <2> QED  BY <2>1, FewerActive DEF ConnectionLimit, Active
<1> QED  BY <1>5, <1>6, <1>7, <1>8
\* CLIENT_ACTIVATE: the connection is registered and its account has room.
LEMMA ActivateInv ==
    ASSUME SubInv, NEW c \in Conns, NEW a \in Accounts, Activate(c, a)
    PROVE  SubInv'
<1> USE DEF SubInv, Activate, Register, finder
<1>1. \A d \in Conns : hinfo'[d] = IF d = c THEN a ELSE hinfo[d]
  BY DEF TypeOK
<1>2. ASSUME NEW b \in Accounts  PROVE Active(b)' = IF b = a THEN Active(b) \cup {c} ELSE Active(b) \ {c}
  BY <1>1 DEF Active, TypeOK
<1> DEFINE s == connections[a]
           t == connections'[a]
<1>3. s \in Seq(Conns) /\ Len(s) \in Nat /\ Entries(a) = 1 .. Len(s)
  BY EntriesFinite
<1>4. t = Append(s, c)
  BY DEF TypeOK
<1>5. /\ t \in Seq(Conns) /\ Len(t) = Len(s) + 1 /\ t[Len(s) + 1] = c
      /\ \A i \in 1 .. Len(s) : t[i] = s[i]
  BY <1>3, <1>4, AppendProperties
<1>6. Entries(a)' = 1 .. Len(s) + 1
  BY <1>5, LenProperties DEF Entries
<1>7. \A b \in Accounts : b # a => connections'[b] = connections[b]
  BY DEF TypeOK
<1>8. TypeOK'
  <2>1. connections' \in [Accounts -> Seq(Conns)]
    BY <1>4, <1>5 DEF TypeOK
  <2>2. again' \in BOOLEAN
    BY Zenon DEF TypeOK
  <2> QED  BY <2>1, <2>2 DEF TypeOK
<1>9. IsFiniteSet(open') /\ GoneInv' /\ SyncInv'
  BY <1>1 DEF GoneInv, SyncInv, IsFirst
<1> HIDE DEF s, t
<1>10. EntryInv'
  <2> SUFFICES ASSUME NEW b \in Accounts, NEW d \in Active(b)'
               PROVE  \E i \in Entries(b)' : connections'[b][i] = d
    BY DEF EntryInv
  <2>1. CASE b # a
    BY <1>2, <1>7, <2>1 DEF EntryInv, Entries
  <2>2. CASE b = a /\ d = c
    BY <1>3, <1>5, <1>6, <2>2 DEF t
  <2>3. CASE b = a /\ d # c
    <3>1. PICK i \in 1 .. Len(s) : s[i] = d
      BY <1>2, <1>3, <2>3 DEF EntryInv, s
    <3>2. i \in 1 .. Len(s) + 1 /\ t[i] = d
      BY <1>3, <1>5, <3>1
    <3> QED  BY <1>6, <2>3, <3>2 DEF t
  <2> QED  BY <2>1, <2>2, <2>3
<1>11. OnceInv'
  <2> SUFFICES ASSUME ~again', NEW b \in Accounts, NEW i \in Entries(b)'
               PROVE  /\ connections'[b][i] \in Active(b)'
                      /\ \A j \in Entries(b)' : connections'[b][i] = connections'[b][j] => i = j
    BY DEF OnceInv
  <2>1. ~again /\ hinfo[c] = NoAccount
    OBVIOUS
  <2>2. \A d \in Accounts : c \notin Active(d)
    BY <2>1, AccountsAssumption DEF Active
  <2>3. CASE b # a
    BY <1>2, <1>7, <2>1, <2>2, <2>3 DEF OnceInv, Entries
  <2>4. CASE b = a
    <3>1. \A n \in 1 .. Len(s) : /\ t[n] = s[n] /\ s[n] \in Active(a) /\ s[n] # c
                                 /\ \A l \in 1 .. Len(s) : s[n] = s[l] => n = l
      BY <1>3, <1>5, <2>1, <2>2 DEF OnceInv, s
    <3>2. t[i] \in Active(a)' /\ \A j \in 1 .. Len(s) + 1 : t[i] = t[j] => i = j
      <4>1. CASE i = Len(s) + 1
        BY <1>2, <1>3, <1>5, <3>1, <4>1
      <4>2. CASE i # Len(s) + 1
        <5>1. i \in 1 .. Len(s)
          BY <1>3, <1>6, <2>4, <4>2
        <5> QED  BY <1>2, <1>3, <1>5, <3>1, <5>1
      <4> QED  BY <4>1, <4>2
    <3> QED  BY <1>6, <2>4, <3>2 DEF t
  <2> QED  BY <2>3, <2>4
<1>12. ConnectionLimit'
  <2>1. ASSUME NEW b \in Accounts, b # a  PROVE Cardinality(Active(b)') <= Limit[b]
    BY <1>2, <2>1, FewerActive
  <2>2. Cardinality(Active(a)') <= Limit[a]
    <3>1. /\ Cardinality(Active(a)) <= Cardinality(Live(a))
          /\ Cardinality(Active(a)) \in Nat /\ Cardinality(Live(a)) \in Nat
      BY ActiveAreFound, FS_CardinalityType
    <3>2. PICK n \in Found(a) : n < Limit[a]
      BY DEF BelowLimit
    <3>3. Cardinality(Dangling(a)) \in Nat
      BY EntriesFinite, FS_Subset, FS_CardinalityType DEF Dangling
    <3>4. Cardinality(Active(a)) + 1 <= Limit[a]
      BY <3>1, <3>2, <3>3, LimitAssumption DEF Found
    <3>5. /\ Cardinality(Active(a) \cup {c}) \in Nat
          /\ Cardinality(Active(a) \cup {c}) <= Cardinality(Active(a)) + 1
      <4>1. IsFiniteSet(Active(a))
        BY ActiveAreFound
      <4>2. Cardinality(Active(a) \cup {c}) = IF c \in Active(a) THEN Cardinality(Active(a))
                                              ELSE Cardinality(Active(a)) + 1
        BY <4>1, FS_AddElement
      <4> QED  BY <3>1, <4>2
    <3>6. Active(a)' = Active(a) \cup {c}
      BY <1>2
    <3> QED  BY <3>1, <3>4, <3>5, <3>6, LimitAssumption
  <2> QED  BY <2>1, <2>2 DEF ConnectionLimit, Active
<1> QED  BY <1>8, <1>9, <1>10, <1>11, <1>12
\* SYNC_SERVICE goes on to its next entry: one that is no user or whose login the
\* list has changes nothing, any other is the first of its login.
LEMMA AddUserInv ==
    ASSUME TypeOK, SyncInv, AddUser
    PROVE  TypeOK' /\ SyncInv'
<1> DEFINE n == added + 1
           user == asked[n]
<1>1. n \in 1 .. Len(asked) /\ user \in User /\ asked' = asked /\ added' = n /\ added \in Nat /\ syncing' = syncing
  BY ElementOfSeq DEF TypeOK, AddUser
<1>2. user.account \in Accounts \cup {NoAccount} /\ user.banned \in BOOLEAN
  BY <1>1 DEF User
<1>3. \A i \in 1 .. n : i \in 1 .. added \/ i = n
  BY <1>1
<1>4. \A i \in 1 .. n : IsFirst(i)' <=> IsFirst(i)
  BY <1>1 DEF IsFirst
<1>5. ~syncing' => added' = Len(asked')
  BY <1>1 DEF SyncInv
<1>6. CASE user.account \in users \cup {NoAccount}
  <2>1. users' = users /\ banned' = banned
    BY <1>6 DEF AddUser, Insert
  <2>2. TypeOK'
    BY <1>1, <2>1 DEF AddUser, TypeOK
  <2>3. \A a \in users' : \E i \in 1 .. added' :
            IsFirst(i)' /\ asked'[i].account = a /\ (a \in banned' <=> asked'[i].banned)
    BY <1>1, <1>4, <2>1 DEF SyncInv
  <2>4. \A i \in 1 .. added' : asked'[i].account \in users' \cup {NoAccount}
    BY <1>1, <1>3, <1>6, <2>1 DEF SyncInv
  <2> QED  BY <1>5, <2>2, <2>3, <2>4 DEF SyncInv
<1>7. CASE user.account \notin users \cup {NoAccount}
  <2>1. users' = users \cup {user.account} /\ banned' = IF user.banned THEN banned \cup {user.account} ELSE banned
    BY <1>7 DEF AddUser, Insert
  <2>2. TypeOK'
    BY <1>1, <1>2, <1>7, <2>1 DEF AddUser, TypeOK
  <2>3. IsFirst(n)
    BY <1>1, <1>7 DEF IsFirst, SyncInv
  <2>4. \A a \in users' : \E i \in 1 .. added' :
            IsFirst(i)' /\ asked'[i].account = a /\ (a \in banned' <=> asked'[i].banned)
    <3>1. user.account \notin banned
      BY <1>7 DEF TypeOK
    <3>2. ASSUME NEW a \in users, a # user.account
          PROVE  \E i \in 1 .. n : IsFirst(i) /\ asked[i].account = a /\ (a \in banned' <=> asked[i].banned)
      BY <1>1, <2>1, <3>2 DEF SyncInv
    <3>3. n \in 1 .. n /\ (user.account \in banned' <=> user.banned)
      BY <1>1, <2>1, <3>1
    <3> QED  BY <1>1, <1>4, <2>1, <2>3, <3>2, <3>3
  <2>5. \A i \in 1 .. added' : asked'[i].account \in users' \cup {NoAccount}
    BY <1>1, <1>3, <2>1 DEF SyncInv
  <2> QED  BY <1>5, <2>2, <2>4, <2>5 DEF SyncInv
<1> QED  BY <1>6, <1>7

\* The invariant holds initially.
LEMMA InitSubInv == Init => SubInv
<1> SUFFICES ASSUME Init  PROVE SubInv
  OBVIOUS
<1>1. TypeOK
  <2>1. syncing \in BOOLEAN /\ again \in BOOLEAN
    BY Zenon DEF Init
  <2>2. <<>> \in Seq(Conns) /\ <<>> \in Seq(User) /\ Len(<<>>) = 0
    BY EmptySeq
  <2> QED  BY <2>1, <2>2 DEF Init, TypeOK
<1>2. IsFiniteSet(open)
  BY FS_EmptySet DEF Init
<1>3. \A a \in Accounts : Active(a) = {} /\ Entries(a) = {}
  BY DEF Init, Active, Entries
<1>4. ConnectionLimit
  BY <1>3, FS_EmptySet, LimitAssumption DEF ConnectionLimit, Active
<1>5. GoneInv /\ SyncInv
  BY DEF Init, GoneInv, SyncInv
<1> QED  BY <1>1, <1>2, <1>3, <1>4, <1>5 DEF SubInv, EntryInv, OnceInv

\* Every step of the two loops preserves it.
LEMMA StepSubInv == SubInv /\ [Next]_vars => SubInv'
<1> SUFFICES ASSUME SubInv, [Next]_vars  PROVE SubInv'
  OBVIOUS
<1> USE DEF SubInv, finder
<1>0. ASSUME UNCHANGED <<open, hinfo, connections, again>>
      PROVE  (IsFiniteSet(open) /\ GoneInv /\ EntryInv /\ OnceInv /\ ConnectionLimit)'
  BY <1>0 DEF GoneInv, EntryInv, OnceInv, ConnectionLimit, Active, Entries
<1>01. ASSUME UNCHANGED <<users, banned, asked, added>>, ~syncing' => added = Len(asked)  PROVE SyncInv'
  <2>1. \A i \in 1 .. added : IsFirst(i)' <=> IsFirst(i)
    BY <1>01 DEF IsFirst
  <2> QED  BY <1>01, <2>1 DEF SyncInv
<1>1. ASSUME NEW list \in Lists, Clear(list)  PROVE SubInv'
  <2>1. syncing' = TRUE /\ asked' = list /\ added' = 0 /\ users' = {} /\ banned' = {}
    BY <1>1, Zenon DEF Clear
  <2>2. list \in Seq(User) /\ 0 \in 0 .. Len(list)
    BY ListsAssumption, LenProperties
  <2>3. TypeOK'
    BY <1>1, <2>1, <2>2 DEF Clear, TypeOK
  <2>4. SyncInv'
    BY <2>1 DEF SyncInv
  <2> QED  BY <1>0, <1>1, <2>3, <2>4 DEF Clear
<1>2. CASE AddUser
  <2>1. TypeOK' /\ SyncInv'
    BY <1>2, AddUserInv
  <2> QED  BY <1>0, <1>2, <2>1 DEF AddUser
<1>3. CASE SyncDone
  <2>1. syncing' \in BOOLEAN
    BY <1>3, Zenon DEF SyncDone
  <2>2. TypeOK'
    BY <1>3, <2>1 DEF SyncDone, TypeOK
  <2>3. SyncInv'
    BY <1>01, <1>3 DEF SyncDone
  <2> QED  BY <1>0, <1>3, <2>2, <2>3 DEF SyncDone
<1>4. ASSUME NEW c \in Conns, Accepted(c)  PROVE SubInv'
  <2>1. hinfo[c] = NoAccount /\ open' = open \cup {c}
    BY <1>4 DEF Accepted, GoneInv
  <2>2. \A a \in Accounts : Active(a)' = Active(a) /\ Entries(a)' = Entries(a)
    BY <1>4, <2>1, AccountsAssumption DEF Accepted, Active, Entries
  <2>3. TypeOK' /\ GoneInv' /\ SyncInv'
    BY <1>4 DEF Accepted, TypeOK, GoneInv, SyncInv, IsFirst
  <2>4. IsFiniteSet(open')
    BY <2>1, FS_AddElement
  <2>5. EntryInv' /\ OnceInv' /\ ConnectionLimit'
    BY <1>4, <2>2 DEF Accepted, EntryInv, OnceInv, ConnectionLimit, Active
  <2> QED  BY <2>3, <2>4, <2>5
<1>5. ASSUME NEW c \in Conns, Lost(c) \/ RequestRefused(c)  PROVE SubInv'
  BY <1>5, ClosedInv DEF Lost, RequestRefused
<1>6. ASSUME NEW c \in Conns, NEW a \in Accounts, Activate(c, a)  PROVE SubInv'
  BY <1>6, ActivateInv
<1>7. ASSUME NEW c \in Conns, NEW a \in Accounts, ActivateCrashes(c, a)  PROVE SubInv'
  <2>1. TypeOK'
    BY <1>7 DEF ActivateCrashes, TypeOK
  <2>2. SyncInv'
    BY <1>01, <1>7 DEF ActivateCrashes, SyncInv
  <2> QED  BY <1>0, <1>7, <2>1, <2>2 DEF ActivateCrashes
<1>8. CASE Terminated \/ UNCHANGED vars
  <2>1. TypeOK'
    BY <1>8 DEF Terminated, vars, TypeOK
  <2>2. SyncInv'
    BY <1>01, <1>8 DEF Terminated, vars, SyncInv
  <2> QED  BY <1>0, <1>8, <2>1, <2>2 DEF Terminated, vars
<1> HIDE DEF SubInv
<1> QED  BY <1>1, <1>2, <1>3, <1>4, <1>5, <1>6, <1>7, <1>8 DEF Next

-----------------------------------------------------------------------------
\* The invariant holds in every reachable state.
THEOREM SubInvariance == Spec => []SubInv
<1>1. Init => SubInv  BY InitSubInv
<1>2. SubInv /\ [Next]_vars => SubInv'  BY StepSubInv
<1> QED  BY <1>1, <1>2, PTL DEF Spec

\* connections_ holds addresses of connections, and what SyncFinder and the
\* clients store is of its type.
THEOREM SubscribersTypeCorrect == Spec => []TypeOK
<1>1. SubInv => TypeOK  BY DEF SubInv
<1> QED  BY <1>1, SubInvariance, PTL

\* No account has more active connections than its device allows, whatever stale
\* and double entries connections_ has.
THEOREM LimitKept == Spec => []ConnectionLimit
<1>1. SubInv => ConnectionLimit  BY DEF SubInv
<1> QED  BY <1>1, SubInvariance, PTL

\* Until some connection activates twice, connections_ is the active connections,
\* each once.
THEOREM RegisteredOnce == Spec => []RegisteredAreActive
<1>1. SubInv => RegisteredAreActive
  <2> SUFFICES ASSUME SubInv, ~again, NEW a \in Accounts, NEW c \in Conns
               PROVE  Cardinality({i \in Entries(a) : connections[a][i] = c})
                        = IF c \in open /\ hinfo[c] = a THEN 1 ELSE 0
    BY DEF RegisteredAreActive
  <2> DEFINE E == {i \in Entries(a) : connections[a][i] = c}
  <2>1. CASE c \in Active(a)
    <3>1. PICK i \in Entries(a) : connections[a][i] = c
      BY <2>1 DEF SubInv, EntryInv
    <3>2. E = {i}
      BY <3>1 DEF SubInv, OnceInv
    <3> QED  BY <2>1, <3>2, FS_Singleton DEF Active
  <2>2. CASE c \notin Active(a)
    <3>1. E = {}
      BY <2>2 DEF SubInv, OnceInv
    <3> QED  BY <2>2, <3>1, FS_EmptySet DEF Active
  <2> QED  BY <2>1, <2>2
<1> QED  BY <1>1, SubInvariance, PTL

\* Whatever list SYNC_SERVICE carries and whenever FindUser takes the mutex, it
\* finds only users of the latest list, by the first entry of their login, and
\* every one that parses once the request is answered.
THEOREM SyncIsWhole == Spec => []SyncedUsers
<1>1. SubInv => SyncedUsers
  <2> SUFFICES ASSUME SubInv  PROVE SyncedUsers
    OBVIOUS
  <2>1. DOMAIN asked = 1 .. Len(asked) /\ \A i \in 1 .. added : i \in 1 .. Len(asked)
    BY LenProperties DEF SubInv, TypeOK
  <2> QED  BY <2>1 DEF SubInv, SyncInv, SyncedUsers
<1> QED  BY <1>1, SubInvariance, PTL
=============================================================================
