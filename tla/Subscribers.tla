---------------------------- MODULE Subscribers -----------------------------
(***************************************************************************)
(* The server of subscribers (SubscribersHandler) and the list of users it *)
(* consults (SyncFinder), which the service replaces on SYNC_SERVICE.      *)
(*                                                                         *)
(* Two threads: the subscribers' loop handles one event of a connection at *)
(* a time; the service's loop runs the replacement, which takes the mutex  *)
(* of the list for each of its calls and not for the whole.                *)
(*                                                                         *)
(* A connection is the address of its SubscriberClient. Entries of         *)
(* connections_ are such addresses, so an entry may outlive its client and *)
(* a later client may get the same address.                                *)
(***************************************************************************)
EXTENDS Naturals, FiniteSets, SequencesExt

CONSTANTS
    Accounts,    \* a login with its password, device and user id
    Conns,       \* addresses of connections
    Limit,       \* dev.GetConnections() of the device of each account
    Lists,       \* lists of users that a SYNC_SERVICE may carry
    MaxEntries   \* bound: entries of connections_ for one account

ASSUME LimitAssumption == Limit \in [Accounts -> Nat]
ASSUME EntriesAssumption == MaxEntries \in Nat

NoAccount == "no account"

ASSUME AccountsAssumption == NoAccount \notin Accounts

\* An entry of such a list: a user and its status, or something that
\* DeSerializeFromString does not take for a user.
User == [account : Accounts \cup {NoAccount}, banned : BOOLEAN]

ASSUME ListsAssumption == Lists \subseteq Seq(User)

VARIABLES
    server,       \* "up" or "crashed"
    users,        \* SyncFinder::users_
    banned,       \* those of them with status BANNED
    asked,        \* GetUsers() of the latest SYNC_SERVICE
    added,        \* how many of them it has gone through
    syncing,      \* it has not yet finished
    open,         \* connections that exist
    hinfo,        \* the account of each, NoAccount before its activation
    connections,  \* connections_: the addresses registered for each account
    again         \* history: some connection has activated more than once

finder == <<users, banned, asked, added, syncing>>
vars == <<server, finder, open, hinfo, connections, again>>

Init ==
    /\ server = "up"
    /\ users = {} /\ banned = {}
    /\ asked = <<>> /\ added = 0 /\ syncing = FALSE
    /\ open = {}
    /\ hinfo = [c \in Conns |-> NoAccount]
    /\ connections = [a \in Accounts |-> <<>>]
    /\ again = FALSE

-----------------------------------------------------------------------------
(* The service's loop: HandleRequestClientSyncService.                     *)

\* sfinder->Clear().
Clear(list) ==
    /\ server = "up" /\ ~syncing
    /\ syncing' = TRUE
    /\ asked' = list /\ added' = 0
    /\ users' = {} /\ banned' = {}
    /\ UNCHANGED <<server, open, hinfo, connections, again>>

\* Mutant: a later entry of a login takes the place of the first.
InsertOrAssign(user) ==
    /\ users' = users \cup {user.account}
    /\ banned' = IF user.banned THEN banned \cup {user.account} ELSE banned \ {user.account}

\* users_.insert(): the first entry of a login stays.
Insert(user) ==
    IF user.account \in users
    THEN UNCHANGED <<users, banned>>
    ELSE /\ users' = users \cup {user.account}
         /\ banned' = IF user.banned THEN banned \cup {user.account} ELSE banned

\* The next entry: sfinder->AddUser(uinf), or nothing when it does not parse.
AddUser ==
    /\ server = "up" /\ added < Len(asked)
    /\ added' = added + 1
    /\ LET user == asked[added + 1]
       IN  IF user.account = NoAccount THEN UNCHANGED <<users, banned>> ELSE Insert(user)
    /\ UNCHANGED <<server, asked, syncing, open, hinfo, connections, again>>

\* The response is written; the next command can be served.
SyncDone ==
    /\ server = "up" /\ syncing /\ added = Len(asked)
    /\ syncing' = FALSE
    /\ UNCHANGED <<server, users, banned, asked, added, open, hinfo, connections, again>>

-----------------------------------------------------------------------------
(* The subscribers' loop.                                                  *)

Accepted(c) ==
    /\ server = "up" /\ c \notin open
    /\ open' = open \cup {c}
    /\ UNCHANGED <<server, finder, hinfo, connections, again>>

\* Mutant: the connection stays registered.
UnRegisterForgotten(c) == UNCHANGED connections

\* UnRegisterInnerConnectionByHost: erase one entry of the connection's account.
UnRegister(c) ==
    connections' =
        IF hinfo[c] = NoAccount THEN connections
        ELSE [connections EXCEPT ![hinfo[c]] = RemoveFirst(@, c)]

\* client->Close(), Closed() of the handler, delete client.
Closed(c) ==
    /\ UnRegister(c)
    /\ open' = open \ {c}
    /\ hinfo' = [hinfo EXCEPT ![c] = NoAccount]
    /\ UNCHANGED again

\* A read error, or a ping that cannot be written.
Lost(c) ==
    /\ server = "up" /\ c \in open
    /\ Closed(c)
    /\ UNCHANGED <<server, finder>>

Entries(a) == DOMAIN connections[a]

\* Entries of a that are addresses of deleted clients.
Dangling(a) == {i \in Entries(a) : connections[a][i] \notin open}

Live(a) == {i \in Entries(a) : connections[a][i] \in open /\ hinfo[connections[a][i]] = a}

\* How many connections FindInnerConnectionsByUser may return: those of the
\* user, and whatever is read through a deleted client.
Found(a) ==
    Cardinality(Live(a)) .. Cardinality(Live(a)) + Cardinality(Dangling(a))

\* Mutant: the comparison with the limit lets one more in.
BelowLimitOffByOne(a) == \E n \in Found(a) : n <= Limit[a]

\* fconnections.size() < dev.GetConnections().
BelowLimit(a) == \E n \in Found(a) : n < Limit[a]

\* RegisterInnerConnectionByHost.
Register(c, a) ==
    /\ hinfo' = [hinfo EXCEPT ![c] = a]
    /\ connections' = [connections EXCEPT ![a] = Append(@, c)]

\* CLIENT_ACTIVATE; it does not look whether the connection is active already.
\* A refused activation leaves the connection open.
Activate(c, a) ==
    /\ server = "up" /\ c \in open
    /\ a \in users /\ a \notin banned
    /\ BelowLimit(a)
    /\ Len(connections[a]) < MaxEntries
    /\ Register(c, a)
    /\ again' = (again \/ hinfo[c] # NoAccount)
    /\ UNCHANGED <<server, finder, open>>

\* FindInnerConnectionsByUser reads through a deleted client and dies of it.
ActivateCrashes(c, a) ==
    /\ server = "up" /\ c \in open
    /\ a \in users /\ a \notin banned
    /\ Dangling(a) # {}
    /\ server' = "crashed"
    /\ UNCHANGED <<finder, open, hinfo, connections, again>>

\* Any other request of a connection whose account the list does not have (or
\* that has none): CheckIsAuthClient fails, Close and delete. The request of a
\* known account is answered and changes nothing here.
RequestRefused(c) ==
    /\ server = "up" /\ c \in open
    /\ hinfo[c] \notin users
    /\ Closed(c)
    /\ UNCHANGED <<server, finder>>

\* The process has crashed.
Terminated ==
    /\ server = "crashed"
    /\ UNCHANGED vars

-----------------------------------------------------------------------------
Next ==
    \/ \E list \in Lists : Clear(list)
    \/ AddUser \/ SyncDone
    \/ \E c \in Conns : Accepted(c) \/ Lost(c) \/ RequestRefused(c)
    \/ \E c \in Conns, a \in Accounts : Activate(c, a) \/ ActivateCrashes(c, a)
    \/ Terminated

Spec == Init /\ [][Next]_vars

-----------------------------------------------------------------------------
\* Type correctness; connections_ holds addresses of connections only.
TypeOK ==
    /\ server \in {"up", "crashed"}
    /\ users \subseteq Accounts /\ banned \subseteq users
    /\ asked \in Seq(User) /\ added \in 0 .. Len(asked) /\ syncing \in BOOLEAN
    /\ open \subseteq Conns
    /\ hinfo \in [Conns -> Accounts \cup {NoAccount}]
    /\ connections \in [Accounts -> Seq(Conns)]
    /\ again \in BOOLEAN

\* No account has more live connections than its device allows, also when
\* connections activate twice, change their account, close and come back.
ConnectionLimit ==
    \A a \in Accounts : Cardinality({c \in open : hinfo[c] = a}) <= Limit[a]

\* As long as no connection has activated twice, connections_ is exactly the
\* active connections, each once: nothing stale is left when a client goes.
RegisteredAreActive ==
    ~again =>
        \A a \in Accounts, c \in Conns :
            Cardinality({i \in Entries(a) : connections[a][i] = c})
              = IF c \in open /\ hinfo[c] = a THEN 1 ELSE 0

\* The i-th entry asked for is a user, and no earlier one has its login.
IsFirst(i) ==
    /\ asked[i].account # NoAccount
    /\ \A j \in 1 .. i - 1 : asked[j].account # asked[i].account

\* At any moment, also between two of the calls that replace the list, a look-up
\* finds only users of the latest sync, each with the status of the first entry
\* of its login; and once the sync is answered it finds each one that parses.
SyncedUsers ==
    /\ \A a \in users : \E i \in DOMAIN asked :
           IsFirst(i) /\ asked[i].account = a /\ (a \in banned <=> asked[i].banned)
    /\ ~syncing => \A i \in DOMAIN asked : asked[i].account \in users \cup {NoAccount}
=============================================================================
