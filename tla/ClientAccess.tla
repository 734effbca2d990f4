---------------------------- MODULE ClientAccess ----------------------------
(***************************************************************************)
(* Who may do what: src/auth/identity-service.js over IdentityStore, with  *)
(* the sessions of the console, the command line that administers the      *)
(* account, devices that present a client's key, and the sockets that      *)
(* src/realtime/registry.js keeps for them in memory.                      *)
(*                                                                         *)
(* Every call of the store is a step, and any number of requests and       *)
(* devices are between two of theirs.  A request that fails, or whose      *)
(* process stops, is one that takes no further step.                       *)
(***************************************************************************)
EXTENDS IdentityStore

CONSTANTS
    Request,         \* requests of the console and commands of the administrator,
    AtOnce,          \* and bound on how many of them, and of devices, are under way at once
    Home,            \* the space, the client and the session there are at first,
    First, Console,
    Asleep           \* and a space in its days of grace

ASSUME AccessAssumption ==
    /\ {Home, Asleep} \subseteq Space
    /\ Home # Asleep
    /\ First \in Client
    /\ Console \in Session
    /\ AtOnce \in Nat

VARIABLES
    request,
    device,
    history          \* what the properties remember of resets and changes

vars == <<account, sessions, spaces, clients, keys, request, device, history>>

-----------------------------------------------------------------------------

\* What is left to do is named by at; the other fields hold what was read before.
Fresh == [at |-> "new", op |-> "none", session |-> Console, space |-> Home, client |-> First,
          authEpoch |-> 0, password |-> 0,
          restoreEpoch |-> 0, recent |-> FALSE, listed |-> {}, late |-> FALSE]

Ended == [Fresh EXCEPT !.at = "ended"]

KeyOp == {"rotate", "rotate with overlap", "revoke", "reset"}

Operation == {"none", "active", "disabled", "reset password"} \union KeyOp

RequestStage ==
    {"new", "ended", "setStatus", "setPassword", "revokeSessions", "createSession",
     "account", "ready", "revokeOthers", "closeSpace", "restoreSpace", "list",
     "replaceKey", "revokeKeys", "closeClient"}

RequestRow ==
    [at : RequestStage, op : Operation,
     session : Session, space : Space, client : Client,
     authEpoch : Nat, password : Nat,
     restoreEpoch : Nat, recent : BOOLEAN, listed : SUBSET Nat, late : BOOLEAN]

Idle == [at |-> "idle", client |-> First, key |-> 1, bound |-> Nobody, raced |-> FALSE]

\* raced is history: a revocation closed the client's sockets while this device
\* was past the rows that would have told it.
DeviceStage == {"idle", "account", "space", "client", "granted", "open"}

DeviceRow ==
    [at : DeviceStage,
     client : Client, key : Nat, bound : Installation \union {Nobody}, raced : BOOLEAN]

TypeOK ==
    /\ StoreTypeOK
    /\ request \in [Request -> RequestRow]
    /\ device \in [Installation -> DeviceRow]
    /\ history \in [reset : Nat, change : Nat, changer : Session, staleEpoch : BOOLEAN,
                    staleKeys : SUBSET Client]

Init ==
    /\ account = [status |-> "active", authEpoch |-> 1, password |-> 1]
    /\ sessions = [s \in Session |->
         [state |-> IF s = Console THEN "live" ELSE "none", authEpoch |-> 1,
          recent |-> s = Console, password |-> 1, late |-> FALSE]]
    /\ spaces = [x \in Space |->
         [status |-> CASE x = Home -> "active" [] x = Asleep -> "deleting" [] OTHER -> "absent",
          restoreEpoch |-> 1]]
    /\ clients = [c \in Client |->
         [status |-> IF c = First THEN "active" ELSE "absent", space |-> Home,
          installation |-> Nobody]]
    /\ keys = [c \in Client |-> IF c = First THEN <<NewKey(1)>> ELSE <<>>]
    /\ request = [r \in Request |-> Fresh]
    /\ device = [d \in Installation |-> Idle]
    /\ history = [reset |-> 1, change |-> 1, changer |-> Console, staleEpoch |-> FALSE,
                  staleKeys |-> {}]

Step(r, from, to) ==
    /\ request[r].at = from
    /\ request' = [request EXCEPT ![r] = to]

Begun == Cardinality({r \in Request : request[r].at \notin {"new", "ended"}})
         + Cardinality({d \in Installation : device[d].at \notin {"idle", "open"}})

Start(r, to) == Begun < AtOnce /\ Step(r, "new", to)

At(r, at) == [request[r] EXCEPT !.at = at]

-----------------------------------------------------------------------------
(* Commands of the administrator *)

\* setAccountStatus and resetPassword read the account,
ReadForAdmin(r) ==
    /\ \E op \in {"active", "disabled", "reset password"} :
         Start(r, [Fresh EXCEPT
             !.at = IF op = "reset password" THEN "setPassword" ELSE "setStatus",
             !.op = op, !.authEpoch = account.authEpoch])
    /\ UNCHANGED <<store, device, history>>

RemembersStaleEpoch(r) ==
    history.staleEpoch \/ request[r].authEpoch # account.authEpoch

\* and write back the epoch they read, one as it is and the other raised.
SetStatus(r) ==
    /\ Step(r, "setStatus", IF request[r].op = "active" THEN Ended ELSE At(r, "revokeSessions"))
    /\ UpdateAccount(request[r].op, request[r].authEpoch)
    /\ history' = [history EXCEPT !.staleEpoch = RemembersStaleEpoch(r)]
    /\ UNCHANGED <<sessions, spaces, clients, keys, device>>

\* Mutant: a reset leaves the epoch.
EpochAsRead(r) == request[r].authEpoch

EpochOfReset(r) == request[r].authEpoch + 1

SetPassword(r) ==
    /\ Step(r, "setPassword", At(r, "revokeSessions"))
    /\ UpdatePassword(EpochOfReset(r))
    /\ history' = [history EXCEPT !.reset = account.password + 1,
                                  !.staleEpoch = RemembersStaleEpoch(r)]
    /\ UNCHANGED <<sessions, spaces, clients, keys, device>>

\* The command line is composed without the registry of the server's process, so
\* that its closeAccount reaches no socket.
RevokeSessions(r) ==
    /\ Step(r, "revokeSessions", Ended)
    /\ RevokeAccountSessions({})
    /\ UNCHANGED <<account, spaces, clients, keys, device, history>>

-----------------------------------------------------------------------------
(* Sessions of the console *)

\* login reads the account and verifies the password against it,
Login(r) ==
    /\ account.status = "active"
    /\ Start(r, [Fresh EXCEPT !.at = "createSession",
                                    !.authEpoch = account.authEpoch,
                                    !.password = account.password])
    /\ UNCHANGED <<store, device, history>>

CreateSession(r) ==
    /\ Step(r, "createSession", Ended)
    /\ \E s \in Session :
         InsertSession(s, request[r].authEpoch, request[r].password, request[r].late)
    /\ UNCHANGED <<account, spaces, clients, keys, device, history>>

\* Every request of the console finds its session,
FindSession(r) ==
    /\ \E s \in Session :
         /\ sessions[s].state = "live"
         /\ Start(r, [Fresh EXCEPT !.at = "account", !.session = s])
    /\ UNCHANGED <<store, device, history>>

Accepted(s) == account.status = "active" /\ account.authEpoch = sessions[s].authEpoch

\* then the account it belongs to,
Authenticate(r) ==
    /\ Accepted(request[r].session)
    /\ Step(r, "account", [request[r] EXCEPT !.at = "ready",
                             !.authEpoch = account.authEpoch,
                             !.password = account.password,
                             !.recent = sessions[request[r].session].recent])
    /\ UNCHANGED <<store, device, history>>

\* and revokes the session when it turns out to have expired.
ExpireSession(r) ==
    /\ Accepted(request[r].session)
    /\ Step(r, "account", Ended)
    /\ RevokeSession(request[r].session)
    /\ UNCHANGED <<account, spaces, clients, keys, device, history>>

Reauthenticate(r) ==
    /\ Step(r, "ready", Ended)
    /\ AuthenticatedRecently(request[r].session)
    /\ UNCHANGED <<account, spaces, clients, keys, device, history>>

Logout(r) ==
    /\ Step(r, "ready", Ended)
    /\ RevokeSession(request[r].session)
    /\ UNCHANGED <<account, spaces, clients, keys, device, history>>

RevokeOtherSessions(r) ==
    /\ request[r].recent
    /\ Step(r, "ready", Ended)
    /\ RevokeAccountSessions({request[r].session})
    /\ UNCHANGED <<account, spaces, clients, keys, device, history>>

\* changePassword verifies the old one against the account of the context, and
\* leaves the epoch to whatever it is by now.
ChangePassword(r) ==
    /\ Step(r, "ready", [At(r, "revokeOthers") EXCEPT !.password = account.password + 1])
    /\ UpdatePassword(account.authEpoch)
    /\ UNCHANGED <<sessions, spaces, clients, keys, device, history>>

\* Logins that verified an earlier password, and have no session yet, are late.
RevokeOthers(r) ==
    /\ request[r].at = "revokeOthers"
    /\ RevokeAccountSessions({request[r].session})
    /\ request' = [q \in Request |->
         IF q = r THEN Ended
         ELSE [request[q] EXCEPT !.late = @ \/ request[q].at = "createSession"]]
    /\ history' = [history EXCEPT
         !.change = IF request[r].password > @ THEN request[r].password ELSE @,
         !.changer = IF request[r].password > history.change THEN request[r].session ELSE @]
    /\ UNCHANGED <<account, spaces, clients, keys, device>>

-----------------------------------------------------------------------------
(* Devices: authenticateClient, then a sync session or a socket *)

PresentKey(d) ==
    /\ Begun < AtOnce
    /\ device[d].at = "idle"
    /\ \E c \in Client : \E i \in UsableKeys(c) :
         device' = [device EXCEPT ![d] = [Idle EXCEPT !.at = "account", !.client = c, !.key = i]]
    /\ UNCHANGED <<store, request, history>>

Read(d, from, allowed, to) ==
    /\ device[d].at = from
    /\ device' = [device EXCEPT ![d] = IF allowed THEN to ELSE Idle]
    /\ UNCHANGED <<store, request, history>>

KeyOf(d) == keys[device[d].client][device[d].key]

ReadAccount(d) ==
    Read(d, "account",
         account.status = "active" /\ account.authEpoch = KeyOf(d).authEpoch,
         [device[d] EXCEPT !.at = "space"])

ReadSpace(d) ==
    Read(d, "space", spaces[clients[device[d].client].space].status = "active",
         [device[d] EXCEPT !.at = "client"])

ReadClient(d) ==
    Read(d, "client", clients[device[d].client].status = "active",
         [device[d] EXCEPT !.at = "granted", !.bound = clients[device[d].client].installation])

Bind(d) ==
    /\ device[d].at = "granted"
    /\ device' = [device EXCEPT ![d] = Idle]
    /\ BindInstallation(device[d].client, d)
    /\ UNCHANGED <<account, sessions, spaces, keys, request, history>>

\* The socket is registered when the context came from the device it is bound to.
Register(d) == Read(d, "granted", device[d].bound = d, [device[d] EXCEPT !.at = "open"])

Disconnect(d) == Read(d, "open", FALSE, Idle)

Sockets(c) == {d \in Installation : device[d].at = "open" /\ device[d].client = c}

\* Mutant: the sockets there are stay open.
CloseNone(c) == {}

ToClose(c) == Sockets(c)

\* closeClient and closeSpace close the sockets there are.  A device on its way has
\* read its key, and the space or the client too from some step on.
Close(cs, past) ==
    device' = [d \in Installation |->
        CASE device[d].client \in cs /\ d \in ToClose(device[d].client) -> Idle
          [] device[d].client \in cs /\ device[d].at \in past -> [device[d] EXCEPT !.raced = TRUE]
          [] OTHER -> device[d]]

-----------------------------------------------------------------------------
(* Spaces *)

CreateSpace(r) ==
    /\ Step(r, "ready", Ended)
    /\ \E x \in Space : InsertSpace(x)
    /\ UNCHANGED <<account, sessions, clients, keys, device, history>>

UpdateSpace(r) ==
    /\ \E x \in Space : \E status \in {"active", "inactive"} :
         /\ Step(r, "ready", IF status = "active" THEN Ended
                             ELSE [At(r, "closeSpace") EXCEPT !.space = x])
         /\ WriteSpace(x, status, spaces[x].restoreEpoch)
    /\ UNCHANGED <<account, sessions, clients, keys, device, history>>

\* deleteSpace reads the space first, for a name that no other request changes.
DeleteSpace(r) ==
    /\ request[r].recent
    /\ \E x \in Space :
         /\ Step(r, "ready", [At(r, "closeSpace") EXCEPT !.space = x])
         /\ WriteSpace(x, "deleting", spaces[x].restoreEpoch)
    /\ UNCHANGED <<account, sessions, clients, keys, device, history>>

CloseSpace(r) ==
    /\ Step(r, "closeSpace", Ended)
    /\ Close({c \in Client : clients[c].space = request[r].space}, {"client", "granted"})
    /\ UNCHANGED <<store, history>>

\* restoreSpace finds the space in its days of grace,
ReadForRestore(r) ==
    /\ \E x \in Space :
         /\ spaces[x].status = "deleting"
         /\ Step(r, "ready", [At(r, "restoreSpace") EXCEPT
                                !.space = x, !.restoreEpoch = spaces[x].restoreEpoch])
    /\ UNCHANGED <<store, device, history>>

\* and makes it active in the epoch after the one it read.
RestoreSpace(r) ==
    /\ Step(r, "restoreSpace", Ended)
    /\ WriteSpace(request[r].space, "active", request[r].restoreEpoch + 1)
    /\ UNCHANGED <<account, sessions, clients, keys, device, history>>

-----------------------------------------------------------------------------
(* Clients and their keys *)

CreateClient(r) ==
    /\ request[r].recent
    /\ Step(r, "ready", Ended)
    /\ \E c \in Client : \E x \in Space :
         /\ spaces[x].status # "absent"
         /\ InsertClient(c, x, request[r].authEpoch)
    /\ UNCHANGED <<account, sessions, spaces, device, history>>

\* rotateKey, revokeClient and resetInstallation read the client,
RequireClient(r) ==
    /\ request[r].recent
    /\ \E c \in Client : \E op \in KeyOp :
         /\ clients[c].status \in (IF op \in {"revoke", "reset"} THEN {"active", "revoked"}
                                   ELSE {"active"})
         /\ Step(r, "ready", [At(r, "list") EXCEPT !.client = c, !.op = op])
    /\ UNCHANGED <<store, device, history>>

\* and then its keys: a rotation those in use, the others all.
ListKeys(r) ==
    LET c == request[r].client
        rotates == request[r].op \in {"rotate", "rotate with overlap"}
    IN  /\ Step(r, "list", [request[r] EXCEPT
             !.at = IF request[r].op = "revoke" THEN "revokeKeys" ELSE "replaceKey",
             !.listed = IF rotates THEN UsableKeys(c) ELSE DOMAIN keys[c]])
        /\ UNCHANGED <<store, device, history>>

\* Mutant: all the keys in use stay until the overlap ends.
KeptAll(r) == IF request[r].op = "rotate with overlap" THEN request[r].listed ELSE {}

\* The last of the listed keys, when a rotation leaves an overlap.
Kept(r) ==
    {i \in request[r].listed :
        request[r].op = "rotate with overlap" /\ \A j \in request[r].listed : j <= i}

Crossed(c, listed) ==
    IF UsableKeys(c) \subseteq listed THEN history
    ELSE [history EXCEPT !.staleKeys = @ \union {c}]

RotateKey(r) ==
    LET c == request[r].client IN
        /\ request[r].op # "reset"
        /\ Step(r, "replaceKey", At(r, "closeClient"))
        /\ ReplaceClientKey(c, request[r].listed \ Kept(r), Kept(r), request[r].authEpoch)
        /\ history' = Crossed(c, request[r].listed)
        /\ UNCHANGED <<account, sessions, spaces, clients, device>>

ResetInstallation(r) ==
    LET c == request[r].client IN
        /\ request[r].op = "reset"
        /\ Step(r, "replaceKey", At(r, "closeClient"))
        /\ ReplaceClientKey(c, request[r].listed, {}, request[r].authEpoch)
        /\ ReactivateUnbound(c)
        /\ history' = Crossed(c, request[r].listed)
        /\ UNCHANGED <<account, sessions, spaces, device>>

RevokeKey(r) ==
    /\ request[r].listed # {}
    /\ LET i == CHOOSE j \in request[r].listed : \A k \in request[r].listed : j <= k
       IN  /\ Step(r, "revokeKeys", [request[r] EXCEPT !.listed = @ \ {i}])
           /\ RevokeGeneration(request[r].client, i)
    /\ UNCHANGED <<account, sessions, spaces, clients, device, history>>

RevokeClient(r) ==
    /\ request[r].listed = {}
    /\ Step(r, "revokeKeys", At(r, "closeClient"))
    /\ RevokeClientRow(request[r].client)
    /\ UNCHANGED <<account, sessions, spaces, keys, device, history>>

CloseClient(r) ==
    /\ Step(r, "closeClient", Ended)
    /\ Close({request[r].client}, {"account", "space", "client", "granted"})
    /\ UNCHANGED <<store, history>>

OverlapEnds ==
    /\ \E c \in Client : \E i \in DOMAIN keys[c] : KeyExpires(c, i)
    /\ UNCHANGED <<account, sessions, spaces, clients, request, device, history>>

-----------------------------------------------------------------------------

Next ==
    \/ \E r \in Request :
        \/ ReadForAdmin(r) \/ SetStatus(r) \/ SetPassword(r) \/ RevokeSessions(r)
        \/ Login(r) \/ CreateSession(r) \/ FindSession(r) \/ Authenticate(r) \/ ExpireSession(r)
        \/ Reauthenticate(r) \/ Logout(r) \/ RevokeOtherSessions(r)
        \/ ChangePassword(r) \/ RevokeOthers(r)
        \/ CreateSpace(r) \/ UpdateSpace(r) \/ DeleteSpace(r) \/ CloseSpace(r)
        \/ ReadForRestore(r) \/ RestoreSpace(r)
        \/ CreateClient(r) \/ RequireClient(r) \/ ListKeys(r) \/ RotateKey(r)
        \/ ResetInstallation(r) \/ RevokeKey(r) \/ RevokeClient(r) \/ CloseClient(r)
    \/ \E d \in Installation :
        \/ PresentKey(d) \/ ReadAccount(d) \/ ReadSpace(d) \/ ReadClient(d)
        \/ Bind(d) \/ Register(d) \/ Disconnect(d)
    \/ OverlapEnds

Spec == Init /\ [][Next]_vars

-----------------------------------------------------------------------------
(* Properties *)

\* What authenticateSession accepts.
Valid(s) ==
    /\ sessions[s].state = "live"
    /\ account.status = "active"
    /\ sessions[s].authEpoch = account.authEpoch

\* After the administrator reset the password no session is valid whose login
\* verified an earlier one, also when the login was under way: the reset raised the
\* epoch.  A command that wrote back an epoch somebody else had changed voids this.
ResetEndsSessions ==
    ~history.staleEpoch =>
        \A s \in Session : Valid(s) => sessions[s].password >= history.reset

\* Once a change of password is done, the session that made it is the only valid
\* one that an earlier password opened, but for logins that were under way.
ChangeEndsOtherSessions ==
    \A s \in Session :
        Valid(s) /\ sessions[s].password < history.change
            => s = history.changer \/ sessions[s].late

\* A request that has still to close the sockets of the client.
Closing(c) ==
    \E r \in Request :
        \/ request[r].at \in {"revokeKeys", "closeClient"} /\ request[r].client = c
        \/ request[r].at = "closeSpace" /\ request[r].space = clients[c].space

\* A socket belongs to the device its client is bound to, and neither the key, the
\* client nor the space has been revoked since; unless the request that did so is
\* not done, or the socket was being opened while it was.
SocketsAreAuthorised ==
    \A c \in Client : \A d \in Sockets(c) :
        \/ /\ ~KeyOf(d).revoked
           /\ clients[c].status = "active"
           /\ clients[c].installation = d
           /\ spaces[clients[c].space].status = "active"
        \/ device[d].raced
        \/ Closing(c)

\* Requests side by side, of one administrator or several, never keep more spaces
\* or clients active than the limits.
WithinLimits ==
    /\ Cardinality(ActiveSpaces) <= SpaceLimit
    /\ \A x \in Space : Cardinality(ActiveClients(x)) <= ClientLimit

\* An active client has a key that works now and does not expire, whichever
\* rotations, resets and revocations crossed; unless a revocation is half done.
ActiveClientHasKey ==
    \A c \in Client :
        clients[c].status = "active" =>
            \/ \E i \in DOMAIN keys[c] : ~keys[c][i].revoked /\ keys[c][i].expires = "never"
            \/ \E r \in Request : request[r].at = "revokeKeys" /\ request[r].client = c

\* A client has at most two keys in use, unless two of its key requests crossed.
TwoKeysAtMost ==
    \A c \in Client \ history.staleKeys : Cardinality(UsableKeys(c)) <= 2

\* A device that is bound stays bound until the installation is reset: two devices
\* with the same key cannot both come to be accepted.
BoundUntilReset ==
    [][\A c \in Client :
         clients[c].installation # Nobody =>
             clients'[c].installation \in {clients[c].installation, Nobody}]_vars

=============================================================================
