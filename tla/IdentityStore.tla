---------------------------- MODULE IdentityStore ----------------------------
(***************************************************************************)
(* The identity tables of one account and the transactions on them of      *)
(* src/db/identity-store.js, with the triggers that bound the number of    *)
(* active spaces and clients.  Each operator is one transaction; accounts  *)
(* do not meet, so one of them is enough.                                  *)
(***************************************************************************)
EXTENDS Naturals, FiniteSets, Sequences

CONSTANTS
    Session, Space, Client,
    Installation,    \* devices
    Nobody,          \* no device
    SpaceLimit,      \* how many spaces of the account may be active,
    ClientLimit      \* and how many clients of a space

\* The columns of structural_limits are checked to be at least one.
ASSUME StoreAssumption ==
    /\ Nobody \notin Installation
    /\ SpaceLimit \in Nat \ {0}
    /\ ClientLimit \in Nat \ {0}

VARIABLES
    account,
    sessions,
    spaces,
    clients,
    keys             \* the key generations of each client, oldest first

store == <<account, sessions, spaces, clients, keys>>

-----------------------------------------------------------------------------

\* "disabled" stands for every status other than active.  Password hashes are
\* numbered in the order they are written.
Account == [status : {"active", "disabled"}, authEpoch : Nat, password : Nat]

\* password and late are history: the hash the login verified, and whether a change
\* of password revoked the other sessions before this one was inserted.
SessionRow == [state : {"none", "live", "revoked"}, authEpoch : Nat, recent : BOOLEAN,
               password : Nat, late : BOOLEAN]

SpaceRow == [status : {"absent", "active", "inactive", "deleting"}, restoreEpoch : Nat]

ClientRow == [status : {"absent", "active", "revoked"}, space : Space,
              installation : Installation \union {Nobody}]

KeyGeneration == [authEpoch : Nat, revoked : BOOLEAN, expires : {"never", "later", "past"}]

StoreTypeOK ==
    /\ account \in Account
    /\ sessions \in [Session -> SessionRow]
    /\ spaces \in [Space -> SpaceRow]
    /\ clients \in [Client -> ClientRow]
    /\ keys \in [Client -> Seq(KeyGeneration)]

\* Mutant: the insert leaves a column out.
NewKeyWithoutExpiry(authEpoch) == [authEpoch |-> authEpoch, revoked |-> FALSE]

NewKey(authEpoch) == [authEpoch |-> authEpoch, revoked |-> FALSE, expires |-> "never"]

ActiveSpaces == {x \in Space : spaces[x].status = "active"}
ActiveClients(x) == {c \in Client : clients[c].status = "active" /\ clients[c].space = x}

Usable(key) == ~key.revoked /\ key.expires # "past"
UsableKeys(c) == {i \in DOMAIN keys[c] : Usable(keys[c][i])}

-----------------------------------------------------------------------------
(* Accounts and sessions *)

UpdateAccount(status, authEpoch) ==
    account' = [account EXCEPT !.status = status, !.authEpoch = authEpoch]

UpdatePassword(authEpoch) ==
    account' = [account EXCEPT !.password = @ + 1, !.authEpoch = authEpoch]

InsertSession(s, authEpoch, password, late) ==
    /\ sessions[s].state = "none"
    /\ sessions' = [sessions EXCEPT ![s] =
                      [state |-> "live", authEpoch |-> authEpoch, recent |-> FALSE,
                       password |-> password, late |-> late]]

RevokeSession(s) == sessions' = [sessions EXCEPT ![s].state = "revoked"]

AuthenticatedRecently(s) == sessions' = [sessions EXCEPT ![s].recent = TRUE]

\* Mutant: only sessions of earlier epochs are revoked.
RevokeSessionsOfOtherEpochs(kept) ==
    sessions' = [s \in Session |->
        IF sessions[s].state = "live" /\ sessions[s].authEpoch # account.authEpoch
        THEN [sessions[s] EXCEPT !.state = "revoked"]
        ELSE sessions[s]]

RevokeAccountSessions(kept) ==
    sessions' = [s \in Session |->
        IF s \notin kept /\ sessions[s].state = "live"
        THEN [sessions[s] EXCEPT !.state = "revoked"]
        ELSE sessions[s]]

-----------------------------------------------------------------------------
(* Spaces.  The triggers lock the account's or the space's row before they *)
(* count, so that a count and the write it allows are one step.            *)

\* Mutant: only an insert counts.
SpaceMayBecomeUnlessAbsent(x, status) ==
    spaces[x].status = "absent" => Cardinality(ActiveSpaces) < SpaceLimit

SpaceMayBecome(x, status) ==
    status = "active" /\ spaces[x].status # "active" => Cardinality(ActiveSpaces) < SpaceLimit

InsertSpace(x) ==
    /\ spaces[x].status = "absent"
    /\ SpaceMayBecome(x, "active")
    /\ spaces' = [spaces EXCEPT ![x] = [status |-> "active", restoreEpoch |-> 1]]

WriteSpace(x, status, restoreEpoch) ==
    /\ spaces[x].status # "absent"
    /\ SpaceMayBecome(x, status)
    /\ spaces' = [spaces EXCEPT ![x] = [status |-> status, restoreEpoch |-> restoreEpoch]]

-----------------------------------------------------------------------------
(* Clients and their keys *)

ClientMayBecomeActive(c, x) ==
    clients[c].status # "active" => Cardinality(ActiveClients(x)) < ClientLimit

InsertClient(c, x, authEpoch) ==
    /\ clients[c].status = "absent"
    /\ ClientMayBecomeActive(c, x)
    /\ clients' = [clients EXCEPT ![c] =
                     [status |-> "active", space |-> x, installation |-> Nobody]]
    /\ keys' = [keys EXCEPT ![c] = <<NewKey(authEpoch)>>]

RevokeClientRow(c) == clients' = [clients EXCEPT ![c].status = "revoked"]

RevokeGeneration(c, i) == keys' = [keys EXCEPT ![c][i].revoked = TRUE]

Retired(c, revoked, expiring) ==
    [i \in DOMAIN keys[c] |->
        CASE i \in revoked -> [keys[c][i] EXCEPT !.revoked = TRUE]
          [] i \in expiring -> [keys[c][i] EXCEPT !.expires = "later"]
          [] OTHER -> keys[c][i]]

\* Mutant: everything that is there when the client's row is locked is retired,
\* the new generation included.
AllRetired(c, revoked, expiring, authEpoch) ==
    keys' = [keys EXCEPT ![c] =
               [i \in 1 .. Len(@) + 1 |->
                  [(Append(@, NewKey(authEpoch))[i]) EXCEPT !.revoked = TRUE]]]

\* The generations listed earlier are retired, one is added; whatever else has
\* been added meanwhile is left alone.
ReplaceClientKey(c, revoked, expiring, authEpoch) ==
    keys' = [keys EXCEPT ![c] = Append(Retired(c, revoked, expiring), NewKey(authEpoch))]

\* The patch of resetInstallation, in the same transaction.
ReactivateUnbound(c) ==
    /\ ClientMayBecomeActive(c, clients[c].space)
    /\ clients' = [clients EXCEPT ![c].status = "active", ![c].installation = Nobody]

\* Mutant: who is bound already does not matter.
MayBindAlways(c, d) == clients[c].status = "active"

MayBind(c, d) ==
    clients[c].status = "active" /\ clients[c].installation \in {Nobody, d}

BindInstallation(c, d) ==
    clients' = IF MayBind(c, d) THEN [clients EXCEPT ![c].installation = d] ELSE clients

KeyExpires(c, i) ==
    /\ keys[c][i].expires = "later"
    /\ keys' = [keys EXCEPT ![c][i].expires = "past"]
=============================================================================
