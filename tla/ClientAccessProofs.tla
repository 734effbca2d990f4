------------------------- MODULE ClientAccessProofs -------------------------
(***************************************************************************)
(* The safety properties of ClientAccess hold for any number of requests,  *)
(* devices, spaces, clients and sessions, and any limits of at least one.  *)
(*                                                                         *)
(* IInv has a part for each: LimitsKept counts under the triggers;         *)
(* ResetsOrdered and ChangesOrdered order what sessions, and logins under  *)
(* way, verified against the resets and changes since; DevicesAreAuthorised*)
(* says of every step of authenticateClient what it has read and who would *)
(* undo it.  Two lemmas carry most of the proofs: Writers (which actions   *)
(* write which variable) and Stages (which stages a request moves between).*)
(***************************************************************************)
EXTENDS ClientAccess, FiniteSetTheorems, TLAPS

\* The rows that requests and devices start from, and end with.
LEMMA Rows == Fresh \in RequestRow /\ Ended \in RequestRow /\ Idle \in DeviceRow
<1>1. Fresh \in RequestRow
  BY AccessAssumption DEF Fresh, RequestRow, RequestStage, Operation
<1>2. Ended \in RequestRow
  BY <1>1 DEF Ended, RequestRow, RequestStage
<1>3. Idle \in DeviceRow
  BY AccessAssumption DEF Idle, DeviceRow, DeviceStage
<1> QED BY <1>1, <1>2, <1>3

\* A request's row with one field written.
LEMMA RowWith ==
    ASSUME NEW row \in RequestRow
    PROVE  /\ \A v \in RequestStage : [row EXCEPT !.at = v] \in RequestRow
           /\ \A v \in Operation : [row EXCEPT !.op = v] \in RequestRow
           /\ \A v \in Session : [row EXCEPT !.session = v] \in RequestRow
           /\ \A v \in Space : [row EXCEPT !.space = v] \in RequestRow
           /\ \A v \in Client : [row EXCEPT !.client = v] \in RequestRow
           /\ \A v \in Nat : [row EXCEPT !.authEpoch = v] \in RequestRow
           /\ \A v \in Nat : [row EXCEPT !.password = v] \in RequestRow
           /\ \A v \in Nat : [row EXCEPT !.restoreEpoch = v] \in RequestRow
           /\ \A v \in BOOLEAN : [row EXCEPT !.recent = v] \in RequestRow
           /\ \A v \in SUBSET Nat : [row EXCEPT !.listed = v] \in RequestRow
           /\ \A v \in BOOLEAN : [row EXCEPT !.late = v] \in RequestRow
BY DEF RequestRow

\* A step to a well-typed row leaves the requests well-typed.
LEMMA StepTyped ==
    ASSUME request \in [Request -> RequestRow],
           NEW r \in Request, NEW from, NEW row \in RequestRow, Step(r, from, row)
    PROVE  request' \in [Request -> RequestRow]
BY DEF Step

\* What is listed of a client's keys are positions.
LEMMA ListedKeys ==
    ASSUME StoreTypeOK, NEW c \in Client
    PROVE  /\ UsableKeys(c) \in SUBSET Nat
           /\ DOMAIN keys[c] \in SUBSET Nat
BY DEF StoreTypeOK, UsableKeys

\* Every action leaves the requests well-typed: one step per action that reads
\* something new into a row, the others together.
LEMMA RequestTyped ==
    ASSUME TypeOK, [Next]_vars
    PROVE  request' \in [Request -> RequestRow]
<1> DEFINE Typed == request' \in [Request -> RequestRow]
<1>0. /\ request \in [Request -> RequestRow]
      /\ account \in Account
      /\ sessions \in [Session -> SessionRow]
      /\ spaces \in [Space -> SpaceRow]
      /\ StoreTypeOK
  BY DEF TypeOK, StoreTypeOK
<1>1. ASSUME NEW r \in Request, ReadForAdmin(r) PROVE Typed
  <2>1. PICK op \in {"active", "disabled", "reset password"} :
         Step(r, "new", [Fresh EXCEPT
             !.at = IF op = "reset password" THEN "setPassword" ELSE "setStatus",
             !.op = op, !.authEpoch = account.authEpoch])
    BY <1>1 DEF ReadForAdmin, Start
  <2>2. PICK at \in RequestStage : at = IF op = "reset password" THEN "setPassword" ELSE "setStatus"
    BY DEF RequestStage
  <2>3. op \in Operation /\ account.authEpoch \in Nat
    BY <1>0 DEF Operation, Account
  <2>4. [Fresh EXCEPT !.at = at, !.op = op, !.authEpoch = account.authEpoch] \in RequestRow
    BY <2>3, Rows, RowWith
  <2> QED BY <1>0, <2>1, <2>2, <2>4, StepTyped
<1>2. ASSUME NEW r \in Request, RevokeOthers(r) PROVE Typed
  <2>1. ASSUME NEW q \in Request, NEW late \in BOOLEAN
        PROVE  [request[q] EXCEPT !.late = late] \in RequestRow
    BY <1>0, RowWith
  <2>2. ASSUME NEW q \in Request
        PROVE  (request[q].late \/ request[q].at = "createSession") \in BOOLEAN
    OBVIOUS
  <2> QED BY <1>2, <1>0, <2>1, <2>2, Rows DEF RevokeOthers
<1>3. ASSUME NEW r \in Request, ListKeys(r) PROVE Typed
  <2>1. PICK at \in RequestStage :
          at = IF request[r].op = "revoke" THEN "revokeKeys" ELSE "replaceKey"
    BY DEF RequestStage
  <2>2. request[r].client \in Client
    BY <1>0 DEF RequestRow
  <2>3. PICK listed \in SUBSET Nat : listed =
          IF request[r].op \in {"rotate", "rotate with overlap"}
          THEN UsableKeys(request[r].client) ELSE DOMAIN keys[request[r].client]
    BY <1>0, <2>2, ListedKeys
  <2>4. [request[r] EXCEPT !.at = at, !.listed = listed] \in RequestRow
    BY <1>0, RowWith
  <2>5. Step(r, "list", [request[r] EXCEPT !.at = at, !.listed = listed])
    BY <1>3, <2>1, <2>3 DEF ListKeys
  <2> QED BY <1>0, <2>4, <2>5, StepTyped
<1>4. ASSUME NEW r \in Request, RevokeKey(r) PROVE Typed
  <2>1. PICK i : Step(r, "revokeKeys", [request[r] EXCEPT !.listed = @ \ {i}])
    BY <1>4 DEF RevokeKey
  <2>2. request[r].listed \ {i} \in SUBSET Nat
    BY <1>0 DEF RequestRow
  <2> QED BY <1>0, <2>1, <2>2, RowWith, StepTyped
<1>5. ASSUME NEW r \in Request, ReadForRestore(r) PROVE Typed
  <2>1. PICK x \in Space : Step(r, "ready", [At(r, "restoreSpace") EXCEPT
                                !.space = x, !.restoreEpoch = spaces[x].restoreEpoch])
    BY <1>5 DEF ReadForRestore
  <2>2. spaces[x].restoreEpoch \in Nat
    BY <1>0 DEF SpaceRow
  <2> QED BY <1>0, <2>1, <2>2, RowWith, StepTyped DEF At, RequestStage
<1>6. ASSUME NEW r \in Request, ChangePassword(r) PROVE Typed
  <2>1. account.password + 1 \in Nat
    BY <1>0 DEF Account
  <2> QED BY <1>0, <1>6, <2>1, RowWith, StepTyped DEF ChangePassword, At, RequestStage
<1>7. ASSUME NEW r \in Request, CreateSession(r) \/ RevokeSessions(r) \/ ExpireSession(r)
             \/ Reauthenticate(r) \/ Logout(r) \/ RevokeOtherSessions(r) \/ CreateSpace(r)
             \/ RestoreSpace(r) \/ CreateClient(r) \/ CloseSpace(r) \/ CloseClient(r)
      PROVE  Typed
  BY <1>7, <1>0, Rows, StepTyped
     DEF CreateSession, RevokeSessions, ExpireSession, Reauthenticate, Logout,
         RevokeOtherSessions, CreateSpace, RestoreSpace, CreateClient, CloseSpace, CloseClient
<1>8. ASSUME NEW r \in Request, SetStatus(r) \/ SetPassword(r) \/ RotateKey(r)
             \/ ResetInstallation(r) \/ RevokeClient(r)
      PROVE  Typed
  BY <1>8, <1>0, Rows, RowWith, StepTyped
     DEF SetStatus, SetPassword, RotateKey, ResetInstallation, RevokeClient, At, RequestStage
<1>9. ASSUME NEW r \in Request, UpdateSpace(r) PROVE Typed
  BY <1>9, <1>0, Rows, RowWith, StepTyped DEF UpdateSpace, At, RequestStage
<1>10. ASSUME NEW r \in Request, DeleteSpace(r) PROVE Typed
  BY <1>10, <1>0, Rows, RowWith, StepTyped DEF DeleteSpace, At, RequestStage
<1>11. ASSUME NEW r \in Request, Login(r) PROVE Typed
  BY <1>11, <1>0, Rows, RowWith, StepTyped DEF Login, Start, Account, RequestStage
<1>12. ASSUME NEW r \in Request, FindSession(r) PROVE Typed
  BY <1>12, <1>0, Rows, RowWith, StepTyped DEF FindSession, Start, RequestStage
<1>13. ASSUME NEW r \in Request, Authenticate(r) PROVE Typed
  <2>1. request[r].session \in Session
    BY <1>0 DEF RequestRow
  <2>2. /\ account.authEpoch \in Nat /\ account.password \in Nat
        /\ sessions[request[r].session].recent \in BOOLEAN
    BY <1>0, <2>1 DEF Account, SessionRow
  <2> QED BY <1>13, <1>0, <2>2, RowWith, StepTyped DEF Authenticate, RequestStage
<1>14. ASSUME NEW r \in Request, RequireClient(r) PROVE Typed
  BY <1>14, <1>0, Rows, RowWith, StepTyped DEF RequireClient, At, Operation, RequestStage
<1>15. ASSUME NEW d \in Installation,
              PresentKey(d) \/ ReadAccount(d) \/ ReadSpace(d) \/ ReadClient(d)
              \/ Bind(d) \/ Register(d) \/ Disconnect(d)
       PROVE  Typed
  BY <1>15, <1>0 DEF PresentKey, ReadAccount, ReadSpace, ReadClient, Bind, Register, Disconnect, Read
<1>16. ASSUME OverlapEnds \/ UNCHANGED vars PROVE Typed
  BY <1>16, <1>0 DEF OverlapEnds, vars
<1> QED BY <1>1, <1>2, <1>3, <1>4, <1>5, <1>6, <1>7, <1>8, <1>9, <1>10, <1>11, <1>12, <1>13,
           <1>14, <1>15, <1>16 DEF Next

\* The store's rows with one field written.
LEMMA StoreRowWith ==
    /\ \A row \in SessionRow :
         /\ [row EXCEPT !.state = "revoked"] \in SessionRow
         /\ [row EXCEPT !.recent = TRUE] \in SessionRow
    /\ \A row \in ClientRow :
         /\ \A v \in {"active", "revoked"} : [row EXCEPT !.status = v] \in ClientRow
         /\ \A v \in Installation \union {Nobody} : [row EXCEPT !.installation = v] \in ClientRow
    /\ \A row \in KeyGeneration :
         /\ [row EXCEPT !.revoked = TRUE] \in KeyGeneration
         /\ \A v \in {"later", "past"} : [row EXCEPT !.expires = v] \in KeyGeneration
    /\ \A n \in Nat : NewKey(n) \in KeyGeneration
<1>1. \A row \in SessionRow :
         /\ [row EXCEPT !.state = "revoked"] \in SessionRow
         /\ [row EXCEPT !.recent = TRUE] \in SessionRow
  BY DEF SessionRow
<1>2. \A row \in ClientRow :
         /\ \A v \in {"active", "revoked"} : [row EXCEPT !.status = v] \in ClientRow
         /\ \A v \in Installation \union {Nobody} : [row EXCEPT !.installation = v] \in ClientRow
  BY DEF ClientRow
<1>3. \A row \in KeyGeneration :
         /\ [row EXCEPT !.revoked = TRUE] \in KeyGeneration
         /\ \A v \in {"later", "past"} : [row EXCEPT !.expires = v] \in KeyGeneration
  BY DEF KeyGeneration
<1>4. \A n \in Nat : NewKey(n) \in KeyGeneration
  BY DEF NewKey, KeyGeneration
<1> QED BY <1>1, <1>2, <1>3, <1>4

\* A request's row, and its fields.
LEMMA RowFields ==
    ASSUME request \in [Request -> RequestRow], NEW r \in Request
    PROVE  /\ request[r] \in RequestRow
           /\ request[r].session \in Session /\ request[r].space \in Space
           /\ request[r].client \in Client
           /\ request[r].authEpoch \in Nat /\ request[r].password \in Nat
           /\ request[r].restoreEpoch \in Nat
           /\ request[r].late \in BOOLEAN /\ request[r].listed \in SUBSET Nat
BY DEF RequestRow

\* Which actions write which variable.
LEMMA Writers ==
    ASSUME [Next]_vars
    PROVE  /\ \/ UNCHANGED account
              \/ \E r \in Request : SetStatus(r) \/ SetPassword(r) \/ ChangePassword(r)
           /\ \/ UNCHANGED sessions
              \/ \E r \in Request :
                   \/ CreateSession(r) \/ RevokeSessions(r) \/ RevokeOtherSessions(r)
                   \/ RevokeOthers(r) \/ ExpireSession(r) \/ Reauthenticate(r) \/ Logout(r)
           /\ \/ UNCHANGED spaces
              \/ \E r \in Request :
                   CreateSpace(r) \/ UpdateSpace(r) \/ DeleteSpace(r) \/ RestoreSpace(r)
           /\ \/ UNCHANGED clients
              \/ \E r \in Request : CreateClient(r) \/ ResetInstallation(r) \/ RevokeClient(r)
              \/ \E d \in Installation : Bind(d)
           /\ \/ UNCHANGED keys
              \/ \E r \in Request :
                   CreateClient(r) \/ RotateKey(r) \/ ResetInstallation(r) \/ RevokeKey(r)
              \/ OverlapEnds
           /\ \/ UNCHANGED device
              \/ \E r \in Request : CloseSpace(r) \/ CloseClient(r)
              \/ \E d \in Installation :
                   \/ PresentKey(d) \/ ReadAccount(d) \/ ReadSpace(d) \/ ReadClient(d)
                   \/ Bind(d) \/ Register(d) \/ Disconnect(d)
           /\ \/ UNCHANGED history
              \/ \E r \in Request :
                   \/ SetStatus(r) \/ SetPassword(r) \/ RevokeOthers(r)
                   \/ RotateKey(r) \/ ResetInstallation(r)
BY ZenonT(60)
   DEF Next, vars, store, ReadForAdmin, SetStatus, SetPassword, RevokeSessions, Login,
       CreateSession, FindSession, Authenticate, ExpireSession, Reauthenticate, Logout,
       RevokeOtherSessions, ChangePassword, RevokeOthers, CreateSpace, UpdateSpace,
       DeleteSpace, CloseSpace, ReadForRestore, RestoreSpace, CreateClient, RequireClient,
       ListKeys, RotateKey, ResetInstallation, RevokeKey, RevokeClient, CloseClient,
       PresentKey, ReadAccount, ReadSpace, ReadClient, Bind, Register, Disconnect, Read,
       OverlapEnds

\* The sessions stay well-typed.
LEMMA SessionsTyped ==
    ASSUME TypeOK, [Next]_vars
    PROVE  sessions' \in [Session -> SessionRow]
<1> DEFINE Typed == sessions' \in [Session -> SessionRow]
<1>0. sessions \in [Session -> SessionRow] /\ request \in [Request -> RequestRow]
  BY DEF TypeOK, StoreTypeOK
<1>a. ASSUME NEW s \in Session, RevokeSession(s) \/ AuthenticatedRecently(s) PROVE Typed
  BY <1>a, <1>0, StoreRowWith DEF RevokeSession, AuthenticatedRecently
<1>b. ASSUME NEW kept, RevokeAccountSessions(kept) PROVE Typed
  BY <1>b, <1>0, StoreRowWith DEF RevokeAccountSessions
<1>1. ASSUME NEW r \in Request, CreateSession(r) PROVE Typed
  <2>1. PICK s \in Session :
          InsertSession(s, request[r].authEpoch, request[r].password, request[r].late)
    BY <1>1 DEF CreateSession
  <2>2. [state |-> "live", authEpoch |-> request[r].authEpoch, recent |-> FALSE,
         password |-> request[r].password, late |-> request[r].late] \in SessionRow
    BY <1>0, RowFields DEF SessionRow
  <2> QED BY <1>0, <2>1, <2>2 DEF InsertSession
<1>2. ASSUME NEW r \in Request, RevokeSessions(r) \/ RevokeOtherSessions(r) \/ RevokeOthers(r)
      PROVE  Typed
  BY <1>2, <1>b DEF RevokeSessions, RevokeOtherSessions, RevokeOthers
<1>3. ASSUME NEW r \in Request, ExpireSession(r) \/ Reauthenticate(r) \/ Logout(r)
      PROVE  Typed
  BY <1>3, <1>a, <1>0, RowFields DEF ExpireSession, Reauthenticate, Logout
<1> QED BY <1>0, <1>1, <1>2, <1>3, Writers

\* A status is written by a command that sets one.
StatusIsSet ==
    \A r \in Request : request[r].at = "setStatus" => request[r].op \in {"active", "disabled"}

\* The account stays well-typed; SetStatus writes only what a command may set.
LEMMA AccountTyped ==
    ASSUME TypeOK, StatusIsSet, [Next]_vars
    PROVE  account' \in Account
<1>0. account \in Account /\ request \in [Request -> RequestRow]
  BY DEF TypeOK, StoreTypeOK
<1>1. ASSUME NEW r \in Request, SetStatus(r) PROVE account' \in Account
  <2>1. request[r].op \in {"active", "disabled"} /\ request[r].authEpoch \in Nat
    BY <1>0, <1>1, RowFields DEF SetStatus, Step, StatusIsSet
  <2> QED BY <1>0, <1>1, <2>1 DEF SetStatus, UpdateAccount, Account
<1>2. ASSUME NEW r \in Request, SetPassword(r) \/ ChangePassword(r) PROVE account' \in Account
  <2>1. request[r].authEpoch + 1 \in Nat /\ account.authEpoch \in Nat
    BY <1>0, RowFields DEF Account
  <2>2. PICK n \in Nat : UpdatePassword(n)
    BY <1>2, <2>1 DEF SetPassword, ChangePassword, EpochOfReset
  <2>3. account.password + 1 \in Nat
    BY <1>0 DEF Account
  <2>4. \A m \in Nat : [account EXCEPT !.password = m, !.authEpoch = n] \in Account
    BY <1>0 DEF Account
  <2> QED BY <2>2, <2>3, <2>4 DEF UpdatePassword
<1> QED BY <1>0, <1>1, <1>2, Writers

\* The spaces stay well-typed.
LEMMA SpacesTyped ==
    ASSUME TypeOK, [Next]_vars
    PROVE  spaces' \in [Space -> SpaceRow]
<1>0. spaces \in [Space -> SpaceRow] /\ request \in [Request -> RequestRow]
  BY DEF TypeOK, StoreTypeOK
<1>1. ASSUME NEW x \in Space, InsertSpace(x) PROVE spaces' \in [Space -> SpaceRow]
  BY <1>0, <1>1 DEF InsertSpace, SpaceRow
<1>2. ASSUME NEW x \in Space, NEW status \in {"active", "inactive", "deleting"},
             NEW epoch \in Nat, WriteSpace(x, status, epoch)
      PROVE  spaces' \in [Space -> SpaceRow]
  BY <1>0, <1>2 DEF WriteSpace, SpaceRow
<1>3. ASSUME NEW r \in Request, CreateSpace(r) \/ UpdateSpace(r) \/ DeleteSpace(r) \/ RestoreSpace(r)
      PROVE  spaces' \in [Space -> SpaceRow]
  <2>1. \A x \in Space : spaces[x].restoreEpoch \in Nat
    BY <1>0 DEF SpaceRow
  <2>2. request[r].space \in Space /\ request[r].restoreEpoch + 1 \in Nat
    BY <1>0, RowFields
  <2> QED BY <1>1, <1>2, <1>3, <2>1, <2>2 DEF CreateSpace, UpdateSpace, DeleteSpace, RestoreSpace
<1> QED BY <1>0, <1>3, Writers

\* The clients stay well-typed.
LEMMA ClientsTyped ==
    ASSUME TypeOK, [Next]_vars
    PROVE  clients' \in [Client -> ClientRow]
<1> DEFINE Typed == clients' \in [Client -> ClientRow]
<1>0. /\ clients \in [Client -> ClientRow] /\ request \in [Request -> RequestRow]
      /\ device \in [Installation -> DeviceRow]
  BY DEF TypeOK, StoreTypeOK
<1>1. ASSUME NEW r \in Request, CreateClient(r) PROVE Typed
  <2>1. PICK c \in Client, x \in Space : InsertClient(c, x, request[r].authEpoch)
    BY <1>1 DEF CreateClient
  <2> QED BY <1>0, <2>1 DEF InsertClient, ClientRow
<1>2. ASSUME NEW r \in Request, ResetInstallation(r) PROVE Typed
  <2>1. clients[request[r].client] \in ClientRow
    BY <1>0, RowFields
  <2>2. [clients[request[r].client] EXCEPT !.status = "active", !.installation = Nobody] \in ClientRow
    BY <2>1, StoreRowWith
  <2>3. clients' = [clients EXCEPT ![request[r].client] =
           [clients[request[r].client] EXCEPT !.status = "active", !.installation = Nobody]]
    BY <1>0, <1>2, RowFields DEF ResetInstallation, ReactivateUnbound
  <2> QED BY <1>0, <2>2, <2>3
<1>3. ASSUME NEW r \in Request, RevokeClient(r) PROVE Typed
  BY <1>0, <1>3, StoreRowWith DEF RevokeClient, RevokeClientRow
<1>4. ASSUME NEW d \in Installation, Bind(d) PROVE Typed
  BY <1>0, <1>4, StoreRowWith DEF Bind, BindInstallation
<1> QED BY <1>0, <1>1, <1>2, <1>3, <1>4, Writers

\* Writing a generation leaves a sequence of generations.
LEMMA KeyWritten ==
    ASSUME NEW s \in Seq(KeyGeneration), NEW i, NEW k, i \in DOMAIN s => k \in KeyGeneration
    PROVE  [s EXCEPT ![i] = k] \in Seq(KeyGeneration)
<1>1. s \in [1 .. Len(s) -> KeyGeneration] /\ DOMAIN s = 1 .. Len(s) /\ Len(s) \in Nat
  OBVIOUS
<1>2. [s EXCEPT ![i] = k] \in [1 .. Len(s) -> KeyGeneration]
  BY <1>1
<1> QED BY <1>1, <1>2

\* The key generations stay sequences of well-typed generations.
LEMMA KeysTyped ==
    ASSUME TypeOK, [Next]_vars
    PROVE  keys' \in [Client -> Seq(KeyGeneration)]
<1> DEFINE Typed == keys' \in [Client -> Seq(KeyGeneration)]
<1>0. keys \in [Client -> Seq(KeyGeneration)] /\ request \in [Request -> RequestRow]
  BY DEF TypeOK, StoreTypeOK
<1>1. ASSUME NEW r \in Request, CreateClient(r) PROVE Typed
  <2>1. PICK c \in Client : keys' = [keys EXCEPT ![c] = <<NewKey(request[r].authEpoch)>>]
    BY <1>1 DEF CreateClient, InsertClient
  <2>2. <<NewKey(request[r].authEpoch)>> \in Seq(KeyGeneration)
    BY <1>0, RowFields, StoreRowWith
  <2> QED BY <1>0, <2>1, <2>2
<1>2. ASSUME NEW r \in Request, RotateKey(r) \/ ResetInstallation(r) PROVE Typed
  <2> DEFINE c == request[r].client
  <2>1. PICK revoked, expiring : ReplaceClientKey(c, revoked, expiring, request[r].authEpoch)
    BY <1>2 DEF RotateKey, ResetInstallation
  <2>2. c \in Client /\ keys[c] \in Seq(KeyGeneration) /\ NewKey(request[r].authEpoch) \in KeyGeneration
    BY <1>0, RowFields, StoreRowWith
  <2>3. ASSUME NEW i \in DOMAIN keys[c]
        PROVE  Retired(c, revoked, expiring)[i] \in KeyGeneration
    <3>1. keys[c][i] \in KeyGeneration
      BY <2>2
    <3> QED BY <3>1, StoreRowWith DEF Retired
  <2>4. Retired(c, revoked, expiring) \in Seq(KeyGeneration)
    <3>1. Retired(c, revoked, expiring) = [i \in DOMAIN keys[c] |-> Retired(c, revoked, expiring)[i]]
      BY DEF Retired
    <3>2. DOMAIN keys[c] = 1 .. Len(keys[c]) /\ Len(keys[c]) \in Nat
      BY <2>2
    <3>3. Retired(c, revoked, expiring) \in [1 .. Len(keys[c]) -> KeyGeneration]
      BY <2>3, <3>1, <3>2
    <3> QED BY <3>2, <3>3
  <2> HIDE DEF c
  <2>5. Append(Retired(c, revoked, expiring), NewKey(request[r].authEpoch)) \in Seq(KeyGeneration)
    BY <2>2, <2>4
  <2> QED BY <1>0, <2>1, <2>2, <2>5 DEF ReplaceClientKey
<1>3. ASSUME NEW c \in Client, NEW i, NEW k, i \in DOMAIN keys[c] => k \in KeyGeneration,
             keys' = [keys EXCEPT ![c] = [keys[c] EXCEPT ![i] = k]]
      PROVE  Typed
  BY <1>0, <1>3, KeyWritten
<1>4. ASSUME NEW r \in Request, RevokeKey(r) PROVE Typed
  <2> DEFINE c == request[r].client
  <2>1. PICK i : RevokeGeneration(c, i)
    BY <1>4 DEF RevokeKey
  <2>2. c \in Client
    BY <1>0, RowFields
  <2>3. i \in DOMAIN keys[c] => [keys[c][i] EXCEPT !.revoked = TRUE] \in KeyGeneration
    <3>1. i \in DOMAIN keys[c] => keys[c][i] \in KeyGeneration
      BY <1>0, <2>2
    <3> QED BY <3>1, StoreRowWith
  <2>4. keys' = [keys EXCEPT ![c] = [keys[c] EXCEPT ![i] = [keys[c][i] EXCEPT !.revoked = TRUE]]]
    BY <2>1 DEF RevokeGeneration
  <2> HIDE DEF c
  <2> QED BY <1>3, <2>2, <2>3, <2>4
<1>5. ASSUME OverlapEnds PROVE Typed
  <2>1. PICK c \in Client : \E i \in DOMAIN keys[c] : KeyExpires(c, i)
    BY <1>5 DEF OverlapEnds
  <2>2. PICK i \in DOMAIN keys[c] : KeyExpires(c, i)
    BY <2>1
  <2>3. [keys[c][i] EXCEPT !.expires = "past"] \in KeyGeneration
    <3>1. keys[c][i] \in KeyGeneration
      BY <1>0
    <3> QED BY <3>1, StoreRowWith
  <2> QED BY <1>0, <1>3, <2>2, <2>3 DEF KeyExpires
<1> QED BY <1>0, <1>1, <1>2, <1>4, <1>5, Writers

\* A device's row with one field written.
LEMMA DeviceWith ==
    ASSUME NEW row \in DeviceRow
    PROVE  /\ \A v \in DeviceStage : [row EXCEPT !.at = v] \in DeviceRow
           /\ \A v \in Client : [row EXCEPT !.client = v] \in DeviceRow
           /\ \A v \in Nat : [row EXCEPT !.key = v] \in DeviceRow
           /\ \A v \in Installation \union {Nobody} : [row EXCEPT !.bound = v] \in DeviceRow
           /\ \A v \in BOOLEAN : [row EXCEPT !.raced = v] \in DeviceRow
BY DEF DeviceRow

\* The devices stay well-typed.
LEMMA DeviceTyped ==
    ASSUME TypeOK, [Next]_vars
    PROVE  device' \in [Installation -> DeviceRow]
<1> DEFINE Typed == device' \in [Installation -> DeviceRow]
<1>0. /\ device \in [Installation -> DeviceRow]
      /\ clients \in [Client -> ClientRow]
      /\ StoreTypeOK
  BY DEF TypeOK, StoreTypeOK
<1>a. ASSUME NEW d \in Installation, NEW row \in DeviceRow, device' = [device EXCEPT ![d] = row]
      PROVE  Typed
  BY <1>0, <1>a
<1>b. ASSUME NEW d \in Installation, NEW from, NEW allowed, NEW row \in DeviceRow,
             Read(d, from, allowed, row)
      PROVE  Typed
  BY <1>a, <1>b, Rows DEF Read
<1>c. ASSUME NEW cs, NEW past, Close(cs, past) PROVE Typed
  <2>1. \A d \in Installation : [device[d] EXCEPT !.raced = TRUE] \in DeviceRow
    BY <1>0, DeviceWith
  <2> QED BY <1>0, <1>c, <2>1, Rows DEF Close
<1>1. ASSUME NEW d \in Installation, PresentKey(d) PROVE Typed
  <2>1. PICK c \in Client : \E i \in UsableKeys(c) :
         device' = [device EXCEPT ![d] = [Idle EXCEPT !.at = "account", !.client = c, !.key = i]]
    BY <1>1 DEF PresentKey
  <2>2. PICK i \in UsableKeys(c) :
         device' = [device EXCEPT ![d] = [Idle EXCEPT !.at = "account", !.client = c, !.key = i]]
    BY <2>1
  <2>3. i \in Nat
    BY <1>0, ListedKeys
  <2> QED BY <1>a, <2>2, <2>3, Rows, DeviceWith DEF DeviceStage
<1>2. ASSUME NEW d \in Installation,
             ReadAccount(d) \/ ReadSpace(d) \/ Register(d) \/ Disconnect(d)
      PROVE  Typed
  BY <1>0, <1>2, <1>b, Rows, DeviceWith
     DEF ReadAccount, ReadSpace, Register, Disconnect, DeviceStage
<1>3. ASSUME NEW d \in Installation, ReadClient(d) PROVE Typed
  <2>1. clients[device[d].client].installation \in Installation \union {Nobody}
    BY <1>0 DEF DeviceRow, ClientRow
  <2> QED BY <1>0, <1>3, <1>b, <2>1, DeviceWith DEF ReadClient, DeviceStage
<1>4. ASSUME NEW d \in Installation, Bind(d) PROVE Typed
  BY <1>4, <1>a, Rows DEF Bind
<1>5. ASSUME NEW r \in Request, CloseSpace(r) \/ CloseClient(r) PROVE Typed
  BY <1>5, <1>c DEF CloseSpace, CloseClient
<1> QED BY <1>0, <1>1, <1>2, <1>3, <1>4, <1>5, Writers

\* The type of the variable history.
History == [reset : Nat, change : Nat, changer : Session, staleEpoch : BOOLEAN,
            staleKeys : SUBSET Client]

\* What the properties remember stays well-typed.
LEMMA HistoryTyped ==
    ASSUME TypeOK, [Next]_vars
    PROVE  history' \in History
<1>0. /\ history \in History
      /\ request \in [Request -> RequestRow]
      /\ account \in Account
  BY DEF TypeOK, StoreTypeOK, History
<1>a. ASSUME NEW c \in Client, NEW listed PROVE Crossed(c, listed) \in History
  BY <1>0 DEF Crossed, History
<1>1. ASSUME NEW r \in Request, SetStatus(r) PROVE history' \in History
  BY <1>0, <1>1 DEF SetStatus, RemembersStaleEpoch, History
<1>2. ASSUME NEW r \in Request, SetPassword(r) PROVE history' \in History
  <2>1. account.password + 1 \in Nat
    BY <1>0 DEF Account
  <2> QED BY <1>0, <1>2, <2>1 DEF SetPassword, RemembersStaleEpoch, History
<1>3. ASSUME NEW r \in Request, RevokeOthers(r) PROVE history' \in History
  BY <1>0, <1>3, RowFields DEF RevokeOthers, History
<1>4. ASSUME NEW r \in Request, RotateKey(r) \/ ResetInstallation(r) PROVE history' \in History
  BY <1>0, <1>4, <1>a, RowFields DEF RotateKey, ResetInstallation
<1> QED BY <1>0, <1>1, <1>2, <1>3, <1>4, Writers

\* The stages a request goes through, and what its row keeps on the way.
LEMMA Stages ==
    ASSUME request \in [Request -> RequestRow], NEW r \in Request
    PROVE  /\ ReadForAdmin(r) =>
                /\ request[r].at = "new"
                /\ request'[r].at \in {"setStatus", "setPassword"}
                /\ request'[r].at = "setStatus" => request'[r].op \in {"active", "disabled"}
           /\ SetStatus(r) =>
                request[r].at = "setStatus" /\ request'[r].at \in {"ended", "revokeSessions"}
           /\ SetPassword(r) =>
                request[r].at = "setPassword" /\ request'[r].at = "revokeSessions"
           /\ Login(r) =>
                /\ request[r].at = "new" /\ request'[r].at = "createSession"
                /\ request'[r].authEpoch = account.authEpoch
                /\ request'[r].password = account.password
           /\ FindSession(r) => request[r].at = "new" /\ request'[r].at = "account"
           /\ Authenticate(r) => request[r].at = "account" /\ request'[r].at = "ready"
           /\ ChangePassword(r) =>
                /\ request[r].at = "ready" /\ request'[r].at = "revokeOthers"
                /\ request'[r].password = account.password + 1
                /\ request'[r].session = request[r].session
           /\ RevokeOthers(r) => request[r].at = "revokeOthers" /\ request'[r].at = "ended"
           /\ UpdateSpace(r) => request[r].at = "ready" /\ request'[r].at \in {"ended", "closeSpace"}
           /\ DeleteSpace(r) => request[r].at = "ready" /\ request'[r].at = "closeSpace"
           /\ ReadForRestore(r) => request[r].at = "ready" /\ request'[r].at = "restoreSpace"
           /\ RequireClient(r) => request[r].at = "ready" /\ request'[r].at = "list"
           /\ ListKeys(r) =>
                request[r].at = "list" /\ request'[r].at \in {"revokeKeys", "replaceKey"}
           /\ RotateKey(r) \/ ResetInstallation(r) =>
                /\ request[r].at = "replaceKey" /\ request'[r].at = "closeClient"
                /\ request'[r].client = request[r].client
           /\ RevokeKey(r) =>
                /\ request[r].at = "revokeKeys" /\ request'[r].at = "revokeKeys"
                /\ request'[r].client = request[r].client
           /\ RevokeClient(r) =>
                /\ request[r].at = "revokeKeys" /\ request'[r].at = "closeClient"
                /\ request'[r].client = request[r].client
           /\ CloseClient(r) => request[r].at = "closeClient" /\ request'[r].at = "ended"
           /\ CloseSpace(r) => request[r].at = "closeSpace" /\ request'[r].at = "ended"
           /\ CreateSession(r) => request[r].at = "createSession" /\ request'[r].at = "ended"
           /\ RevokeSessions(r) => request[r].at = "revokeSessions" /\ request'[r].at = "ended"
           /\ ExpireSession(r) => request[r].at = "account" /\ request'[r].at = "ended"
           /\ Reauthenticate(r) \/ Logout(r) \/ RevokeOtherSessions(r)
                \/ CreateSpace(r) \/ CreateClient(r) =>
                request[r].at = "ready" /\ request'[r].at = "ended"
           /\ RestoreSpace(r) => request[r].at = "restoreSpace" /\ request'[r].at = "ended"
<1> USE DEF Step
<1>0. request[r] \in RequestRow /\ Ended.at = "ended"
  BY DEF Ended, Fresh
<1>1. ReadForAdmin(r) =>
        /\ request[r].at = "new"
        /\ request'[r].at \in {"setStatus", "setPassword"}
        /\ request'[r].at = "setStatus" => request'[r].op \in {"active", "disabled"}
  BY <1>0, ZenonT(60) DEF ReadForAdmin, Start, Fresh
<1>2. SetStatus(r) =>
        request[r].at = "setStatus" /\ request'[r].at \in {"ended", "revokeSessions"}
  BY <1>0 DEF SetStatus, At, RequestRow
<1>3. SetPassword(r) => request[r].at = "setPassword" /\ request'[r].at = "revokeSessions"
  BY <1>0 DEF SetPassword, At, RequestRow
<1>4. Login(r) =>
        /\ request[r].at = "new" /\ request'[r].at = "createSession"
        /\ request'[r].authEpoch = account.authEpoch
        /\ request'[r].password = account.password
  BY <1>0 DEF Login, Start, Fresh
<1>5. FindSession(r) => request[r].at = "new" /\ request'[r].at = "account"
  BY <1>0 DEF FindSession, Start, Fresh
<1>6. Authenticate(r) => request[r].at = "account" /\ request'[r].at = "ready"
  BY <1>0 DEF Authenticate, RequestRow
<1>7. ChangePassword(r) =>
        /\ request[r].at = "ready" /\ request'[r].at = "revokeOthers"
        /\ request'[r].password = account.password + 1
        /\ request'[r].session = request[r].session
  BY <1>0 DEF ChangePassword, At, RequestRow
<1>8. RevokeOthers(r) => request[r].at = "revokeOthers" /\ request'[r].at = "ended"
  BY <1>0 DEF RevokeOthers
<1>9. UpdateSpace(r) => request[r].at = "ready" /\ request'[r].at \in {"ended", "closeSpace"}
  BY <1>0 DEF UpdateSpace, At, RequestRow
<1>10. DeleteSpace(r) => request[r].at = "ready" /\ request'[r].at = "closeSpace"
  BY <1>0 DEF DeleteSpace, At, RequestRow
<1>11. ReadForRestore(r) => request[r].at = "ready" /\ request'[r].at = "restoreSpace"
  BY <1>0 DEF ReadForRestore, At, RequestRow
<1>12. RequireClient(r) => request[r].at = "ready" /\ request'[r].at = "list"
  BY <1>0 DEF RequireClient, At, RequestRow
<1>13. ListKeys(r) =>
        request[r].at = "list" /\ request'[r].at \in {"revokeKeys", "replaceKey"}
  BY <1>0 DEF ListKeys, RequestRow
<1>14. RotateKey(r) \/ ResetInstallation(r) =>
        /\ request[r].at = "replaceKey" /\ request'[r].at = "closeClient"
        /\ request'[r].client = request[r].client
  BY <1>0 DEF RotateKey, ResetInstallation, At, RequestRow
<1>15. RevokeKey(r) =>
        /\ request[r].at = "revokeKeys" /\ request'[r].at = "revokeKeys"
        /\ request'[r].client = request[r].client
  BY <1>0 DEF RevokeKey, RequestRow
<1>16. RevokeClient(r) =>
        /\ request[r].at = "revokeKeys" /\ request'[r].at = "closeClient"
        /\ request'[r].client = request[r].client
  BY <1>0 DEF RevokeClient, At, RequestRow
<1>17. /\ CloseClient(r) => request[r].at = "closeClient" /\ request'[r].at = "ended"
       /\ CloseSpace(r) => request[r].at = "closeSpace" /\ request'[r].at = "ended"
       /\ CreateSession(r) => request[r].at = "createSession" /\ request'[r].at = "ended"
       /\ RevokeSessions(r) => request[r].at = "revokeSessions" /\ request'[r].at = "ended"
       /\ ExpireSession(r) => request[r].at = "account" /\ request'[r].at = "ended"
       /\ Reauthenticate(r) \/ Logout(r) \/ RevokeOtherSessions(r)
            \/ CreateSpace(r) \/ CreateClient(r) =>
            request[r].at = "ready" /\ request'[r].at = "ended"
       /\ RestoreSpace(r) => request[r].at = "restoreSpace" /\ request'[r].at = "ended"
  BY <1>0 DEF CloseClient, CloseSpace, CreateSession, RevokeSessions, ExpireSession,
     Reauthenticate, Logout, RevokeOtherSessions, CreateSpace, CreateClient, RestoreSpace
<1> QED BY <1>1, <1>2, <1>3, <1>4, <1>5, <1>6, <1>7, <1>8, <1>9, <1>10, <1>11, <1>12, <1>13,
           <1>14, <1>15, <1>16, <1>17

\* The steps of a request.
Acts(r) ==
    \/ ReadForAdmin(r) \/ SetStatus(r) \/ SetPassword(r) \/ RevokeSessions(r)
    \/ Login(r) \/ CreateSession(r) \/ FindSession(r) \/ Authenticate(r) \/ ExpireSession(r)
    \/ Reauthenticate(r) \/ Logout(r) \/ RevokeOtherSessions(r)
    \/ ChangePassword(r) \/ RevokeOthers(r)
    \/ CreateSpace(r) \/ UpdateSpace(r) \/ DeleteSpace(r) \/ CloseSpace(r)
    \/ ReadForRestore(r) \/ RestoreSpace(r)
    \/ CreateClient(r) \/ RequireClient(r) \/ ListKeys(r) \/ RotateKey(r)
    \/ ResetInstallation(r) \/ RevokeKey(r) \/ RevokeClient(r) \/ CloseClient(r)

\* A step changes the row of the request that takes it; a change of password that is
\* done also marks the logins under way.
LEMMA OneMoves ==
    ASSUME request \in [Request -> RequestRow], [Next]_vars, NEW q \in Request
    PROVE  \/ Acts(q)
           \/ /\ \E r \in Request : RevokeOthers(r)
              /\ request'[q] = [request[q] EXCEPT !.late = @ \/ request[q].at = "createSession"]
           \/ /\ ~\E r \in Request : RevokeOthers(r)
              /\ request'[q] = request[q]
<1>1. ASSUME NEW r \in Request, NEW from, NEW row, Step(r, from, row), q # r
      PROVE  request'[q] = request[q]
  BY <1>1 DEF Step
<1>2. ASSUME NEW r \in Request, q # r, Acts(r), ~RevokeOthers(r)
      PROVE  request'[q] = request[q]
  BY <1>1, <1>2
     DEF Acts, ReadForAdmin, Start, SetStatus, SetPassword, RevokeSessions, Login,
         CreateSession, FindSession, Authenticate, ExpireSession, Reauthenticate, Logout,
         RevokeOtherSessions, ChangePassword, CreateSpace, UpdateSpace, DeleteSpace,
         CloseSpace, ReadForRestore, RestoreSpace, CreateClient, RequireClient, ListKeys,
         RotateKey, ResetInstallation, RevokeKey, RevokeClient, CloseClient
<1>3. ASSUME NEW r \in Request, q # r, RevokeOthers(r)
      PROVE  request'[q] = [request[q] EXCEPT !.late = @ \/ request[q].at = "createSession"]
  BY <1>3 DEF RevokeOthers
<1>4. ASSUME NEW d \in Installation,
             PresentKey(d) \/ ReadAccount(d) \/ ReadSpace(d) \/ ReadClient(d)
             \/ Bind(d) \/ Register(d) \/ Disconnect(d)
      PROVE  request'[q] = request[q]
  BY <1>4 DEF PresentKey, ReadAccount, ReadSpace, ReadClient, Bind, Register, Disconnect, Read
<1>5. ASSUME OverlapEnds \/ UNCHANGED vars PROVE request'[q] = request[q]
  BY <1>5 DEF OverlapEnds, vars
<1>6. (\E r \in Request : Acts(r)) \/ (\E d \in Installation :
        \/ PresentKey(d) \/ ReadAccount(d) \/ ReadSpace(d) \/ ReadClient(d)
        \/ Bind(d) \/ Register(d) \/ Disconnect(d)) \/ OverlapEnds \/ UNCHANGED vars
  BY DEF Next, Acts
<1>7. CASE \E r \in Request : RevokeOthers(r)
  BY <1>3, <1>7 DEF Acts
<1>8. CASE ~\E r \in Request : RevokeOthers(r)
  BY <1>2, <1>4, <1>5, <1>6, <1>8
<1> QED BY <1>7, <1>8

\* What comes to a stage, and what leaves one.
LEMMA StagesReached ==
    ASSUME request \in [Request -> RequestRow], [Next]_vars, NEW r \in Request
    PROVE  /\ request'[r].at = "setStatus" =>
                \/ request[r].at = "setStatus" /\ request'[r].op = request[r].op
                \/ request'[r].op \in {"active", "disabled"}
           /\ request'[r].at = "createSession" =>
                \/ /\ request[r].at = "createSession"
                   /\ request'[r].authEpoch = request[r].authEpoch
                   /\ request'[r].password = request[r].password
                   /\ request[r].late => request'[r].late
                   /\ (\E q \in Request : RevokeOthers(q)) => request'[r].late
                \/ /\ Login(r)
                   /\ request'[r].authEpoch = account.authEpoch
                   /\ request'[r].password = account.password
           /\ request'[r].at = "revokeOthers" =>
                \/ request[r].at = "revokeOthers" /\ request'[r].password = request[r].password
                \/ ChangePassword(r) /\ request'[r].password = account.password + 1
           /\ request[r].at = "revokeKeys" =>
                /\ request'[r].at \in {"revokeKeys", "closeClient"}
                /\ request'[r].client = request[r].client
                /\ request'[r].at = "closeClient" => RevokeClient(r)
           /\ request[r].at = "closeClient" =>
                \/ request'[r].at = "closeClient" /\ request'[r].client = request[r].client
                \/ CloseClient(r)
           /\ request[r].at = "closeSpace" =>
                \/ request'[r].at = "closeSpace" /\ request'[r].space = request[r].space
                \/ CloseSpace(r)
<1>1. CASE request'[r] = request[r] /\ ~\E q \in Request : RevokeOthers(q)
  BY <1>1
<1>2. CASE /\ \E q \in Request : RevokeOthers(q)
           /\ request'[r] = [request[r] EXCEPT !.late = @ \/ request[r].at = "createSession"]
  <2>1. request[r] \in RequestRow
    OBVIOUS
  <2> QED BY <1>2, <2>1 DEF RequestRow
<1>3. CASE Acts(r)
  BY <1>3, Stages DEF Acts
<1> QED BY <1>1, <1>2, <1>3, OneMoves

-----------------------------------------------------------------------------
(* Limits *)

\* A set that is within its limit stays so when one element comes to it that was
\* there already or for which there was room.
LEMMA OneMore ==
    ASSUME NEW S, IsFiniteSet(S), NEW limit \in Nat, Cardinality(S) <= limit,
           NEW x, NEW T \in SUBSET (S \union {x}),
           T \subseteq S \/ Cardinality(S) < limit
    PROVE  IsFiniteSet(T) /\ Cardinality(T) <= limit
<1>0. Cardinality(S) \in Nat
  BY FS_CardinalityType
<1>1. CASE T \subseteq S
  <2>1. IsFiniteSet(T) /\ Cardinality(T) <= Cardinality(S)
    BY <1>1, FS_Subset
  <2>2. Cardinality(T) \in Nat
    BY <2>1, FS_CardinalityType
  <2> QED BY <1>0, <2>1, <2>2
<1>2. CASE Cardinality(S) < limit
  <2>1. /\ IsFiniteSet(S \union {x})
        /\ Cardinality(S \union {x}) = Cardinality(S) \/ Cardinality(S \union {x}) = Cardinality(S) + 1
    BY FS_AddElement
  <2>2. IsFiniteSet(T) /\ Cardinality(T) <= Cardinality(S \union {x})
    BY <2>1, FS_Subset
  <2>3. Cardinality(T) \in Nat
    BY <2>2, FS_CardinalityType
  <2> QED BY <1>0, <1>2, <2>1, <2>2, <2>3
<1> QED BY <1>1, <1>2

\* The active spaces, and the active clients of each space, are within the limits;
\* they are finitely many whatever Space and Client are.
LimitsKept ==
    /\ IsFiniteSet(ActiveSpaces) /\ Cardinality(ActiveSpaces) <= SpaceLimit
    /\ \A x \in Space :
         IsFiniteSet(ActiveClients(x)) /\ Cardinality(ActiveClients(x)) <= ClientLimit

\* The trigger on spaces keeps their number within the limit.
LEMMA SpaceLimitKept ==
    ASSUME TypeOK, LimitsKept, [Next]_vars
    PROVE  IsFiniteSet(ActiveSpaces') /\ Cardinality(ActiveSpaces') <= SpaceLimit
<1>0. spaces \in [Space -> SpaceRow] /\ SpaceLimit \in Nat
  BY StoreAssumption DEF TypeOK, StoreTypeOK
<1>1. ASSUME NEW x \in Space, NEW status, NEW epoch, SpaceMayBecome(x, status),
             spaces' = [spaces EXCEPT ![x] = [status |-> status, restoreEpoch |-> epoch]]
      PROVE  IsFiniteSet(ActiveSpaces') /\ Cardinality(ActiveSpaces') <= SpaceLimit
  <2>1. ActiveSpaces' \in SUBSET (ActiveSpaces \union {x})
    BY <1>0, <1>1 DEF ActiveSpaces
  <2>2. ActiveSpaces' \subseteq ActiveSpaces \/ Cardinality(ActiveSpaces) < SpaceLimit
    BY <1>0, <1>1 DEF ActiveSpaces, SpaceMayBecome
  <2> HIDE DEF ActiveSpaces
  <2> QED BY <1>0, <2>1, <2>2, OneMore DEF LimitsKept
<1>2. ASSUME UNCHANGED spaces
      PROVE  IsFiniteSet(ActiveSpaces') /\ Cardinality(ActiveSpaces') <= SpaceLimit
  BY <1>2 DEF LimitsKept, ActiveSpaces
<1>3. ASSUME NEW x \in Space, InsertSpace(x)
      PROVE  IsFiniteSet(ActiveSpaces') /\ Cardinality(ActiveSpaces') <= SpaceLimit
  BY <1>1, <1>3 DEF InsertSpace
<1>4. ASSUME NEW x \in Space, NEW status, NEW epoch, WriteSpace(x, status, epoch)
      PROVE  IsFiniteSet(ActiveSpaces') /\ Cardinality(ActiveSpaces') <= SpaceLimit
  BY <1>1, <1>4 DEF WriteSpace
<1>5. ASSUME NEW r \in Request, CreateSpace(r) \/ UpdateSpace(r) \/ DeleteSpace(r) \/ RestoreSpace(r)
      PROVE  IsFiniteSet(ActiveSpaces') /\ Cardinality(ActiveSpaces') <= SpaceLimit
  <2>1. request[r].space \in Space
    BY RowFields DEF TypeOK
  <2> QED BY <1>3, <1>4, <1>5, <2>1 DEF CreateSpace, UpdateSpace, DeleteSpace, RestoreSpace
<1> QED BY <1>2, <1>5, Writers

\* The trigger on clients keeps their number in each space within the limit.
LEMMA ClientLimitKept ==
    ASSUME TypeOK, LimitsKept, [Next]_vars, NEW y \in Space
    PROVE  IsFiniteSet(ActiveClients(y)') /\ Cardinality(ActiveClients(y)') <= ClientLimit
<1> DEFINE Within == IsFiniteSet(ActiveClients(y)') /\ Cardinality(ActiveClients(y)') <= ClientLimit
<1>0. /\ clients \in [Client -> ClientRow] /\ ClientLimit \in Nat
      /\ request \in [Request -> RequestRow]
      /\ device \in [Installation -> DeviceRow]
  BY StoreAssumption DEF TypeOK, StoreTypeOK
<1>1. ASSUME NEW c \in Client, NEW row, clients' = [clients EXCEPT ![c] = row],
             \/ row.status = "active" /\ row.space = y => c \in ActiveClients(y)
             \/ Cardinality(ActiveClients(y)) < ClientLimit
      PROVE  Within
  <2>1. ActiveClients(y)' \in SUBSET (ActiveClients(y) \union {c})
    BY <1>0, <1>1 DEF ActiveClients
  <2>2. ActiveClients(y)' \subseteq ActiveClients(y) \/ Cardinality(ActiveClients(y)) < ClientLimit
    BY <1>0, <1>1 DEF ActiveClients
  <2> HIDE DEF ActiveClients
  <2> QED BY <1>0, <2>1, <2>2, OneMore DEF LimitsKept
<1>2. ASSUME UNCHANGED clients PROVE Within
  BY <1>2 DEF LimitsKept, ActiveClients
<1>3. ASSUME NEW r \in Request, CreateClient(r) PROVE Within
  <2>1. PICK c \in Client : \E x \in Space : InsertClient(c, x, request[r].authEpoch)
    BY <1>3 DEF CreateClient
  <2>2. PICK x \in Space : InsertClient(c, x, request[r].authEpoch)
    BY <2>1
  <2> QED BY <1>1, <2>2 DEF InsertClient, ClientMayBecomeActive
<1>4. ASSUME NEW r \in Request, ResetInstallation(r) PROVE Within
  <2>1. request[r].client \in Client
    BY <1>0, RowFields
  <2>2. PICK c \in Client : ReactivateUnbound(c)
    BY <1>4, <2>1 DEF ResetInstallation
  <2>3. clients[c] \in ClientRow
    BY <1>0
  <2>4. PICK row : row = [clients[c] EXCEPT !.status = "active", !.installation = Nobody]
    OBVIOUS
  <2>5. row.space = clients[c].space
    BY <2>3, <2>4 DEF ClientRow
  <2>6. clients' = [clients EXCEPT ![c] = row]
    BY <1>0, <2>2, <2>4 DEF ReactivateUnbound
  <2>7. row.space = y => c \in ActiveClients(y) \/ Cardinality(ActiveClients(y)) < ClientLimit
    BY <2>2, <2>5 DEF ReactivateUnbound, ClientMayBecomeActive, ActiveClients
  <2> QED BY <1>1, <2>6, <2>7
<1>5. ASSUME NEW r \in Request, RevokeClient(r) PROVE Within
  <2>1. PICK c \in Client : RevokeClientRow(c)
    BY <1>0, <1>5, RowFields DEF RevokeClient
  <2>2. [clients[c] EXCEPT !.status = "revoked"].status = "revoked"
    BY <1>0 DEF ClientRow
  <2> QED BY <1>1, <2>1, <2>2 DEF RevokeClientRow
<1>6. ASSUME NEW d \in Installation, Bind(d) PROVE Within
  <2>1. PICK c \in Client : BindInstallation(c, d)
    BY <1>0, <1>6 DEF Bind, DeviceRow
  <2>2. /\ [clients[c] EXCEPT !.installation = d].status = clients[c].status
        /\ [clients[c] EXCEPT !.installation = d].space = clients[c].space
    BY <1>0 DEF ClientRow
  <2> QED BY <1>1, <1>2, <2>1, <2>2 DEF BindInstallation, ActiveClients
<1> QED BY <1>2, <1>3, <1>4, <1>5, <1>6, Writers

-----------------------------------------------------------------------------
(* Keys *)

\* The generations of a client after one is replaced.
LEMMA Replaced ==
    ASSUME keys \in [Client -> Seq(KeyGeneration)], NEW c \in Client, NEW n \in Nat,
           NEW revoked, NEW expiring, revoked \intersect expiring = {},
           ReplaceClientKey(c, revoked, expiring, n)
    PROVE  /\ Len(keys[c]) \in Nat /\ DOMAIN keys[c] = 1 .. Len(keys[c])
           /\ DOMAIN keys'[c] = 1 .. Len(keys[c]) + 1
           /\ keys'[c][Len(keys[c]) + 1] = NewKey(n)
           /\ \A i \in DOMAIN keys[c] :
                /\ i \in revoked => keys'[c][i].revoked
                /\ i \notin revoked \union expiring => keys'[c][i] = keys[c][i]
           /\ \A e \in Client : e # c => keys'[e] = keys[e]
<1>1. Len(keys[c]) \in Nat /\ DOMAIN keys[c] = 1 .. Len(keys[c])
  OBVIOUS
<1>2. ASSUME NEW i \in DOMAIN keys[c] PROVE keys[c][i] \in KeyGeneration
  OBVIOUS
<1> DEFINE old == Retired(c, revoked, expiring)
<1>3. ASSUME NEW i \in DOMAIN keys[c]
      PROVE  /\ i \in revoked => old[i].revoked
             /\ i \notin revoked \union expiring => old[i] = keys[c][i]
  <2> DEFINE gone == [keys[c][i] EXCEPT !.revoked = TRUE]
             going == [keys[c][i] EXCEPT !.expires = "later"]
  <2>1. gone.revoked = TRUE
    BY <1>2 DEF KeyGeneration
  <2>2. old[i] = CASE i \in revoked -> gone
                   [] i \in expiring -> going
                   [] OTHER -> keys[c][i]
    BY Zenon DEF Retired
  <2> HIDE DEF old, gone, going
  <2>3. i \in revoked => old[i] = gone
    BY <2>2
  <2> QED BY <2>1, <2>2, <2>3
<1>4. old \in Seq({old[i] : i \in DOMAIN keys[c]}) /\ Len(old) = Len(keys[c])
  <2>1. old = [i \in 1 .. Len(keys[c]) |-> old[i]]
    BY <1>1 DEF Retired
  <2> HIDE DEF old
  <2> QED BY <1>1, <2>1
<1>5. keys' = [keys EXCEPT ![c] = Append(old, NewKey(n))]
  BY DEF ReplaceClientKey
<1> HIDE DEF old
<1>6. /\ DOMAIN Append(old, NewKey(n)) = 1 .. Len(keys[c]) + 1
      /\ Append(old, NewKey(n))[Len(keys[c]) + 1] = NewKey(n)
      /\ \A i \in DOMAIN keys[c] : Append(old, NewKey(n))[i] = old[i]
  BY <1>1, <1>4
<1> QED BY <1>1, <1>3, <1>5, <1>6

\* What writes a client's generations.
LEMMA KeyWriters ==
    ASSUME TypeOK, [Next]_vars, NEW c \in Client
    PROVE  \/ keys'[c] = keys[c]
           \/ \E r \in Request : \E x \in Space :
                CreateClient(r) /\ InsertClient(c, x, request[r].authEpoch)
           \/ \E r \in Request :
                /\ RotateKey(r) \/ ResetInstallation(r)
                /\ request[r].client = c
           \/ \E r \in Request : RevokeKey(r) /\ request[r].client = c
           \/ \E i \in DOMAIN keys[c] : KeyExpires(c, i)
<1>0. keys \in [Client -> Seq(KeyGeneration)] /\ request \in [Request -> RequestRow]
  BY DEF TypeOK, StoreTypeOK
<1>1. ASSUME NEW r \in Request, CreateClient(r), keys'[c] # keys[c]
      PROVE  \E x \in Space : InsertClient(c, x, request[r].authEpoch)
  BY <1>0, <1>1 DEF CreateClient, InsertClient
<1>2. ASSUME NEW r \in Request, RotateKey(r) \/ ResetInstallation(r), keys'[c] # keys[c]
      PROVE  request[r].client = c
  BY <1>0, <1>2, RowFields DEF RotateKey, ResetInstallation, ReplaceClientKey
<1>3. ASSUME NEW r \in Request, RevokeKey(r), keys'[c] # keys[c]
      PROVE  request[r].client = c
  <2>1. PICK i : RevokeGeneration(request[r].client, i)
    BY <1>3 DEF RevokeKey
  <2> QED BY <1>0, <1>3, <2>1, RowFields DEF RevokeGeneration
<1>4. ASSUME OverlapEnds, keys'[c] # keys[c]
      PROVE  \E i \in DOMAIN keys[c] : KeyExpires(c, i)
  BY <1>0, <1>4 DEF OverlapEnds, KeyExpires
<1> QED BY <1>1, <1>2, <1>3, <1>4, Writers

\* A key that works now and does not expire.
Lasting(c) == \E i \in DOMAIN keys[c] : ~keys[c][i].revoked /\ keys[c][i].expires = "never"

\* A client that is made, or whose key is replaced, has one.
LEMMA KeyGiven ==
    ASSUME TypeOK, [Next]_vars, NEW c \in Client, NEW r \in Request,
           \/ \E x \in Space : InsertClient(c, x, request[r].authEpoch)
           \/ (RotateKey(r) \/ ResetInstallation(r)) /\ request[r].client = c
    PROVE  Lasting(c)'
<1>0. keys \in [Client -> Seq(KeyGeneration)] /\ request[r].authEpoch \in Nat
  BY RowFields DEF TypeOK, StoreTypeOK
<1>1. ASSUME NEW x \in Space, InsertClient(c, x, request[r].authEpoch) PROVE Lasting(c)'
  <2>1. keys'[c] = <<NewKey(request[r].authEpoch)>>
    BY <1>0, <1>1 DEF InsertClient
  <2>2. 1 \in DOMAIN keys'[c] /\ keys'[c][1] = NewKey(request[r].authEpoch)
    BY <2>1
  <2> QED BY <2>2 DEF Lasting, NewKey
<1>2. CASE (RotateKey(r) \/ ResetInstallation(r)) /\ request[r].client = c
  <2>1. PICK revoked, expiring :
          /\ revoked \intersect expiring = {}
          /\ ReplaceClientKey(c, revoked, expiring, request[r].authEpoch)
    <3>1. (request[r].listed \ Kept(r)) \intersect Kept(r) = {} /\ request[r].listed \intersect {} = {}
      OBVIOUS
    <3> QED BY <1>2, <3>1 DEF RotateKey, ResetInstallation
  <2>2. /\ Len(keys[c]) + 1 \in DOMAIN keys'[c]
        /\ keys'[c][Len(keys[c]) + 1] = NewKey(request[r].authEpoch)
    BY <1>0, <2>1, Replaced
  <2> QED BY <2>2 DEF Lasting, NewKey
<1> QED BY <1>1, <1>2

\* A step that takes a client's lasting key either gives it another, or is one of a
\* revocation that has still to revoke the client.
LEMMA HasKeyKept ==
    ASSUME TypeOK, ActiveClientHasKey, [Next]_vars
    PROVE  ActiveClientHasKey'
<1> SUFFICES ASSUME NEW c \in Client, clients'[c].status = "active",
                    ~\E r \in Request : request'[r].at = "revokeKeys" /\ request'[r].client = c
             PROVE  Lasting(c)'
  BY DEF ActiveClientHasKey, Lasting
<1>0. /\ keys \in [Client -> Seq(KeyGeneration)] /\ request \in [Request -> RequestRow]
      /\ clients \in [Client -> ClientRow] /\ device \in [Installation -> DeviceRow]
  BY DEF TypeOK, StoreTypeOK
<1>1. ASSUME ~Lasting(c)' PROVE clients[c].status = "active"
  <2>1. CASE UNCHANGED clients
    BY <2>1
  <2>2. ASSUME NEW r \in Request, CreateClient(r) PROVE clients[c].status = "active"
    <3>1. PICK e \in Client : \E x \in Space : InsertClient(e, x, request[r].authEpoch)
      BY <2>2 DEF CreateClient
    <3>2. e # c
      BY <1>1, <3>1, KeyGiven
    <3> QED BY <1>0, <3>1, <3>2 DEF InsertClient
  <2>3. ASSUME NEW r \in Request, ResetInstallation(r) PROVE clients[c].status = "active"
    <3>1. request[r].client # c
      BY <1>1, <2>3, KeyGiven
    <3> QED BY <1>0, <2>3, <3>1 DEF ResetInstallation, ReactivateUnbound
  <2>4. ASSUME NEW r \in Request, RevokeClient(r) PROVE clients[c].status = "active"
    BY <1>0, <2>4, RowFields DEF RevokeClient, RevokeClientRow, ClientRow
  <2>5. ASSUME NEW d \in Installation, Bind(d) PROVE clients[c].status = "active"
    BY <1>0, <2>5 DEF Bind, BindInstallation, ClientRow
  <2> QED BY <2>1, <2>2, <2>3, <2>4, <2>5, Writers
<1>2. ASSUME NEW r \in Request, request[r].at = "revokeKeys", request[r].client = c PROVE FALSE
  <2>1. RevokeClient(r)
    BY <1>0, <1>2, StagesReached
  <2> QED BY <1>0, <1>2, <2>1 DEF RevokeClient, RevokeClientRow, ClientRow
<1>3. ASSUME NEW r \in Request, RevokeKey(r), request[r].client = c PROVE FALSE
  BY <1>0, <1>3, Stages
<1>4. SUFFICES ASSUME ~Lasting(c)' PROVE FALSE
  OBVIOUS
<1>5. Lasting(c)
  BY <1>1, <1>2, <1>4 DEF ActiveClientHasKey, Lasting
<1>6. PICK i \in DOMAIN keys[c] : ~keys[c][i].revoked /\ keys[c][i].expires = "never"
  BY <1>5 DEF Lasting
<1>7. ASSUME NEW j \in DOMAIN keys[c], KeyExpires(c, j) PROVE FALSE
  <2>1. j # i
    BY <1>6, <1>7 DEF KeyExpires
  <2>2. i \in DOMAIN keys'[c] /\ keys'[c][i] = keys[c][i]
    BY <1>0, <1>7, <2>1 DEF KeyExpires
  <2> QED BY <1>4, <1>6, <2>2 DEF Lasting
<1>8. keys'[c] # keys[c]
  BY <1>4, <1>5 DEF Lasting
<1> QED BY <1>3, <1>4, <1>7, <1>8, KeyWriters, KeyGiven

\* Two elements at most.
LEMMA TwoAtMost ==
    ASSUME NEW a, NEW b, NEW S \in SUBSET {a, b}
    PROVE  IsFiniteSet(S) /\ Cardinality(S) <= 2
<1>1. IsFiniteSet({a}) /\ Cardinality({a}) = 1
  BY FS_Singleton
<1>2. /\ IsFiniteSet({a} \union {b})
      /\ Cardinality({a} \union {b}) = 1 \/ Cardinality({a} \union {b}) = 2
  BY <1>1, FS_AddElement
<1>3. S \subseteq {a} \union {b}
  OBVIOUS
<1>4. IsFiniteSet(S) /\ Cardinality(S) <= Cardinality({a} \union {b})
  BY <1>2, <1>3, FS_Subset
<1>5. Cardinality(S) \in Nat
  BY <1>4, FS_CardinalityType
<1> QED BY <1>2, <1>4, <1>5

\* A rotation keeps at most one of the keys it listed, and adds one; only a key that
\* came between the list and the rotation could be a third.
LEMMA TwoKeysKept ==
    ASSUME TypeOK, TwoKeysAtMost, [Next]_vars
    PROVE  TwoKeysAtMost'
<1>0. /\ keys \in [Client -> Seq(KeyGeneration)] /\ request \in [Request -> RequestRow]
      /\ history \in History
  BY DEF TypeOK, StoreTypeOK, History
<1> SUFFICES ASSUME NEW c \in Client, c \notin history'.staleKeys
             PROVE  Cardinality(UsableKeys(c)') <= 2
  BY DEF TwoKeysAtMost
<1>1. c \notin history.staleKeys
  BY <1>0, Writers, ZenonT(60)
     DEF SetStatus, SetPassword, RevokeOthers, RotateKey, ResetInstallation, Crossed, History
<1>2. IsFiniteSet(UsableKeys(c)) /\ Cardinality(UsableKeys(c)) \in Nat
      /\ Cardinality(UsableKeys(c)) <= 2
  <2>1. Len(keys[c]) \in Nat /\ UsableKeys(c) \subseteq 1 .. Len(keys[c])
    BY <1>0 DEF UsableKeys
  <2>2. IsFiniteSet(1 .. Len(keys[c]))
    BY <2>1, FS_Interval
  <2> QED BY <1>1, <2>1, <2>2, FS_Subset, FS_CardinalityType DEF TwoKeysAtMost
<1>3. ASSUME UsableKeys(c)' \subseteq UsableKeys(c)
      PROVE  Cardinality(UsableKeys(c)') <= 2
  <2>1. /\ IsFiniteSet(UsableKeys(c)')
        /\ Cardinality(UsableKeys(c)') <= Cardinality(UsableKeys(c))
    BY <1>2, <1>3, FS_Subset
  <2> QED BY <1>2, <2>1, FS_CardinalityType
<1>4. ASSUME NEW r \in Request, NEW x \in Space, InsertClient(c, x, request[r].authEpoch)
      PROVE  Cardinality(UsableKeys(c)') <= 2
  <2>1. UsableKeys(c)' \in SUBSET {1, 1}
    BY <1>0, <1>4 DEF InsertClient, UsableKeys
  <2> QED BY <2>1, TwoAtMost
<1>5. ASSUME NEW r \in Request, RotateKey(r) \/ ResetInstallation(r), request[r].client = c
      PROVE  Cardinality(UsableKeys(c)') <= 2
  <2> DEFINE last == Len(keys[c]) + 1
  <2>1. UsableKeys(c) \subseteq request[r].listed
    <3>1. history' = Crossed(c, request[r].listed)
      BY <1>5 DEF RotateKey, ResetInstallation
    <3> QED BY <1>0, <3>1 DEF Crossed, History
  <2>2. PICK kept : /\ kept \in SUBSET request[r].listed
                    /\ \A i, j \in kept : i = j
                    /\ ReplaceClientKey(c, request[r].listed \ kept, kept, request[r].authEpoch)
    <3>1. CASE RotateKey(r)
      <4>1. Kept(r) \in SUBSET request[r].listed
        BY DEF Kept
      <4>2. \A i, j \in Kept(r) : i = j
        <5>1. \A i, j \in Kept(r) : i <= j /\ j <= i /\ i \in Nat /\ j \in Nat
          BY <1>0, RowFields DEF Kept
        <5> QED BY <5>1
      <4> QED BY <1>5, <3>1, <4>1, <4>2 DEF RotateKey
    <3>2. CASE ResetInstallation(r)
      <4>1. ReplaceClientKey(c, request[r].listed \ {}, {}, request[r].authEpoch)
        BY <1>5, <3>2 DEF ResetInstallation
      <4> QED BY <4>1
    <3> QED BY <1>5, <3>1, <3>2
  <2>3. (request[r].listed \ kept) \intersect kept = {}
    OBVIOUS
  <2>4. ASSUME NEW i \in UsableKeys(c)', i # last
        PROVE  i \in kept
    <3>1. request[r].authEpoch \in Nat
      BY <1>0, RowFields
    <3>2. i \in DOMAIN keys[c]
      BY <1>0, <2>2, <2>3, <2>4, <3>1, Replaced DEF UsableKeys
    <3>3. i \notin request[r].listed \ kept
      BY <1>0, <2>2, <2>3, <2>4, <3>1, <3>2, Replaced DEF UsableKeys, Usable
    <3>4. i \notin kept => keys'[c][i] = keys[c][i]
      BY <1>0, <2>2, <2>3, <3>1, <3>2, <3>3, Replaced
    <3>5. i \notin kept => i \in UsableKeys(c)
      BY <3>2, <3>4 DEF UsableKeys
    <3> QED BY <2>1, <3>3, <3>5
  <2>5. PICK k : kept \subseteq {k}
    BY <2>2
  <2>6. UsableKeys(c)' \in SUBSET {k, last}
    BY <2>4, <2>5
  <2> QED BY <2>6, TwoAtMost
<1>6. ASSUME NEW r \in Request, RevokeKey(r), request[r].client = c
      PROVE  Cardinality(UsableKeys(c)') <= 2
  <2>1. PICK i : RevokeGeneration(c, i)
    BY <1>6 DEF RevokeKey
  <2>2. /\ DOMAIN keys'[c] = DOMAIN keys[c]
        /\ \A j \in DOMAIN keys[c] : j # i => keys'[c][j] = keys[c][j]
        /\ i \in DOMAIN keys[c] => keys'[c][i] = [keys[c][i] EXCEPT !.revoked = TRUE]
    BY <1>0, <2>1 DEF RevokeGeneration
  <2>3. i \in DOMAIN keys[c] => [keys[c][i] EXCEPT !.revoked = TRUE].revoked
    <3>1. i \in DOMAIN keys[c] => keys[c][i] \in KeyGeneration
      BY <1>0
    <3> QED BY <3>1 DEF KeyGeneration
  <2> QED BY <1>3, <2>2, <2>3 DEF UsableKeys, Usable
<1>7. ASSUME NEW i \in DOMAIN keys[c], KeyExpires(c, i)
      PROVE  Cardinality(UsableKeys(c)') <= 2
  <2>1. /\ DOMAIN keys'[c] = DOMAIN keys[c]
        /\ \A j \in DOMAIN keys[c] : j # i => keys'[c][j] = keys[c][j]
        /\ keys'[c][i] = [keys[c][i] EXCEPT !.expires = "past"]
    BY <1>0, <1>7 DEF KeyExpires
  <2>2. [keys[c][i] EXCEPT !.expires = "past"].expires = "past"
    <3>1. keys[c][i] \in KeyGeneration
      BY <1>0
    <3> QED BY <3>1 DEF KeyGeneration
  <2> QED BY <1>3, <2>1, <2>2 DEF UsableKeys, Usable
<1>8. ASSUME keys'[c] = keys[c] PROVE Cardinality(UsableKeys(c)') <= 2
  BY <1>3, <1>8 DEF UsableKeys
<1> QED BY <1>4, <1>5, <1>6, <1>7, <1>8, KeyWriters

-----------------------------------------------------------------------------
(* Sessions *)

\* A session keeps what it was inserted with, and does not come back to life.
LEMMA SessionRows ==
    ASSUME TypeOK, [Next]_vars, NEW s \in Session
    PROVE  \/ /\ sessions'[s].authEpoch = sessions[s].authEpoch
              /\ sessions'[s].password = sessions[s].password
              /\ sessions'[s].late = sessions[s].late
              /\ sessions'[s].state = "live" => sessions[s].state = "live"
              /\ \A r \in Request :
                   RevokeOthers(r) /\ sessions'[s].state = "live" => s = request[r].session
           \/ \E r \in Request :
                /\ CreateSession(r)
                /\ sessions'[s].authEpoch = request[r].authEpoch
                /\ sessions'[s].password = request[r].password
                /\ sessions'[s].late = request[r].late
                /\ history' = history /\ account' = account
<1> DEFINE Keeps == /\ sessions'[s].authEpoch = sessions[s].authEpoch
                    /\ sessions'[s].password = sessions[s].password
                    /\ sessions'[s].late = sessions[s].late
                    /\ sessions'[s].state = "live" => sessions[s].state = "live"
<1>0. /\ sessions \in [Session -> SessionRow] /\ sessions[s] \in SessionRow
      /\ request \in [Request -> RequestRow]
  BY DEF TypeOK, StoreTypeOK
<1>a. /\ [sessions[s] EXCEPT !.state = "revoked"].authEpoch = sessions[s].authEpoch
      /\ [sessions[s] EXCEPT !.state = "revoked"].password = sessions[s].password
      /\ [sessions[s] EXCEPT !.state = "revoked"].late = sessions[s].late
      /\ [sessions[s] EXCEPT !.state = "revoked"].state = "revoked"
  BY <1>0 DEF SessionRow
<1>b. /\ [sessions[s] EXCEPT !.recent = TRUE].authEpoch = sessions[s].authEpoch
      /\ [sessions[s] EXCEPT !.recent = TRUE].password = sessions[s].password
      /\ [sessions[s] EXCEPT !.recent = TRUE].late = sessions[s].late
      /\ [sessions[s] EXCEPT !.recent = TRUE].state = sessions[s].state
  BY <1>0 DEF SessionRow
<1>1. ASSUME NEW kept, RevokeAccountSessions(kept)
      PROVE  Keeps /\ (sessions'[s].state = "live" => s \in kept)
  <2>1. sessions'[s] = IF s \notin kept /\ sessions[s].state = "live"
                       THEN [sessions[s] EXCEPT !.state = "revoked"] ELSE sessions[s]
    BY <1>1 DEF RevokeAccountSessions
  <2> QED BY <1>a, <2>1
<1>2. ASSUME NEW t \in Session, RevokeSession(t) PROVE Keeps
  <2>1. sessions'[s] = IF s = t THEN [sessions[s] EXCEPT !.state = "revoked"] ELSE sessions[s]
    BY <1>0, <1>2 DEF RevokeSession
  <2> QED BY <1>a, <2>1
<1>3. ASSUME NEW t \in Session, AuthenticatedRecently(t) PROVE Keeps
  <2>1. sessions'[s] = IF s = t THEN [sessions[s] EXCEPT !.recent = TRUE] ELSE sessions[s]
    BY <1>0, <1>3 DEF AuthenticatedRecently
  <2> QED BY <1>b, <2>1
<1>4. ASSUME NEW r \in Request, CreateSession(r)
      PROVE  \/ sessions'[s] = sessions[s]
             \/ /\ sessions'[s].authEpoch = request[r].authEpoch
                /\ sessions'[s].password = request[r].password
                /\ sessions'[s].late = request[r].late
  BY <1>0, <1>4 DEF CreateSession, InsertSession
<1>5. ASSUME NEW r \in Request, RevokeOthers(r)
      PROVE  Keeps /\ (sessions'[s].state = "live" => s = request[r].session)
  <2>1. RevokeAccountSessions({request[r].session})
    BY <1>5 DEF RevokeOthers
  <2> QED BY <1>1, <2>1
<1>6. ASSUME NEW r \in Request, RevokeSessions(r) \/ RevokeOtherSessions(r)
      PROVE  Keeps
  BY <1>1, <1>6 DEF RevokeSessions, RevokeOtherSessions
<1>7. ASSUME NEW r \in Request, ExpireSession(r) \/ Reauthenticate(r) \/ Logout(r)
      PROVE  Keeps
  BY <1>0, <1>2, <1>3, <1>7, RowFields DEF ExpireSession, Reauthenticate, Logout
<1>8. ASSUME NEW r \in Request, CreateSession(r) PROVE history' = history /\ account' = account
  BY <1>8 DEF CreateSession
<1>9. Keeps \/ \E r \in Request :
                /\ CreateSession(r)
                /\ sessions'[s].authEpoch = request[r].authEpoch
                /\ sessions'[s].password = request[r].password
                /\ sessions'[s].late = request[r].late
  BY <1>4, <1>5, <1>6, <1>7, Writers
<1> QED BY <1>5, <1>8, <1>9

\* How the account, and what is remembered of it, are written.
LEMMA AccountRows ==
    ASSUME TypeOK, [Next]_vars
    PROVE  /\ \/ account' = account /\ history'.reset = history.reset
              \/ \E r \in Request :
                   /\ SetStatus(r)
                   /\ account'.authEpoch = request[r].authEpoch
                   /\ account'.password = account.password
                   /\ history'.reset = history.reset
                   /\ ~history'.staleEpoch => request[r].authEpoch = account.authEpoch
              \/ \E r \in Request :
                   /\ SetPassword(r)
                   /\ account'.authEpoch = request[r].authEpoch + 1
                   /\ account'.password = account.password + 1
                   /\ history'.reset = account.password + 1
                   /\ ~history'.staleEpoch => request[r].authEpoch = account.authEpoch
              \/ \E r \in Request :
                   /\ ChangePassword(r)
                   /\ account'.authEpoch = account.authEpoch
                   /\ account'.password = account.password + 1
                   /\ history' = history
           /\ history.staleEpoch => history'.staleEpoch
           /\ \/ history'.change = history.change /\ history'.changer = history.changer
              \/ \E r \in Request :
                   /\ RevokeOthers(r)
                   /\ request[r].at = "revokeOthers"
                   /\ account' = account
                   /\ history'.change = IF request[r].password > history.change
                                        THEN request[r].password ELSE history.change
                   /\ history'.changer = IF request[r].password > history.change
                                         THEN request[r].session ELSE history.changer
<1>0. /\ account \in Account /\ history \in History
      /\ request \in [Request -> RequestRow]
  BY DEF TypeOK, StoreTypeOK, History
<1>1. ASSUME NEW r \in Request, SetStatus(r)
      PROVE  /\ account'.authEpoch = request[r].authEpoch
             /\ account'.password = account.password
             /\ history'.staleEpoch = (history.staleEpoch \/ request[r].authEpoch # account.authEpoch)
             /\ history'.reset = history.reset
             /\ history'.change = history.change /\ history'.changer = history.changer
  BY <1>0, <1>1 DEF SetStatus, UpdateAccount, RemembersStaleEpoch, Account, History
<1>2. ASSUME NEW r \in Request, SetPassword(r)
      PROVE  /\ account'.authEpoch = request[r].authEpoch + 1
             /\ account'.password = account.password + 1
             /\ history'.staleEpoch = (history.staleEpoch \/ request[r].authEpoch # account.authEpoch)
             /\ history'.reset = account.password + 1
             /\ history'.change = history.change /\ history'.changer = history.changer
  BY <1>0, <1>2 DEF SetPassword, UpdatePassword, EpochOfReset, RemembersStaleEpoch, Account, History
<1>3. ASSUME NEW r \in Request, ChangePassword(r)
      PROVE  /\ account'.authEpoch = account.authEpoch
             /\ account'.password = account.password + 1
             /\ history' = history
  BY <1>0, <1>3 DEF ChangePassword, UpdatePassword, Account
<1>4. ASSUME NEW r \in Request, RevokeOthers(r)
      PROVE  /\ request[r].at = "revokeOthers"
             /\ account' = account
             /\ history'.staleEpoch = history.staleEpoch
             /\ history'.reset = history.reset
             /\ history'.change = IF request[r].password > history.change
                                  THEN request[r].password ELSE history.change
             /\ history'.changer = IF request[r].password > history.change
                                   THEN request[r].session ELSE history.changer
  BY <1>0, <1>4 DEF RevokeOthers, History
<1>5. ASSUME NEW r \in Request, RotateKey(r) \/ ResetInstallation(r)
      PROVE  /\ history'.staleEpoch = history.staleEpoch
             /\ history'.reset = history.reset
             /\ account' = account
             /\ history'.change = history.change /\ history'.changer = history.changer
  <2>1. account' = account /\ history' = Crossed(request[r].client, request[r].listed)
    BY <1>5 DEF RotateKey, ResetInstallation
  <2> QED BY <1>0, <2>1 DEF Crossed, History
<1> QED BY <1>1, <1>2, <1>3, <1>4, <1>5, Writers

\* What was verified in an epoch of the account: no later epoch than its own, and in
\* its own no password from before the last reset.
InEpoch(authEpoch, password) ==
    /\ authEpoch <= account.authEpoch
    /\ authEpoch = account.authEpoch => history.reset <= password

\* Every session and every login under way is, as long as no command wrote back an
\* epoch that somebody else had changed.
ResetsOrdered ==
    ~history.staleEpoch =>
        /\ history.reset <= account.password
        /\ \A s \in Session : InEpoch(sessions[s].authEpoch, sessions[s].password)
        /\ \A r \in Request : request[r].at = "createSession" =>
             InEpoch(request[r].authEpoch, request[r].password)

\* The last change that is done, and those whose sessions are still to be revoked,
\* wrote the account's password or an earlier one; logins under way that verified
\* one from before the last change are late.
ChangesOrdered ==
    /\ history.change <= account.password
    /\ \A r \in Request :
         /\ request[r].at = "revokeOthers" => request[r].password <= account.password
         /\ request[r].at = "createSession" /\ request[r].password < history.change
              => request[r].late
    /\ \A s \in Session :
         sessions[s].state = "live" /\ sessions[s].password < history.change
           => s = history.changer \/ sessions[s].late

\* A reset takes the account to an epoch nothing was verified in yet; every other
\* command leaves the epoch as it is, or wrote back a stale one.
LEMMA ResetsOrderedKept ==
    ASSUME TypeOK, ResetsOrdered, [Next]_vars
    PROVE  ResetsOrdered'
<1> SUFFICES ASSUME ~history'.staleEpoch
             PROVE  /\ history'.reset <= account'.password
                    /\ \A s \in Session : InEpoch(sessions[s].authEpoch, sessions[s].password)'
                    /\ \A r \in Request : request'[r].at = "createSession" =>
                         InEpoch(request[r].authEpoch, request[r].password)'
  BY DEF ResetsOrdered
<1>0. /\ request \in [Request -> RequestRow] /\ sessions \in [Session -> SessionRow]
      /\ account.authEpoch \in Nat /\ account.password \in Nat /\ history.reset \in Nat
      /\ \A s \in Session : sessions[s].authEpoch \in Nat /\ sessions[s].password \in Nat
      /\ \A r \in Request : request[r].authEpoch \in Nat /\ request[r].password \in Nat
  BY RowFields DEF TypeOK, StoreTypeOK, Account, SessionRow
<1>1. ~history.staleEpoch
  BY AccountRows
<1>2. /\ \A s \in Session : InEpoch(sessions[s].authEpoch, sessions[s].password)
      /\ \A r \in Request : request[r].at = "createSession" =>
           InEpoch(request[r].authEpoch, request[r].password)
      /\ history.reset <= account.password
  BY <1>1 DEF ResetsOrdered
<1>3. \/ /\ account'.authEpoch = account.authEpoch
         /\ account'.password \in {account.password, account.password + 1}
         /\ history'.reset = history.reset
      \/ /\ account'.authEpoch = account.authEpoch + 1
         /\ account'.password = account.password + 1
         /\ history'.reset = account.password + 1
         /\ \E q \in Request : SetPassword(q)
  BY AccountRows
<1>4. history'.reset <= account'.password
  BY <1>0, <1>2, <1>3
<1>5. ASSUME NEW e \in Nat, NEW p \in Nat, InEpoch(e, p)
      PROVE  e <= account'.authEpoch /\ (e = account'.authEpoch => history'.reset <= p)
  BY <1>0, <1>3, <1>5 DEF InEpoch
<1>6. ASSUME NEW s \in Session PROVE InEpoch(sessions[s].authEpoch, sessions[s].password)'
  <2>1. CASE /\ sessions'[s].authEpoch = sessions[s].authEpoch
             /\ sessions'[s].password = sessions[s].password
    BY <1>0, <1>2, <1>5, <2>1 DEF InEpoch
  <2>2. ASSUME NEW r \in Request, CreateSession(r),
               sessions'[s].authEpoch = request[r].authEpoch,
               sessions'[s].password = request[r].password
        PROVE  InEpoch(sessions[s].authEpoch, sessions[s].password)'
    <3>1. request[r].at = "createSession"
      BY <1>0, <2>2, Stages
    <3> QED BY <1>0, <1>2, <1>5, <2>2, <3>1 DEF InEpoch
  <2> QED BY <2>1, <2>2, SessionRows
<1>7. ASSUME NEW r \in Request, request'[r].at = "createSession"
      PROVE  InEpoch(request[r].authEpoch, request[r].password)'
  <2>1. CASE /\ request[r].at = "createSession"
             /\ request'[r].authEpoch = request[r].authEpoch
             /\ request'[r].password = request[r].password
    BY <1>0, <1>2, <1>5, <2>1 DEF InEpoch
  <2>2. CASE /\ Login(r)
             /\ request'[r].authEpoch = account.authEpoch
             /\ request'[r].password = account.password
    <3>1. account' = account /\ history' = history
      BY <2>2 DEF Login, store
    <3> QED BY <1>0, <1>2, <2>2, <3>1 DEF InEpoch
  <2> QED BY <1>0, <1>7, <2>1, <2>2, StagesReached
<1> QED BY <1>4, <1>6, <1>7

\* The request that revokes the other sessions marks the logins that may still
\* insert one.
LEMMA ChangesOrderedKept ==
    ASSUME TypeOK, ChangesOrdered, [Next]_vars
    PROVE  ChangesOrdered'
<1>0. /\ request \in [Request -> RequestRow] /\ sessions \in [Session -> SessionRow]
      /\ account.password \in Nat /\ history.change \in Nat
      /\ \A s \in Session : sessions[s].password \in Nat
      /\ \A r \in Request : request[r].password \in Nat
  BY RowFields DEF TypeOK, StoreTypeOK, Account, SessionRow
<1>1. account'.password \in {account.password, account.password + 1}
  BY AccountRows
<1>2. \/ history'.change = history.change /\ history'.changer = history.changer
      \/ \E r \in Request :
           /\ RevokeOthers(r)
           /\ request[r].at = "revokeOthers"
           /\ history'.change = IF request[r].password > history.change
                                THEN request[r].password ELSE history.change
           /\ history'.changer = IF request[r].password > history.change
                                 THEN request[r].session ELSE history.changer
  BY AccountRows
<1>3. history'.change <= account'.password
  <2>1. CASE history'.change = history.change
    BY <1>0, <1>1, <2>1 DEF ChangesOrdered
  <2>2. ASSUME NEW r \in Request, request[r].at = "revokeOthers",
               history'.change = request[r].password
        PROVE  history'.change <= account'.password
    BY <1>0, <1>1, <2>2 DEF ChangesOrdered
  <2> QED BY <1>2, <2>1, <2>2
<1>4. ASSUME NEW r \in Request, request'[r].at = "revokeOthers"
      PROVE  request'[r].password <= account'.password
  <2>1. CASE request[r].at = "revokeOthers" /\ request'[r].password = request[r].password
    BY <1>0, <1>1, <2>1 DEF ChangesOrdered
  <2>2. CASE ChangePassword(r) /\ request'[r].password = account.password + 1
    <3>1. account'.password = account.password + 1
      BY <2>2 DEF ChangePassword, UpdatePassword, TypeOK, StoreTypeOK, Account
    <3> QED BY <1>0, <2>2, <3>1
  <2> QED BY <1>0, <1>4, <2>1, <2>2, StagesReached
<1>5. ASSUME NEW r \in Request, request'[r].at = "createSession",
             request'[r].password < history'.change
      PROVE  request'[r].late
  <2>1. CASE Login(r) /\ request'[r].password = account.password
    <3>1. history' = history
      BY <2>1 DEF Login
    <3> QED BY <1>0, <1>5, <2>1, <3>1 DEF ChangesOrdered
  <2>2. CASE /\ request[r].at = "createSession"
             /\ request'[r].password = request[r].password
             /\ request[r].late => request'[r].late
             /\ (\E q \in Request : RevokeOthers(q)) => request'[r].late
    BY <1>0, <1>2, <1>5, <2>2 DEF ChangesOrdered
  <2> QED BY <1>0, <1>5, <2>1, <2>2, StagesReached
<1>6. ASSUME NEW s \in Session, sessions'[s].state = "live",
             sessions'[s].password < history'.change
      PROVE  s = history'.changer \/ sessions'[s].late
  <2>1. ASSUME NEW r \in Request, CreateSession(r),
               sessions'[s].password = request[r].password,
               sessions'[s].late = request[r].late, history' = history
        PROVE  sessions'[s].late
    <3>1. request[r].at = "createSession"
      BY <1>0, <2>1, Stages
    <3> QED BY <1>0, <1>6, <2>1, <3>1 DEF ChangesOrdered
  <2>2. CASE /\ sessions'[s].password = sessions[s].password
             /\ sessions'[s].late = sessions[s].late
             /\ sessions[s].state = "live"
             /\ \A r \in Request : RevokeOthers(r) => s = request[r].session
    <3>1. CASE history'.change = history.change /\ history'.changer = history.changer
      BY <1>0, <1>6, <2>2, <3>1 DEF ChangesOrdered
    <3>2. ASSUME NEW r \in Request, RevokeOthers(r),
                 history'.change = IF request[r].password > history.change
                                   THEN request[r].password ELSE history.change,
                 history'.changer = IF request[r].password > history.change
                                    THEN request[r].session ELSE history.changer
          PROVE  s = history'.changer \/ sessions'[s].late
      BY <1>0, <1>6, <2>2, <3>2 DEF ChangesOrdered
    <3> QED BY <1>2, <3>1, <3>2
  <2> QED BY <1>6, <2>1, <2>2, SessionRows
<1> QED BY <1>3, <1>4, <1>5, <1>6 DEF ChangesOrdered

-----------------------------------------------------------------------------
(* Sockets *)

\* A request that has still to close the sockets of the client, or of its space.
ClientClosing(c) ==
    \E r \in Request : request[r].at \in {"revokeKeys", "closeClient"} /\ request[r].client = c
SpaceClosing(c) ==
    \E r \in Request : request[r].at = "closeSpace" /\ request[r].space = clients[c].space

\* No key without a client.
KeysHaveClients == \A c \in Client : clients[c].status = "absent" => keys[c] = <<>>

\* What a device has read still holds, but for what a request has not closed yet and
\* for the devices that were on their way when one did.
ReadStillHolds(d) ==
    LET c == device[d].client
        at == device[d].at
    IN  /\ clients[c].status # "absent"
        /\ device[d].key \in DOMAIN keys[c]
        /\ ~KeyOf(d).revoked \/ device[d].raced \/ ClientClosing(c)
        /\ at \in {"client", "granted", "open"} =>
             \/ spaces[clients[c].space].status = "active"
             \/ device[d].raced \/ SpaceClosing(c)
        /\ at \in {"granted", "open"} =>
             clients[c].status = "active" \/ device[d].raced \/ ClientClosing(c)
        /\ at \in {"granted", "open"} /\ device[d].bound = d =>
             clients[c].installation = d \/ device[d].raced \/ ClientClosing(c)
        /\ at = "open" => device[d].bound = d

DevicesAreAuthorised ==
    \A d \in Installation : device[d].at # "idle" => ReadStillHolds(d)

\* A client, once there, stays in its space.
LEMMA ClientStays ==
    ASSUME TypeOK, [Next]_vars, NEW c \in Client
    PROVE  /\ clients[c].status # "absent" =>
                clients'[c].status # "absent" /\ clients'[c].space = clients[c].space
           /\ clients'[c].status = "absent" => clients[c].status = "absent"
           /\ clients[c].status = "active" =>
                clients'[c].status = "active" \/ ClientClosing(c)'
           /\ clients[c].status # "absent" /\ clients[c].installation # Nobody =>
                \/ clients'[c].installation = clients[c].installation
                \/ clients'[c].installation = Nobody /\ ClientClosing(c)'
           /\ clients[c].installation # Nobody =>
                clients'[c].installation \in {clients[c].installation, Nobody}
<1> DEFINE Goal ==
           /\ clients[c].status # "absent" =>
                clients'[c].status # "absent" /\ clients'[c].space = clients[c].space
           /\ clients'[c].status = "absent" => clients[c].status = "absent"
           /\ clients[c].status = "active" =>
                clients'[c].status = "active" \/ ClientClosing(c)'
           /\ clients[c].status # "absent" /\ clients[c].installation # Nobody =>
                \/ clients'[c].installation = clients[c].installation
                \/ clients'[c].installation = Nobody /\ ClientClosing(c)'
           /\ clients[c].installation # Nobody =>
                clients'[c].installation \in {clients[c].installation, Nobody}
<1>0. /\ clients \in [Client -> ClientRow] /\ clients[c] \in ClientRow
      /\ request \in [Request -> RequestRow]
      /\ device \in [Installation -> DeviceRow]
  BY DEF TypeOK, StoreTypeOK
<1>1. ASSUME NEW r \in Request, CreateClient(r) PROVE Goal
  BY <1>0, <1>1 DEF CreateClient, InsertClient
<1>2. ASSUME NEW r \in Request, ResetInstallation(r) PROVE Goal
  <2>1. ReactivateUnbound(request[r].client)
    BY <1>2 DEF ResetInstallation
  <2>2. clients'[c] = IF request[r].client = c
                      THEN [clients[c] EXCEPT !.status = "active", !.installation = Nobody]
                      ELSE clients[c]
    BY <1>0, <2>1 DEF ReactivateUnbound
  <2>3. request[r].client = c => ClientClosing(c)'
    BY <1>0, <1>2, Stages DEF ClientClosing
  <2>4. /\ [clients[c] EXCEPT !.status = "active", !.installation = Nobody].status = "active"
        /\ [clients[c] EXCEPT !.status = "active", !.installation = Nobody].installation = Nobody
        /\ [clients[c] EXCEPT !.status = "active", !.installation = Nobody].space = clients[c].space
    BY <1>0 DEF ClientRow
  <2> QED BY <1>2, <2>2, <2>3, <2>4
<1>3. ASSUME NEW r \in Request, RevokeClient(r) PROVE Goal
  <2>1. clients'[c] = IF request[r].client = c THEN [clients[c] EXCEPT !.status = "revoked"]
                      ELSE clients[c]
    BY <1>0, <1>3 DEF RevokeClient, RevokeClientRow
  <2>2. request[r].client = c => ClientClosing(c)'
    BY <1>0, <1>3, Stages DEF ClientClosing
  <2>3. /\ [clients[c] EXCEPT !.status = "revoked"].status = "revoked"
        /\ [clients[c] EXCEPT !.status = "revoked"].installation = clients[c].installation
        /\ [clients[c] EXCEPT !.status = "revoked"].space = clients[c].space
    BY <1>0 DEF ClientRow
  <2> QED BY <1>3, <2>1, <2>2, <2>3
<1>4. ASSUME NEW d \in Installation, Bind(d) PROVE Goal
  <2>1. \/ clients'[c] = clients[c]
        \/ /\ clients'[c] = [clients[c] EXCEPT !.installation = d]
           /\ clients[c].installation \in {Nobody, d}
    BY <1>0, <1>4 DEF Bind, BindInstallation, MayBind
  <2>2. /\ [clients[c] EXCEPT !.installation = d].status = clients[c].status
        /\ [clients[c] EXCEPT !.installation = d].installation = d
        /\ [clients[c] EXCEPT !.installation = d].space = clients[c].space
    BY <1>0 DEF ClientRow
  <2> QED BY <2>1, <2>2
<1>5. CASE UNCHANGED clients
  BY <1>5
<1> QED BY <1>1, <1>2, <1>3, <1>4, <1>5, Writers

\* A key stays where it is, and is revoked by a request that closes the client.
LEMMA KeyStays ==
    ASSUME TypeOK, [Next]_vars, NEW c \in Client, clients[c].status # "absent",
           NEW i \in DOMAIN keys[c]
    PROVE  /\ i \in DOMAIN keys'[c]
           /\ keys'[c][i].revoked => keys[c][i].revoked \/ ClientClosing(c)'
<1>0. /\ keys \in [Client -> Seq(KeyGeneration)] /\ keys[c][i] \in KeyGeneration
      /\ request \in [Request -> RequestRow]
  BY DEF TypeOK, StoreTypeOK
<1>1. ASSUME NEW r \in Request, RotateKey(r) \/ ResetInstallation(r), request[r].client = c
      PROVE  i \in DOMAIN keys'[c] /\ ClientClosing(c)'
  <2>1. PICK revoked, expiring :
          /\ revoked \intersect expiring = {}
          /\ ReplaceClientKey(c, revoked, expiring, request[r].authEpoch)
    <3>1. (request[r].listed \ Kept(r)) \intersect Kept(r) = {} /\ request[r].listed \intersect {} = {}
      OBVIOUS
    <3> QED BY <1>1, <3>1 DEF RotateKey, ResetInstallation
  <2>2. request[r].authEpoch \in Nat
    BY <1>0, RowFields
  <2>3. i \in DOMAIN keys'[c]
    BY <1>0, <2>1, <2>2, Replaced
  <2> QED BY <1>0, <1>1, <2>3, Stages DEF ClientClosing
<1>2. ASSUME NEW r \in Request, RevokeKey(r), request[r].client = c
      PROVE  i \in DOMAIN keys'[c] /\ ClientClosing(c)'
  <2>1. PICK j : RevokeGeneration(c, j)
    BY <1>2 DEF RevokeKey
  <2>2. DOMAIN keys'[c] = DOMAIN keys[c]
    BY <1>0, <2>1 DEF RevokeGeneration
  <2> QED BY <1>0, <1>2, <2>2, Stages DEF ClientClosing
<1>3. ASSUME NEW j \in DOMAIN keys[c], KeyExpires(c, j)
      PROVE  i \in DOMAIN keys'[c] /\ keys'[c][i].revoked = keys[c][i].revoked
  <2>1. /\ DOMAIN keys'[c] = DOMAIN keys[c]
        /\ keys'[c][i] = IF i = j THEN [keys[c][i] EXCEPT !.expires = "past"] ELSE keys[c][i]
    BY <1>0, <1>3 DEF KeyExpires
  <2>2. [keys[c][i] EXCEPT !.expires = "past"].revoked = keys[c][i].revoked
    BY <1>0 DEF KeyGeneration
  <2> QED BY <2>1, <2>2
<1>4. ASSUME NEW r \in Request, NEW x \in Space, InsertClient(c, x, request[r].authEpoch)
      PROVE  FALSE
  BY <1>4 DEF InsertClient
<1>5. CASE keys'[c] = keys[c]
  BY <1>5
<1> QED BY <1>1, <1>2, <1>3, <1>4, <1>5, KeyWriters

\* An active space stays so, or a request has to close its sockets.
LEMMA SpaceStays ==
    ASSUME TypeOK, [Next]_vars, NEW x \in Space, spaces[x].status = "active"
    PROVE  \/ spaces'[x].status = "active"
           \/ \E r \in Request : request'[r].at = "closeSpace" /\ request'[r].space = x
<1>0. spaces \in [Space -> SpaceRow] /\ request \in [Request -> RequestRow]
  BY DEF TypeOK, StoreTypeOK
<1>1. ASSUME NEW y \in Space, NEW v \in {"active", "inactive", "deleting"}, NEW epoch,
             WriteSpace(y, v, epoch)
      PROVE  spaces'[x] = spaces[x] \/ (x = y /\ spaces'[x].status = v)
  <2>1. PICK row : row = [status |-> v, restoreEpoch |-> epoch]
    OBVIOUS
  <2>2. row.status = v
    BY <2>1
  <2>3. spaces'[x] = IF x = y THEN row ELSE spaces[x]
    BY <1>0, <1>1, <2>1 DEF WriteSpace
  <2> QED BY <2>2, <2>3
<1>2. ASSUME NEW r \in Request, NEW y \in Space,
             Step(r, "ready", [At(r, "closeSpace") EXCEPT !.space = y])
      PROVE  request'[r].at = "closeSpace" /\ request'[r].space = y
  BY <1>0, <1>2 DEF Step, At, RequestRow
<1>3. ASSUME NEW r \in Request, CreateSpace(r) PROVE spaces'[x].status = "active"
  BY <1>0, <1>3 DEF CreateSpace, InsertSpace
<1>4. ASSUME NEW r \in Request, RestoreSpace(r) PROVE spaces'[x].status = "active"
  <2>1. request[r].space \in Space
    BY <1>0, RowFields
  <2> QED BY <1>1, <1>4, <2>1 DEF RestoreSpace
<1>5. ASSUME NEW r \in Request, UpdateSpace(r), spaces'[x].status # "active"
      PROVE  request'[r].at = "closeSpace" /\ request'[r].space = x
  <2>1. PICK y \in Space : \E status \in {"active", "inactive"} :
         /\ Step(r, "ready", IF status = "active" THEN Ended
                             ELSE [At(r, "closeSpace") EXCEPT !.space = y])
         /\ WriteSpace(y, status, spaces[y].restoreEpoch)
    BY <1>5 DEF UpdateSpace
  <2>2. PICK status \in {"active", "inactive"} :
         /\ Step(r, "ready", IF status = "active" THEN Ended
                             ELSE [At(r, "closeSpace") EXCEPT !.space = y])
         /\ WriteSpace(y, status, spaces[y].restoreEpoch)
    BY <2>1
  <2>3. x = y /\ status # "active"
    BY <1>1, <1>5, <2>2
  <2> QED BY <1>2, <2>2, <2>3
<1>6. ASSUME NEW r \in Request, DeleteSpace(r), spaces'[x].status # "active"
      PROVE  request'[r].at = "closeSpace" /\ request'[r].space = x
  BY <1>1, <1>2, <1>6 DEF DeleteSpace
<1>7. CASE UNCHANGED spaces
  BY <1>7
<1> QED BY <1>3, <1>4, <1>5, <1>6, <1>7, Writers

\* A request goes on closing until it has closed.
LEMMA GoesOnClosing ==
    ASSUME TypeOK, [Next]_vars, NEW c \in Client, clients[c].status # "absent"
    PROVE  /\ ClientClosing(c) =>
                \/ ClientClosing(c)'
                \/ \E r \in Request : CloseClient(r) /\ request[r].client = c
           /\ SpaceClosing(c) =>
                \/ SpaceClosing(c)'
                \/ \E r \in Request : CloseSpace(r) /\ request[r].space = clients[c].space
<1>0. request \in [Request -> RequestRow] /\ clients'[c].space = clients[c].space
  BY ClientStays DEF TypeOK
<1>1. ASSUME NEW r \in Request, request[r].at \in {"revokeKeys", "closeClient"},
             request[r].client = c
      PROVE  \/ request'[r].at \in {"revokeKeys", "closeClient"} /\ request'[r].client = c
             \/ CloseClient(r)
  BY <1>0, <1>1, StagesReached
<1>2. ASSUME NEW r \in Request, request[r].at = "closeSpace"
      PROVE  \/ request'[r].at = "closeSpace" /\ request'[r].space = request[r].space
             \/ CloseSpace(r)
  BY <1>0, <1>2, StagesReached
<1> QED BY <1>0, <1>1, <1>2 DEF ClientClosing, SpaceClosing

\* Requests on keys are about clients there are.
KeyRequestsHaveClients ==
    \A r \in Request : request[r].at \in {"list", "replaceKey", "revokeKeys"} =>
        clients[request[r].client].status # "absent"

\* A request on keys read a client there is, and clients stay.
LEMMA KeyRequestsKept ==
    ASSUME TypeOK, KeyRequestsHaveClients, [Next]_vars
    PROVE  KeyRequestsHaveClients'
<1>0. /\ request \in [Request -> RequestRow] /\ clients \in [Client -> ClientRow]
      /\ request' \in [Request -> RequestRow]
  BY RequestTyped DEF TypeOK, StoreTypeOK
<1> SUFFICES ASSUME NEW r \in Request, request'[r].at \in {"list", "replaceKey", "revokeKeys"}
             PROVE  clients'[request'[r].client].status # "absent"
  BY DEF KeyRequestsHaveClients
<1>1. request'[r].client \in Client
  BY <1>0 DEF RequestRow
<1>2. SUFFICES clients[request'[r].client].status # "absent"
  BY <1>1, ClientStays
<1>3. CASE /\ request[r].at \in {"list", "replaceKey", "revokeKeys"}
           /\ request'[r].client = request[r].client
  BY <1>3 DEF KeyRequestsHaveClients
<1>4. ASSUME RequireClient(r) PROVE clients[request'[r].client].status # "absent"
  <2>1. PICK c \in Client, op \in KeyOp :
         /\ clients[c].status \in {"active", "revoked"}
         /\ Step(r, "ready", [At(r, "list") EXCEPT !.client = c, !.op = op])
    BY <1>4 DEF RequireClient
  <2>2. request'[r].client = c
    BY <1>0, <2>1 DEF Step, At, RequestRow
  <2> QED BY <2>1, <2>2
<1>5. ASSUME ListKeys(r) PROVE request[r].at = "list" /\ request'[r].client = request[r].client
  BY <1>0, <1>5 DEF ListKeys, Step, RequestRow
<1>6. ASSUME RevokeKey(r)
      PROVE  request[r].at = "revokeKeys" /\ request'[r].client = request[r].client
  BY <1>0, <1>6, Stages
<1>7. ASSUME \E q \in Request : RevokeOthers(q),
             request'[r] = [request[r] EXCEPT !.late = @ \/ request[r].at = "createSession"]
      PROVE  request'[r].at = request[r].at /\ request'[r].client = request[r].client
  BY <1>0, <1>7 DEF RequestRow
<1>8. Acts(r) => RequireClient(r) \/ ListKeys(r) \/ RevokeKey(r)
  BY <1>0, Stages DEF Acts
<1> QED BY <1>3, <1>4, <1>5, <1>6, <1>7, <1>8, <1>0, OneMoves

\* Keys are only written for clients there are.
LEMMA KeysHaveClientsKept ==
    ASSUME TypeOK, KeysHaveClients, KeyRequestsHaveClients, [Next]_vars
    PROVE  KeysHaveClients'
<1>0. /\ request \in [Request -> RequestRow] /\ clients \in [Client -> ClientRow]
      /\ keys \in [Client -> Seq(KeyGeneration)]
  BY DEF TypeOK, StoreTypeOK
<1> SUFFICES ASSUME NEW c \in Client, clients'[c].status = "absent"
             PROVE  keys'[c] = <<>>
  BY DEF KeysHaveClients
<1>1. clients[c].status = "absent" /\ keys[c] = <<>>
  BY ClientStays DEF KeysHaveClients
<1>2. ASSUME NEW r \in Request, NEW x \in Space, InsertClient(c, x, request[r].authEpoch)
      PROVE  FALSE
  BY <1>0, <1>2 DEF InsertClient
<1>3. ASSUME NEW r \in Request, RotateKey(r) \/ ResetInstallation(r) \/ RevokeKey(r),
             request[r].client = c
      PROVE  FALSE
  BY <1>0, <1>1, <1>3, Stages DEF KeyRequestsHaveClients
<1>4. DOMAIN keys[c] = {}
  BY <1>1
<1> QED BY <1>1, <1>2, <1>3, <1>4, KeyWriters

\* What a step does to a device's row.
LEMMA DeviceMoves ==
    ASSUME TypeOK, [Next]_vars, NEW d \in Installation
    PROVE  \/ device'[d].at = "idle"
           \/ /\ device'[d] = device[d]
              /\ \A r \in Request :
                   /\ CloseClient(r) => device[d].client # request[r].client
                   /\ CloseSpace(r) /\ device[d].at \in {"client", "granted", "open"} =>
                        clients[device[d].client].space # request[r].space
           \/ device[d].at # "idle" /\ device'[d] = [device[d] EXCEPT !.raced = TRUE]
           \/ /\ UNCHANGED <<store, request>>
              /\ PresentKey(d) \/ ReadAccount(d) \/ ReadSpace(d) \/ ReadClient(d) \/ Register(d)
<1>0. /\ device \in [Installation -> DeviceRow] /\ device[d] \in DeviceRow
      /\ request \in [Request -> RequestRow]
  BY DEF TypeOK
<1>1. ASSUME NEW cs, NEW past, "open" \notin past, "idle" \notin past, Close(cs, past),
             device[d].client \in Client
      PROVE  \/ device'[d] = Idle
             \/ device[d].at # "idle" /\ device'[d] = [device[d] EXCEPT !.raced = TRUE]
             \/ /\ device'[d] = device[d]
                /\ device[d].client \notin cs \/ device[d].at \notin past \union {"open"}
  <2> DEFINE row == [device[d] EXCEPT !.raced = TRUE]
  <2>1. device'[d] =
          CASE device[d].client \in cs /\ d \in ToClose(device[d].client) -> Idle
            [] device[d].client \in cs /\ device[d].at \in past -> row
            [] OTHER -> device[d]
    BY <1>1 DEF Close
  <2>2. d \in ToClose(device[d].client) <=> device[d].at = "open"
    BY DEF ToClose, Sockets
  <2> HIDE DEF row
  <2>3. \/ device'[d] = Idle
        \/ device[d].at # "idle" /\ device'[d] = row
        \/ /\ device'[d] = device[d]
           /\ device[d].client \notin cs \/ device[d].at \notin past \union {"open"}
    BY <1>1, <2>1, <2>2
  <2> QED BY <2>3 DEF row
<1>2. ASSUME NEW r \in Request, CloseClient(r)
      PROVE  \/ device'[d].at = "idle"
             \/ device[d].at # "idle" /\ device'[d] = [device[d] EXCEPT !.raced = TRUE]
             \/ device'[d] = device[d] /\ (device[d].client # request[r].client \/ device[d].at = "idle")
  <2>1. PICK cs, past : /\ cs = {request[r].client}
                        /\ past = {"account", "space", "client", "granted"}
                        /\ Close(cs, past)
    BY <1>2 DEF CloseClient
  <2>2. device[d].client \in Client /\ device[d].at \in DeviceStage
    BY <1>0 DEF DeviceRow
  <2>3. "open" \notin past /\ "idle" \notin past
    BY <2>1
  <2>4. device[d].at \notin past \union {"open"} => device[d].at = "idle"
    BY <2>1, <2>2 DEF DeviceStage
  <2>5. Idle.at = "idle"
    BY DEF Idle
  <2> QED BY <1>1, <2>1, <2>2, <2>3, <2>4, <2>5
<1>3. ASSUME NEW r \in Request, CloseSpace(r)
      PROVE  \/ device'[d].at = "idle"
             \/ device[d].at # "idle" /\ device'[d] = [device[d] EXCEPT !.raced = TRUE]
             \/ /\ device'[d] = device[d]
                /\ device[d].at \in {"client", "granted", "open"} =>
                     clients[device[d].client].space # request[r].space
  <2>1. PICK cs, past : /\ cs = {c \in Client : clients[c].space = request[r].space}
                        /\ past = {"client", "granted"}
                        /\ Close(cs, past)
    BY <1>3 DEF CloseSpace
  <2>2. device[d].client \in Client
    BY <1>0 DEF DeviceRow
  <2>3. "open" \notin past /\ "idle" \notin past
    BY <2>1
  <2>4. device[d].at \notin past \union {"open"} => device[d].at \notin {"client", "granted", "open"}
    BY <2>1
  <2>5. Idle.at = "idle"
    BY DEF Idle
  <2>6. device[d].client \notin cs => clients[device[d].client].space # request[r].space
    BY <2>1, <2>2
  <2> QED BY <1>1, <2>1, <2>2, <2>3, <2>4, <2>5, <2>6
<1>4. ASSUME NEW e \in Installation,
             \/ PresentKey(e) \/ ReadAccount(e) \/ ReadSpace(e) \/ ReadClient(e)
             \/ Bind(e) \/ Register(e) \/ Disconnect(e),
             e # d
      PROVE  device'[d] = device[d]
  BY <1>0, <1>4 DEF PresentKey, ReadAccount, ReadSpace, ReadClient, Bind, Register, Disconnect, Read
<1>5. ASSUME Bind(d) \/ Disconnect(d) PROVE device'[d].at = "idle"
  BY <1>0, <1>5 DEF Bind, Disconnect, Read, Idle
<1>6. ASSUME PresentKey(d) \/ ReadAccount(d) \/ ReadSpace(d) \/ ReadClient(d) \/ Register(d)
      PROVE  UNCHANGED <<store, request>>
  BY <1>6 DEF PresentKey, ReadAccount, ReadSpace, ReadClient, Register, Read
<1>7. device'[d].at = "idle" \/ device[d].at # "idle" \/ device'[d] # device[d]
  OBVIOUS
<1> QED BY <1>2, <1>3, <1>4, <1>5, <1>6, <1>7, Writers

\* What a device has read still holds after every step: a step that voids it is one
\* of a request that closes afterwards, and one that ends a request closes.
LEMMA DevicesKept ==
    ASSUME TypeOK, TypeOK', DevicesAreAuthorised, KeysHaveClients, [Next]_vars
    PROVE  DevicesAreAuthorised'
<1> SUFFICES ASSUME NEW d \in Installation, device'[d].at # "idle"
             PROVE  ReadStillHolds(d)'
  BY DEF DevicesAreAuthorised
<1>0. /\ device \in [Installation -> DeviceRow] /\ device[d] \in DeviceRow
      /\ clients \in [Client -> ClientRow] /\ request \in [Request -> RequestRow]
      /\ keys \in [Client -> Seq(KeyGeneration)]
  BY DEF TypeOK, StoreTypeOK
<1>c. PICK c \in Client : c = device[d].client
  BY <1>0 DEF DeviceRow
<1>1. c \in Client /\ clients[c] \in ClientRow /\ clients[c].space \in Space
  BY <1>0 DEF ClientRow
\* What the device had read: carried over, unless something was closed.
<1>2. ASSUME device[d].at # "idle"
      PROVE  /\ clients'[c].status # "absent"
             /\ device[d].key \in DOMAIN keys'[c]
             /\ \/ ~keys'[c][device[d].key].revoked \/ device[d].raced \/ ClientClosing(c)'
                \/ \E r \in Request : CloseClient(r) /\ request[r].client = c
             /\ device[d].at \in {"client", "granted", "open"} =>
                  \/ spaces'[clients'[c].space].status = "active"
                  \/ device[d].raced \/ SpaceClosing(c)'
                  \/ \E r \in Request : CloseSpace(r) /\ request[r].space = clients[c].space
             /\ device[d].at \in {"granted", "open"} =>
                  \/ clients'[c].status = "active" \/ device[d].raced \/ ClientClosing(c)'
                  \/ \E r \in Request : CloseClient(r) /\ request[r].client = c
             /\ device[d].at \in {"granted", "open"} /\ device[d].bound = d =>
                  \/ clients'[c].installation = d \/ device[d].raced \/ ClientClosing(c)'
                  \/ \E r \in Request : CloseClient(r) /\ request[r].client = c
             /\ device[d].at = "open" => device[d].bound = d
  <2> DEFINE Closes == \E r \in Request : CloseClient(r) /\ request[r].client = c
             ClosesSpace == \E r \in Request : CloseSpace(r) /\ request[r].space = clients[c].space
  <2>1. ReadStillHolds(d)
    BY <1>2 DEF DevicesAreAuthorised
  <2>2. clients[c].status # "absent" /\ device[d].key \in DOMAIN keys[c]
    BY <1>c, <2>1 DEF ReadStillHolds
  <2>3. clients'[c].status # "absent" /\ clients'[c].space = clients[c].space
    BY <1>1, <2>2, ClientStays
  <2>4. /\ device[d].key \in DOMAIN keys'[c]
        /\ keys'[c][device[d].key].revoked => keys[c][device[d].key].revoked \/ ClientClosing(c)'
    BY <1>1, <2>2, KeyStays
  <2>5. /\ ClientClosing(c) => ClientClosing(c)' \/ Closes
        /\ SpaceClosing(c) => SpaceClosing(c)' \/ ClosesSpace
    BY <1>1, <2>2, GoesOnClosing
  <2>6. spaces[clients[c].space].status = "active" =>
          spaces'[clients'[c].space].status = "active" \/ SpaceClosing(c)'
    BY <1>1, <2>3, SpaceStays DEF SpaceClosing
  <2>7. /\ clients[c].status = "active" => clients'[c].status = "active" \/ ClientClosing(c)'
        /\ clients[c].installation = d =>
             clients'[c].installation = d \/ ClientClosing(c)'
    <3>1. d # Nobody
      BY StoreAssumption
    <3> QED BY <1>1, <2>2, <3>1, ClientStays
  <2> HIDE DEF Closes, ClosesSpace
  <2>8. ~keys'[c][device[d].key].revoked \/ device[d].raced \/ ClientClosing(c)' \/ Closes
    BY <1>c, <2>1, <2>4, <2>5 DEF ReadStillHolds, KeyOf
  <2>9. device[d].at \in {"client", "granted", "open"} =>
          \/ spaces'[clients'[c].space].status = "active"
          \/ device[d].raced \/ SpaceClosing(c)' \/ ClosesSpace
    BY <1>c, <2>1, <2>5, <2>6 DEF ReadStillHolds
  <2>10. /\ device[d].at \in {"granted", "open"} =>
              clients'[c].status = "active" \/ device[d].raced \/ ClientClosing(c)' \/ Closes
         /\ device[d].at \in {"granted", "open"} /\ device[d].bound = d =>
              clients'[c].installation = d \/ device[d].raced \/ ClientClosing(c)' \/ Closes
         /\ device[d].at = "open" => device[d].bound = d
    BY <1>c, <2>1, <2>5, <2>7 DEF ReadStillHolds
  <2> QED BY <2>3, <2>4, <2>8, <2>9, <2>10 DEF Closes, ClosesSpace
<1>3. CASE /\ device'[d] = device[d]
           /\ \A r \in Request :
                /\ CloseClient(r) => device[d].client # request[r].client
                /\ CloseSpace(r) /\ device[d].at \in {"client", "granted", "open"} =>
                     clients[device[d].client].space # request[r].space
  <2>1. device[d].at # "idle"
    BY <1>3
  <2> QED BY <1>c, <1>2, <1>3, <2>1 DEF ReadStillHolds, KeyOf
<1>4. CASE device[d].at # "idle" /\ device'[d] = [device[d] EXCEPT !.raced = TRUE]
  <2>1. /\ device'[d].raced /\ device'[d].client = c /\ device'[d].key = device[d].key
        /\ device'[d].at = device[d].at /\ device'[d].bound = device[d].bound
    BY <1>0, <1>c, <1>4 DEF DeviceRow
  <2> QED BY <1>c, <1>2, <1>4, <2>1 DEF ReadStillHolds, KeyOf
<1>5. ASSUME UNCHANGED <<store, request>>, PresentKey(d) PROVE ReadStillHolds(d)'
  <2>1. PICK e \in Client : \E i \in UsableKeys(e) :
          device' = [device EXCEPT ![d] = [Idle EXCEPT !.at = "account", !.client = e, !.key = i]]
    BY <1>5 DEF PresentKey
  <2>2. PICK i \in UsableKeys(e) :
          device' = [device EXCEPT ![d] = [Idle EXCEPT !.at = "account", !.client = e, !.key = i]]
    BY <2>1
  <2>3. /\ device'[d].at = "account" /\ device'[d].client = e /\ device'[d].key = i
    BY <1>0, <2>2 DEF Idle
  <2>4. i \in DOMAIN keys[e] /\ ~keys[e][i].revoked
    BY DEF UsableKeys, Usable
  <2>5. clients[e].status # "absent"
    <3>1. keys[e] # <<>>
      BY <1>0, <2>4
    <3> QED BY <3>1 DEF KeysHaveClients
  <2>6. keys' = keys /\ clients' = clients
    BY <1>5 DEF store
  <2> QED BY <2>3, <2>4, <2>5, <2>6 DEF ReadStillHolds, KeyOf
<1>6. ASSUME UNCHANGED <<store, request>>,
             ReadAccount(d) \/ ReadSpace(d) \/ ReadClient(d) \/ Register(d)
      PROVE  ReadStillHolds(d)'
  <2>1. /\ keys' = keys /\ clients' = clients /\ spaces' = spaces /\ request' = request
    BY <1>6 DEF store
  <2>2. /\ ClientClosing(c)' = ClientClosing(c)
        /\ SpaceClosing(c)' = SpaceClosing(c)
    BY <2>1 DEF ClientClosing, SpaceClosing
  <2>3. Idle.at = "idle"
    BY DEF Idle
  <2>4. /\ device[d].at # "idle"
        /\ device'[d].client = c /\ device'[d].key = device[d].key
        /\ device'[d].raced = device[d].raced
        /\ \/ /\ device[d].at = "account" /\ device'[d].at = "space"
           \/ /\ device[d].at = "space" /\ device'[d].at = "client"
              /\ spaces[clients[c].space].status = "active"
           \/ /\ device[d].at = "client" /\ device'[d].at = "granted"
              /\ clients[c].status = "active"
              /\ device'[d].bound = clients[c].installation
           \/ /\ device[d].at = "granted" /\ device'[d].at = "open"
              /\ device'[d].bound = device[d].bound
              /\ device[d].bound = d
    <3>1. CASE ReadAccount(d)
      BY <1>0, <1>c, <2>3, <3>1 DEF ReadAccount, Read, DeviceRow
    <3>2. CASE ReadSpace(d)
      BY <1>0, <1>c, <2>3, <3>2 DEF ReadSpace, Read, DeviceRow
    <3>3. CASE ReadClient(d)
      BY <1>0, <1>c, <2>3, <3>3 DEF ReadClient, Read, DeviceRow
    <3>4. CASE Register(d)
      BY <1>0, <1>c, <2>3, <3>4 DEF Register, Read, DeviceRow
    <3> QED BY <1>6, <3>1, <3>2, <3>3, <3>4
  <2>5. ReadStillHolds(d)
    BY <2>4 DEF DevicesAreAuthorised
  <2>6. KeyOf(d)' = KeyOf(d)
    BY <1>c, <2>1, <2>4 DEF KeyOf
  <2> QED BY <1>c, <2>1, <2>2, <2>4, <2>5, <2>6 DEF ReadStillHolds
<1> QED BY <1>3, <1>4, <1>5, <1>6, DeviceMoves

-----------------------------------------------------------------------------
(* The invariant of the specification *)

\* Each part is named above, or in ClientAccess.
IInv ==
    /\ TypeOK
    /\ StatusIsSet
    /\ LimitsKept
    /\ ActiveClientHasKey
    /\ TwoKeysAtMost
    /\ ResetsOrdered
    /\ ChangesOrdered
    /\ KeyRequestsHaveClients
    /\ KeysHaveClients
    /\ DevicesAreAuthorised

\* The initial state satisfies the invariant.
LEMMA InitHolds == Init => IInv
<1> SUFFICES ASSUME Init PROVE IInv
  OBVIOUS
<1>a. /\ account.authEpoch = 1 /\ account.password = 1
      /\ \A s \in Session : sessions[s].authEpoch = 1 /\ sessions[s].password = 1
      /\ history.reset = 1 /\ history.change = 1
  BY DEF Init
<1>b. \A x \in Space : spaces[x].status = "active" => x = Home
  <2>1. ASSUME NEW x \in Space
        PROVE  spaces[x].status =
                 CASE x = Home -> "active" [] x = Asleep -> "deleting" [] OTHER -> "absent"
    BY DEF Init
  <2> QED BY <2>1, AccessAssumption
<1>c. \A c \in Client :
        /\ clients[c].status = IF c = First THEN "active" ELSE "absent"
        /\ keys[c] = IF c = First THEN <<NewKey(1)>> ELSE <<>>
  BY DEF Init
<1>d. \A r \in Request : request[r].at = "new"
  BY DEF Init, Fresh
<1>e. \A d \in Installation : device[d].at = "idle"
  BY DEF Init, Idle
<1>2. TypeOK
  <2>1. account \in Account
    BY DEF Init, Account
  <2>2. sessions \in [Session -> SessionRow]
    BY DEF Init, SessionRow
  <2>3. spaces \in [Space -> SpaceRow]
    BY DEF Init, SpaceRow
  <2>4. clients \in [Client -> ClientRow]
    BY AccessAssumption DEF Init, ClientRow
  <2>5. keys \in [Client -> Seq(KeyGeneration)]
    <3>1. NewKey(1) \in KeyGeneration
      BY DEF NewKey, KeyGeneration
    <3>2. <<NewKey(1)>> \in Seq(KeyGeneration) /\ <<>> \in Seq(KeyGeneration)
      BY <3>1
    <3> QED BY <3>2 DEF Init
  <2>6. request \in [Request -> RequestRow] /\ device \in [Installation -> DeviceRow]
    BY Rows DEF Init
  <2>7. history \in History
    BY AccessAssumption DEF Init, History
  <2> QED BY <2>1, <2>2, <2>3, <2>4, <2>5, <2>6, <2>7 DEF TypeOK, StoreTypeOK, History
<1>3. LimitsKept
  <2>1. ActiveSpaces \in SUBSET {Home}
    BY <1>b DEF ActiveSpaces
  <2>2. ASSUME NEW x \in Space PROVE ActiveClients(x) \in SUBSET {First}
    BY <1>c DEF ActiveClients
  <2>3. ASSUME NEW e, NEW S \in SUBSET {e}, NEW limit \in Nat \ {0}
        PROVE  IsFiniteSet(S) /\ Cardinality(S) <= limit
    <3>1. IsFiniteSet({e}) /\ Cardinality({e}) = 1
      BY FS_Singleton
    <3>2. IsFiniteSet(S) /\ Cardinality(S) <= 1
      BY <3>1, FS_Subset
    <3>3. Cardinality(S) \in Nat
      BY <3>2, FS_CardinalityType
    <3> QED BY <3>2, <3>3
  <2> QED BY <2>1, <2>2, <2>3, StoreAssumption DEF LimitsKept
<1>4. ActiveClientHasKey
  <2>1. ASSUME NEW c \in Client, c = First
        PROVE  1 \in DOMAIN keys[c] /\ ~keys[c][1].revoked /\ keys[c][1].expires = "never"
    <3>1. keys[c] = <<NewKey(1)>>
      BY <1>c, <2>1
    <3> QED BY <3>1 DEF NewKey
  <2> QED BY <1>c, <2>1 DEF ActiveClientHasKey
<1>5. TwoKeysAtMost
  <2>1. ASSUME NEW c \in Client PROVE UsableKeys(c) \in SUBSET {1, 1}
    <3>1. keys[c] = <<NewKey(1)>> \/ keys[c] = <<>>
      BY <1>c
    <3> QED BY <3>1 DEF UsableKeys
  <2> QED BY <2>1, TwoAtMost DEF TwoKeysAtMost
<1>6. ResetsOrdered /\ ChangesOrdered
  BY <1>a, <1>d DEF ResetsOrdered, ChangesOrdered, InEpoch
<1>7. StatusIsSet /\ KeyRequestsHaveClients /\ DevicesAreAuthorised
  BY <1>d, <1>e DEF StatusIsSet, KeyRequestsHaveClients, DevicesAreAuthorised
<1>8. KeysHaveClients
  BY <1>c DEF KeysHaveClients
<1> QED BY <1>2, <1>3, <1>4, <1>5, <1>6, <1>7, <1>8 DEF IInv

\* Every step keeps the invariant.
LEMMA StepHolds ==
    ASSUME IInv, [Next]_vars
    PROVE  IInv'
<1>0. /\ TypeOK /\ StatusIsSet /\ LimitsKept /\ ActiveClientHasKey /\ TwoKeysAtMost
      /\ ResetsOrdered /\ ChangesOrdered /\ KeyRequestsHaveClients /\ KeysHaveClients
      /\ DevicesAreAuthorised
  BY DEF IInv
<1>1. TypeOK'
  BY <1>0, AccountTyped, SessionsTyped, SpacesTyped, ClientsTyped, KeysTyped, RequestTyped,
     DeviceTyped, HistoryTyped DEF TypeOK, StoreTypeOK, History
<1>2. StatusIsSet'
  BY <1>0, StagesReached DEF StatusIsSet, TypeOK
<1>3. LimitsKept'
  BY <1>0, SpaceLimitKept, ClientLimitKept DEF LimitsKept
<1>4. ActiveClientHasKey' /\ TwoKeysAtMost'
  BY <1>0, HasKeyKept, TwoKeysKept
<1>5. ResetsOrdered' /\ ChangesOrdered'
  BY <1>0, ResetsOrderedKept, ChangesOrderedKept
<1>6. KeyRequestsHaveClients' /\ KeysHaveClients'
  BY <1>0, KeyRequestsKept, KeysHaveClientsKept
<1>7. DevicesAreAuthorised'
  BY <1>0, <1>1, DevicesKept
<1> QED BY <1>1, <1>2, <1>3, <1>4, <1>5, <1>6, <1>7 DEF IInv

\* The invariant that the properties below follow from.
THEOREM InductiveInvariant == Spec => []IInv
BY InitHolds, StepHolds, PTL DEF Spec

\* Tables, requests and devices stay well-typed.
THEOREM TypeCorrect == Spec => []TypeOK
<1>1. IInv => TypeOK
  BY DEF IInv
<1> QED BY <1>1, InductiveInvariant, PTL

\* Whatever requests cross, no more spaces and clients are active than the limits
\* allow: the triggers of identity_core count under the lock of the parent row.
THEOREM LimitsHold == Spec => []WithinLimits
<1>1. IInv => WithinLimits
  BY DEF IInv, LimitsKept, WithinLimits
<1> QED BY <1>1, InductiveInvariant, PTL

\* An active client has a lasting key, however its key requests interleave: RotateKey
\* lets the other keys expire and ResetInstallation revokes them, each with a new one.
THEOREM KeysLast == Spec => []ActiveClientHasKey
<1>1. IInv => ActiveClientHasKey
  BY DEF IInv
<1> QED BY <1>1, InductiveInvariant, PTL

\* A client has at most two keys in use, unless two of its key requests crossed.
THEOREM KeysAreFew == Spec => []TwoKeysAtMost
<1>1. IInv => TwoKeysAtMost
  BY DEF IInv
<1> QED BY <1>1, InductiveInvariant, PTL

\* resetPassword ends the sessions that an earlier password opened, those whose login
\* was under way too, because they carry the epoch before.
THEOREM ResetsEndSessions == Spec => []ResetEndsSessions
<1>1. IInv => ResetEndsSessions
  BY DEF IInv, TypeOK, ResetsOrdered, InEpoch, ResetEndsSessions, Valid
<1> QED BY <1>1, InductiveInvariant, PTL

\* changePassword leaves the session that made it, and late logins.
THEOREM ChangesEndOtherSessions == Spec => []ChangeEndsOtherSessions
<1>1. IInv => ChangeEndsOtherSessions
  BY DEF IInv, ChangesOrdered, ChangeEndsOtherSessions, Valid
<1> QED BY <1>1, InductiveInvariant, PTL

\* An open socket is authorised by its key, client, device and space, but for what is
\* still being closed.
THEOREM SocketsStayAuthorised == Spec => []SocketsAreAuthorised
<1>1. ASSUME IInv PROVE SocketsAreAuthorised
  <2> SUFFICES ASSUME NEW c \in Client, NEW d \in Sockets(c)
               PROVE  \/ /\ ~KeyOf(d).revoked
                         /\ clients[c].status = "active"
                         /\ clients[c].installation = d
                         /\ spaces[clients[c].space].status = "active"
                      \/ device[d].raced
                      \/ Closing(c)
    BY DEF SocketsAreAuthorised
  <2>1. d \in Installation /\ device[d].at = "open" /\ device[d].client = c
    BY DEF Sockets
  <2>2. ReadStillHolds(d)
    BY <1>1, <2>1 DEF IInv, DevicesAreAuthorised
  <2>3. ClientClosing(c) \/ SpaceClosing(c) => Closing(c)
    BY DEF ClientClosing, SpaceClosing, Closing
  <2> QED BY <2>1, <2>2, <2>3 DEF ReadStillHolds
<1> QED BY <1>1, InductiveInvariant, PTL

\* A client that is bound to a device is never bound to another one directly.
THEOREM BindingsLast == Spec => BoundUntilReset
<1>1. ASSUME IInv, [Next]_vars
      PROVE  [\A c \in Client :
                clients[c].installation # Nobody =>
                  clients'[c].installation \in {clients[c].installation, Nobody}]_vars
  <2> SUFFICES ASSUME NEW c \in Client, clients[c].installation # Nobody
               PROVE  clients'[c].installation \in {clients[c].installation, Nobody}
    OBVIOUS
  <2>1. TypeOK
    BY <1>1 DEF IInv
  <2> QED BY <1>1, <2>1, ClientStays
<1> QED BY <1>1, InductiveInvariant, PTL DEF Spec, BoundUntilReset
=============================================================================
