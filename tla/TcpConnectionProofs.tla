------------------------- MODULE TcpConnectionProofs -------------------------
(***************************************************************************)
(* What the connection handlers do to the registry of clients: each holds  *)
(* the id of the client it added last, removes that one and no other, and  *)
(* lets go of it only when its thread has ended.  And what they owe their  *)
(* peers: one answer for each command, but for those that a read timeout   *)
(* has cut from their newline.                                             *)
(***************************************************************************)
EXTENDS TcpServerProofs

ConnTypes ==
    /\ conn \in [Handlers -> {"listen", "read", "remove", "join", "closed"}]
    /\ client_id \in [Handlers -> Ids \cup {NoId}]
    /\ why \in [Handlers -> Reasons]
    /\ owner \in [Ids -> Handlers \cup {Nobody}]

\* Ids that were given out have an owner, and no others.
OwnersKnown == \A c \in Ids : owner[c] # Nobody <=> c < clients_count

\* A connection that was not accepted has not added a client.
ListenFresh ==
    \A h \in Handlers :
        conn[h] = "listen" => client_id[h] = NoId /\ Owned(h) = {}

\* The id in client_id is the last one that was drawn for the connection.
LatestHeld == \A h \in Handlers : client_id[h] # NoId => Newest(client_id[h])

\* A handler waits for the join of a client of its own.
JoinHasId == \A h \in Handlers : conn[h] = "join" => client_id[h] # NoId

ConnInv ==
    /\ ConnTypes
    /\ OwnersKnown
    /\ ListenFresh
    /\ LatestHeld
    /\ JoinHasId
    /\ ClientIdRegistered
    /\ ClientsAccountedFor
    /\ StopOkIsFinal

\* What of the quote server the handlers depend on does not change.
RegistrySame == UNCHANGED <<clients, clients_count, holder, removing, thread>>

-----------------------------------------------------------------------------
\* NoId is not an id.
LEMMA NoIdOutside == NoId \notin Ids
BY BoundsAssumption DEF NoId, Ids

\* A registered client was added for some connection.
LEMMA OwnerOfClient ==
    ASSUME IInv, ConnTypes, OwnersKnown, NEW c \in clients
    PROVE  c \in Ids /\ c # NoId /\ owner[c] \in Handlers
<1>1. c \in Ids
  BY DEF IInv, TypeOK
<1>2. c < clients_count
  BY <1>1 DEF IInv, IdsInOrder, TypeOK, Ids
<1>3. QED
  BY <1>1, <1>2, NoIdOutside DEF ConnTypes, OwnersKnown

\* The client added last for a connection is the last one: there are no two.
LEMMA NewestUnique ==
    ASSUME NEW c \in Ids, NEW d \in Ids, Newest(c), Newest(d), owner[c] = owner[d]
    PROVE  c = d
<1>1. c <= d /\ d <= c
  BY DEF Newest, Owned
<1>2. QED
  BY <1>1, BoundsAssumption DEF Ids

-----------------------------------------------------------------------------
(***************************************************************************)
(* One lemma per kind of step.                                             *)
(***************************************************************************)

\* The background thread or a client thread runs: a thread that has ended stays so.
LEMMA ServerRuns ==
    ASSUME ConnInv,
           UNCHANGED <<conn, client_id, why, owner>>,
           UNCHANGED <<clients, clients_count, holder, removing>>,
           \A c \in Ids : thread[c] = "done" => thread'[c] = "done"
    PROVE  ConnInv'
<1>1. \A c : Newest(c)' <=> Newest(c)
  BY DEF Newest, Owned
<1>2. ConnTypes' /\ OwnersKnown' /\ ListenFresh' /\ LatestHeld' /\ JoinHasId'
  BY <1>1 DEF ConnInv, ConnTypes, OwnersKnown, ListenFresh, LatestHeld,
     JoinHasId, Owned
<1>3. ClientIdRegistered' /\ ClientsAccountedFor'
  BY <1>1 DEF ConnInv, ClientIdRegistered, ClientsAccountedFor
<1>4. StopOkIsFinal'
  BY <1>1 DEF ConnInv, StopOkIsFinal
<1>5. QED
  BY <1>2, <1>3, <1>4 DEF ConnInv

(***************************************************************************)
(* A handler goes on without touching the registry: its connection is      *)
(* accepted, it reads on, is about to call remove_client, or ends.  It     *)
(* ends for a STOP, by expiry or by a read error only without a client.    *)
(***************************************************************************)
LEMMA HandlerMoves ==
    ASSUME IInv, ConnInv, NEW h \in Handlers, NEW s, NEW r,
           conn' = [conn EXCEPT ![h] = s],
           why' = [why EXCEPT ![h] = r],
           client_id' = client_id \/ client_id' = [client_id EXCEPT ![h] = NoId],
           UNCHANGED owner, RegistrySame,
           conn[h] \in {"listen", "read", "remove"},
           s \in {"read", "remove", "closed"}, r \in Reasons,
           s = "read" => conn[h] # "remove" /\ client_id' = client_id,
           s = "remove" => conn[h] = "read" /\ client_id' = client_id,
           s = "closed" /\ r \in {"STOP", "expired", "connection error"} =>
                conn[h] = "listen" \/ (conn[h] = "read" /\ client_id[h] = NoId)
    PROVE  ConnInv'
<1> USE DEF ConnTypes
<1>0. ConnTypes
  BY DEF ConnInv
<1>1. ConnTypes'
  BY <1>0
<1>2. \A c : Newest(c)' <=> Newest(c)
  BY DEF Newest, Owned
<1>3. \A g \in Handlers : client_id'[g] \in {client_id[g], NoId}
  BY <1>0
<1>4. OwnersKnown' /\ LatestHeld'
  BY <1>2, <1>3 DEF ConnInv, OwnersKnown, LatestHeld, RegistrySame
<1>5. ListenFresh' /\ JoinHasId'
  BY <1>0 DEF ConnInv, ListenFresh, JoinHasId, Owned
<1>6. ClientIdRegistered'
  BY <1>0, <1>3 DEF ConnInv, ClientIdRegistered, RegistrySame, ListenFresh
<1>7. ASSUME NEW c \in Ids, Newest(c)
      PROVE  owner[c] \in Handlers /\ (owner[c] = h => conn[h] # "listen")
  BY <1>0, <1>7 DEF ConnInv, ListenFresh, Newest, Owned
<1>8. ClientsAccountedFor'
  <2> SUFFICES ASSUME NEW c \in clients, Newest(c)
               PROVE  \/ client_id'[owner[c]] = c /\ conn'[owner[c]] \in {"read", "remove"}
                      \/ /\ conn'[owner[c]] = "closed"
                         /\ why'[owner[c]] \notin {"STOP", "expired", "connection error"}
    BY <1>2 DEF ClientsAccountedFor, RegistrySame
  <2>1. c \in Ids /\ c # NoId /\ owner[c] \in Handlers
    BY OwnerOfClient DEF ConnInv
  <2>2. \/ client_id[owner[c]] = c /\ conn[owner[c]] \in {"read", "remove"}
        \/ /\ conn[owner[c]] = "closed"
           /\ why[owner[c]] \notin {"STOP", "expired", "connection error"}
    BY DEF ConnInv, ClientsAccountedFor
  <2>3. CASE owner[c] = h
    BY <1>0, <2>1, <2>2, <2>3
  <2>4. CASE owner[c] # h
    BY <1>0, <2>1, <2>2, <2>4
  <2>5. QED
    BY <2>3, <2>4
<1>9. StopOkIsFinal'
  <2> SUFFICES ASSUME NEW c \in Ids, Newest(c), conn'[owner[c]] = "read",
                      client_id'[owner[c]] = NoId
               PROVE  thread[c] = "done"
    BY <1>2 DEF StopOkIsFinal, RegistrySame
  <2>1. conn[owner[c]] = "read" /\ client_id[owner[c]] = NoId
    BY <1>0, <1>7
  <2>2. QED
    BY <2>1 DEF ConnInv, StopOkIsFinal
<1>10. QED
  BY <1>1, <1>4, <1>5, <1>6, <1>8, <1>9 DEF ConnInv

(***************************************************************************)
(* STREAM OK, or a failure to write it: the new client is the newest of    *)
(* its connection, and one the connection had before no longer is.         *)
(***************************************************************************)
LEMMA StreamKeeps ==
    ASSUME IInv, ConnInv, NEW h \in Handlers, Stream(h)
    PROVE  ConnInv'
<1>0. ConnTypes /\ TypeOK /\ Nobody \notin Handlers
  BY HandlersAssumption DEF ConnInv, IInv
<1>id. PICK n \in Ids : n = clients_count
  BY <1>0, NextId DEF Stream, AddClient
<1>1. /\ conn[h] = "read"
      /\ holder = Nobody
      /\ clients' = clients \cup {n}
      /\ clients_count' = n + 1
      /\ thread' = [thread EXCEPT ![n] = "recv"]
      /\ UNCHANGED <<holder, removing>>
      /\ owner' = [owner EXCEPT ![n] = h]
      /\ client_id' = [client_id EXCEPT ![h] = n]
  BY <1>id DEF Stream, ReadLine, AddClient, LockClients
<1>2. \/ conn' = [conn EXCEPT ![h] = "read"] /\ why' = why
      \/ /\ conn' = [conn EXCEPT ![h] = "closed"]
         /\ why' = [why EXCEPT ![h] = "write error"]
  BY DEF Stream, Respond, Close
<1>3. n # NoId /\ n \in Nat /\ owner[n] = Nobody /\ n \notin clients
  BY <1>0, <1>id, NoIdOutside DEF Ids, IInv, IdsInOrder, ConnInv, OwnersKnown, TypeOK
<1>4. ConnTypes'
  BY <1>0, <1>1, <1>2 DEF ConnTypes, Reasons
<1>5. \A g \in Handlers : g # h =>
        /\ conn'[g] = conn[g] /\ client_id'[g] = client_id[g]
        /\ why'[g] = why[g] /\ Owned(g)' = Owned(g)
  BY <1>0, <1>1, <1>2, <1>3 DEF ConnTypes, Owned
<1>6. OwnersKnown'
  BY <1>0, <1>id, <1>1, <1>3 DEF ConnInv, ConnTypes, OwnersKnown, Ids
<1>7. Newest(n)'
  <2>1. \A d \in Ids : owner'[d] = h => d <= n
    BY <1>0, <1>id, <1>1, <1>3 DEF ConnInv, ConnTypes, OwnersKnown, Ids
  <2>2. QED
    BY <1>0, <1>1, <2>1 DEF ConnTypes, Newest, Owned
<1>8. ASSUME NEW c \in Ids, c # n, owner[c] \in Handlers
      PROVE  /\ owner'[c] = owner[c]
             /\ owner[c] # h => (Newest(c)' <=> Newest(c))
             /\ owner[c] = h => ~ Newest(c)'
  <2>1. owner'[c] = owner[c]
    BY <1>0, <1>1, <1>8 DEF ConnTypes
  <2>2. owner[c] # h => (Newest(c)' <=> Newest(c))
    BY <1>5, <1>8, <2>1 DEF Newest
  <2>3. owner'[n] = h
    BY <1>0, <1>1 DEF ConnTypes
  <2>4. owner[c] = h => ~ Newest(c)'
    <3>1. SUFFICES ASSUME owner[c] = h, Newest(c)' PROVE FALSE
      OBVIOUS
    <3>2. c <= n /\ n <= c
      BY <1>1, <1>7, <2>1, <2>3, <3>1 DEF Newest, Owned
    <3>3. QED
      BY <1>3, <1>8, <3>2 DEF Ids
  <2>5. QED
    BY <2>1, <2>2, <2>4
<1>9. ListenFresh' /\ JoinHasId'
  BY <1>0, <1>1, <1>2, <1>5 DEF ConnInv, ConnTypes, ListenFresh, JoinHasId
<1>10. LatestHeld' /\ ClientIdRegistered'
  <2> SUFFICES ASSUME NEW g \in Handlers, NEW k \in Ids, client_id'[g] = k
               PROVE  /\ Newest(k)'
                      /\ owner'[k] = g
                      /\ conn'[g] \in {"read", "remove"} => k \in clients'
                      /\ conn'[g] = "join" => holder' = g /\ removing' = k
    <3>1. \A g \in Handlers : client_id'[g] # NoId => client_id'[g] \in Ids
      BY <1>4 DEF ConnTypes
    <3>2. QED
      BY <3>1 DEF LatestHeld, ClientIdRegistered, Newest
  <2>1. CASE g = h
    <3>1. k = n /\ owner'[n] = g /\ conn'[g] # "join"
      BY <1>0, <1>1, <1>2, <2>1 DEF ConnTypes
    <3>2. QED
      BY <1>1, <1>7, <3>1
  <2>2. CASE g # h
    <3>1. client_id[g] = k /\ k # NoId
      BY <1>5, <2>2, NoIdOutside
    <3>2. owner[k] = g /\ Newest(k) /\ k # n
      BY <1>0, <1>3, <3>1 DEF ConnInv, ClientIdRegistered, LatestHeld
    <3>3. owner'[k] = g /\ Newest(k)'
      BY <1>8, <2>2, <3>2
    <3>4. QED
      BY <1>1, <1>5, <2>2, <3>1, <3>3 DEF ConnInv, ClientIdRegistered
  <2>3. QED
    BY <2>1, <2>2
<1>11. ClientsAccountedFor'
  <2> SUFFICES ASSUME NEW c \in clients', Newest(c)'
               PROVE  \/ client_id'[owner'[c]] = c /\ conn'[owner'[c]] \in {"read", "remove"}
                      \/ /\ conn'[owner'[c]] = "closed"
                         /\ why'[owner'[c]] \notin {"STOP", "expired", "connection error"}
    BY DEF ClientsAccountedFor
  <2>1. CASE c = n
    BY <1>0, <1>1, <1>2, <2>1 DEF ConnTypes
  <2>2. CASE c # n
    <3>1. c \in clients /\ c \in Ids /\ owner[c] \in Handlers
      BY <1>0, <1>1, <2>2, OwnerOfClient DEF ConnInv
    <3>2. owner[c] # h /\ owner'[c] = owner[c] /\ Newest(c)
      BY <1>8, <2>2, <3>1
    <3>3. QED
      BY <1>5, <3>1, <3>2 DEF ConnInv, ClientsAccountedFor
  <2>3. QED
    BY <2>1, <2>2
<1>12. StopOkIsFinal'
  <2> SUFFICES ASSUME NEW c \in Ids, Newest(c)', conn'[owner'[c]] = "read",
                      client_id'[owner'[c]] = NoId
               PROVE  thread'[c] = "done"
    BY DEF StopOkIsFinal
  <2>1. c # n
    BY <1>0, <1>1, <1>3 DEF ConnTypes
  <2>2. owner[c] \in Handlers
    BY <1>0, <1>1, <2>1 DEF ConnTypes, Newest
  <2>3. owner[c] # h /\ owner'[c] = owner[c] /\ Newest(c)
    BY <1>8, <2>1, <2>2
  <2>4. thread[c] = "done"
    BY <1>5, <2>2, <2>3 DEF ConnInv, StopOkIsFinal
  <2>5. QED
    BY <1>0, <1>1, <2>1, <2>4 DEF TypeOK
<1>13. QED
  BY <1>4, <1>6, <1>9, <1>10, <1>11, <1>12 DEF ConnInv

(***************************************************************************)
(* remove_client gets the mutex.  The client that leaves the map is the    *)
(* handler's own, and no other handler holds its id.                       *)
(***************************************************************************)
LEMMA RemoveBeginsKeeps ==
    ASSUME IInv, ConnInv, NEW h \in Handlers, RemoveBegins(h)
    PROVE  ConnInv'
<1>0. ConnTypes /\ Nobody \notin Handlers
  BY HandlersAssumption DEF ConnInv
<1>1. /\ conn[h] = "remove" /\ holder = Nobody
      /\ client_id[h] \in clients /\ client_id[h] # NoId
      /\ conn' = [conn EXCEPT ![h] = "join"]
      /\ clients' = clients \ {client_id[h]}
      /\ holder' = h /\ removing' = client_id[h]
      /\ UNCHANGED <<client_id, why, owner, clients_count, thread>>
  BY NoIdOutside DEF RemoveBegins, RemoveClient, LockClients, IInv, TypeOK
<1>2. \A c : Newest(c)' <=> Newest(c)
  BY <1>1 DEF Newest, Owned
<1>3. ConnTypes' /\ OwnersKnown' /\ ListenFresh' /\ LatestHeld' /\ JoinHasId'
  BY <1>0, <1>1, <1>2 DEF ConnInv, ConnTypes, OwnersKnown, ListenFresh,
     LatestHeld, JoinHasId, Owned
<1>4. ClientIdRegistered'
  <2> SUFFICES ASSUME NEW g \in Handlers, client_id[g] # NoId
               PROVE  /\ owner[client_id[g]] = g
                      /\ conn'[g] \in {"read", "remove"} => client_id[g] \in clients'
                      /\ conn'[g] = "join" => holder' = g /\ removing' = client_id[g]
    BY <1>1 DEF ClientIdRegistered
  <2>1. owner[client_id[g]] = g /\ owner[client_id[h]] = h
    BY <1>1 DEF ConnInv, ClientIdRegistered
  <2>2. g # h => client_id[g] # client_id[h] /\ conn[g] # "join"
    BY <1>0, <1>1, <2>1 DEF ConnInv, ClientIdRegistered
  <2>3. QED
    BY <1>0, <1>1, <2>1, <2>2 DEF ConnInv, ConnTypes, ClientIdRegistered
<1>5. ClientsAccountedFor'
  <2> SUFFICES ASSUME NEW c \in clients, c # client_id[h], Newest(c)
               PROVE  \/ client_id[owner[c]] = c /\ conn'[owner[c]] \in {"read", "remove"}
                      \/ /\ conn'[owner[c]] = "closed"
                         /\ why[owner[c]] \notin {"STOP", "expired", "connection error"}
    BY <1>1, <1>2 DEF ClientsAccountedFor
  <2>1. owner[c] \in Handlers
    BY <1>0, OwnerOfClient DEF ConnInv
  <2>2. owner[c] # h
    BY <1>1 DEF ConnInv, ClientsAccountedFor
  <2>3. QED
    BY <1>0, <1>1, <2>1, <2>2 DEF ConnInv, ConnTypes, ClientsAccountedFor
<1>6. StopOkIsFinal'
  <2>1. \A c \in Ids : Newest(c) => owner[c] \in Handlers
    BY <1>0 DEF Newest, ConnTypes
  <2>2. QED
    BY <1>0, <1>1, <1>2, <2>1 DEF ConnInv, ConnTypes, StopOkIsFinal
<1>7. QED
  BY <1>3, <1>4, <1>5, <1>6 DEF ConnInv

(***************************************************************************)
(* remove_client returns.  The thread it has waited for is that of the     *)
(* client added last for the connection.                                   *)
(***************************************************************************)
LEMMA RemoveEndsKeeps ==
    ASSUME IInv, ConnInv, NEW h \in Handlers, RemoveEnds(h)
    PROVE  ConnInv'
<1>0. ConnTypes /\ Nobody \notin Handlers
  BY HandlersAssumption DEF ConnInv
<1>1. /\ conn[h] = "join" /\ holder = h /\ thread[removing] = "done"
      /\ client_id' = [client_id EXCEPT ![h] = NoId]
      /\ UNCHANGED <<owner, clients, clients_count, thread>>
  BY DEF RemoveEnds, RemoveClientJoined, threadVars
<1>2. /\ \/ conn' = [conn EXCEPT ![h] = "read"]
         \/ conn' = [conn EXCEPT ![h] = "closed"]
      /\ \/ why' = why
         \/ why' = [why EXCEPT ![h] = "write error"]
         \/ why' = [why EXCEPT ![h] = why[h]]
  BY DEF RemoveEnds, Respond, Close
<1>3. ConnTypes'
  BY <1>0, <1>1, <1>2 DEF ConnTypes, Reasons
<1>4. \A c : Newest(c)' <=> Newest(c)
  BY <1>1 DEF Newest, Owned
<1>5. \A g \in Handlers : g # h =>
        /\ conn'[g] = conn[g] /\ client_id'[g] = client_id[g]
        /\ why'[g] = why[g] /\ conn[g] # "join"
  BY <1>0, <1>1, <1>2 DEF ConnInv, ConnTypes, JoinHasId, ClientIdRegistered
<1>6. client_id'[h] = NoId /\ conn'[h] \in {"read", "closed"}
  BY <1>0, <1>1, <1>2 DEF ConnTypes
<1>7. OwnersKnown' /\ ListenFresh' /\ LatestHeld' /\ JoinHasId'
  BY <1>1, <1>4, <1>5, <1>6 DEF ConnInv, OwnersKnown, ListenFresh, LatestHeld,
     JoinHasId, Owned
<1>8. ClientIdRegistered'
  BY <1>1, <1>5, <1>6 DEF ConnInv, ClientIdRegistered
<1>9. client_id[h] \in Ids /\ client_id[h] = removing /\ Newest(client_id[h])
      /\ owner[client_id[h]] = h
  BY <1>0, <1>1 DEF ConnInv, ConnTypes, JoinHasId, ClientIdRegistered, LatestHeld
<1>10. ClientsAccountedFor'
  <2> SUFFICES ASSUME NEW c \in clients, Newest(c)
               PROVE  \/ client_id'[owner[c]] = c /\ conn'[owner[c]] \in {"read", "remove"}
                      \/ /\ conn'[owner[c]] = "closed"
                         /\ why'[owner[c]] \notin {"STOP", "expired", "connection error"}
    BY <1>1, <1>4 DEF ClientsAccountedFor
  <2>1. owner[c] \in Handlers
    BY <1>0, OwnerOfClient DEF ConnInv
  <2>2. owner[c] # h
    BY <1>1 DEF ConnInv, ClientsAccountedFor
  <2>3. QED
    BY <1>5, <2>1, <2>2 DEF ConnInv, ClientsAccountedFor
<1>11. StopOkIsFinal'
  <2> SUFFICES ASSUME NEW c \in Ids, Newest(c), conn'[owner[c]] = "read",
                      client_id'[owner[c]] = NoId
               PROVE  thread[c] = "done"
    BY <1>1, <1>4 DEF StopOkIsFinal
  <2>1. owner[c] \in Handlers
    BY <1>0 DEF Newest, ConnTypes
  <2>2. CASE owner[c] = h
    <3>1. c = client_id[h]
      BY <1>9, <2>2, NewestUnique
    <3>2. QED
      BY <1>1, <1>9, <3>1
  <2>3. CASE owner[c] # h
    BY <1>5, <2>1, <2>3 DEF ConnInv, StopOkIsFinal
  <2>4. QED
    BY <2>2, <2>3
<1>12. QED
  BY <1>3, <1>7, <1>8, <1>10, <1>11 DEF ConnInv

-----------------------------------------------------------------------------
(***************************************************************************)
(* At the start there is no client and nothing was accepted.               *)
(***************************************************************************)
LEMMA ConnInvInit == TcpInit => ConnInv
<1> SUFFICES ASSUME TcpInit PROVE ConnInv
  OBVIOUS
<1>1. /\ conn = [h \in Handlers |-> "listen"]
      /\ client_id = [h \in Handlers |-> NoId]
      /\ why = [h \in Handlers |-> ""]
      /\ owner = [c \in Ids |-> Nobody]
  BY DEF TcpInit
<1>2. clients = {} /\ clients_count = 0
  BY DEF TcpInit, Init
<1>3. ConnTypes
  BY <1>1 DEF ConnTypes, Reasons
<1>4. \A c \in Ids : owner[c] = Nobody
  BY <1>1
<1>5. OwnersKnown
  BY <1>2, <1>4, BoundsAssumption DEF OwnersKnown, Ids
<1>6. ListenFresh /\ LatestHeld /\ JoinHasId
  BY <1>1, <1>4, HandlersAssumption DEF ListenFresh, LatestHeld, JoinHasId, Owned
<1>7. ClientIdRegistered /\ ClientsAccountedFor /\ StopOkIsFinal
  BY <1>1, <1>2, <1>4 DEF ClientIdRegistered, ClientsAccountedFor, StopOkIsFinal, Newest
<1>8. QED
  BY <1>3, <1>5, <1>6, <1>7 DEF ConnInv

\* Every step of the server, of a peer and of a handler keeps ConnInv.
LEMMA ConnInvStep == IInv /\ ConnInv /\ [TcpNext]_tcpVars => ConnInv'
<1> SUFFICES ASSUME IInv, ConnInv, [TcpNext]_tcpVars PROVE ConnInv'
  OBVIOUS
<1>0. ConnTypes /\ thread \in [Ids -> {"none", "recv", "lock", "read", "done"}]
  BY DEF ConnInv, IInv, TypeOK
<1>1. ASSUME UNCHANGED <<conn, client_id, why, owner>>, RegistrySame
      PROVE  ConnInv'
  BY <1>1, ServerRuns DEF RegistrySame
<1>2. CASE BackgroundStep /\ UNCHANGED <<connVars, peerVars>>
  BY <1>1, <1>2 DEF BackgroundStep, Tick, TryWrite, WriteBusy, UpdateTimeout,
     UpdateQuote, UpdateFails, WriteUnlock, Notify, connVars, registryVars,
     threadVars, RegistrySame
<1>3. ASSUME NEW c \in Ids, ClientStep(c), UNCHANGED <<connVars, peerVars>>
      PROVE  ConnInv'
  <2>1. \A d \in Ids : thread[d] = "done" => thread'[d] = "done"
    BY <1>0, <1>3 DEF ClientStep, RecvUpdate, ReadLock, Callback, ReadUnlock,
       RecvShutdown
  <2>2. UNCHANGED <<clients, clients_count, holder, removing>>
    BY <1>3 DEF ClientStep, RecvUpdate, ReadLock, Callback, ReadUnlock,
       RecvShutdown, registryVars
  <2>3. QED
    BY <1>3, <2>1, <2>2, ServerRuns DEF connVars
<1>4. ASSUME NEW h \in Handlers, PeerStep(h) PROVE ConnInv'
  <2>1. CASE Accept(h)
    <3>1. PICK s \in {"read", "closed"} : conn' = [conn EXCEPT ![h] = s]
      BY <2>1 DEF Accept
    <3>2. why' = [why EXCEPT ![h] = why[h]] /\ why[h] \in Reasons
      BY <1>0, <2>1 DEF Accept, ConnTypes
    <3>3. conn[h] = "listen" /\ UNCHANGED <<client_id, owner>> /\ RegistrySame
      BY <2>1 DEF Accept, vars, registryVars, threadVars, RegistrySame
    <3>4. QED
      BY <3>1, <3>2, <3>3, HandlerMoves
  <2>2. CASE ~ Accept(h)
    BY <1>1, <1>4, <2>2 DEF PeerStep, PeerWrites, PeerEndsLine, PeerLeaves, vars,
       connVars, registryVars, threadVars, RegistrySame
  <2>3. QED
    BY <2>1, <2>2
<1>5. ASSUME NEW h \in Handlers, ConnStep(h) PROVE ConnInv'
  <2>0. why' = why => why' = [why EXCEPT ![h] = why[h]] /\ why[h] \in Reasons
    BY <1>0 DEF ConnTypes
  <2>1. ASSUME conn[h] = "read", UNCHANGED <<client_id, owner>>, RegistrySame,
               NEW r \in Reasons \ {"STOP", "expired", "connection error"},
               conn' = [conn EXCEPT ![h] = "closed"],
               why' = [why EXCEPT ![h] = r]
        PROVE  ConnInv'
    BY <2>1, HandlerMoves
  <2>2. ASSUME conn[h] = "read", UNCHANGED <<client_id, owner>>, RegistrySame,
               NEW r \in Reasons, client_id[h] = NoId,
               conn' = [conn EXCEPT ![h] = "closed"],
               why' = [why EXCEPT ![h] = r]
        PROVE  ConnInv'
    BY <2>2, HandlerMoves
  <2>3. ASSUME conn[h] = "read", UNCHANGED <<client_id, owner>>, RegistrySame,
               NEW r \in Reasons, CallRemove(h, r)
        PROVE  ConnInv'
    BY <2>3, HandlerMoves DEF CallRemove
  <2>4. ASSUME conn[h] = "read", UNCHANGED <<client_id, owner>>, RegistrySame,
               NEW a, Respond(h, a)
        PROVE  ConnInv'
    <3>1. CASE conn' = [conn EXCEPT ![h] = "read"] /\ why' = why
      BY <2>0, <2>4, <3>1, HandlerMoves
    <3>2. CASE Close(h, "write error")
      BY <2>1, <2>4, <3>2 DEF Close, Reasons
    <3>3. QED
      BY <2>4, <3>1, <3>2 DEF Respond
  <2>5. UNCHANGED vars => RegistrySame
    BY DEF vars, registryVars, threadVars, RegistrySame
  <2>6. CASE EmptyLine(h)
    BY <1>1, <2>5, <2>6 DEF EmptyLine
  <2>7. CASE Ping(h)
    BY <2>4, <2>5, <2>7 DEF Ping, ReadLine
  <2>8. CASE Invalid(h)
    BY <2>4, <2>5, <2>8 DEF Invalid, ReadLine
  <2>9. CASE Stream(h)
    BY <2>9, StreamKeeps
  <2>10. CASE StreamFails(h)
    BY <2>1, <2>5, <2>10 DEF StreamFails, ReadLine, Close, Reasons
  <2>11. CASE StreamPanics(h)
    <3>1. RegistrySame
      BY <2>11 DEF StreamPanics, AddClientPanics, threadVars, RegistrySame
    <3>2. QED
      BY <2>1, <2>11, <3>1 DEF StreamPanics, ReadLine, Close, Reasons
  <2>12. CASE Stop(h)
    BY <2>3, <2>4, <2>5, <2>12 DEF Stop, ReadLine, Reasons
  <2>13. CASE Poll(h)
    BY <1>1, <2>2, <2>3, <2>5, <2>13 DEF Poll, Close, Reasons
  <2>14. CASE EndOfFile(h)
    BY <2>1, <2>5, <2>14 DEF EndOfFile, Close, Reasons
  <2>15. CASE ReadError(h)
    BY <2>2, <2>3, <2>5, <2>15 DEF ReadError, Close, Reasons
  <2>16. CASE RemoveBegins(h)
    BY <2>16, RemoveBeginsKeeps
  <2>17. CASE RemoveFails(h)
    <3>1. /\ conn[h] = "remove"
          /\ conn' = [conn EXCEPT ![h] = "closed"]
          /\ why' = [why EXCEPT ![h] = "poisoned"]
          /\ client_id' = [client_id EXCEPT ![h] = NoId]
          /\ UNCHANGED owner /\ RegistrySame
      BY <2>5, <2>17 DEF RemoveFails, Close
    <3>2. QED
      BY <3>1, HandlerMoves DEF Reasons
  <2>18. CASE RemoveEnds(h)
    BY <2>18, RemoveEndsKeeps
  <2>19. QED
    BY <1>5, <2>6, <2>7, <2>8, <2>9, <2>10, <2>11, <2>12, <2>13, <2>14, <2>15,
       <2>16, <2>17, <2>18 DEF ConnStep
<1>6. CASE UNCHANGED tcpVars
  BY <1>1, <1>6 DEF tcpVars, vars, connVars, registryVars, threadVars, RegistrySame
<1>7. QED
  BY <1>2, <1>3, <1>4, <1>5, <1>6 DEF TcpNext

(***************************************************************************)
(* In every reachable state the ids that the handlers hold, the registry   *)
(* and the threads fit together, for any number of connections.            *)
(***************************************************************************)
THEOREM ConnInvariance == TcpSafety => [](IInv /\ ConnInv)
<1>1. TcpInit => ConnInv
  BY ConnInvInit
<1>2. IInv /\ ConnInv /\ [TcpNext]_tcpVars => ConnInv'
  BY ConnInvStep
<1>3. QED
  BY <1>1, <1>2, TcpInvariance, PTL DEF TcpSafety

(***************************************************************************)
(* The id in a handler's client_id is that of a registered client of its   *)
(* connection: remove_client is never called with an unknown id.           *)
(***************************************************************************)
THEOREM IdsRegistered == TcpSafety => []ClientIdRegistered
<1>1. ConnInv => ClientIdRegistered
  BY DEF ConnInv
<1>2. QED
  BY <1>1, ConnInvariance, PTL

(***************************************************************************)
(* Nobody loses a registered client but by a later STREAM of the same      *)
(* connection or an end other than expiry and a read error.                *)
(***************************************************************************)
THEOREM RegistryAccountedFor == TcpSafety => []ClientsAccountedFor
<1>1. ConnInv => ClientsAccountedFor
  BY DEF ConnInv
<1>2. QED
  BY <1>1, ConnInvariance, PTL

(***************************************************************************)
(* After STOP OK the thread of the client has ended: nothing more is sent. *)
(***************************************************************************)
THEOREM StopIsFinal == TcpSafety => []StopOkIsFinal
<1>1. ConnInv => StopOkIsFinal
  BY DEF ConnInv
<1>2. QED
  BY <1>1, ConnInvariance, PTL

(***************************************************************************)
(* No step takes a client out of the map but its own handler's call of     *)
(* remove_client.                                                          *)
(***************************************************************************)
THEOREM RemovedByOwner == TcpSafety => OnlyOwnerRemoves
<1> DEFINE OwnRemoved ==
        \A c \in clients \ clients' :
            conn[owner[c]] = "remove" /\ client_id[owner[c]] = c
<1>1. IInv /\ ConnInv /\ [TcpNext]_tcpVars => [OwnRemoved]_tcpVars
  <2> SUFFICES ASSUME IInv, ConnInv, TcpNext PROVE OwnRemoved
    OBVIOUS
  <2>1. ASSUME NEW h \in Handlers, RemoveBegins(h) PROVE OwnRemoved
    <3>1. /\ conn[h] = "remove" /\ client_id[h] # NoId
          /\ clients' = clients \ {client_id[h]}
      BY <2>1, NoIdOutside DEF RemoveBegins, RemoveClient, IInv, TypeOK
    <3>2. owner[client_id[h]] = h
      BY <3>1 DEF ConnInv, ClientIdRegistered
    <3>3. QED
      BY <3>1, <3>2
  <2>2. CASE clients \subseteq clients'
    BY <2>2
  <2>3. CASE BackgroundStep
    BY <2>2, <2>3 DEF BackgroundStep, Tick, TryWrite, WriteBusy, UpdateTimeout,
       UpdateQuote, UpdateFails, WriteUnlock, Notify, registryVars
  <2>4. ASSUME NEW c \in Ids, ClientStep(c) PROVE OwnRemoved
    BY <2>2, <2>4 DEF ClientStep, RecvUpdate, ReadLock, Callback, ReadUnlock,
       RecvShutdown, registryVars
  <2>5. ASSUME NEW h \in Handlers, PeerStep(h) PROVE OwnRemoved
    BY <2>2, <2>5 DEF PeerStep, Accept, PeerWrites, PeerEndsLine, PeerLeaves,
       vars, registryVars
  <2>6. ASSUME NEW h \in Handlers, ConnStep(h) PROVE OwnRemoved
    BY <2>1, <2>2, <2>6 DEF ConnStep, EmptyLine, Ping, Invalid, Stream,
       StreamFails, StreamPanics, Stop, Poll, EndOfFile, ReadError, RemoveFails,
       RemoveEnds, AddClient, AddClientPanics, RemoveClientJoined, vars,
       registryVars
  <2>7. QED
    BY <2>3, <2>4, <2>5, <2>6 DEF TcpNext
<1>2. QED
  BY <1>1, ConnInvariance, PTL DEF TcpSafety, OnlyOwnerRemoves

(***************************************************************************)
(* A client that a later STREAM of its connection has replaced is never    *)
(* removed again: every handler holds the id of its newest client.         *)
(***************************************************************************)
THEOREM OverwrittenLeft == TcpSafety => OverwrittenStays
<1> DEFINE Stays == \A c \in clients : ~ Newest(c) => c \in clients'
           OwnRemoved ==
              \A c \in clients \ clients' :
                  conn[owner[c]] = "remove" /\ client_id[owner[c]] = c
<1>1. IInv /\ ConnInv /\ [OwnRemoved]_tcpVars => [Stays]_tcpVars
  <2> SUFFICES ASSUME IInv, ConnInv, OwnRemoved,
                      NEW c \in clients, c \notin clients'
               PROVE  Newest(c)
    BY DEF tcpVars, vars, registryVars
  <2>1. c # NoId /\ owner[c] \in Handlers
    BY OwnerOfClient DEF ConnInv
  <2>2. client_id[owner[c]] = c
    OBVIOUS
  <2>3. QED
    BY <2>1, <2>2 DEF ConnInv, LatestHeld
<1>2. QED
  BY <1>1, RemovedByOwner, ConnInvariance, PTL DEF OnlyOwnerRemoves, OverwrittenStays

-----------------------------------------------------------------------------
(***************************************************************************)
(* Channels in which commands and newlines take turns.                     *)
(***************************************************************************)

\* What may be in a channel.
Items == Lines \cup {NewLine}

\* A command is not a newline.
LEMMA LineOrNewLine == \A l \in Lines : l # NewLine
<1>1. ASSUME NEW l \in Lines PROVE l.cmd \in Commands
  BY DEF Lines
<1>2. "NL" \notin Commands
  BY CommandsAssumption DEF CommandKinds
<1>3. QED
  BY <1>1, <1>2 DEF NewLine

\* Only a newline is read as an empty line.
LEMMA NewLineKind == \A e \in Items : e.cmd = "NL" => e = NewLine
<1>1. ASSUME NEW l \in Lines PROVE l.cmd \in Commands
  BY DEF Lines
<1>2. "NL" \notin Commands
  BY CommandsAssumption DEF CommandKinds
<1>3. QED
  BY <1>1, <1>2 DEF Items

\* What is unread is a number of commands, none in an empty channel.
LEMMA UnreadType ==
    /\ \A q \in Seq(Items) : Unread(q) \in Nat
    /\ Unread(<<>>) = 0
    /\ \A q \in Seq(Items) : q # <<>> /\ Head(q) # NewLine => Unread(q) >= 1
<1>1. ASSUME NEW q \in Seq(Items) PROVE Unread(q) \in Nat
  <2>1. Len(q) \in Nat
    BY LenProperties
  <2>2. QED
    BY <2>1 DEF Unread
<1>2. Unread(<<>>) = 0
  BY EmptySeq DEF Unread
<1>3. ASSUME NEW q \in Seq(Items), q # <<>>, Head(q) # NewLine PROVE Unread(q) >= 1
  <2>1. Len(q) \in Nat \ {0}
    BY <1>3, EmptySeq
  <2>2. QED
    BY <1>3, <2>1 DEF Unread
<1>4. QED
  BY <1>1, <1>2, <1>3

\* The parities that a channel of two kinds of items depends on.
LEMMA Parities ==
    \A n \in Nat : /\ (n % 2 = 0) <=> ((n + 1) % 2 = 1)
                   /\ (n % 2 = 1) <=> ((n + 1) % 2 = 0)
                   /\ n % 2 = 0 => (n + 1) \div 2 = n \div 2
                   /\ n % 2 = 1 => (n + 1) \div 2 = n \div 2 + 1
                   /\ (n + 2) \div 2 = n \div 2 + 1
OBVIOUS

(***************************************************************************)
(* The front of a channel is taken: the next item is of the other kind.    *)
(***************************************************************************)
LEMMA TailAlternates ==
    ASSUME NEW q \in Seq(Items), Alternates(q), q # <<>>
    PROVE  /\ Tail(q) \in Seq(Items) /\ Alternates(Tail(q))
           /\ Unread(Tail(q)) = IF Head(q) = NewLine THEN Unread(q) ELSE Unread(q) - 1
           /\ Tail(q) # <<>> => /\ Head(Tail(q)) = NewLine <=> Head(q) # NewLine
                                /\ Tail(q)[Len(Tail(q))] = q[Len(q)]
<1> DEFINE r == Tail(q)
<1>1. /\ r \in Seq(Items) /\ Len(r) = Len(q) - 1 /\ Len(q) \in Nat \ {0}
      /\ \A i \in 1 .. Len(r) : r[i] = q[i + 1]
      /\ Head(q) = q[1]
  BY HeadTailProperties, EmptySeq
<1>2. Len(r) \in Nat /\ Len(q) = Len(r) + 1
  BY <1>1
<1> HIDE DEF r
<1>3. ASSUME r # <<>>
      PROVE  /\ 1 \in 1 .. Len(r) /\ Len(r) \in 1 .. Len(r) /\ Head(r) = q[2]
             /\ Head(r) = NewLine <=> Head(q) # NewLine
             /\ r[Len(r)] = q[Len(q)]
  <2>1. Len(r) \in Nat \ {0} /\ Head(r) = r[1]
    BY <1>1, <1>3, EmptySeq
  <2>2. 1 \in 1 .. Len(r) /\ Len(r) \in 1 .. Len(r) /\ 2 \in 1 .. Len(q) /\ 1 + 1 = 2 /\ 2 % 2 = 0
    BY <1>2, <2>1
  <2>3. Head(r) = q[2] /\ r[Len(r)] = q[Len(q)]
    BY <1>1, <1>2, <2>1, <2>2
  <2>4. q[2] = NewLine <=> Head(q) # NewLine
    BY <2>2 DEF Alternates
  <2>5. QED
    BY <2>2, <2>3, <2>4
<1>4. Alternates(r)
  <2> SUFFICES ASSUME NEW i \in 1 .. Len(r)
               PROVE  r[i] = NewLine <=> IF Head(r) = NewLine THEN i % 2 = 1 ELSE i % 2 = 0
    BY DEF Alternates
  <2>1. r # <<>>
    BY EmptySeq
  <2>2. Head(r) = NewLine <=> Head(q) # NewLine
    BY <1>3, <2>1
  <2>3. i \in Nat /\ i + 1 \in 1 .. Len(q)
    BY <1>2
  <2>4. r[i] = NewLine <=> IF Head(q) = NewLine THEN (i + 1) % 2 = 1 ELSE (i + 1) % 2 = 0
    BY <1>1, <2>3 DEF Alternates
  <2>5. QED
    BY <2>2, <2>3, <2>4, Parities
<1>5. Unread(r) = IF Head(q) = NewLine THEN Unread(q) ELSE Unread(q) - 1
  <2>1. CASE r = <<>>
    <3>1. Len(q) = 1 /\ Unread(r) = 0
      BY <1>2, <2>1, EmptySeq, UnreadType
    <3>2. 1 \div 2 = 0 /\ (1 + 1) \div 2 = 1
      OBVIOUS
    <3>3. QED
      BY <3>1, <3>2 DEF Unread
  <2>2. CASE r # <<>>
    <3>1. Head(r) = NewLine <=> Head(q) # NewLine
      BY <1>3, <2>2
    <3>2. CASE Head(q) = NewLine
      BY <1>2, <2>2, <3>1, <3>2 DEF Unread
    <3>3. CASE Head(q) # NewLine
      <4>1. Unread(r) = Len(r) \div 2 /\ Unread(q) = (Len(r) + 2) \div 2
        BY <1>2, <2>2, <3>1, <3>3 DEF Unread
      <4>2. QED
        BY <1>2, <3>3, <4>1, Parities
    <3>4. QED
      BY <3>2, <3>3
  <2>3. QED
    BY <2>1, <2>2
<1>6. QED
  BY <1>1, <1>3, <1>4, <1>5 DEF r

(***************************************************************************)
(* A line is read: a command is gone from the channel, or a lone newline,  *)
(* and the channel ends as before.                                         *)
(***************************************************************************)
LEMMA AfterLineAlternates ==
    ASSUME NEW q \in Seq(Items), Alternates(q), q # <<>>
    PROVE  /\ AfterLine(q) \in Seq(Items) /\ Alternates(AfterLine(q))
           /\ Unread(AfterLine(q)) = IF Head(q) = NewLine THEN Unread(q) ELSE Unread(q) - 1
           /\ AfterLine(q) # <<>> =>
                /\ Head(AfterLine(q)) # NewLine
                /\ AfterLine(q)[Len(AfterLine(q))] = q[Len(q)]
<1> DEFINE r == Tail(q)
<1>1. /\ r \in Seq(Items) /\ Alternates(r)
      /\ Unread(r) = IF Head(q) = NewLine THEN Unread(q) ELSE Unread(q) - 1
      /\ r # <<>> => (Head(r) = NewLine <=> Head(q) # NewLine) /\ r[Len(r)] = q[Len(q)]
  BY TailAlternates
<1> HIDE DEF r
<1>2. CASE Head(q) = NewLine
  BY <1>1, <1>2 DEF AfterLine, r
<1>3. CASE Head(q) # NewLine /\ Len(q) = 1
  <2>1. r = <<>>
    <3>1. Len(r) = 0
      BY <1>3, HeadTailProperties DEF r
    <3>2. QED
      BY <1>1, <3>1, EmptySeq
  <2>2. AfterLine(q) = r
    BY <1>3 DEF AfterLine, r
  <2>3. QED
    BY <1>1, <1>3, <2>1, <2>2
<1>4. CASE Head(q) # NewLine /\ Len(q) # 1
  <2>1. r # <<>>
    <3>1. Len(r) = Len(q) - 1 /\ Len(q) \in Nat
      BY HeadTailProperties, LenProperties DEF r
    <3>2. QED
      BY <1>4, <3>1, EmptySeq
  <2>2. AfterLine(q) = Tail(r)
    BY <1>4 DEF AfterLine, r
  <2>3. Head(r) = NewLine
    BY <1>1, <1>4, <2>1
  <2>4. /\ Tail(r) \in Seq(Items) /\ Alternates(Tail(r))
        /\ Unread(Tail(r)) = Unread(r)
        /\ Tail(r) # <<>> => Head(Tail(r)) # NewLine /\ Tail(r)[Len(Tail(r))] = r[Len(r)]
    BY <1>1, <2>1, <2>3, TailAlternates
  <2>5. QED
    BY <1>1, <1>4, <2>1, <2>2, <2>4
<1>5. QED
  BY <1>2, <1>3, <1>4

\* The head of a channel stays when something is appended.
LEMMA AppendHead ==
    ASSUME NEW q \in Seq(Items), NEW e \in Items
    PROVE  LET r == Append(q, e)
           IN  /\ r \in Seq(Items) /\ Len(r) = Len(q) + 1 /\ r # <<>>
               /\ Len(q) \in Nat
               /\ r[Len(r)] = e
               /\ \A i \in 1 .. Len(q) : r[i] = q[i]
               /\ Head(r) = IF q = <<>> THEN e ELSE Head(q)
<1> DEFINE r == Append(q, e)
<1>1. /\ r \in Seq(Items) /\ Len(r) = Len(q) + 1 /\ Len(q) \in Nat
      /\ \A i \in 1 .. Len(q) : r[i] = q[i]
      /\ r[Len(q) + 1] = e
  BY AppendProperties, LenProperties
<1> HIDE DEF r
<1>2. r # <<>> /\ Head(r) = r[1]
  <2>1. r # <<>>
    BY <1>1, EmptySeq
  <2>2. QED
    BY <1>1, <2>1
<1>3. Head(r) = IF q = <<>> THEN e ELSE Head(q)
  <2>1. CASE q = <<>>
    BY <1>1, <1>2, <2>1, EmptySeq
  <2>2. CASE q # <<>>
    <3>1. Len(q) >= 1 /\ Head(q) = q[1]
      BY <2>2, EmptySeq
    <3>2. 1 \in 1 .. Len(q)
      BY <1>1, <3>1
    <3>3. QED
      BY <1>1, <1>2, <2>2, <3>1, <3>2
  <2>3. QED
    BY <2>1, <2>2
<1>4. QED
  BY <1>1, <1>2, <1>3 DEF r

(***************************************************************************)
(* An item of the other kind than the last one is appended: one command    *)
(* more if it is one.                                                      *)
(***************************************************************************)
LEMMA AppendAlternates ==
    ASSUME NEW q \in Seq(Items), Alternates(q), NEW e \in Items,
           q # <<>> => (e = NewLine <=> q[Len(q)] # NewLine)
    PROVE  /\ Append(q, e) \in Seq(Items) /\ Alternates(Append(q, e))
           /\ Append(q, e) # <<>> /\ Append(q, e)[Len(Append(q, e))] = e
           /\ Unread(Append(q, e)) = IF e = NewLine THEN Unread(q) ELSE Unread(q) + 1
<1> DEFINE r == Append(q, e)
           n == Len(q)
<1>1. /\ r \in Seq(Items) /\ Len(r) = n + 1 /\ r # <<>> /\ n \in Nat
      /\ r[Len(r)] = e
      /\ \A i \in 1 .. n : r[i] = q[i]
      /\ Head(r) = IF q = <<>> THEN e ELSE Head(q)
  BY AppendHead
<1>2. CASE q = <<>>
  <2>1. n = 0 /\ Len(r) = 1
    BY <1>1, <1>2, EmptySeq
  <2> HIDE DEF r, n
  <2>2. 1 % 2 = 1 /\ 1 \div 2 = 0 /\ (1 + 1) \div 2 = 1 /\ 1 .. 1 = {1}
    OBVIOUS
  <2>3. Alternates(r)
    BY <1>1, <1>2, <2>1, <2>2 DEF Alternates
  <2>4. Unread(q) = 0
    BY <1>2, UnreadType
  <2>5. Unread(r) = IF e = NewLine THEN 0 ELSE 1
    BY <1>1, <1>2, <2>1, <2>2 DEF Unread
  <2>6. QED
    BY <1>1, <2>3, <2>4, <2>5 DEF r
<1>3. CASE q # <<>>
  <2>1. n \in Nat \ {0} /\ n \in 1 .. n
    <3>1. n \in Nat \ {0}
      BY <1>3, EmptySeq
    <3>2. QED
      BY <3>1
  <2>2. q[n] = NewLine <=> IF Head(q) = NewLine THEN n % 2 = 1 ELSE n % 2 = 0
    BY <2>1 DEF Alternates
  <2>3. e = NewLine <=> IF Head(q) = NewLine THEN n % 2 = 0 ELSE n % 2 = 1
    BY <1>3, <2>1, <2>2
  <2>4. Head(r) = Head(q)
    BY <1>1, <1>3
  <2>5. \A i \in 1 .. n : q[i] = NewLine <=> IF Head(q) = NewLine THEN i % 2 = 1 ELSE i % 2 = 0
    BY DEF Alternates
  <2> HIDE DEF r, n
  <2>6. Alternates(r)
    <3> SUFFICES ASSUME NEW i \in 1 .. n + 1
                 PROVE  r[i] = NewLine <=> IF Head(r) = NewLine THEN i % 2 = 1 ELSE i % 2 = 0
      BY <1>1 DEF Alternates
    <3>1. CASE i = n + 1
      BY <1>1, <2>3, <2>4, <3>1, Parities
    <3>2. CASE i \in 1 .. n
      BY <1>1, <2>4, <2>5, <3>2
    <3>3. QED
      BY <1>1, <3>1, <3>2
  <2>7. Unread(r) = IF e = NewLine THEN Unread(q) ELSE Unread(q) + 1
    <3>1. CASE Head(q) = NewLine
      <4>1. Unread(r) = (n + 1) \div 2 /\ Unread(q) = n \div 2
        BY <1>1, <1>3, <2>4, <3>1 DEF Unread, n
      <4>2. QED
        BY <1>1, <2>3, <3>1, <4>1, Parities
    <3>2. CASE Head(q) # NewLine
      <4>1. Unread(r) = (n + 2) \div 2 /\ Unread(q) = (n + 1) \div 2
        BY <1>1, <1>3, <2>4, <3>2 DEF Unread, n
      <4>2. QED
        BY <1>1, <2>3, <3>2, <4>1, Parities
    <3>3. QED
      BY <3>1, <3>2
  <2>8. QED
    BY <1>1, <2>6, <2>7 DEF r
<1>4. QED
  BY <1>2, <1>3

\* Two items are appended one by one.
LEMMA AppendBoth ==
    ASSUME NEW q \in Seq(Items), NEW e \in Items, NEW f \in Items
    PROVE  q \o <<e, f>> = Append(Append(q, e), f)
<1> DEFINE r == Append(q, e)
           t == Append(r, f)
           u == q \o <<e, f>>
           n == Len(q)
<1>1. r \in Seq(Items) /\ Len(r) = n + 1 /\ n \in Nat
      /\ r[n + 1] = e /\ \A i \in 1 .. n : r[i] = q[i]
  BY AppendProperties, LenProperties
<1>2. t \in Seq(Items) /\ Len(t) = Len(r) + 1
      /\ t[Len(r) + 1] = f /\ \A i \in 1 .. Len(r) : t[i] = r[i]
  <2> HIDE DEF r
  <2> QED
    BY <1>1, AppendProperties
<1>3. <<e, f>> \in Seq(Items) /\ Len(<<e, f>>) = 2 /\ <<e, f>>[1] = e /\ <<e, f>>[2] = f
  OBVIOUS
<1>4. /\ u \in Seq(Items) /\ Len(u) = n + 2
      /\ \A i \in 1 .. n + 2 : u[i] = IF i <= n THEN q[i] ELSE <<e, f>>[i - n]
  BY <1>3, ConcatProperties
<1> HIDE DEF r, t, u, n
<1>5. ASSUME NEW i \in 1 .. n + 2 PROVE u[i] = t[i]
  <2>1. CASE i \in 1 .. n
    BY <1>1, <1>2, <1>4, <2>1
  <2>2. CASE i = n + 1
    BY <1>1, <1>2, <1>3, <1>4, <2>2
  <2>3. CASE i = n + 2
    BY <1>1, <1>2, <1>3, <1>4, <2>3
  <2>4. QED
    BY <1>1, <2>1, <2>2, <2>3
<1>6. Len(u) = Len(t)
  BY <1>1, <1>2, <1>4
<1>7. u = t
  BY <1>2, <1>4, <1>5, <1>6, SeqEqual
<1>8. QED
  BY <1>7 DEF r, t, u

\* A whole line is appended where a command may come.
LEMMA AppendLine ==
    ASSUME NEW q \in Seq(Items), Alternates(q), NEW l \in Lines,
           q # <<>> => q[Len(q)] = NewLine
    PROVE  LET u == q \o <<l, NewLine>>
           IN  /\ u \in Seq(Items) /\ Alternates(u) /\ u # <<>>
               /\ u[Len(u)] = NewLine /\ Len(u) = Len(q) + 2
               /\ Unread(u) = Unread(q) + 1
               /\ Head(u) = IF q = <<>> THEN l ELSE Head(q)
<1> DEFINE t == Append(q, l)
           u == Append(t, NewLine)
<1>1. l \in Items /\ NewLine \in Items /\ l # NewLine
  BY LineOrNewLine DEF Items
<1>2. /\ t \in Seq(Items) /\ Alternates(t) /\ t # <<>> /\ t[Len(t)] = l
      /\ Unread(t) = Unread(q) + 1
  BY <1>1, AppendAlternates
<1>3. Len(t) = Len(q) + 1 /\ Head(t) = IF q = <<>> THEN l ELSE Head(q)
  BY <1>1, AppendHead
<1>4. q \o <<l, NewLine>> = u
  BY <1>1, AppendBoth
<1> HIDE DEF t
<1>5. /\ u \in Seq(Items) /\ Alternates(u) /\ u # <<>> /\ u[Len(u)] = NewLine
      /\ Unread(u) = Unread(t)
  BY <1>1, <1>2, AppendAlternates
<1>6. Len(u) = Len(t) + 1 /\ Head(u) = Head(t)
  BY <1>1, <1>2, AppendHead
<1>7. Len(u) = Len(q) + 2
  <2>1. Len(q) \in Nat
    BY LenProperties
  <2> HIDE DEF u
  <2>2. QED
    BY <1>3, <1>6, <2>1
<1> HIDE DEF u
<1>8. QED
  BY <1>2, <1>3, <1>4, <1>5, <1>6, <1>7

-----------------------------------------------------------------------------
(***************************************************************************)
(* The types of what is on a connection.                                   *)
(***************************************************************************)

WireTypes ==
    /\ InboxOK
    /\ silence \in [Handlers -> 0 .. MaxSilence]
    /\ reply \in [Handlers -> Replies]
    /\ peer \in [Handlers -> {"open", "midline", "eof", "reset"}]
    /\ written \in [Handlers -> 0 .. MaxLines]
    /\ owed \in [Handlers -> Int]

\* The clock of the model, and the number of lines.
LEMMA SilenceBound == 0 \in 0 .. MaxSilence /\ 0 \in 0 .. MaxLines
<1>1. \A a, b \in Nat : a * (b + 1) \in Nat
  OBVIOUS
<1>2. MaxSilence \in Nat
  BY <1>1, CommandsAssumption DEF MaxSilence
<1>3. QED
  BY <1>2, CommandsAssumption

\* One more line of a peer.
LEMMA NextLine ==
    ASSUME NEW n \in 0 .. MaxLines, n < MaxLines
    PROVE  n + 1 \in 0 .. MaxLines
BY CommandsAssumption

\* A later look at the clock.
LEMMA LaterLook ==
    ASSUME NEW n \in 0 .. MaxSilence, NEW now \in (n + 1) .. MaxSilence
    PROVE  now \in 0 .. MaxSilence
BY SilenceBound

\* Every step keeps them.
LEMMA WireTypesStep == WireTypes /\ [TcpNext]_tcpVars => WireTypes'
<1> SUFFICES ASSUME WireTypes, [TcpNext]_tcpVars PROVE WireTypes'
  OBVIOUS
<1> USE DEF WireTypes
<1>1. InboxOK'
  BY InboxStep
<1>2. UNCHANGED <<silence, reply, peer, written, owed>> => WireTypes'
  BY <1>1
<1>3. ASSUME NEW h \in Handlers, PeerStep(h) PROVE WireTypes'
  <2>1. ASSUME NEW l \in Lines, NEW split, PeerWrites(h, l, split) PROVE WireTypes'
    <3>1. written[h] + 1 \in 0 .. MaxLines
      BY <2>1, NextLine DEF PeerWrites
    <3>2. written' \in [Handlers -> 0 .. MaxLines]
      BY <2>1, <3>1 DEF PeerWrites
    <3>3. owed' \in [Handlers -> Int]
      BY <2>1 DEF PeerWrites
    <3>4. peer' \in [Handlers -> {"open", "midline", "eof", "reset"}]
      BY <2>1 DEF PeerWrites
    <3>5. QED
      BY <1>1, <2>1, <3>2, <3>3, <3>4 DEF PeerWrites
  <2>2. CASE PeerEndsLine(h)
    BY <1>1, <2>2 DEF PeerEndsLine
  <2>3. CASE PeerLeaves(h)
    BY <1>1, <2>3 DEF PeerLeaves, connVars
  <2>4. CASE Accept(h)
    BY <1>2, <2>4 DEF Accept, peerVars
  <2>5. QED
    BY <1>3, <2>1, <2>2, <2>3, <2>4 DEF PeerStep
<1>4. ASSUME NEW h \in Handlers, ConnStep(h) PROVE WireTypes'
  <2>1. ASSUME NEW kind, ReadLine(h, kind) PROVE silence' \in [Handlers -> 0 .. MaxSilence]
    BY <2>1, SilenceBound DEF ReadLine
  <2>2. ASSUME NEW r \in Replies, Respond(h, r)
        PROVE  reply' \in [Handlers -> Replies] /\ owed' \in [Handlers -> Int]
    <3>1. \/ reply' = [reply EXCEPT ![h] = r] /\ owed' = [owed EXCEPT ![h] = @ - 1]
          \/ UNCHANGED <<reply, owed>>
      BY <2>2 DEF Respond, Close
    <3>2. owed[h] - 1 \in Int
      OBVIOUS
    <3>3. reply' \in [Handlers -> Replies]
      BY <3>1
    <3>4. owed' \in [Handlers -> Int]
      BY <3>1, <3>2
    <3>5. QED
      BY <3>3, <3>4
  <2>3. ASSUME NEW r, Close(h, r) \/ CallRemove(h, r)
        PROVE  UNCHANGED <<reply, owed>>
    BY <2>3 DEF Close, CallRemove
  <2>4. CASE EmptyLine(h)
    BY <1>1, <2>1, <2>4 DEF EmptyLine, peerVars
  <2>5. CASE Ping(h) \/ Invalid(h) \/ Stream(h) \/ Stop(h)
    <3>1. {"PONG", "ERR Invalid command", "STREAM OK", "STOP OK"} \subseteq Replies
      BY DEF Replies
    <3>2. UNCHANGED <<peer, written>>
      BY <2>5 DEF Ping, Invalid, Stream, Stop, peerVars
    <3>3. silence' \in [Handlers -> 0 .. MaxSilence]
      BY <2>1, <2>5 DEF Ping, Invalid, Stream, Stop
    <3>4. reply' \in [Handlers -> Replies] /\ owed' \in [Handlers -> Int]
      BY <2>2, <2>3, <2>5, <3>1 DEF Ping, Invalid, Stream, Stop
    <3>5. QED
      BY <1>1, <3>2, <3>3, <3>4
  <2>6. CASE StreamFails(h) \/ StreamPanics(h)
    <3>1. UNCHANGED <<peer, written, reply, owed>>
      BY <2>3, <2>6 DEF StreamFails, StreamPanics, peerVars
    <3>2. silence' \in [Handlers -> 0 .. MaxSilence]
      BY <2>1, <2>6 DEF StreamFails, StreamPanics
    <3>3. QED
      BY <1>1, <3>1, <3>2
  <2>7. CASE Poll(h)
    <3>1. PICK now \in (silence[h] + 1) .. MaxSilence :
            /\ silence' = [silence EXCEPT ![h] = now]
            /\ \/ ~ Expired(now) /\ UNCHANGED <<conn, why, reply, owed>>
               \/ Expired(now) /\ CallRemove(h, "expired")
               \/ Expired(now) /\ client_id[h] = NoId /\ Close(h, "expired")
      BY <2>7 DEF Poll
    <3>2. UNCHANGED <<peer, written, reply, owed>>
      BY <2>3, <2>7, <3>1 DEF Poll, peerVars
    <3>3. now \in 0 .. MaxSilence
      BY LaterLook
    <3>4. silence' \in [Handlers -> 0 .. MaxSilence]
      BY <3>1, <3>3
    <3>5. QED
      BY <1>1, <3>2, <3>4
  <2>8. CASE EndOfFile(h) \/ ReadError(h) \/ RemoveBegins(h) \/ RemoveFails(h)
    BY <1>2, <2>3, <2>8 DEF EndOfFile, ReadError, RemoveBegins, RemoveFails, peerVars
  <2>9. CASE RemoveEnds(h)
    <3>1. "STOP OK" \in Replies
      BY DEF Replies
    <3>2. UNCHANGED <<silence, peer, written>>
      BY <2>9 DEF RemoveEnds, peerVars
    <3>3. reply' \in [Handlers -> Replies] /\ owed' \in [Handlers -> Int]
      BY <2>2, <2>3, <2>9, <3>1 DEF RemoveEnds
    <3>4. QED
      BY <1>1, <3>2, <3>3
  <2>10. QED
    BY <1>4, <2>4, <2>5, <2>6, <2>7, <2>8, <2>9 DEF ConnStep
<1>5. QED
  BY <1>2, <1>3, <1>4 DEF TcpNext, tcpVars, connVars, peerVars

-----------------------------------------------------------------------------
(***************************************************************************)
(* Commands that are owed an answer.                                       *)
(***************************************************************************)

\* What AnswersAreOwed says of one connection.
Ledger(h) ==
    /\ Alternates(inbox[h])
    /\ inbox[h] # <<>> /\ peer[h] \in {"open", "midline"} =>
            (inbox[h][Len(inbox[h])] = NewLine <=> peer[h] = "open")
    /\ Unread(inbox[h]) + Stopping(h) <= owed[h]
    /\ owed[h] <= written[h]

LedgerTypes == ConnTypes /\ WireTypes

\* What Ledger adds and compares are numbers.
LEMMA LedgerNumbers ==
    ASSUME LedgerTypes, NEW h \in Handlers
    PROVE  /\ Stopping(h) \in {0, 1} /\ owed[h] \in Int /\ written[h] \in Int
           /\ inbox[h] \in Seq(Items) /\ Unread(inbox[h]) \in Nat
<1>1. inbox[h] \in Seq(Items)
  BY DEF LedgerTypes, WireTypes, InboxOK, Items
<1>2. written[h] \in Int
  BY CommandsAssumption DEF LedgerTypes, WireTypes
<1>3. QED
  BY <1>1, <1>2, UnreadType DEF LedgerTypes, WireTypes, Stopping

\* A step at one connection leaves the others alone.
LEMMA LedgerElsewhere ==
    ASSUME AnswersAreOwed, NEW h \in Handlers, Ledger(h)',
           \A g \in Handlers \ {h} :
              /\ inbox'[g] = inbox[g] /\ peer'[g] = peer[g] /\ conn'[g] = conn[g]
              /\ why'[g] = why[g] /\ owed'[g] = owed[g] /\ written'[g] = written[g]
    PROVE  AnswersAreOwed'
<1> SUFFICES ASSUME NEW g \in Handlers PROVE Ledger(g)'
  BY DEF AnswersAreOwed, Ledger
<1>1. CASE g = h
  BY <1>1
<1>2. CASE g # h
  BY <1>2 DEF AnswersAreOwed, Ledger, Stopping
<1>3. QED
  BY <1>1, <1>2

\* Only the handler of this connection moves or answers.
HandlerAlone(h) ==
    \A g \in Handlers \ {h} :
        conn'[g] = conn[g] /\ why'[g] = why[g] /\ owed'[g] = owed[g]

(***************************************************************************)
(* A handler reads a line.  An empty one is passed over; a command is      *)
(* answered, left unanswered by a handler that ends, or answered later     *)
(* when remove_client has returned.                                        *)
(***************************************************************************)
LEMMA LedgerRead ==
    ASSUME LedgerTypes, AnswersAreOwed, NEW h \in Handlers, NEW kind,
           ReadLine(h, kind), HandlerAlone(h), UNCHANGED peerVars,
           \/ owed'[h] = owed[h]
           \/ owed'[h] = owed[h] - 1 /\ conn'[h] = "read" /\ kind # "NL",
           kind = "NL" => conn'[h] = "read"
    PROVE  AnswersAreOwed'
<1> USE DEF LedgerTypes
<1> DEFINE q == inbox[h]
           t == AfterLine(q)
<1>1. /\ q \in Seq(Items) /\ q # <<>> /\ Alternates(q) /\ conn[h] = "read"
      /\ Head(q).cmd = kind
      /\ inbox' = [inbox EXCEPT ![h] = t]
  BY LedgerNumbers DEF ReadLine, LineReady, AnswersAreOwed
<1>2. Head(q) = NewLine => kind = "NL"
  BY <1>1 DEF NewLine
<1>3. /\ t \in Seq(Items) /\ Alternates(t)
      /\ Unread(t) = IF Head(q) = NewLine THEN Unread(q) ELSE Unread(q) - 1
      /\ t # <<>> => t[Len(t)] = q[Len(q)]
  BY <1>1, AfterLineAlternates
<1>4. /\ inbox'[h] = t /\ peer'[h] = peer[h] /\ written'[h] = written[h]
  BY <1>1 DEF WireTypes, InboxOK, peerVars
<1>5. kind = "NL" => Head(q) = NewLine
  <2>1. Head(q) \in Items
    BY <1>1, HeadTailProperties
  <2>2. QED
    BY <1>1, <2>1, NewLineKind
<1>6. /\ Unread(q) \in Nat /\ owed[h] \in Int /\ written[h] \in Int
      /\ Unread(q) <= owed[h] /\ owed[h] <= written[h]
  <2>1. Stopping(h) = 0
    BY <1>1 DEF Stopping
  <2>2. QED
    BY <2>1, LedgerNumbers DEF AnswersAreOwed
<1>7. Stopping(h)' \in {0, 1} /\ (conn'[h] = "read" => Stopping(h)' = 0)
  BY DEF Stopping
<1>8. Ledger(h)'
  <2>1. Alternates(inbox'[h])
    BY <1>3, <1>4
  <2>2. inbox'[h] # <<>> /\ peer'[h] \in {"open", "midline"} =>
            (inbox'[h][Len(inbox'[h])] = NewLine <=> peer'[h] = "open")
    BY <1>1, <1>3, <1>4 DEF AnswersAreOwed
  <2>3. Unread(t) + Stopping(h)' <= owed'[h]
    <3>1. PICK b : b = Stopping(h)'
      OBVIOUS
    <3>2. b \in {0, 1} /\ (conn'[h] = "read" => b = 0)
      BY <1>7, <3>1
    <3>3. Unread(t) + b <= owed'[h]
      <4>1. CASE Head(q) = NewLine
        BY <1>2, <1>3, <1>6, <3>2, <4>1
      <4>2. CASE Head(q) # NewLine
        BY <1>1, <1>3, <1>5, <1>6, <3>2, <4>2
      <4>3. QED
        BY <4>1, <4>2
    <3>4. QED
      BY <3>1, <3>3
  <2>4. owed'[h] <= written'[h]
    BY <1>4, <1>6
  <2>5. QED
    BY <1>4, <2>1, <2>2, <2>3, <2>4 DEF Ledger
<1>9. \A g \in Handlers \ {h} :
        /\ inbox'[g] = inbox[g] /\ peer'[g] = peer[g] /\ conn'[g] = conn[g]
        /\ why'[g] = why[g] /\ owed'[g] = owed[g] /\ written'[g] = written[g]
  BY <1>1 DEF HandlerAlone, WireTypes, InboxOK, peerVars
<1>10. QED
  BY <1>8, <1>9, LedgerElsewhere

(***************************************************************************)
(* A handler throws away what it has read of a line, or moves on without   *)
(* reading: a reply that it writes is that to a STOP.                      *)
(***************************************************************************)
LEMMA LedgerMove ==
    ASSUME LedgerTypes, AnswersAreOwed, NEW h \in Handlers,
           inbox' = inbox \/ inbox' = [inbox EXCEPT ![h] = <<>>],
           HandlerAlone(h), UNCHANGED peerVars,
           \/ owed'[h] = owed[h] /\ (Stopping(h)' = 0 \/ Stopping(h)' = Stopping(h))
           \/ owed'[h] = owed[h] - 1 /\ Stopping(h)' = 0 /\ Stopping(h) = 1
    PROVE  AnswersAreOwed'
<1> USE DEF LedgerTypes
<1>1. /\ inbox'[h] \in {inbox[h], <<>>}
      /\ peer'[h] = peer[h] /\ written'[h] = written[h]
  BY DEF WireTypes, InboxOK, peerVars
<1>2. PICK b : b = Stopping(h)'
  OBVIOUS
<1>3. \/ owed'[h] = owed[h] /\ (b = 0 \/ b = Stopping(h))
      \/ owed'[h] = owed[h] - 1 /\ b = 0 /\ Stopping(h) = 1
  BY <1>2
<1>4. /\ Unread(inbox[h]) + Stopping(h) <= owed[h] /\ owed[h] <= written[h]
      /\ Stopping(h) \in {0, 1} /\ owed[h] \in Int /\ written[h] \in Int
      /\ Unread(inbox[h]) \in Nat /\ Unread(<<>>) = 0
  BY LedgerNumbers, UnreadType DEF AnswersAreOwed
<1>5. Unread(inbox'[h]) + b <= owed'[h]
  <2>1. CASE inbox'[h] = inbox[h]
    BY <1>3, <1>4, <2>1
  <2>2. CASE inbox'[h] = <<>>
    BY <1>3, <1>4, <2>2
  <2>3. QED
    BY <1>1, <2>1, <2>2
<1>6. Alternates(inbox'[h])
  <2>1. Alternates(<<>>)
    BY EmptySeq DEF Alternates
  <2>2. QED
    BY <1>1, <2>1 DEF AnswersAreOwed
<1>7. inbox'[h] # <<>> /\ peer'[h] \in {"open", "midline"} =>
        (inbox'[h][Len(inbox'[h])] = NewLine <=> peer'[h] = "open")
  BY <1>1 DEF AnswersAreOwed
<1>8. owed'[h] <= written'[h]
  BY <1>1, <1>3, <1>4
<1>9. Ledger(h)'
  BY <1>1, <1>2, <1>5, <1>6, <1>7, <1>8 DEF Ledger
<1>10. \A g \in Handlers \ {h} :
        /\ inbox'[g] = inbox[g] /\ peer'[g] = peer[g] /\ conn'[g] = conn[g]
        /\ why'[g] = why[g] /\ owed'[g] = owed[g] /\ written'[g] = written[g]
  BY DEF HandlerAlone, WireTypes, InboxOK, peerVars
<1>11. QED
  BY <1>9, <1>10, LedgerElsewhere

(***************************************************************************)
(* The peer writes a line or the rest of one, or leaves.                   *)
(***************************************************************************)
LEMMA LedgerPeer ==
    ASSUME LedgerTypes, AnswersAreOwed, NEW h \in Handlers, PeerStep(h)
    PROVE  AnswersAreOwed'
<1> USE DEF LedgerTypes
<1> DEFINE q == inbox[h]
<1>0. /\ q \in Seq(Items) /\ Alternates(q) /\ NewLine \in Items
      /\ Lines \subseteq Items
      /\ q # <<>> /\ peer[h] \in {"open", "midline"} =>
            (q[Len(q)] = NewLine <=> peer[h] = "open")
      /\ Unread(q) + Stopping(h) <= owed[h] /\ owed[h] <= written[h]
      /\ Unread(q) \in Nat /\ Stopping(h) \in {0, 1}
      /\ owed[h] \in Int /\ written[h] \in Int
  BY LedgerNumbers DEF Items, AnswersAreOwed
<1>1. ASSUME NEW t \in Seq(Items), NEW d \in {0, 1}, NEW s,
             Alternates(t), Unread(t) = Unread(q) + d,
             t # <<>> /\ s \in {"open", "midline"} =>
                (t[Len(t)] = NewLine <=> s = "open"),
             inbox' = [inbox EXCEPT ![h] = t],
             peer' = [peer EXCEPT ![h] = s],
             owed' = [owed EXCEPT ![h] = @ + d],
             written' = [written EXCEPT ![h] = @ + d],
             UNCHANGED <<conn, why>>
      PROVE  AnswersAreOwed'
  <2>1. /\ inbox'[h] = t /\ peer'[h] = s
        /\ owed'[h] = owed[h] + d /\ written'[h] = written[h] + d
    BY <1>1 DEF WireTypes, InboxOK
  <2>2. Stopping(h)' = Stopping(h)
    BY <1>1 DEF Stopping
  <2>3. Unread(t) + Stopping(h) <= owed[h] + d /\ owed[h] + d <= written[h] + d
    BY <1>0, <1>1
  <2>4. Ledger(h)'
    BY <1>1, <2>1, <2>2, <2>3 DEF Ledger
  <2>5. \A g \in Handlers \ {h} :
          /\ inbox'[g] = inbox[g] /\ peer'[g] = peer[g] /\ conn'[g] = conn[g]
          /\ why'[g] = why[g] /\ owed'[g] = owed[g] /\ written'[g] = written[g]
    BY <1>1 DEF WireTypes, InboxOK
  <2>6. QED
    BY <2>4, <2>5, LedgerElsewhere
<1>2. owed' = owed => owed' = [owed EXCEPT ![h] = @ + 0]
  BY DEF WireTypes
<1>3. written' = written => written' = [written EXCEPT ![h] = @ + 0]
  BY CommandsAssumption DEF WireTypes
<1>4. ASSUME NEW l \in Lines, NEW split, PeerWrites(h, l, split) PROVE AnswersAreOwed'
  <2> DEFINE t == Append(q, l)
             u == q \o <<l, NewLine>>
  <2>1. l \in Items /\ l # NewLine /\ peer[h] = "open"
    BY <1>0, <1>4, LineOrNewLine DEF PeerWrites
  <2>2. q # <<>> => (l = NewLine <=> q[Len(q)] # NewLine)
    BY <1>0, <2>1
  <2>3. /\ t \in Seq(Items) /\ Alternates(t) /\ t # <<>> /\ t[Len(t)] = l
        /\ Unread(t) = Unread(q) + 1
    BY <1>0, <2>1, <2>2, AppendAlternates
  <2>4. q # <<>> => q[Len(q)] = NewLine
    BY <1>0, <2>1
  <2>5. /\ u \in Seq(Items) /\ Alternates(u) /\ u # <<>> /\ u[Len(u)] = NewLine
        /\ Unread(u) = Unread(q) + 1
    BY <1>0, <2>4, AppendLine
  <2> HIDE DEF t, q, u
  <2>6. /\ owed' = [owed EXCEPT ![h] = @ + 1]
        /\ written' = [written EXCEPT ![h] = @ + 1]
        /\ UNCHANGED <<conn, why>>
    BY <1>4 DEF PeerWrites
  <2>7. CASE split
    <3>1. inbox' = [inbox EXCEPT ![h] = t] /\ peer' = [peer EXCEPT ![h] = "midline"]
      BY <1>4, <2>7 DEF PeerWrites, t, q
    <3>2. QED
      BY <1>1, <2>1, <2>3, <2>6, <3>1
  <2>8. CASE ~ split
    <3>1. inbox' = [inbox EXCEPT ![h] = u]
      BY <1>4, <2>8 DEF PeerWrites, u, q
    <3>2. peer' = [peer EXCEPT ![h] = "open"]
      BY <1>4, <2>1, <2>8 DEF PeerWrites, WireTypes
    <3>3. QED
      BY <1>1, <2>5, <2>6, <3>1, <3>2
  <2>9. QED
    BY <2>7, <2>8
<1>5. CASE PeerEndsLine(h)
  <2> DEFINE t == Append(q, NewLine)
  <2>1. peer[h] = "midline"
    BY <1>5 DEF PeerEndsLine
  <2>2. q # <<>> => q[Len(q)] # NewLine
    BY <1>0, <2>1
  <2>3. /\ t \in Seq(Items) /\ Alternates(t) /\ t # <<>> /\ t[Len(t)] = NewLine
        /\ Unread(t) = Unread(q)
    BY <1>0, <2>2, AppendAlternates
  <2>4. inbox' = [inbox EXCEPT ![h] = t] /\ peer' = [peer EXCEPT ![h] = "open"]
    BY <1>5 DEF PeerEndsLine
  <2>5. /\ owed' = owed /\ written' = written /\ UNCHANGED <<conn, why>>
    BY <1>5 DEF PeerEndsLine
  <2> HIDE DEF t, q
  <2>6. Unread(t) = Unread(q) + 0
    BY <1>0, <2>3
  <2>7. QED
    BY <1>1, <1>2, <1>3, <2>3, <2>4, <2>5, <2>6
<1>6. CASE PeerLeaves(h)
  <2>1. /\ peer' = [peer EXCEPT ![h] = "eof"] \/ peer' = [peer EXCEPT ![h] = "reset"]
        /\ inbox' = inbox /\ owed' = owed /\ written' = written /\ UNCHANGED <<conn, why>>
    BY <1>6 DEF PeerLeaves, connVars
  <2>2. inbox' = [inbox EXCEPT ![h] = q]
    BY <2>1 DEF WireTypes, InboxOK
  <2> HIDE DEF q
  <2>3. Unread(q) = Unread(q) + 0
    BY <1>0
  <2>4. QED
    BY <1>0, <1>1, <1>2, <1>3, <2>1, <2>2, <2>3
<1>7. CASE Accept(h)
  <2>1. /\ conn[h] = "listen"
        /\ conn' = [conn EXCEPT ![h] = "read"] \/ conn' = [conn EXCEPT ![h] = "closed"]
        /\ UNCHANGED <<inbox, why, owed, peerVars>>
    BY <1>7 DEF Accept
  <2>2. HandlerAlone(h) /\ owed'[h] = owed[h]
    BY <2>1 DEF HandlerAlone, ConnTypes
  <2>3. Stopping(h)' = 0
    BY <2>1 DEF Stopping, ConnTypes
  <2>4. QED
    BY <2>1, <2>2, <2>3, LedgerMove
<1>8. QED
  BY <1>4, <1>5, <1>6, <1>7 DEF PeerStep

\* A handler that returns or calls remove_client answers nothing.
LEMMA HandlerReturns ==
    ASSUME LedgerTypes, NEW h \in Handlers, NEW r, Close(h, r) \/ CallRemove(h, r)
    PROVE  /\ HandlerAlone(h) /\ owed'[h] = owed[h]
           /\ why'[h] = r /\ conn'[h] \in {"closed", "remove"}
           /\ Close(h, r) => conn'[h] = "closed"
<1> USE DEF LedgerTypes
<1>1. UNCHANGED owed /\ why' = [why EXCEPT ![h] = r]
  BY DEF Close, CallRemove
<1>2. PICK s \in {"closed", "remove"} : conn' = [conn EXCEPT ![h] = s]
  BY DEF Close, CallRemove
<1>3. Close(h, r) => conn'[h] = "closed"
  BY DEF Close, ConnTypes
<1>4. HandlerAlone(h)
  BY <1>1, <1>2 DEF HandlerAlone, ConnTypes
<1>5. QED
  BY <1>1, <1>2, <1>3, <1>4 DEF ConnTypes

\* One that replies has answered one command, or returns.
LEMMA HandlerReplies ==
    ASSUME LedgerTypes, NEW h \in Handlers, NEW r, Respond(h, r)
    PROVE  /\ HandlerAlone(h)
           /\ \/ owed'[h] = owed[h] /\ conn'[h] = "closed"
              \/ owed'[h] = owed[h] - 1 /\ conn'[h] = "read"
<1> USE DEF LedgerTypes
<1>1. CASE Close(h, "write error")
  BY <1>1, HandlerReturns
<1>2. CASE /\ conn' = [conn EXCEPT ![h] = "read"]
           /\ owed' = [owed EXCEPT ![h] = @ - 1] /\ UNCHANGED why
  <2>1. HandlerAlone(h)
    BY <1>2 DEF HandlerAlone, ConnTypes, WireTypes
  <2>2. QED
    BY <1>2, <2>1 DEF ConnTypes, WireTypes
<1>3. QED
  BY <1>1, <1>2 DEF Respond

(***************************************************************************)
(* A step of a handler: it answers a command that it takes from the        *)
(* channel, or the STOP whose removal has ended.                           *)
(***************************************************************************)
LEMMA LedgerConn ==
    ASSUME LedgerTypes, AnswersAreOwed, NEW h \in Handlers, ConnStep(h)
    PROVE  AnswersAreOwed'
<1> USE DEF LedgerTypes
<1>1. ASSUME NEW r, Close(h, r) \/ CallRemove(h, r)
      PROVE  /\ HandlerAlone(h) /\ owed'[h] = owed[h]
             /\ why'[h] = r /\ conn'[h] \in {"closed", "remove"}
             /\ Close(h, r) => conn'[h] = "closed"
  BY <1>1, HandlerReturns
<1>2. ASSUME NEW r, Respond(h, r)
      PROVE  /\ HandlerAlone(h)
             /\ \/ owed'[h] = owed[h] /\ conn'[h] = "closed"
                \/ owed'[h] = owed[h] - 1 /\ conn'[h] = "read"
  BY <1>2, HandlerReplies
<1>3. ASSUME NEW kind, ReadLine(h, kind), kind # "NL", UNCHANGED peerVars, NEW r,
             Respond(h, r) \/ Close(h, r) \/ CallRemove(h, r)
      PROVE  AnswersAreOwed'
  <2>1. HandlerAlone(h)
    BY <1>1, <1>2, <1>3
  <2>2. \/ owed'[h] = owed[h]
        \/ owed'[h] = owed[h] - 1 /\ conn'[h] = "read"
    <3>1. CASE Respond(h, r)
      BY <1>2, <3>1
    <3>2. CASE Close(h, r) \/ CallRemove(h, r)
      BY <1>1, <3>2
    <3>3. QED
      BY <1>3, <3>1, <3>2
  <2>3. QED
    BY <1>3, <2>1, <2>2, LedgerRead
<1>4. ASSUME UNCHANGED peerVars, HandlerAlone(h), owed'[h] = owed[h],
             inbox' = inbox \/ inbox' = [inbox EXCEPT ![h] = <<>>],
             Stopping(h)' = 0 \/ Stopping(h)' = Stopping(h)
      PROVE  AnswersAreOwed'
  BY <1>4, LedgerMove
<1>5. CASE EmptyLine(h)
  <2>1. ReadLine(h, "NL") /\ UNCHANGED <<conn, why, owed, peerVars>> /\ conn[h] = "read"
    BY <1>5 DEF EmptyLine, ReadLine
  <2>2. HandlerAlone(h) /\ owed'[h] = owed[h] /\ conn'[h] = "read"
    BY <2>1 DEF HandlerAlone
  <2>3. QED
    BY <2>1, <2>2, LedgerRead
<1>6. CASE Ping(h)
  <2>1. ReadLine(h, "PING") /\ Respond(h, "PONG") /\ UNCHANGED peerVars
    BY <1>6 DEF Ping
  <2>2. QED
    BY <1>3, <2>1
<1>7. CASE Invalid(h)
  <2>1. ReadLine(h, "OTHER") /\ Respond(h, "ERR Invalid command") /\ UNCHANGED peerVars
    BY <1>7 DEF Invalid
  <2>2. QED
    BY <1>3, <2>1
<1>8. CASE Stop(h)
  <2>1. /\ ReadLine(h, "STOP") /\ UNCHANGED peerVars
        /\ Respond(h, "STOP OK") \/ CallRemove(h, "STOP")
    BY <1>8 DEF Stop
  <2>2. QED
    BY <1>3, <2>1
<1>9. CASE Stream(h)
  <2>1. ReadLine(h, "STREAM") /\ Respond(h, "STREAM OK") /\ UNCHANGED peerVars
    BY <1>9 DEF Stream
  <2>2. QED
    BY <1>3, <2>1
<1>10. CASE StreamFails(h) \/ StreamPanics(h)
  <2>1. PICK kind \in {"STREAM", "BAD STREAM"}, r \in Reasons :
            ReadLine(h, kind) /\ Close(h, r) /\ UNCHANGED peerVars
    BY <1>10 DEF StreamFails, StreamPanics, Reasons
  <2>2. QED
    BY <1>3, <2>1
<1>11. CASE Poll(h)
  <2>1. /\ conn[h] = "read" /\ inbox' = [inbox EXCEPT ![h] = <<>>]
        /\ UNCHANGED peerVars
        /\ \/ UNCHANGED <<conn, why, owed>>
           \/ Close(h, "expired") \/ CallRemove(h, "expired")
    BY <1>11 DEF Poll
  <2>2. HandlerAlone(h) /\ owed'[h] = owed[h] /\ Stopping(h)' = 0
    <3>1. CASE UNCHANGED <<conn, why, owed>>
      BY <2>1, <3>1 DEF HandlerAlone, Stopping
    <3>2. CASE Close(h, "expired") \/ CallRemove(h, "expired")
      <4>1. HandlerAlone(h) /\ owed'[h] = owed[h] /\ why'[h] = "expired"
        BY <1>1, <3>2
      <4>2. QED
        BY <4>1 DEF Stopping
    <3>3. QED
      BY <2>1, <3>1, <3>2
  <2>3. QED
    BY <1>4, <2>1, <2>2
<1>12. CASE EndOfFile(h) \/ ReadError(h)
  <2>1. PICK r \in {"closed by peer", "connection error"} :
            Close(h, r) \/ CallRemove(h, r)
    BY <1>12 DEF EndOfFile, ReadError
  <2>2. HandlerAlone(h) /\ owed'[h] = owed[h] /\ why'[h] = r
    BY <1>1, <2>1
  <2>3. Stopping(h)' = 0
    BY <2>2 DEF Stopping
  <2>4. UNCHANGED peerVars /\ (inbox' = inbox \/ inbox' = [inbox EXCEPT ![h] = <<>>])
    BY <1>12 DEF EndOfFile, ReadError
  <2>5. QED
    BY <1>4, <2>2, <2>3, <2>4
<1>13. CASE RemoveBegins(h)
  <2>1. /\ conn[h] = "remove" /\ conn' = [conn EXCEPT ![h] = "join"]
        /\ UNCHANGED <<inbox, why, owed, peerVars>>
    BY <1>13 DEF RemoveBegins
  <2>2. HandlerAlone(h) /\ conn'[h] = "join"
    BY <2>1 DEF HandlerAlone, ConnTypes
  <2>3. Stopping(h)' = Stopping(h)
    BY <2>1, <2>2 DEF Stopping
  <2>4. QED
    BY <1>4, <2>1, <2>2, <2>3
<1>14. CASE RemoveFails(h)
  <2>1. Close(h, "poisoned") /\ UNCHANGED <<inbox, peerVars>>
    BY <1>14 DEF RemoveFails
  <2>2. HandlerAlone(h) /\ owed'[h] = owed[h] /\ why'[h] = "poisoned"
    BY <1>1, <2>1
  <2>3. Stopping(h)' = 0
    BY <2>2 DEF Stopping
  <2>4. QED
    BY <1>4, <2>1, <2>2, <2>3
<1>15. CASE RemoveEnds(h)
  <2>1. conn[h] = "join" /\ UNCHANGED <<inbox, peerVars>>
    BY <1>15 DEF RemoveEnds
  <2>2. CASE why[h] = "STOP"
    <3>1. /\ HandlerAlone(h)
          /\ \/ owed'[h] = owed[h] /\ conn'[h] = "closed"
             \/ owed'[h] = owed[h] - 1 /\ conn'[h] = "read"
      BY <1>2, <1>15, <2>2 DEF RemoveEnds
    <3>2. Stopping(h)' = 0 /\ Stopping(h) = 1
      BY <2>1, <2>2, <3>1 DEF Stopping
    <3>3. QED
      BY <2>1, <3>1, <3>2, LedgerMove
  <2>3. CASE why[h] # "STOP"
    <3>1. Close(h, why[h])
      BY <1>15, <2>3 DEF RemoveEnds
    <3>2. HandlerAlone(h) /\ owed'[h] = owed[h] /\ conn'[h] = "closed"
      BY <1>1, <3>1
    <3>3. Stopping(h)' = 0
      BY <3>2 DEF Stopping
    <3>4. QED
      BY <1>4, <2>1, <3>2, <3>3
  <2>4. QED
    BY <2>2, <2>3
<1>16. QED
  BY <1>5, <1>6, <1>7, <1>8, <1>9, <1>10, <1>11, <1>12, <1>13, <1>14, <1>15
     DEF ConnStep


\* At the start nothing was sent.
LEMMA LedgerInit == TcpInit => WireTypes /\ AnswersAreOwed
<1> SUFFICES ASSUME TcpInit PROVE WireTypes /\ AnswersAreOwed
  OBVIOUS
<1>1. /\ conn = [h \in Handlers |-> "listen"]
      /\ inbox = [h \in Handlers |-> <<>>]
      /\ silence = [h \in Handlers |-> 0]
      /\ reply = [h \in Handlers |-> ""]
      /\ peer = [h \in Handlers |-> "open"]
      /\ written = [h \in Handlers |-> 0]
      /\ owed = [h \in Handlers |-> 0]
  BY DEF TcpInit
<1>2. InboxOK
  BY <1>1, EmptySeq DEF InboxOK
<1>3. WireTypes
  <2>1. reply \in [Handlers -> Replies]
    BY <1>1 DEF Replies
  <2>2. silence \in [Handlers -> 0 .. MaxSilence]
    BY <1>1, SilenceBound
  <2>3. written \in [Handlers -> 0 .. MaxLines]
    BY <1>1, SilenceBound
  <2>4. peer \in [Handlers -> {"open", "midline", "eof", "reset"}]
    BY <1>1
  <2>5. owed \in [Handlers -> Int]
    <3>1. 0 \in Int
      OBVIOUS
    <3>2. QED
      BY <1>1, <3>1
  <2>6. QED
    BY <1>2, <2>1, <2>2, <2>3, <2>4, <2>5 DEF WireTypes
<1>4. ASSUME NEW h \in Handlers PROVE Ledger(h)
  <2>1. /\ inbox[h] = <<>> /\ owed[h] = 0 /\ written[h] = 0 /\ conn[h] = "listen"
    BY <1>1
  <2>2. Stopping(h) = 0
    BY <2>1 DEF Stopping
  <2>3. Unread(<<>>) = 0 /\ Alternates(<<>>)
    BY UnreadType, EmptySeq DEF Alternates
  <2>4. QED
    BY <2>1, <2>2, <2>3 DEF Ledger
<1>5. AnswersAreOwed
  BY <1>4 DEF AnswersAreOwed, Ledger
<1>6. QED
  BY <1>3, <1>5

\* Every step keeps the account of each connection.
LEMMA LedgerStep ==
    LedgerTypes /\ AnswersAreOwed /\ [TcpNext]_tcpVars => AnswersAreOwed'
<1> SUFFICES ASSUME LedgerTypes, AnswersAreOwed, [TcpNext]_tcpVars
             PROVE  AnswersAreOwed'
  OBVIOUS
<1>1. CASE UNCHANGED <<connVars, peerVars>>
  BY <1>1 DEF AnswersAreOwed, Stopping, connVars, peerVars
<1>2. CASE \E h \in Handlers : PeerStep(h) \/ ConnStep(h)
  BY <1>2, LedgerPeer, LedgerConn
<1>3. QED
  BY <1>1, <1>2 DEF TcpNext, tcpVars

\* In every reachable state the accounts are right.
LEMMA LedgerInvariance ==
    TcpSafety => [](IInv /\ ConnInv /\ LedgerTypes /\ AnswersAreOwed)
<1>1. TcpInit => WireTypes /\ AnswersAreOwed
  BY LedgerInit
<1>2. WireTypes /\ [TcpNext]_tcpVars => WireTypes'
  BY WireTypesStep
<1>3. ConnInv => ConnTypes
  BY DEF ConnInv
<1>4. LedgerTypes <=> ConnTypes /\ WireTypes
  BY DEF LedgerTypes
<1>5. LedgerTypes /\ AnswersAreOwed /\ [TcpNext]_tcpVars => AnswersAreOwed'
  BY LedgerStep
<1>6. QED
  BY <1>1, <1>2, <1>3, <1>4, <1>5, ConnInvariance, PTL DEF TcpSafety

(***************************************************************************)
(* No command is answered twice, and none that was not sent: what a        *)
(* handler has read, has half read and thrown away, or is still removing a *)
(* client for never adds up to more than its peer waits for.               *)
(***************************************************************************)
THEOREM AnswersOwed == TcpSafety => []AnswersAreOwed
BY LedgerInvariance, PTL

(***************************************************************************)
(* The connections keep their types.  That owed is a natural number is no  *)
(* matter of type: it says that no handler answers more than it was sent.  *)
(***************************************************************************)
THEOREM TcpTypes == TcpSafety => []TcpTypeOK
<1>1. LedgerTypes /\ AnswersAreOwed => TcpTypeOK
  <2> SUFFICES ASSUME LedgerTypes, AnswersAreOwed PROVE TcpTypeOK
    OBVIOUS
  <2>1. ASSUME NEW a \in Nat, NEW b \in {0, 1}, NEW m \in Int,
               NEW n \in 0 .. MaxLines, a + b <= m, m <= n
        PROVE  m \in 0 .. MaxLines
    BY <2>1, CommandsAssumption
  <2>2. ASSUME NEW h \in Handlers PROVE owed[h] \in 0 .. MaxLines
    <3>1. written[h] \in 0 .. MaxLines /\ owed[h] \in Int
      BY DEF LedgerTypes, WireTypes
    <3>2. /\ Unread(inbox[h]) \in Nat /\ Stopping(h) \in {0, 1}
          /\ Unread(inbox[h]) + Stopping(h) <= owed[h] /\ owed[h] <= written[h]
      BY LedgerNumbers DEF AnswersAreOwed
    <3>3. QED
      BY <2>1, <3>1, <3>2
  <2>3. owed \in [Handlers -> 0 .. MaxLines]
    BY <2>2 DEF LedgerTypes, WireTypes
  <2>4. QED
    BY <2>3 DEF LedgerTypes, ConnTypes, WireTypes, InboxOK, TcpTypeOK
<1>2. QED
  BY <1>1, LedgerInvariance, PTL

-----------------------------------------------------------------------------
(***************************************************************************)
(* Commands that are never answered.                                       *)
(***************************************************************************)

\* What OnlyHalfLinesLost says of a step at one connection.
KeepsAccount(h) ==
    /\ conn'[h] = "read" \/ Stopping(h)' = 1
    /\ Unanswered(h)' # Unanswered(h)
    => /\ Unanswered(h)' = Unanswered(h) + 1
       /\ peer[h] = "midline"
       /\ Len(inbox[h]) = 1
       /\ inbox'[h] = <<>>

AccountsKept == \A h \in Handlers : KeepsAccount(h)

\* A step at one connection leaves the accounts of the others alone.
LEMMA AccountsElsewhere ==
    ASSUME LedgerTypes, NEW h \in Handlers, KeepsAccount(h), HandlerAlone(h),
           NEW t, inbox' = inbox \/ inbox' = [inbox EXCEPT ![h] = t]
    PROVE  AccountsKept
<1> SUFFICES ASSUME NEW g \in Handlers, g # h PROVE KeepsAccount(g)
  BY DEF AccountsKept
<1>1. inbox'[g] = inbox[g]
  BY DEF LedgerTypes, WireTypes, InboxOK
<1>2. Unanswered(g)' = Unanswered(g)
  BY <1>1 DEF Unanswered, Stopping, HandlerAlone
<1>3. QED
  BY <1>2 DEF KeepsAccount

\* A handler that gives its connection up is not served any longer.
LEMMA AccountClosed ==
    ASSUME LedgerTypes, NEW h \in Handlers, HandlerAlone(h),
           conn'[h] # "read", Stopping(h)' = 0,
           NEW t, inbox' = inbox \/ inbox' = [inbox EXCEPT ![h] = t]
    PROVE  AccountsKept
<1>1. KeepsAccount(h)
  BY DEF KeepsAccount
<1>2. QED
  BY <1>1, AccountsElsewhere

\* A step that does not read: only the STOP in progress may be answered.
LEMMA AccountMove ==
    ASSUME LedgerTypes, NEW h \in Handlers, HandlerAlone(h), UNCHANGED inbox,
           \/ owed'[h] = owed[h] /\ Stopping(h)' = Stopping(h)
           \/ owed'[h] = owed[h] - 1 /\ Stopping(h)' = 0 /\ Stopping(h) = 1
    PROVE  AccountsKept
<1>1. /\ owed[h] \in Int /\ Unread(inbox[h]) \in Nat /\ Stopping(h) \in {0, 1}
  BY LedgerNumbers
<1>2. Unanswered(h)' = owed'[h] - Unread(inbox[h]) - Stopping(h)'
  BY DEF Unanswered
<1>3. PICK b : b = Stopping(h)'
  OBVIOUS
<1>4. owed'[h] - Unread(inbox[h]) - b = owed[h] - Unread(inbox[h]) - Stopping(h)
  BY <1>1, <1>3
<1>5. Unanswered(h)' = Unanswered(h)
  BY <1>2, <1>3, <1>4 DEF Unanswered
<1>6. KeepsAccount(h)
  BY <1>5 DEF KeepsAccount
<1>7. QED
  BY <1>6, AccountsElsewhere

(***************************************************************************)
(* A line is read.  An empty one is passed over; a command is answered, or *)
(* will be when remove_client has returned, unless the handler returns.    *)
(***************************************************************************)
LEMMA AccountRead ==
    ASSUME LedgerTypes, AnswersAreOwed, NEW h \in Handlers, NEW kind,
           ReadLine(h, kind), HandlerAlone(h),
           \/ kind = "NL" /\ owed'[h] = owed[h] /\ conn'[h] = "read"
           \/ kind # "NL" /\ owed'[h] = owed[h] - 1 /\ conn'[h] = "read"
           \/ kind # "NL" /\ owed'[h] = owed[h] /\ Stopping(h)' = 1
           \/ conn'[h] = "closed"
    PROVE  AccountsKept
<1> DEFINE q == inbox[h]
           t == AfterLine(q)
<1>1. /\ q \in Seq(Items) /\ q # <<>> /\ Alternates(q) /\ conn[h] = "read"
      /\ Head(q).cmd = kind /\ inbox' = [inbox EXCEPT ![h] = t]
  BY LedgerNumbers DEF ReadLine, LineReady, AnswersAreOwed
<1>2. /\ t \in Seq(Items)
      /\ Unread(t) = IF Head(q) = NewLine THEN Unread(q) ELSE Unread(q) - 1
  BY <1>1, AfterLineAlternates
<1>3. Head(q) = NewLine <=> kind = "NL"
  <2>1. Head(q) \in Items
    BY <1>1, HeadTailProperties
  <2>2. QED
    BY <1>1, <2>1, NewLineKind DEF NewLine
<1>4. inbox'[h] = t
  BY <1>1 DEF LedgerTypes, WireTypes, InboxOK
<1>5. Stopping(h) = 0 /\ (conn'[h] \in {"read", "closed"} => Stopping(h)' = 0)
  BY <1>1 DEF Stopping
<1>6. Unread(q) \in Nat /\ Unread(t) \in Nat /\ owed[h] \in Int
  BY <1>1, <1>2, UnreadType, LedgerNumbers
<1>7. Unanswered(h)' = owed'[h] - Unread(t) - Stopping(h)'
  BY <1>4 DEF Unanswered
<1>8. Unanswered(h) = owed[h] - Unread(q) - 0
  BY <1>5 DEF Unanswered
<1> HIDE DEF t, q
<1>9. CASE conn'[h] = "closed"
  BY <1>1, <1>5, <1>9, AccountClosed
<1>10. CASE conn'[h] # "closed"
  <2>1. PICK b : b = Stopping(h)'
    OBVIOUS
  <2>2. owed'[h] - Unread(t) - b = owed[h] - Unread(q) - 0
    BY <1>2, <1>3, <1>5, <1>6, <1>10, <2>1
  <2>3. Unanswered(h)' = Unanswered(h)
    BY <1>7, <1>8, <2>1, <2>2
  <2>4. KeepsAccount(h)
    BY <2>3 DEF KeepsAccount
  <2>5. QED
    BY <1>1, <2>4, AccountsElsewhere
<1>11. QED
  BY <1>9, <1>10

(***************************************************************************)
(* The read timeout: what has been read of a line is lost.  If that is a   *)
(* command its newline is still to come.                                   *)
(***************************************************************************)
LEMMA AccountPoll ==
    ASSUME LedgerTypes, AnswersAreOwed, NEW h \in Handlers, Poll(h)
    PROVE  AccountsKept
<1> DEFINE q == inbox[h]
<1>1. /\ conn[h] = "read" /\ ~ LineReady(h) /\ peer[h] \in {"open", "midline"}
      /\ inbox' = [inbox EXCEPT ![h] = <<>>]
      /\ \/ UNCHANGED <<conn, why, owed>>
         \/ Close(h, "expired") \/ CallRemove(h, "expired")
  BY DEF Poll
<1>2. /\ inbox'[h] = <<>> /\ q \in Seq(Items)
      /\ q # <<>> => (q[Len(q)] = NewLine <=> peer[h] = "open")
  BY <1>1, LedgerNumbers DEF LedgerTypes, WireTypes, InboxOK, AnswersAreOwed
<1>3. CASE Close(h, "expired") \/ CallRemove(h, "expired")
  <2>1. HandlerAlone(h) /\ why'[h] = "expired" /\ conn'[h] \in {"closed", "remove"}
    BY <1>3, HandlerReturns
  <2>2. Stopping(h)' = 0
    BY <2>1 DEF Stopping
  <2>3. QED
    BY <1>1, <2>1, <2>2, AccountClosed
<1>4. CASE UNCHANGED <<conn, why, owed>> /\ q = <<>>
  <2>1. UNCHANGED inbox
    BY <1>1, <1>4 DEF LedgerTypes, WireTypes, InboxOK
  <2>2. HandlerAlone(h) /\ Stopping(h)' = Stopping(h) /\ owed'[h] = owed[h]
    BY <1>4 DEF HandlerAlone, Stopping
  <2>3. QED
    BY <2>1, <2>2, AccountMove
<1>5. CASE UNCHANGED <<conn, why, owed>> /\ q # <<>>
  <2>1. Len(q) = 1 /\ Head(q) # NewLine /\ Head(q) = q[1]
    <3>1. ~ (Len(q) > 1) /\ Head(q) # NewLine
      BY <1>1, <1>5 DEF LineReady
    <3>2. \A n \in Nat \ {0} : ~ (n > 1) => n = 1
      OBVIOUS
    <3>3. Len(q) \in Nat \ {0}
      <4> HIDE DEF q
      <4> QED
        BY <1>2, <1>5, EmptySeq
    <3>4. Len(q) = 1
      BY <3>1, <3>2, <3>3
    <3>5. QED
      BY <1>2, <1>5, <3>1, <3>4
  <2>2. peer[h] = "midline"
    BY <1>1, <1>2, <1>5, <2>1
  <2>3. Unread(q) = 1 /\ Unread(<<>>) = 0
    <3>1. (1 + 1) \div 2 = 1
      OBVIOUS
    <3>2. QED
      BY <1>5, <2>1, <3>1, UnreadType DEF Unread
  <2>4. Stopping(h)' = 0 /\ Stopping(h) = 0 /\ owed'[h] = owed[h] /\ owed[h] \in Int
    BY <1>1, <1>5, LedgerNumbers DEF Stopping
  <2>5. Unanswered(h) = owed[h] - 1 - 0
    BY <2>3, <2>4 DEF Unanswered
  <2>6. Unanswered(h)' = owed[h] - 0 - 0
    BY <1>2, <2>3, <2>4 DEF Unanswered
  <2>7. Unanswered(h)' = Unanswered(h) + 1
    <3>1. owed[h] - 0 - 0 = owed[h] - 1 - 0 + 1
      BY <2>4
    <3>2. QED
      BY <2>5, <2>6, <3>1
  <2>8. KeepsAccount(h)
    BY <1>2, <2>1, <2>2, <2>7 DEF KeepsAccount
  <2>9. HandlerAlone(h)
    BY <1>5 DEF HandlerAlone
  <2>10. QED
    BY <1>1, <2>8, <2>9, AccountsElsewhere
<1>6. QED
  BY <1>1, <1>3, <1>4, <1>5

\* Every step of a handler keeps the accounts.
LEMMA AccountConn ==
    ASSUME LedgerTypes, AnswersAreOwed, NEW h \in Handlers, ConnStep(h)
    PROVE  AccountsKept
<1>1. ASSUME NEW kind, ReadLine(h, kind), kind # "NL", NEW r,
             Respond(h, r) \/ Close(h, r) \/ CallRemove(h, "STOP")
      PROVE  AccountsKept
  <2>1. CASE Respond(h, r)
    <3>1. /\ HandlerAlone(h)
          /\ \/ owed'[h] = owed[h] /\ conn'[h] = "closed"
             \/ owed'[h] = owed[h] - 1 /\ conn'[h] = "read"
      BY <2>1, HandlerReplies
    <3>2. QED
      BY <1>1, <3>1, AccountRead
  <2>2. CASE Close(h, r)
    BY <1>1, <2>2, HandlerReturns, AccountRead
  <2>3. CASE CallRemove(h, "STOP")
    <3>1. HandlerAlone(h) /\ owed'[h] = owed[h] /\ why'[h] = "STOP"
      BY <2>3, HandlerReturns
    <3>2. conn'[h] = "remove"
      BY <2>3 DEF CallRemove, LedgerTypes, ConnTypes
    <3>3. Stopping(h)' = 1
      BY <3>1, <3>2 DEF Stopping
    <3>4. QED
      BY <1>1, <3>1, <3>3, AccountRead
  <2>4. QED
    BY <1>1, <2>1, <2>2, <2>3
<1>2. CASE EmptyLine(h)
  <2>1. ReadLine(h, "NL") /\ UNCHANGED <<conn, why, owed>> /\ conn[h] = "read"
    BY <1>2 DEF EmptyLine, ReadLine
  <2>2. HandlerAlone(h) /\ owed'[h] = owed[h] /\ conn'[h] = "read"
    BY <2>1 DEF HandlerAlone
  <2>3. QED
    BY <2>1, <2>2, AccountRead
<1>3. CASE Ping(h) \/ Invalid(h) \/ Stream(h) \/ Stop(h) \/ StreamFails(h) \/ StreamPanics(h)
  <2>1. PICK kind \in CommandKinds, r \in Replies \cup Reasons :
            /\ ReadLine(h, kind)
            /\ Respond(h, r) \/ Close(h, r) \/ CallRemove(h, "STOP")
    <3>1. CASE Ping(h) \/ Invalid(h) \/ Stream(h)
      BY <3>1 DEF Ping, Invalid, Stream, CommandKinds, Replies
    <3>2. CASE Stop(h)
      BY <3>2 DEF Stop, CommandKinds, Replies, Reasons
    <3>3. CASE StreamFails(h) \/ StreamPanics(h)
      BY <3>3 DEF StreamFails, StreamPanics, CommandKinds, Reasons
    <3>4. QED
      BY <1>3, <3>1, <3>2, <3>3
  <2>2. kind # "NL"
    BY DEF CommandKinds
  <2>3. QED
    BY <1>1, <2>1, <2>2
<1>4. CASE Poll(h)
  BY <1>4, AccountPoll
<1>5. CASE EndOfFile(h) \/ ReadError(h)
  <2>1. PICK r \in {"closed by peer", "connection error"} :
            Close(h, r) \/ CallRemove(h, r)
    BY <1>5 DEF EndOfFile, ReadError
  <2>2. HandlerAlone(h) /\ why'[h] = r /\ conn'[h] \in {"closed", "remove"}
    BY <2>1, HandlerReturns
  <2>3. Stopping(h)' = 0
    BY <2>2 DEF Stopping
  <2>4. inbox' = inbox \/ inbox' = [inbox EXCEPT ![h] = <<>>]
    BY <1>5 DEF EndOfFile, ReadError
  <2>5. QED
    BY <2>2, <2>3, <2>4, AccountClosed
<1>6. CASE RemoveBegins(h)
  <2>1. /\ conn[h] = "remove" /\ conn' = [conn EXCEPT ![h] = "join"]
        /\ UNCHANGED <<inbox, why, owed>>
    BY <1>6 DEF RemoveBegins
  <2>2. HandlerAlone(h) /\ conn'[h] = "join"
    BY <2>1 DEF HandlerAlone, LedgerTypes, ConnTypes
  <2>3. Stopping(h)' = Stopping(h) /\ owed'[h] = owed[h]
    BY <2>1, <2>2 DEF Stopping
  <2>4. QED
    BY <2>1, <2>2, <2>3, AccountMove
<1>7. CASE RemoveFails(h)
  <2>1. Close(h, "poisoned") /\ UNCHANGED inbox
    BY <1>7 DEF RemoveFails
  <2>2. HandlerAlone(h) /\ conn'[h] = "closed"
    BY <2>1, HandlerReturns
  <2>3. Stopping(h)' = 0
    BY <2>2 DEF Stopping
  <2>4. QED
    BY <2>1, <2>2, <2>3, AccountClosed
<1>8. CASE RemoveEnds(h)
  <2>1. conn[h] = "join" /\ UNCHANGED inbox
    BY <1>8 DEF RemoveEnds
  <2>2. CASE why[h] = "STOP"
    <3>1. /\ HandlerAlone(h)
          /\ \/ owed'[h] = owed[h] /\ conn'[h] = "closed"
             \/ owed'[h] = owed[h] - 1 /\ conn'[h] = "read"
      BY <1>8, <2>2, HandlerReplies DEF RemoveEnds
    <3>2. Stopping(h)' = 0 /\ Stopping(h) = 1
      BY <2>1, <2>2, <3>1 DEF Stopping
    <3>3. QED
      BY <2>1, <3>1, <3>2, AccountMove, AccountClosed
  <2>3. CASE why[h] # "STOP"
    <3>1. Close(h, why[h])
      BY <1>8, <2>3 DEF RemoveEnds
    <3>2. HandlerAlone(h) /\ conn'[h] = "closed"
      BY <3>1, HandlerReturns
    <3>3. Stopping(h)' = 0
      BY <3>2 DEF Stopping
    <3>4. QED
      BY <2>1, <3>2, <3>3, AccountClosed
  <2>4. QED
    BY <2>2, <2>3
<1>9. QED
  BY <1>2, <1>3, <1>4, <1>5, <1>6, <1>7, <1>8 DEF ConnStep

\* What a peer writes is owed an answer; its leaving answers nothing.
LEMMA AccountPeer ==
    ASSUME LedgerTypes, AnswersAreOwed, NEW h \in Handlers, PeerStep(h)
    PROVE  AccountsKept
<1> DEFINE q == inbox[h]
<1>0. /\ q \in Seq(Items) /\ Alternates(q) /\ Unread(q) \in Nat
      /\ Stopping(h) \in {0, 1} /\ owed[h] \in Int /\ NewLine \in Items
      /\ q # <<>> /\ peer[h] \in {"open", "midline"} =>
            (q[Len(q)] = NewLine <=> peer[h] = "open")
  BY LedgerNumbers DEF AnswersAreOwed, Items
<1>1. ASSUME NEW t \in Seq(Items), NEW d \in {0, 1}, Unread(t) = Unread(q) + d,
             inbox' = [inbox EXCEPT ![h] = t], owed' = [owed EXCEPT ![h] = @ + d],
             UNCHANGED <<conn, why>>
      PROVE  AccountsKept
  <2>1. inbox'[h] = t /\ owed'[h] = owed[h] + d /\ HandlerAlone(h)
    BY <1>1 DEF LedgerTypes, WireTypes, InboxOK, HandlerAlone
  <2>2. Stopping(h)' = Stopping(h)
    BY <1>1 DEF Stopping
  <2>3. Unanswered(h)' = (owed[h] + d) - Unread(t) - Stopping(h)
    BY <2>1, <2>2 DEF Unanswered
  <2>4. Unanswered(h) = owed[h] - Unread(q) - Stopping(h)
    BY DEF Unanswered
  <2> HIDE DEF q
  <2>5. (owed[h] + d) - Unread(t) - Stopping(h) = owed[h] - Unread(q) - Stopping(h)
    BY <1>0, <1>1
  <2>6. KeepsAccount(h)
    BY <2>3, <2>4, <2>5 DEF KeepsAccount
  <2>7. QED
    BY <1>1, <2>1, <2>6, AccountsElsewhere
<1>2. ASSUME NEW l \in Lines, NEW split, PeerWrites(h, l, split) PROVE AccountsKept
  <2> DEFINE t == Append(q, l)
             u == q \o <<l, NewLine>>
  <2>1. /\ l \in Items /\ l # NewLine
        /\ q # <<>> => q[Len(q)] = NewLine
        /\ owed' = [owed EXCEPT ![h] = @ + 1] /\ UNCHANGED <<conn, why>>
    BY <1>0, <1>2, LineOrNewLine DEF PeerWrites, Items
  <2>2. t \in Seq(Items) /\ Unread(t) = Unread(q) + 1
    BY <1>0, <2>1, AppendAlternates
  <2>3. u \in Seq(Items) /\ Unread(u) = Unread(q) + 1
    BY <1>0, <2>1, AppendLine
  <2>4. inbox' = [inbox EXCEPT ![h] = t] \/ inbox' = [inbox EXCEPT ![h] = u]
    BY <1>2 DEF PeerWrites
  <2> HIDE DEF t, u, q
  <2>5. QED
    BY <1>1, <2>1, <2>2, <2>3, <2>4
<1>3. CASE PeerEndsLine(h)
  <2> DEFINE t == Append(q, NewLine)
  <2>1. /\ peer[h] = "midline" /\ inbox' = [inbox EXCEPT ![h] = t]
        /\ UNCHANGED <<conn, why>>
        /\ owed' = [owed EXCEPT ![h] = @ + 0]
    BY <1>3, <1>0 DEF PeerEndsLine, LedgerTypes, WireTypes
  <2>2. q # <<>> => q[Len(q)] # NewLine
    BY <1>0, <2>1
  <2>3. t \in Seq(Items) /\ Unread(t) = Unread(q)
    BY <1>0, <2>2, AppendAlternates
  <2> HIDE DEF t, q
  <2>4. Unread(t) = Unread(q) + 0
    BY <1>0, <2>3
  <2>5. QED
    BY <1>1, <2>1, <2>3, <2>4
<1>4. CASE PeerLeaves(h) \/ (Accept(h) /\ conn[h] = "listen")
  <2>1. UNCHANGED <<inbox, why, owed>>
    BY <1>4 DEF PeerLeaves, Accept, connVars
  <2>2. conn' = conn \/ (conn[h] = "listen" /\ \E s \in {"read", "closed"} : conn' = [conn EXCEPT ![h] = s])
    BY <1>4 DEF PeerLeaves, Accept, connVars
  <2>3. HandlerAlone(h) /\ owed'[h] = owed[h]
    BY <2>1, <2>2 DEF HandlerAlone, LedgerTypes, ConnTypes
  <2>4. Stopping(h)' = Stopping(h)
    BY <2>1, <2>2 DEF Stopping, LedgerTypes, ConnTypes
  <2>5. QED
    BY <2>1, <2>3, <2>4, AccountMove
<1>5. QED
  BY <1>2, <1>3, <1>4 DEF PeerStep, Accept

(***************************************************************************)
(* While a connection is served, one thing only takes a command from its   *)
(* peer: a read timeout between the command and its newline.  This holds   *)
(* for every mix of whole and split lines and any number of connections.   *)
(***************************************************************************)
THEOREM HalfLinesLost == TcpSafety => OnlyHalfLinesLost
<1>1. LedgerTypes /\ AnswersAreOwed /\ [TcpNext]_tcpVars => [AccountsKept]_tcpVars
  <2> SUFFICES ASSUME LedgerTypes, AnswersAreOwed, TcpNext PROVE AccountsKept
    OBVIOUS
  <2>1. CASE UNCHANGED <<connVars, peerVars>>
    <3>1. ASSUME NEW h \in Handlers PROVE Unanswered(h)' = Unanswered(h)
      BY <2>1 DEF Unanswered, Stopping, connVars
    <3>2. QED
      BY <3>1 DEF AccountsKept, KeepsAccount
  <2>2. CASE \E h \in Handlers : PeerStep(h) \/ ConnStep(h)
    BY <2>2, AccountPeer, AccountConn
  <2>3. QED
    BY <2>1, <2>2 DEF TcpNext
<1>2. AccountsKept <=> \A h \in Handlers :
        /\ conn'[h] = "read" \/ Stopping(h)' = 1
        /\ Unanswered(h)' # Unanswered(h)
        => /\ Unanswered(h)' = Unanswered(h) + 1
           /\ peer[h] = "midline"
           /\ Len(inbox[h]) = 1
           /\ inbox'[h] = <<>>
  BY DEF AccountsKept, KeepsAccount
<1>3. QED
  BY <1>1, <1>2, LedgerInvariance, PTL DEF TcpSafety, OnlyHalfLinesLost
=============================================================================
