-------------------------- MODULE QuoteServerProofs --------------------------
(***************************************************************************)
(* Proofs about QuoteServer, for every set of tickers, subscriptions,      *)
(* values and handlers and for every bound on clients, backlog and         *)
(* attempts.                                                               *)
(***************************************************************************)
EXTENDS QuoteServer, TLAPS, SequenceTheorems

(***************************************************************************)
(* The next id is an element of Ids as long as add_client may succeed.     *)
(***************************************************************************)
LEMMA NextId ==
    ASSUME TypeOK, clients_count < MaxClients
    PROVE  clients_count \in Ids /\ clients_count + 1 \in 0 .. MaxClients
BY BoundsAssumption DEF TypeOK, Ids

\* Looking a word up gives a quote of the map or NoQuote.
LEMMA LookupType ==
    ASSUME TypeOK, NEW n
    PROVE  Lookup(n) \in Values \cup {NoQuote}
BY DEF TypeOK, Lookup

\* Client::send appends a command or leaves the channel alone.
LEMMA SendType ==
    ASSUME TypeOK, NEW c \in Ids, NEW cmd \in Command
    PROVE  Send(c, cmd) \in Seq(Command)
BY AppendProperties DEF TypeOK, Send

(***************************************************************************)
(* The type invariant: every variable keeps its type in every step of the  *)
(* background thread, of a client thread and of a handler.                 *)
(***************************************************************************)
LEMMA TypeOKInductive == TypeOK /\ [Next]_vars => TypeOK'
<1> SUFFICES ASSUME TypeOK, [Next]_vars PROVE TypeOK'
  OBVIOUS
<1> USE BoundsAssumption, NamesAssumption DEF TypeOK
<1>1. CASE BackgroundStep
  <2>1. CASE Tick
    BY <2>1 DEF Tick, registryVars, threadVars
  <2>2. CASE TryWrite
    BY <2>2 DEF TryWrite, registryVars, threadVars
  <2>3. CASE WriteBusy
    BY <2>3 DEF WriteBusy, registryVars, threadVars
  <2>4. CASE UpdateTimeout
    BY <2>4 DEF UpdateTimeout, registryVars, threadVars
  <2>5. ASSUME NEW t \in Tickers, UpdateQuote(t) PROVE TypeOK'
    BY <2>5 DEF UpdateQuote, registryVars, threadVars
  <2>6. ASSUME NEW t \in Tickers, UpdateFails(t) PROVE TypeOK'
    BY <2>6 DEF UpdateFails, registryVars, threadVars
  <2>7. CASE WriteUnlock
    BY <2>7 DEF WriteUnlock, registryVars, threadVars
  <2>8. CASE Notify
    <3>1. queue' \in [Ids -> Seq(Command)]
      BY <2>8, SendType DEF Notify, Command
    <3>2. QED
      BY <2>8, <3>1 DEF Notify, registryVars
  <2>9. QED
    BY <1>1, <2>1, <2>2, <2>3, <2>4, <2>5, <2>6, <2>7, <2>8 DEF BackgroundStep
<1>2. ASSUME NEW c \in Ids, ClientStep(c) PROVE TypeOK'
  <2>1. CASE RecvUpdate(c)
    BY <2>1, HeadTailProperties DEF RecvUpdate, bgVars, registryVars
  <2>2. CASE ReadLock(c)
    BY <2>2 DEF ReadLock, bgVars, registryVars
  <2>3. CASE Callback(c)
    <3>1. Append(sent[c], Lookup(tickers[c][Len(sent[c]) + 1]))
            \in Seq(Values \cup {NoQuote})
      BY LookupType, AppendProperties
    <3>2. QED
      BY <2>3, <3>1 DEF Callback, bgVars, registryVars
  <2>4. CASE ReadUnlock(c)
    BY <2>4 DEF ReadUnlock, bgVars, registryVars
  <2>5. CASE RecvShutdown(c)
    BY <2>5, HeadTailProperties DEF RecvShutdown, bgVars, registryVars
  <2>6. QED
    BY <1>2, <2>1, <2>2, <2>3, <2>4, <2>5 DEF ClientStep
<1>3. ASSUME NEW h \in Handlers, HandlerCall(h) PROVE TypeOK'
  <2>1. ASSUME NEW tl \in Subscriptions, AddClient(tl) PROVE TypeOK'
    BY <2>1, NextId DEF AddClient, bgVars
  <2>2. CASE AddClientPanics
    BY <2>2 DEF AddClientPanics, bgVars, threadVars
  <2>3. ASSUME NEW id \in Ids, RemoveClient(h, id) PROVE TypeOK'
    BY <2>3, SendType DEF RemoveClient, bgVars, Command
  <2>4. CASE RemoveClientJoined(h)
    BY <2>4 DEF RemoveClientJoined, bgVars, threadVars
  <2>5. QED
    BY <1>3, <2>1, <2>2, <2>3, <2>4 DEF HandlerCall
<1>4. CASE UNCHANGED vars
  BY <1>4 DEF vars, bgVars, registryVars, threadVars
<1>5. QED
  BY <1>1, <1>2, <1>3, <1>4 DEF Next

\* The initial state has the right types.
LEMMA TypeOKInit == Init => TypeOK
<1> SUFFICES ASSUME Init PROVE TypeOK
  OBVIOUS
<1>1. clients_count \in 0 .. MaxClients /\ attempts \in 0 .. MaxAttempts
  BY BoundsAssumption DEF Init
<1>2. thread \in [Ids -> {"none", "recv", "lock", "read", "done"}]
  BY DEF Init
<1>3. /\ tickers \in [Ids -> Seq(Names)]
      /\ queue \in [Ids -> Seq(Command)]
      /\ sent \in [Ids -> Seq(Values \cup {NoQuote})]
  BY EmptySeq DEF Init
<1>4. QED
  BY <1>1, <1>2, <1>3 DEF Init, TypeOK

(***************************************************************************)
(* The type invariant holds in every reachable state.                      *)
(***************************************************************************)
THEOREM TypeCorrect == Safety => []TypeOK
BY TypeOKInit, TypeOKInductive, PTL DEF Safety

-----------------------------------------------------------------------------
(***************************************************************************)
(* The inductive invariant.  One lemma for each of its parts: the part     *)
(* holds after every step that starts where all of IInv holds.             *)
(***************************************************************************)

\* The mutex is held exactly while a client is being removed, and a writer
\* keeps readers out, whichever thread steps.
LEMMA LockDisciplineStep == IInv /\ [Next]_vars => LockDiscipline'
<1> SUFFICES ASSUME IInv, [Next]_vars PROVE LockDiscipline'
  OBVIOUS
<1> USE DEF IInv, TypeOK, LockDiscipline, Readers
<1>1. CASE BackgroundStep
  BY <1>1 DEF BackgroundStep, Tick, TryWrite, WriteBusy, UpdateTimeout,
     UpdateQuote, UpdateFails, WriteUnlock, Notify, registryVars, threadVars
<1>2. ASSUME NEW c \in Ids, ClientStep(c) PROVE LockDiscipline'
  BY <1>2 DEF ClientStep, RecvUpdate, ReadLock, Callback, ReadUnlock,
     RecvShutdown, bgVars, registryVars
<1>3. ASSUME NEW h \in Handlers, HandlerCall(h) PROVE LockDiscipline'
  <2>1. ASSUME NEW tl \in Subscriptions, AddClient(tl) PROVE LockDiscipline'
    BY <2>1, NextId DEF AddClient, LockClients, bgVars, NoId, Ids
  <2>2. CASE AddClientPanics
    BY <2>2 DEF AddClientPanics, bgVars, threadVars
  <2>3. ASSUME NEW id \in Ids, RemoveClient(h, id) PROVE LockDiscipline'
    BY <2>3, HandlersAssumption DEF RemoveClient, bgVars, Ids, NoId
  <2>4. CASE RemoveClientJoined(h)
    BY <2>4 DEF RemoveClientJoined, bgVars, threadVars, Ids, NoId
  <2>5. QED
    BY <1>3, <2>1, <2>2, <2>3, <2>4 DEF HandlerCall
<1>4. CASE UNCHANGED vars
  BY <1>4 DEF vars, bgVars, registryVars, threadVars
<1>5. QED
  BY <1>1, <1>2, <1>3, <1>4 DEF Next

\* Ids that add_client has not given out have no thread and no entry.
LEMMA IdsInOrderStep == IInv /\ [Next]_vars => IdsInOrder'
<1> SUFFICES ASSUME IInv, [Next]_vars PROVE IdsInOrder'
  OBVIOUS
<1> USE DEF IInv, TypeOK, IdsInOrder
<1>1. CASE BackgroundStep
  BY <1>1 DEF BackgroundStep, Tick, TryWrite, WriteBusy, UpdateTimeout,
     UpdateQuote, UpdateFails, WriteUnlock, Notify, registryVars, threadVars
<1>2. ASSUME NEW c \in Ids, ClientStep(c) PROVE IdsInOrder'
  BY <1>2 DEF ClientStep, RecvUpdate, ReadLock, Callback, ReadUnlock,
     RecvShutdown, registryVars
<1>3. ASSUME NEW h \in Handlers, HandlerCall(h) PROVE IdsInOrder'
  <2>1. ASSUME NEW tl \in Subscriptions, AddClient(tl) PROVE IdsInOrder'
    BY <2>1, NextId DEF AddClient, Ids
  <2>2. CASE AddClientPanics
    BY <2>2 DEF AddClientPanics, threadVars
  <2>3. ASSUME NEW id \in Ids, RemoveClient(h, id) PROVE IdsInOrder'
    BY <2>3 DEF RemoveClient
  <2>4. CASE RemoveClientJoined(h)
    BY <2>4 DEF RemoveClientJoined, threadVars, Ids, NoId
  <2>5. QED
    BY <1>3, <2>1, <2>2, <2>3, <2>4 DEF HandlerCall
<1>4. CASE UNCHANGED vars
  BY <1>4 DEF vars, registryVars, threadVars
<1>5. QED
  BY <1>1, <1>2, <1>3, <1>4 DEF Next

\* A pass never runs past the end of the ticker list.
LEMMA PassInBoundsStep == IInv /\ [Next]_vars => PassInBounds'
<1> SUFFICES ASSUME IInv, [Next]_vars PROVE PassInBounds'
  OBVIOUS
<1> USE DEF IInv, TypeOK, PassInBounds
<1>1. CASE BackgroundStep
  BY <1>1 DEF BackgroundStep, Tick, TryWrite, WriteBusy, UpdateTimeout,
     UpdateQuote, UpdateFails, WriteUnlock, Notify, registryVars, threadVars
<1>2. ASSUME NEW c \in Ids, ClientStep(c) PROVE PassInBounds'
  <2>1. CASE ReadLock(c)
    <3>1. Len(<<>>) <= Len(tickers[c])
      BY EmptySeq, LenProperties
    <3>2. QED
      BY <2>1, <3>1 DEF ReadLock
  <2>2. CASE Callback(c)
    <3> DEFINE v == Lookup(tickers[c][Len(sent[c]) + 1])
    <3>1. Len(Append(sent[c], v)) = Len(sent[c]) + 1
      BY LookupType, AppendProperties
    <3>2. Len(Append(sent[c], v)) <= Len(tickers[c])
      BY <2>2, <3>1, LenProperties DEF Callback
    <3>3. QED
      BY <2>2, <3>2 DEF Callback
  <2>3. CASE RecvUpdate(c) \/ ReadUnlock(c) \/ RecvShutdown(c)
    BY <2>3 DEF RecvUpdate, ReadUnlock, RecvShutdown
  <2>4. QED
    BY <1>2, <2>1, <2>2, <2>3 DEF ClientStep
<1>3. ASSUME NEW h \in Handlers, HandlerCall(h) PROVE PassInBounds'
  <2>1. ASSUME NEW tl \in Subscriptions, AddClient(tl) PROVE PassInBounds'
    BY <2>1, NextId DEF AddClient
  <2>2. UNCHANGED <<thread, tickers, sent>> => PassInBounds'
    OBVIOUS
  <2>3. QED
    BY <1>3, <2>1, <2>2 DEF HandlerCall, AddClientPanics, RemoveClient,
       RemoveClientJoined, threadVars
<1>4. CASE UNCHANGED vars
  BY <1>4 DEF vars, threadVars
<1>5. QED
  BY <1>1, <1>2, <1>3, <1>4 DEF Next

(***************************************************************************)
(* The quotes change only with no reader inside, and a callback adds to    *)
(* the pass what the map holds.                                            *)
(***************************************************************************)
LEMMA PassIsSnapshotStep == IInv /\ [Next]_vars => PassIsSnapshot'
<1> SUFFICES ASSUME IInv, [Next]_vars PROVE PassIsSnapshot'
  OBVIOUS
<1> USE DEF IInv, TypeOK, PassIsSnapshot
<1>1. CASE BackgroundStep
  <2>1. ASSUME bg = "write", UNCHANGED threadVars PROVE PassIsSnapshot'
    BY <2>1 DEF LockDiscipline, Readers, threadVars
  <2>2. ASSUME UNCHANGED <<quotes, thread, tickers, sent>>
        PROVE  PassIsSnapshot'
    BY <2>2 DEF Lookup
  <2>3. QED
    BY <1>1, <2>1, <2>2 DEF BackgroundStep, Tick, TryWrite, WriteBusy,
       UpdateTimeout, UpdateQuote, UpdateFails, WriteUnlock, Notify, threadVars
<1>2. ASSUME NEW c \in Ids, ClientStep(c) PROVE PassIsSnapshot'
  <2>1. CASE ReadLock(c)
    BY <2>1 DEF ReadLock, Lookup
  <2>2. CASE Callback(c)
    <3> DEFINE n == Len(sent[c])
               v == Lookup(tickers[c][n + 1])
    <3>1. /\ Len(Append(sent[c], v)) = n + 1
          /\ \A i \in 1 .. n : Append(sent[c], v)[i] = sent[c][i]
          /\ Append(sent[c], v)[n + 1] = v
          /\ n \in Nat
      BY LookupType, AppendProperties, LenProperties
    <3>2. \A i \in 1 .. (n + 1) : Append(sent[c], v)[i] = Lookup(tickers[c][i])
      BY <2>2, <3>1 DEF Callback
    <3>3. QED
      BY <2>2, <3>1, <3>2 DEF Callback, Lookup
  <2>3. CASE RecvUpdate(c) \/ ReadUnlock(c) \/ RecvShutdown(c)
    BY <2>3 DEF RecvUpdate, ReadUnlock, RecvShutdown, Lookup
  <2>4. QED
    BY <1>2, <2>1, <2>2, <2>3 DEF ClientStep
<1>3. ASSUME NEW h \in Handlers, HandlerCall(h) PROVE PassIsSnapshot'
  <2>1. ASSUME NEW tl \in Subscriptions, AddClient(tl) PROVE PassIsSnapshot'
    BY <2>1, NextId DEF AddClient, Lookup
  <2>2. UNCHANGED <<quotes, thread, tickers, sent>> => PassIsSnapshot'
    BY DEF Lookup
  <2>3. QED
    BY <1>3, <2>1, <2>2 DEF HandlerCall, AddClientPanics, RemoveClient,
       RemoveClientJoined, threadVars
<1>4. CASE UNCHANGED vars
  BY <1>4 DEF vars, threadVars, Lookup
<1>5. QED
  BY <1>1, <1>2, <1>3, <1>4 DEF Next

-----------------------------------------------------------------------------
(***************************************************************************)
(* What the channel operations do to a channel of Updates, and to one that *)
(* ends with its only Shutdown.                                            *)
(***************************************************************************)

\* One more Update leaves a channel of Updates.
LEMMA AppendUpdate ==
    ASSUME NEW q \in Seq(Command), AllUpdates(q)
    PROVE  AllUpdates(Append(q, "Update"))
<1>1. /\ Len(Append(q, "Update")) = Len(q) + 1
      /\ \A i \in 1 .. Len(q) : Append(q, "Update")[i] = q[i]
      /\ Append(q, "Update")[Len(q) + 1] = "Update"
      /\ Len(q) \in Nat
  BY AppendProperties, LenProperties DEF Command
<1>2. QED
  BY <1>1 DEF AllUpdates

\* A Shutdown behind Updates is the only one, and the last command.
LEMMA AppendShutdown ==
    ASSUME NEW q \in Seq(Command), AllUpdates(q)
    PROVE  EndsWithShutdown(Append(q, "Shutdown"))
<1> DEFINE r == Append(q, "Shutdown")
<1>1. /\ r # <<>>
      /\ Len(r) = Len(q) + 1
      /\ \A i \in 1 .. Len(q) : r[i] = q[i]
      /\ r[Len(q) + 1] = "Shutdown"
      /\ Len(q) \in Nat
  BY AppendProperties, LenProperties DEF Command
<1> HIDE DEF r
<1>2. EndsWithShutdown(r)
  BY <1>1 DEF AllUpdates, EndsWithShutdown
<1>3. QED
  BY <1>2 DEF r

\* Taking an Update off the channel keeps the Shutdown at its end.
LEMMA TailKeepsShutdown ==
    ASSUME NEW q \in Seq(Command), EndsWithShutdown(q), Head(q) = "Update"
    PROVE  EndsWithShutdown(Tail(q))
<1> DEFINE r == Tail(q)
<1>1. /\ Len(q) \in Nat \ {0}
      /\ r \in Seq(Command)
      /\ Len(r) = Len(q) - 1
      /\ \A i \in 1 .. Len(r) : r[i] = q[i + 1]
  BY HeadTailProperties, EmptySeq DEF EndsWithShutdown
<1>2. q[1] = "Update"
  OBVIOUS
<1> HIDE DEF r
<1>3. Len(q) # 1
  BY <1>1, <1>2 DEF EndsWithShutdown
<1>4. r # <<>>
  BY <1>1, <1>3, EmptySeq
<1>5. EndsWithShutdown(r)
  BY <1>1, <1>4 DEF EndsWithShutdown
<1>6. QED
  BY <1>5 DEF r

(***************************************************************************)
(* A client in the map is running and has only Updates in its channel: the *)
(* one Shutdown it is ever sent comes with its removal from the map.       *)
(***************************************************************************)
LEMMA RegisteredAliveStep == IInv /\ [Next]_vars => RegisteredAlive'
<1> SUFFICES ASSUME IInv, [Next]_vars PROVE RegisteredAlive'
  OBVIOUS
<1> USE DEF IInv, TypeOK, RegisteredAlive, Live
<1>0. UNCHANGED <<clients, thread, queue>> => RegisteredAlive'
  OBVIOUS
<1>1. CASE BackgroundStep
  <2>1. CASE Notify
    <3>1. ASSUME NEW c \in clients PROVE AllUpdates(queue'[c])
      <4>1. queue'[c] = Append(queue[c], "Update") \/ queue'[c] = queue[c]
        BY <2>1, <3>1 DEF Notify, Send
      <4>2. queue[c] \in Seq(Command) /\ AllUpdates(queue[c])
        BY <3>1
      <4>3. QED
        BY <4>1, <4>2, AppendUpdate
    <3>2. QED
      BY <2>1, <3>1 DEF Notify, registryVars
  <2>2. QED
    BY <1>0, <1>1, <2>1 DEF BackgroundStep, Tick, TryWrite, WriteBusy,
       UpdateTimeout, UpdateQuote, UpdateFails, WriteUnlock, registryVars,
       threadVars
<1>2. ASSUME NEW c \in Ids, ClientStep(c) PROVE RegisteredAlive'
  <2>1. CASE RecvUpdate(c)
    <3>1. \A i \in 1 .. Len(Tail(queue[c])) :
            i + 1 \in 1 .. Len(queue[c]) /\ Tail(queue[c])[i] = queue[c][i + 1]
      BY <2>1, HeadTailProperties, LenProperties DEF RecvUpdate
    <3>2. c \in clients => AllUpdates(Tail(queue[c]))
      BY <3>1 DEF AllUpdates
    <3>3. QED
      BY <2>1, <3>2 DEF RecvUpdate, registryVars
  <2>2. CASE RecvShutdown(c)
    <3>1. Head(queue[c]) = queue[c][1] /\ 1 \in 1 .. Len(queue[c])
      BY <2>2, EmptySeq, LenProperties DEF RecvShutdown
    <3>2. c \notin clients
      BY <2>2, <3>1 DEF RecvShutdown, AllUpdates
    <3>3. QED
      BY <2>2, <3>2 DEF RecvShutdown, registryVars
  <2>3. CASE ReadLock(c) \/ Callback(c) \/ ReadUnlock(c)
    <3>1. UNCHANGED <<clients, queue>>
      BY <2>3 DEF ReadLock, Callback, ReadUnlock, registryVars
    <3>2. \A d \in clients : Live(d)'
      BY <2>3 DEF ReadLock, Callback, ReadUnlock
    <3>3. QED
      BY <3>1, <3>2
  <2>4. QED
    BY <1>2, <2>1, <2>2, <2>3 DEF ClientStep
<1>3. ASSUME NEW h \in Handlers, HandlerCall(h) PROVE RegisteredAlive'
  <2>1. ASSUME NEW tl \in Subscriptions, AddClient(tl) PROVE RegisteredAlive'
    BY <2>1, NextId DEF AddClient, AllUpdates
  <2>2. ASSUME NEW id \in Ids, RemoveClient(h, id) PROVE RegisteredAlive'
    BY <2>2 DEF RemoveClient
  <2>3. QED
    BY <1>0, <1>3, <2>1, <2>2 DEF HandlerCall, AddClientPanics,
       RemoveClientJoined, threadVars
<1>4. QED
  BY <1>0, <1>1, <1>2, <1>3 DEF Next, vars, registryVars, threadVars

\* A thread leaves the map into the hands of the remove_client that joins it.
LEMMA NoThreadLeakStep == IInv /\ [Next]_vars => NoThreadLeak'
<1> SUFFICES ASSUME IInv, [Next]_vars PROVE NoThreadLeak'
  OBVIOUS
<1> USE DEF IInv, TypeOK, NoThreadLeak, Live
<1>0. UNCHANGED <<clients, holder, removing, thread>> => NoThreadLeak'
  OBVIOUS
<1>1. CASE BackgroundStep
  BY <1>0, <1>1 DEF BackgroundStep, Tick, TryWrite, WriteBusy, UpdateTimeout,
     UpdateQuote, UpdateFails, WriteUnlock, Notify, registryVars, threadVars
<1>2. ASSUME NEW c \in Ids, ClientStep(c) PROVE NoThreadLeak'
  BY <1>2 DEF ClientStep, RecvUpdate, ReadLock, Callback, ReadUnlock,
     RecvShutdown, registryVars
<1>3. ASSUME NEW h \in Handlers, HandlerCall(h) PROVE NoThreadLeak'
  <2>1. ASSUME NEW tl \in Subscriptions, AddClient(tl) PROVE NoThreadLeak'
    BY <2>1, NextId DEF AddClient
  <2>2. ASSUME NEW id \in Ids, RemoveClient(h, id) PROVE NoThreadLeak'
    BY <2>2, HandlersAssumption DEF RemoveClient, LockClients
  <2>3. CASE RemoveClientJoined(h)
    BY <2>3 DEF RemoveClientJoined, threadVars
  <2>4. QED
    BY <1>0, <1>3, <2>1, <2>2, <2>3 DEF HandlerCall, AddClientPanics, threadVars
<1>4. QED
  BY <1>0, <1>1, <1>2, <1>3 DEF Next, vars, registryVars, threadVars

(***************************************************************************)
(* While remove_client waits, its Shutdown stays the last command of the   *)
(* channel: notify_clients needs the mutex, and the client is out of the   *)
(* map.                                                                    *)
(***************************************************************************)
LEMMA ShutdownIsLastStep == IInv /\ [Next]_vars => ShutdownIsLast'
<1> SUFFICES ASSUME IInv, [Next]_vars PROVE ShutdownIsLast'
  OBVIOUS
<1> USE DEF IInv, TypeOK, ShutdownIsLast, Live
<1>0. UNCHANGED <<removing, thread, queue>> => ShutdownIsLast'
  OBVIOUS
<1>1. CASE BackgroundStep
  BY <1>0, <1>1 DEF BackgroundStep, Tick, TryWrite, WriteBusy, UpdateTimeout,
     UpdateQuote, UpdateFails, WriteUnlock, Notify, registryVars, threadVars,
     LockDiscipline
<1>2. ASSUME NEW c \in Ids, ClientStep(c) PROVE ShutdownIsLast'
  <2>1. CASE RecvUpdate(c)
    <3>1. CASE removing = c
      <4>1. queue[c] \in Seq(Command) /\ EndsWithShutdown(queue[c])
        BY <2>1, <3>1 DEF RecvUpdate, Ids, NoId
      <4>2. EndsWithShutdown(Tail(queue[c]))
        BY <2>1, <4>1, TailKeepsShutdown DEF RecvUpdate
      <4>3. QED
        BY <2>1, <3>1, <4>2 DEF RecvUpdate, registryVars
    <3>2. CASE removing # c
      BY <2>1, <3>2 DEF RecvUpdate, registryVars
    <3>3. QED
      BY <3>1, <3>2
  <2>2. CASE ReadLock(c) \/ Callback(c) \/ ReadUnlock(c) \/ RecvShutdown(c)
    BY <2>2 DEF ReadLock, Callback, ReadUnlock, RecvShutdown, registryVars
  <2>3. QED
    BY <1>2, <2>1, <2>2 DEF ClientStep
<1>3. ASSUME NEW h \in Handlers, HandlerCall(h) PROVE ShutdownIsLast'
  <2>1. ASSUME NEW tl \in Subscriptions, AddClient(tl) PROVE ShutdownIsLast'
    BY <2>1 DEF AddClient, LockClients, LockDiscipline
  <2>2. ASSUME NEW id \in Ids, RemoveClient(h, id) PROVE ShutdownIsLast'
    <3>1. queue'[id] = Append(queue[id], "Shutdown") /\ removing' = id
      BY <2>2 DEF RemoveClient, RegisteredAlive, Send
    <3>2. AllUpdates(queue[id])
      BY <2>2 DEF RemoveClient, RegisteredAlive
    <3>3. EndsWithShutdown(queue'[id])
      BY <3>1, <3>2, AppendShutdown
    <3>4. QED
      BY <3>1, <3>3
  <2>3. CASE RemoveClientJoined(h)
    BY <2>3 DEF RemoveClientJoined
  <2>4. QED
    BY <1>0, <1>3, <2>1, <2>2, <2>3 DEF HandlerCall, AddClientPanics, threadVars
<1>4. QED
  BY <1>0, <1>1, <1>2, <1>3 DEF Next, vars, registryVars, threadVars

\* The server starts with no client, all locks free and no thread reading.
LEMMA IInvInit == Init => IInv
<1> SUFFICES ASSUME Init PROVE IInv
  OBVIOUS
<1>1. TypeOK
  BY TypeOKInit
<1>2. LockDiscipline /\ IdsInOrder
  BY DEF Init, LockDiscipline, IdsInOrder, Readers, NoId, Ids
<1>3. PassInBounds /\ PassIsSnapshot
  BY DEF Init, PassInBounds, PassIsSnapshot
<1>4. RegisteredAlive /\ NoThreadLeak /\ ShutdownIsLast
  BY DEF Init, RegisteredAlive, NoThreadLeak, ShutdownIsLast, Live
<1>5. QED
  BY <1>1, <1>2, <1>3, <1>4 DEF IInv

\* Every step of the server preserves the inductive invariant.
LEMMA IInvInductive == IInv /\ [Next]_vars => IInv'
<1> SUFFICES ASSUME IInv, [Next]_vars PROVE IInv'
  OBVIOUS
<1>1. TypeOK'
  BY TypeOKInductive DEF IInv
<1>2. QED
  BY <1>1, LockDisciplineStep, IdsInOrderStep, PassInBoundsStep,
     PassIsSnapshotStep, RegisteredAliveStep, NoThreadLeakStep,
     ShutdownIsLastStep DEF IInv

(***************************************************************************)
(* The inductive invariant holds in every state the server reaches,        *)
(* however the background thread, the client threads and the handlers of   *)
(* add_client and remove_client interleave.                                *)
(***************************************************************************)
THEOREM Invariance == Safety => []IInv
BY IInvInit, IInvInductive, PTL DEF Safety

(***************************************************************************)
(* A pass of a client thread is never torn by update_quotes.               *)
(***************************************************************************)
THEOREM SnapshotPasses == Safety => []PassIsSnapshot
<1>1. IInv => PassIsSnapshot
  BY DEF IInv
<1>2. QED
  BY <1>1, Invariance, PTL

(***************************************************************************)
(* The clients in the map have a running thread with nothing but Updates   *)
(* before it: the sends of notify_clients and remove_client never fail.    *)
(***************************************************************************)
THEOREM RegisteredRun == Safety => []RegisteredAlive
<1>1. IInv => RegisteredAlive
  BY DEF IInv
<1>2. QED
  BY <1>1, Invariance, PTL

(***************************************************************************)
(* No client thread is lost: every one that runs is in the map or is being *)
(* joined by remove_client.                                                *)
(***************************************************************************)
THEOREM NoThreadLost == Safety => []NoThreadLeak
<1>1. IInv => NoThreadLeak
  BY DEF IInv
<1>2. QED
  BY <1>1, Invariance, PTL

(***************************************************************************)
(* The join of remove_client waits for a thread that has its Shutdown at   *)
(* the end of its channel: nothing is ever put behind it.                  *)
(***************************************************************************)
THEOREM ShutdownLast == Safety => []ShutdownIsLast
<1>1. IInv => ShutdownIsLast
  BY DEF IInv
<1>2. QED
  BY <1>1, Invariance, PTL

(***************************************************************************)
(* A client whose remove_client has returned stays removed, and nothing is *)
(* sent to it any more.                                                    *)
(***************************************************************************)
THEOREM RemovedIsQuiet == Safety => QuietAfterRemove
<1> DEFINE Quiet(c) == Removed(c) => sent'[c] = sent[c] /\ Removed(c)'
<1>1. ASSUME IInv, [Next]_vars, NEW c \in Ids, Removed(c)
      PROVE  sent'[c] = sent[c] /\ Removed(c)'
  <2> USE <1>1 DEF IInv, TypeOK, Removed
  <2>1. ~ Live(c)
    BY DEF NoThreadLeak
  <2>2. CASE BackgroundStep
    BY <2>2 DEF BackgroundStep, Tick, TryWrite, WriteBusy, UpdateTimeout,
       UpdateQuote, UpdateFails, WriteUnlock, Notify, registryVars, threadVars
  <2>3. ASSUME NEW d \in Ids, ClientStep(d)
        PROVE  sent'[c] = sent[c] /\ Removed(c)'
    <3>1. d # c
      BY <2>1, <2>3 DEF ClientStep, RecvUpdate, ReadLock, Callback, ReadUnlock,
         RecvShutdown, Live
    <3>2. QED
      BY <2>3, <3>1 DEF ClientStep, RecvUpdate, ReadLock, Callback, ReadUnlock,
         RecvShutdown, registryVars
  <2>4. ASSUME NEW h \in Handlers, HandlerCall(h)
        PROVE  sent'[c] = sent[c] /\ Removed(c)'
    <3>1. ASSUME NEW tl \in Subscriptions, AddClient(tl)
          PROVE  sent'[c] = sent[c] /\ Removed(c)'
      BY <3>1 DEF AddClient, Ids
    <3>2. CASE AddClientPanics
      BY <3>2 DEF AddClientPanics, threadVars
    <3>3. ASSUME NEW id \in Ids, RemoveClient(h, id)
          PROVE  sent'[c] = sent[c] /\ Removed(c)'
      BY <3>3 DEF RemoveClient
    <3>4. CASE RemoveClientJoined(h)
      BY <3>4 DEF RemoveClientJoined, threadVars, NoId, Ids
    <3>5. QED
      BY <2>4, <3>1, <3>2, <3>3, <3>4 DEF HandlerCall
  <2>5. CASE UNCHANGED vars
    BY <2>5 DEF vars, registryVars, threadVars
  <2>6. QED
    BY <2>2, <2>3, <2>4, <2>5 DEF Next
<1>2. IInv /\ [Next]_vars => [\A c \in Ids : Quiet(c)]_vars
  BY <1>1
<1>3. QED
  BY <1>2, Invariance, PTL DEF Safety, QuietAfterRemove

(***************************************************************************)
(* add_client enters only ids in the map that never had a thread.          *)
(***************************************************************************)
THEOREM FreshIds == Safety => IdsNeverReused
<1>1. ASSUME IInv, [Next]_vars, NEW c \in clients' \ clients
      PROVE  thread[c] = "none"
  <2> USE <1>1 DEF IInv, TypeOK
  <2>1. ASSUME NEW tl \in Subscriptions, AddClient(tl) PROVE thread[c] = "none"
    <3>1. c = clients_count /\ c \in Ids
      BY <2>1, NextId DEF AddClient
    <3>2. QED
      BY <3>1 DEF IdsInOrder
  <2>2. CASE clients' \subseteq clients
    BY <2>2
  <2>3. CASE BackgroundStep
    BY <2>2, <2>3 DEF BackgroundStep, Tick, TryWrite, WriteBusy, UpdateTimeout,
       UpdateQuote, UpdateFails, WriteUnlock, Notify, registryVars
  <2>4. ASSUME NEW d \in Ids, ClientStep(d) PROVE thread[c] = "none"
    BY <2>2, <2>4 DEF ClientStep, RecvUpdate, ReadLock, Callback, ReadUnlock,
       RecvShutdown, registryVars
  <2>5. ASSUME NEW h \in Handlers, HandlerCall(h) PROVE thread[c] = "none"
    BY <2>1, <2>2, <2>5 DEF HandlerCall, AddClientPanics, RemoveClient,
       RemoveClientJoined
  <2>6. CASE UNCHANGED vars
    BY <2>2, <2>6 DEF vars, registryVars
  <2>7. QED
    BY <2>3, <2>4, <2>5, <2>6 DEF Next
<1>2. IInv /\ [Next]_vars =>
        [\A c \in clients' \ clients : thread[c] = "none"]_vars
  BY <1>1
<1>3. QED
  BY <1>2, Invariance, PTL DEF Safety, IdsNeverReused

-----------------------------------------------------------------------------
(***************************************************************************)
(* The quote server implements the abstract feed: every step of a thread   *)
(* of the server is a step of QuoteFeed or leaves its variables alone.     *)
(***************************************************************************)

\* A client with a running thread is active or leaving in the abstract feed.
LEMMA LiveFeedState ==
    ASSUME IInv, NEW c \in Ids, Live(c)
    PROVE  FeedState(c) \in {"active", "leaving"}
BY DEF IInv, TypeOK, NoThreadLeak, IdsInOrder, Live, FeedState, Ids

\* A step that leaves the registry alone leaves the abstract states alone.
LEMMA SameStates ==
    ASSUME UNCHANGED registryVars
    PROVE  FeedStates' = FeedStates
BY DEF FeedStates, FeedState, registryVars

(***************************************************************************)
(* A complete pass is what the abstract feed publishes: one entry for each *)
(* word of the list, taken from the quotes as they are.                    *)
(***************************************************************************)
LEMMA CompletePass ==
    ASSUME IInv, NEW c \in Ids, thread[c] = "read",
           Len(sent[c]) = Len(tickers[c])
    PROVE  sent[c] = [i \in 1 .. Len(tickers[c]) |-> Lookup(tickers[c][i])]
<1>1. /\ sent[c] \in [1 .. Len(sent[c]) -> Values \cup {NoQuote}]
      /\ \A i \in 1 .. Len(sent[c]) : sent[c][i] = Lookup(tickers[c][i])
  BY LenProperties DEF IInv, TypeOK, PassIsSnapshot
<1>2. QED
  BY <1>1

\* The server starts as the abstract feed does.
LEMMA FeedInitial == Init => Feed!FeedInit
<1> SUFFICES ASSUME Init PROVE Feed!FeedInit
  OBVIOUS
<1>1. FeedStates = [c \in Ids |-> "new"]
  BY DEF Init, FeedStates, FeedState, Ids
<1>2. FeedPasses = [c \in Ids |-> <<>>]
  BY DEF Init, FeedPasses
<1>3. QED
  BY <1>1, <1>2 DEF Init, Feed!FeedInit

FeedStep == [Feed!FeedNext]_(Feed!feed)

\* Steps of the background thread: only the writing of the quotes shows.
LEMMA BackgroundRefines ==
    ASSUME IInv, BackgroundStep
    PROVE  FeedStep
<1> USE DEF FeedStep, Feed!FeedNext
<1>1. ASSUME UNCHANGED <<quotes, registryVars, thread, tickers, sent>>,
             (bg = "write") = (bg' = "write")
      PROVE  FeedStep
  BY <1>1, SameStates DEF Feed!feed, FeedPasses
<1>2. CASE Tick \/ WriteBusy \/ UpdateTimeout \/ Notify
  BY <1>1, <1>2 DEF Tick, WriteBusy, UpdateTimeout, Notify, threadVars
<1>3. CASE TryWrite
  BY <1>3, SameStates DEF TryWrite, Feed!Rewrite, FeedPasses, threadVars
<1>4. ASSUME NEW t \in Tickers, UpdateQuote(t) \/ UpdateFails(t) PROVE FeedStep
  <2>1. Feed!Change(t)
    BY <1>4, SameStates DEF UpdateQuote, UpdateFails, Feed!Change, FeedPasses,
       threadVars
  <2>2. QED
    BY <2>1
<1>5. CASE WriteUnlock
  BY <1>5, SameStates DEF WriteUnlock, Feed!Settle, FeedPasses, threadVars
<1>6. QED
  BY <1>2, <1>3, <1>4, <1>5 DEF BackgroundStep

\* Steps of a client thread: a pass begins with the read lock, and counts
\* as published when the lock is dropped.
LEMMA ClientRefines ==
    ASSUME IInv, NEW c \in Ids, ClientStep(c)
    PROVE  FeedStep
<1> USE DEF FeedStep, Feed!FeedNext
<1>1. CASE RecvUpdate(c) \/ Callback(c) \/ RecvShutdown(c)
  <2>1. FeedPasses' = FeedPasses
    BY <1>1 DEF IInv, TypeOK, RecvUpdate, Callback, RecvShutdown, FeedPasses
  <2>2. QED
    BY <1>1, <2>1, SameStates DEF RecvUpdate, Callback, RecvShutdown, Feed!feed,
       bgVars
<1>2. CASE ReadLock(c)
  <2>1. FeedStates[c] \in {"active", "leaving"}
    BY <1>2, LiveFeedState DEF ReadLock, Live, FeedStates
  <2>2. FeedPasses' = [FeedPasses EXCEPT ![c] = <<>>]
    BY <1>2 DEF IInv, TypeOK, ReadLock, FeedPasses
  <2>3. Feed!Begin(c)
    BY <1>2, <2>1, <2>2, SameStates DEF ReadLock, Feed!Begin, bgVars
  <2>4. QED
    BY <2>3
<1>3. CASE ReadUnlock(c)
  <2>1. FeedStates[c] \in {"active", "leaving"}
    BY <1>3, LiveFeedState DEF ReadUnlock, Live, FeedStates
  <2>2. bg # "write"
    BY <1>3 DEF ReadUnlock, IInv, LockDiscipline, Readers
  <2>3. sent[c] = Feed!PassOf(tickers[c])
    BY <1>3, CompletePass DEF ReadUnlock, Feed!PassOf, Lookup
  <2>4. FeedPasses' = [FeedPasses EXCEPT ![c] = Feed!PassOf(tickers[c])]
    BY <1>3, <2>3 DEF IInv, TypeOK, ReadUnlock, FeedPasses
  <2>5. Feed!Publish(c)
    BY <1>3, <2>1, <2>2, <2>4, SameStates DEF ReadUnlock, Feed!Publish, bgVars
  <2>6. QED
    BY <2>5
<1>4. QED
  BY <1>1, <1>2, <1>3 DEF ClientStep

\* Calls of a handler: a client is added, begins to leave, or is gone.
LEMMA HandlerRefines ==
    ASSUME IInv, NEW h \in Handlers, HandlerCall(h)
    PROVE  FeedStep
<1> USE DEF FeedStep, Feed!FeedNext
<1>1. ASSUME NEW tl \in Subscriptions, AddClient(tl) PROVE FeedStep
  <2>1. clients_count \in Ids /\ FeedStates[clients_count] = "new"
    BY <1>1, NextId DEF AddClient, IInv, TypeOK, FeedStates, FeedState
  <2>2. FeedStates' = [FeedStates EXCEPT ![clients_count] = "active"]
    <3>1. \A d \in Ids :
            FeedState(d)' = IF d = clients_count THEN "active" ELSE FeedState(d)
      BY <1>1, <2>1 DEF AddClient, FeedState, Ids
    <3>2. QED
      BY <3>1 DEF FeedStates
  <2>3. FeedPasses' = FeedPasses
    BY <1>1, <2>1 DEF AddClient, IInv, TypeOK, IdsInOrder, FeedPasses
  <2>4. Feed!Add(clients_count, tl)
    BY <1>1, <2>1, <2>2, <2>3 DEF AddClient, Feed!Add, bgVars
  <2>5. QED
    BY <2>1, <2>4
<1>2. CASE AddClientPanics
  <2>1. FeedStates' = FeedStates /\ FeedPasses' = FeedPasses
    BY <1>2 DEF AddClientPanics, FeedStates, FeedState, FeedPasses, threadVars
  <2>2. QED
    BY <1>2, <2>1 DEF AddClientPanics, Feed!feed, bgVars, threadVars
<1>3. ASSUME NEW id \in Ids, RemoveClient(h, id) PROVE FeedStep
  <2>1. removing = NoId /\ \A d \in Ids : removing # d
    BY <1>3 DEF RemoveClient, LockClients, IInv, LockDiscipline, Ids, NoId
  <2>2. \A d \in Ids : FeedStates[d] # "leaving"
    BY <2>1 DEF FeedStates, FeedState
  <2>3. id < clients_count
    BY <1>3 DEF RemoveClient, IInv, TypeOK, IdsInOrder, Ids
  <2>4. FeedStates[id] = "active"
    BY <1>3, <2>3 DEF RemoveClient, FeedStates, FeedState, IInv, TypeOK, Ids
  <2>5. FeedStates' = [FeedStates EXCEPT ![id] = "leaving"]
    <3>1. \A d \in Ids :
            FeedState(d)' = IF d = id THEN "leaving" ELSE FeedState(d)
      BY <1>3, <2>1, <2>3 DEF RemoveClient, FeedState, Ids, IInv, TypeOK
    <3>2. QED
      BY <3>1 DEF FeedStates
  <2>6. Feed!Leave(id)
    BY <1>3, <2>2, <2>4, <2>5 DEF RemoveClient, Feed!Leave, FeedPasses, bgVars
  <2>7. QED
    BY <2>6
<1>4. CASE RemoveClientJoined(h)
  <2>1. removing \in Ids
    BY <1>4, HandlersAssumption
       DEF RemoveClientJoined, IInv, TypeOK, LockDiscipline
  <2>2. removing < clients_count /\ removing \notin clients
    BY <2>1 DEF IInv, TypeOK, IdsInOrder, LockDiscipline, Ids
  <2>3. FeedStates[removing] = "leaving"
    BY <2>1, <2>2 DEF FeedStates, FeedState, IInv, TypeOK, Ids
  <2>4. FeedStates' = [FeedStates EXCEPT ![removing] = "gone"]
    <3>1. \A d \in Ids :
            FeedState(d)' = IF d = removing THEN "gone" ELSE FeedState(d)
      BY <1>4, <2>1, <2>2 DEF RemoveClientJoined, FeedState, Ids, NoId, IInv,
         TypeOK
    <3>2. QED
      BY <3>1 DEF FeedStates
  <2>5. Feed!Gone(removing)
    BY <1>4, <2>3, <2>4 DEF RemoveClientJoined, Feed!Gone, FeedPasses, bgVars,
       threadVars
  <2>6. QED
    BY <2>1, <2>5
<1>5. QED
  BY <1>1, <1>2, <1>3, <1>4 DEF HandlerCall

(***************************************************************************)
(* The quote server implements the abstract feed: whole passes, each from  *)
(* one state of the book and none after the removal, whatever the threads  *)
(* of src/quote_server.rs and src/client.rs do in between.                 *)
(***************************************************************************)
THEOREM FeedImplemented == Safety => ImplementsFeed
<1>1. IInv /\ [Next]_vars => [Feed!FeedNext]_(Feed!feed)
  <2> SUFFICES ASSUME IInv, [Next]_vars PROVE FeedStep
    BY DEF FeedStep
  <2>1. CASE UNCHANGED vars
    BY <2>1, SameStates DEF FeedStep, Feed!feed, FeedPasses, vars, bgVars,
       registryVars, threadVars
  <2>2. QED
    BY <2>1, BackgroundRefines, ClientRefines, HandlerRefines DEF Next
<1>2. QED
  BY <1>1, FeedInitial, Invariance, PTL
     DEF Safety, ImplementsFeed, Feed!FeedSpec
=============================================================================
