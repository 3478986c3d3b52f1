--------------------------- MODULE LifecycleProofs ---------------------------
(***************************************************************************)
(* Start, shutdown and Drop of the quote server are safe for any number of *)
(* owners, of calls of start and of clients.                               *)
(***************************************************************************)
EXTENDS Lifecycle, TLAPS

\* Every step keeps the types.
LEMMA TypeStep == LifeInv /\ [LifeNext]_lifeVars => LifeTypeOK'
<1> SUFFICES ASSUME LifeInv, [LifeNext]_lifeVars PROVE LifeTypeOK'
  OBVIOUS
<1> USE LifecycleAssumption DEF LifeInv, LifeTypeOK, Actors, Threads, Goto,
       OwnerStates, ThreadStates
<1>1. CASE UNCHANGED lifeVars
  BY <1>1 DEF lifeVars, bgVars, clientVars
<1>2. ASSUME NEW o \in Owners, OwnerCall(o) PROVE LifeTypeOK'
  <2>1. ASSUME NEW p \in Owners, CloneRef(o, p) PROVE LifeTypeOK'
    BY <2>1 DEF CloneRef, bgVars, clientVars
  <2>2. CASE Start(o)
    BY <2>2 DEF Start, FlagAtStart, bgVars, clientVars
  <2>3. CASE StartPanics(o)
    BY <2>3 DEF StartPanics, bgVars, clientVars
  <2>4. CASE Shutdown(o)
    BY <2>4 DEF Shutdown, bgVars, clientVars
  <2>5. ASSUME NEW c \in Clients, AddClient(o, c) PROVE LifeTypeOK'
    BY <2>5 DEF AddClient, bgVars, clientVars
  <2>6. ASSUME NEW c \in Clients, RemoveClient(o, c) PROVE LifeTypeOK'
    BY <2>6 DEF RemoveClient, bgVars, clientVars
  <2>7. CASE DropRef(o)
    BY <2>7 DEF DropRef, Release, bgVars, clientVars
  <2>8. CASE Unwind(o)
    BY <2>8 DEF Unwind, Release, bgVars, clientVars
  <2>9. QED
    BY <1>2, <2>1, <2>2, <2>3, <2>4, <2>5, <2>6, <2>7, <2>8 DEF OwnerCall
<1>3. ASSUME NEW a \in Actors, ShutdownStep(a) PROVE LifeTypeOK'
  <2>1. CASE Signal(a)
    BY <2>1 DEF Signal, bgVars, clientVars
  <2>2. CASE Take(a)
    BY <2>2 DEF Take, Returned, bgVars, clientVars, DropInv, InShutdown
  <2>3. CASE Join(a)
    <3>1. pc[a] = "join" /\ joining[a] \in Threads
      BY <2>3 DEF Join, JoinInv
    <3>2. a \in Threads => dropper = a
      BY <3>1 DEF DropInv, InShutdown
    <3>3. joined' \in SUBSET Threads
      BY <2>3, <3>1 DEF Join
    <3>4. /\ pc' \in [Actors -> OwnerStates \cup ThreadStates]
          /\ \A o \in Owners : pc'[o] \in OwnerStates
          /\ \A t \in Threads : pc'[t] \in ThreadStates
      BY <2>3, <3>2 DEF Join, Returned
    <3>5. QED
      BY <2>3, <3>3, <3>4 DEF Join, bgVars, clientVars
  <2>4. ASSUME NEW c \in Clients, DropClient(a, c) PROVE LifeTypeOK'
    BY <2>4 DEF DropClient, MustJoinClient, bgVars, clientVars
  <2>5. CASE ClientDropped(a)
    BY <2>5 DEF ClientDropped, bgVars, clientVars
  <2>6. CASE Dropped(a)
    BY <2>6 DEF Dropped, bgVars, clientVars
  <2>7. QED
    BY <1>3, <2>1, <2>2, <2>3, <2>4, <2>5, <2>6 DEF ShutdownStep
<1>4. ASSUME NEW t \in Threads, ThreadStep(t) PROVE LifeTypeOK'
  <2>1. CASE CheckFlag(t)
    BY <2>1 DEF CheckFlag, Release, bgVars, clientVars
  <2>2. CASE EndRound(t)
    BY <2>2 DEF EndRound, bgVars, clientVars
  <2>3. CASE SelfJoin(t)
    BY <2>3 DEF SelfJoin, bgVars, clientVars
  <2>4. QED
    BY <1>4, <2>1, <2>2, <2>3 DEF ThreadStep
<1>5. ASSUME NEW c \in Clients, ClientEnds(c) PROVE LifeTypeOK'
  BY <1>5 DEF ClientEnds, bgVars, clientVars
<1>6. QED
  BY <1>1, <1>2, <1>3, <1>4, <1>5 DEF LifeNext

\* Only thread 0, and only if it was started before a shutdown, runs rounds.
LEMMA ThreadsStep == LifeInv /\ [LifeNext]_lifeVars => ThreadsInv'
<1> SUFFICES ASSUME LifeInv, [LifeNext]_lifeVars PROVE ThreadsInv'
  OBVIOUS
<1> USE LifecycleAssumption DEF LifeInv, LifeTypeOK, Actors, Threads, Goto,
       ThreadsInv, FlagInv
<1>1. CASE UNCHANGED lifeVars
  BY <1>1 DEF lifeVars, bgVars, clientVars
<1>2. ASSUME NEW o \in Owners, OwnerCall(o) PROVE ThreadsInv'
  <2>1. ASSUME NEW p \in Owners, CloneRef(o, p) PROVE ThreadsInv'
    BY <2>1 DEF CloneRef, bgVars, clientVars
  <2>2. CASE Start(o)
    BY <2>2 DEF Start, FlagAtStart, bgVars, clientVars
  <2>3. CASE StartPanics(o)
    BY <2>3 DEF StartPanics, bgVars, clientVars
  <2>4. CASE Shutdown(o)
    BY <2>4 DEF Shutdown, bgVars, clientVars
  <2>5. ASSUME NEW c \in Clients, AddClient(o, c) PROVE ThreadsInv'
    BY <2>5 DEF AddClient, bgVars, clientVars
  <2>6. ASSUME NEW c \in Clients, RemoveClient(o, c) PROVE ThreadsInv'
    BY <2>6 DEF RemoveClient, bgVars, clientVars
  <2>7. CASE DropRef(o)
    BY <2>7 DEF DropRef, Release, bgVars, clientVars
  <2>8. CASE Unwind(o)
    BY <2>8 DEF Unwind, Release, bgVars, clientVars
  <2>9. QED
    BY <1>2, <2>1, <2>2, <2>3, <2>4, <2>5, <2>6, <2>7, <2>8 DEF OwnerCall
<1>3. ASSUME NEW a \in Actors, ShutdownStep(a) PROVE ThreadsInv'
  <2>1. CASE Signal(a)
    BY <2>1 DEF Signal, bgVars, clientVars
  <2>2. CASE Take(a)
    BY <2>2 DEF Take, Returned, bgVars, clientVars
  <2>3. CASE Join(a)
    BY <2>3 DEF Join, Returned, CanJoin, bgVars, clientVars
  <2>4. ASSUME NEW c \in Clients, DropClient(a, c) PROVE ThreadsInv'
    BY <2>4 DEF DropClient, MustJoinClient, bgVars, clientVars
  <2>5. CASE ClientDropped(a)
    BY <2>5 DEF ClientDropped, bgVars, clientVars
  <2>6. CASE Dropped(a)
    BY <2>6 DEF Dropped, bgVars, clientVars
  <2>7. QED
    BY <1>3, <2>1, <2>2, <2>3, <2>4, <2>5, <2>6 DEF ShutdownStep
<1>4. ASSUME NEW t \in Threads, ThreadStep(t) PROVE ThreadsInv'
  <2>1. CASE CheckFlag(t)
    BY <2>1 DEF CheckFlag, Release, bgVars, clientVars
  <2>2. CASE EndRound(t)
    BY <2>2 DEF EndRound, bgVars, clientVars
  <2>3. CASE SelfJoin(t)
    BY <2>3 DEF SelfJoin, bgVars, clientVars
  <2>4. QED
    BY <1>4, <2>1, <2>2, <2>3 DEF ThreadStep
<1>5. ASSUME NEW c \in Clients, ClientEnds(c) PROVE ThreadsInv'
  BY <1>5 DEF ClientEnds, bgVars, clientVars
<1>6. QED
  BY <1>1, <1>2, <1>3, <1>4, <1>5 DEF LifeNext

\* Before the first shutdown there is at most one thread, and its handle is kept.
LEMMA FlagStep == LifeInv /\ [LifeNext]_lifeVars => FlagInv'
<1> SUFFICES ASSUME LifeInv, [LifeNext]_lifeVars PROVE FlagInv'
  OBVIOUS
<1> USE LifecycleAssumption DEF LifeInv, LifeTypeOK, Actors, Threads, Goto,
       ThreadsInv, FlagInv, DropInv, InShutdown
<1>1. CASE UNCHANGED lifeVars
  BY <1>1 DEF lifeVars, bgVars, clientVars
<1>2. ASSUME NEW o \in Owners, OwnerCall(o) PROVE FlagInv'
  <2>1. ASSUME NEW p \in Owners, CloneRef(o, p) PROVE FlagInv'
    BY <2>1 DEF CloneRef, bgVars, clientVars
  <2>2. CASE Start(o)
    BY <2>2 DEF Start, FlagAtStart, bgVars, clientVars
  <2>3. CASE StartPanics(o)
    BY <2>3 DEF StartPanics, bgVars, clientVars
  <2>4. CASE Shutdown(o)
    BY <2>4 DEF Shutdown, bgVars, clientVars
  <2>5. ASSUME NEW c \in Clients, AddClient(o, c) PROVE FlagInv'
    BY <2>5 DEF AddClient, bgVars, clientVars
  <2>6. ASSUME NEW c \in Clients, RemoveClient(o, c) PROVE FlagInv'
    BY <2>6 DEF RemoveClient, bgVars, clientVars
  <2>7. CASE DropRef(o)
    BY <2>7 DEF DropRef, Release, bgVars, clientVars
  <2>8. CASE Unwind(o)
    BY <2>8 DEF Unwind, Release, bgVars, clientVars
  <2>9. QED
    BY <1>2, <2>1, <2>2, <2>3, <2>4, <2>5, <2>6, <2>7, <2>8 DEF OwnerCall
<1>3. ASSUME NEW a \in Actors, ShutdownStep(a) PROVE FlagInv'
  <2>1. CASE Signal(a)
    BY <2>1 DEF Signal, bgVars, clientVars
  <2>2. CASE Take(a)
    BY <2>2 DEF Take, Returned, bgVars, clientVars
  <2>3. CASE Join(a)
    BY <2>3 DEF Join, Returned, CanJoin, bgVars, clientVars
  <2>4. ASSUME NEW c \in Clients, DropClient(a, c) PROVE FlagInv'
    BY <2>4 DEF DropClient, MustJoinClient, bgVars, clientVars
  <2>5. CASE ClientDropped(a)
    BY <2>5 DEF ClientDropped, bgVars, clientVars
  <2>6. CASE Dropped(a)
    BY <2>6 DEF Dropped, bgVars, clientVars
  <2>7. QED
    BY <1>3, <2>1, <2>2, <2>3, <2>4, <2>5, <2>6 DEF ShutdownStep
<1>4. ASSUME NEW t \in Threads, ThreadStep(t) PROVE FlagInv'
  <2>1. CASE CheckFlag(t)
    BY <2>1 DEF CheckFlag, Release, bgVars, clientVars
  <2>2. CASE EndRound(t)
    BY <2>2 DEF EndRound, bgVars, clientVars
  <2>3. CASE SelfJoin(t)
    BY <2>3 DEF SelfJoin, bgVars, clientVars
  <2>4. QED
    BY <1>4, <2>1, <2>2, <2>3 DEF ThreadStep
<1>5. ASSUME NEW c \in Clients, ClientEnds(c) PROVE FlagInv'
  BY <1>5 DEF ClientEnds, bgVars, clientVars
<1>6. QED
  BY <1>1, <1>2, <1>3, <1>4, <1>5 DEF LifeNext

\* While thread 0 runs on after the flag is set, an owner with a reference joins it.
LEMMA HandleStep == LifeInv /\ [LifeNext]_lifeVars => HandleInv'
<1> SUFFICES ASSUME LifeInv, [LifeNext]_lifeVars PROVE HandleInv'
  OBVIOUS
<1> USE LifecycleAssumption DEF LifeInv, LifeTypeOK, Actors, Threads, Goto,
       ThreadsInv, FlagInv, HandleInv, DropInv, InShutdown
<1>1. CASE UNCHANGED lifeVars
  BY <1>1 DEF lifeVars, bgVars, clientVars
<1>2. ASSUME NEW o \in Owners, OwnerCall(o) PROVE HandleInv'
  <2>1. ASSUME NEW p \in Owners, CloneRef(o, p) PROVE HandleInv'
    BY <2>1 DEF CloneRef, bgVars, clientVars
  <2>2. CASE Start(o)
    BY <2>2 DEF Start, FlagAtStart, bgVars, clientVars
  <2>3. CASE StartPanics(o)
    BY <2>3 DEF StartPanics, bgVars, clientVars
  <2>4. CASE Shutdown(o)
    BY <2>4 DEF Shutdown, bgVars, clientVars
  <2>5. ASSUME NEW c \in Clients, AddClient(o, c) PROVE HandleInv'
    BY <2>5 DEF AddClient, bgVars, clientVars
  <2>6. ASSUME NEW c \in Clients, RemoveClient(o, c) PROVE HandleInv'
    BY <2>6 DEF RemoveClient, bgVars, clientVars
  <2>7. CASE DropRef(o)
    BY <2>7 DEF DropRef, Release, bgVars, clientVars
  <2>8. CASE Unwind(o)
    BY <2>8 DEF Unwind, Release, bgVars, clientVars
  <2>9. QED
    BY <1>2, <2>1, <2>2, <2>3, <2>4, <2>5, <2>6, <2>7, <2>8 DEF OwnerCall
<1>3. ASSUME NEW a \in Actors, ShutdownStep(a) PROVE HandleInv'
  <2>1. CASE Signal(a)
    BY <2>1 DEF Signal, bgVars, clientVars
  <2>2. CASE Take(a)
    BY <2>2 DEF Take, Returned, bgVars, clientVars
  <2>3. CASE Join(a)
    BY <2>3 DEF Join, Returned, CanJoin, bgVars, clientVars
  <2>4. ASSUME NEW c \in Clients, DropClient(a, c) PROVE HandleInv'
    BY <2>4 DEF DropClient, MustJoinClient, bgVars, clientVars
  <2>5. CASE ClientDropped(a)
    BY <2>5 DEF ClientDropped, bgVars, clientVars
  <2>6. CASE Dropped(a)
    BY <2>6 DEF Dropped, bgVars, clientVars
  <2>7. QED
    BY <1>3, <2>1, <2>2, <2>3, <2>4, <2>5, <2>6 DEF ShutdownStep
<1>4. ASSUME NEW t \in Threads, ThreadStep(t) PROVE HandleInv'
  <2>1. CASE CheckFlag(t)
    <3>1. CASE ~ shutdown_flag
      BY <2>1, <3>1 DEF CheckFlag, bgVars, clientVars
    <3>2. CASE shutdown_flag /\ refs = {t}
      BY <2>1, <3>2 DEF CheckFlag, Release, bgVars, clientVars
    <3>3. CASE shutdown_flag /\ refs # {t}
      BY <2>1, <3>3 DEF CheckFlag, Release, bgVars, clientVars
    <3>4. QED
      BY <3>1, <3>2, <3>3
  <2>2. CASE EndRound(t)
    BY <2>2 DEF EndRound, bgVars, clientVars
  <2>3. CASE SelfJoin(t)
    BY <2>3 DEF SelfJoin, bgVars, clientVars
  <2>4. QED
    BY <1>4, <2>1, <2>2, <2>3 DEF ThreadStep
<1>5. ASSUME NEW c \in Clients, ClientEnds(c) PROVE HandleInv'
  BY <1>5 DEF ClientEnds, bgVars, clientVars
<1>6. QED
  BY <1>1, <1>2, <1>3, <1>4, <1>5 DEF LifeNext

\* Whoever runs Drop is alone with the server.
LEMMA DropStep == LifeInv /\ [LifeNext]_lifeVars => DropInv'
<1> SUFFICES ASSUME LifeInv, [LifeNext]_lifeVars PROVE DropInv'
  OBVIOUS
<1> USE LifecycleAssumption DEF LifeInv, LifeTypeOK, Actors, Threads, Goto,
       ThreadsInv, DropInv, JoinInv, InShutdown
<1>1. CASE UNCHANGED lifeVars
  BY <1>1 DEF lifeVars, bgVars, clientVars
<1>2. ASSUME NEW o \in Owners, OwnerCall(o) PROVE DropInv'
  <2>1. ASSUME NEW p \in Owners, CloneRef(o, p) PROVE DropInv'
    BY <2>1 DEF CloneRef, bgVars, clientVars
  <2>2. CASE Start(o)
    BY <2>2 DEF Start, FlagAtStart, bgVars, clientVars
  <2>3. CASE StartPanics(o)
    BY <2>3 DEF StartPanics, bgVars, clientVars
  <2>4. CASE Shutdown(o)
    BY <2>4 DEF Shutdown, bgVars, clientVars
  <2>5. ASSUME NEW c \in Clients, AddClient(o, c) PROVE DropInv'
    BY <2>5 DEF AddClient, bgVars, clientVars
  <2>6. ASSUME NEW c \in Clients, RemoveClient(o, c) PROVE DropInv'
    BY <2>6 DEF RemoveClient, bgVars, clientVars
  <2>7. CASE DropRef(o)
    BY <2>7 DEF DropRef, Release, bgVars, clientVars
  <2>8. CASE Unwind(o)
    BY <2>8 DEF Unwind, Release, bgVars, clientVars
  <2>9. QED
    BY <1>2, <2>1, <2>2, <2>3, <2>4, <2>5, <2>6, <2>7, <2>8 DEF OwnerCall
<1>3. ASSUME NEW a \in Actors, ShutdownStep(a) PROVE DropInv'
  <2>1. CASE Signal(a)
    BY <2>1 DEF Signal, bgVars, clientVars
  <2>2. CASE Take(a)
    BY <2>2 DEF Take, Returned, bgVars, clientVars
  <2>3. CASE Join(a)
    BY <2>3 DEF Join, Returned, CanJoin, bgVars, clientVars
  <2>4. ASSUME NEW c \in Clients, DropClient(a, c) PROVE DropInv'
    BY <2>4 DEF DropClient, MustJoinClient, bgVars, clientVars
  <2>5. CASE ClientDropped(a)
    BY <2>5 DEF ClientDropped, bgVars, clientVars
  <2>6. CASE Dropped(a)
    BY <2>6 DEF Dropped, bgVars, clientVars
  <2>7. QED
    BY <1>3, <2>1, <2>2, <2>3, <2>4, <2>5, <2>6 DEF ShutdownStep
<1>4. ASSUME NEW t \in Threads, ThreadStep(t) PROVE DropInv'
  <2>1. CASE CheckFlag(t)
    BY <2>1 DEF CheckFlag, Release, bgVars, clientVars
  <2>2. CASE EndRound(t)
    BY <2>2 DEF EndRound, bgVars, clientVars
  <2>3. CASE SelfJoin(t)
    BY <2>3 DEF SelfJoin, bgVars, clientVars
  <2>4. QED
    BY <1>4, <2>1, <2>2, <2>3 DEF ThreadStep
<1>5. ASSUME NEW c \in Clients, ClientEnds(c) PROVE DropInv'
  BY <1>5 DEF ClientEnds, bgVars, clientVars
<1>6. QED
  BY <1>1, <1>2, <1>3, <1>4, <1>5 DEF LifeNext

\* Joins are of threads that are still to end, and only Drop tells clients to stop.
LEMMA JoinStep == LifeInv /\ [LifeNext]_lifeVars => JoinInv'
<1> SUFFICES ASSUME LifeInv, [LifeNext]_lifeVars PROVE JoinInv'
  OBVIOUS
<1> USE LifecycleAssumption DEF LifeInv, LifeTypeOK, Actors, Threads, Goto,
       ThreadsInv, DropInv, JoinInv, InShutdown
<1>1. CASE UNCHANGED lifeVars
  BY <1>1 DEF lifeVars, bgVars, clientVars
<1>2. ASSUME NEW o \in Owners, OwnerCall(o) PROVE JoinInv'
  <2>1. ASSUME NEW p \in Owners, CloneRef(o, p) PROVE JoinInv'
    BY <2>1 DEF CloneRef, bgVars, clientVars
  <2>2. CASE Start(o)
    BY <2>2 DEF Start, FlagAtStart, bgVars, clientVars
  <2>3. CASE StartPanics(o)
    BY <2>3 DEF StartPanics, bgVars, clientVars
  <2>4. CASE Shutdown(o)
    BY <2>4 DEF Shutdown, bgVars, clientVars
  <2>5. ASSUME NEW c \in Clients, AddClient(o, c) PROVE JoinInv'
    BY <2>5 DEF AddClient, bgVars, clientVars
  <2>6. ASSUME NEW c \in Clients, RemoveClient(o, c) PROVE JoinInv'
    BY <2>6 DEF RemoveClient, bgVars, clientVars
  <2>7. CASE DropRef(o)
    BY <2>7 DEF DropRef, Release, bgVars, clientVars
  <2>8. CASE Unwind(o)
    BY <2>8 DEF Unwind, Release, bgVars, clientVars
  <2>9. QED
    BY <1>2, <2>1, <2>2, <2>3, <2>4, <2>5, <2>6, <2>7, <2>8 DEF OwnerCall
<1>3. ASSUME NEW a \in Actors, ShutdownStep(a) PROVE JoinInv'
  <2>1. CASE Signal(a)
    BY <2>1 DEF Signal, bgVars, clientVars
  <2>2. CASE Take(a)
    BY <2>2 DEF Take, Returned, bgVars, clientVars
  <2>3. CASE Join(a)
    BY <2>3 DEF Join, Returned, CanJoin, bgVars, clientVars
  <2>4. ASSUME NEW c \in Clients, DropClient(a, c) PROVE JoinInv'
    BY <2>4 DEF DropClient, MustJoinClient, bgVars, clientVars
  <2>5. CASE ClientDropped(a)
    BY <2>5 DEF ClientDropped, bgVars, clientVars
  <2>6. CASE Dropped(a)
    BY <2>6 DEF Dropped, bgVars, clientVars
  <2>7. QED
    BY <1>3, <2>1, <2>2, <2>3, <2>4, <2>5, <2>6 DEF ShutdownStep
<1>4. ASSUME NEW t \in Threads, ThreadStep(t) PROVE JoinInv'
  <2>1. CASE CheckFlag(t)
    <3>1. pc[t] = "loop" /\ t \in refs /\ UNCHANGED <<joining, clientVars, joined>>
      BY <2>1 DEF CheckFlag, Release
    <3>2. dropper = Nobody /\ t \notin joined /\ joining[t] = Nobody
      BY <3>1
    <3>3. PICK s \in {"round", "signal", "done"} : pc' = [pc EXCEPT ![t] = s]
      BY <2>1 DEF CheckFlag, Release
    <3>4. dropper' = Nobody \/ (dropper' = t /\ pc'[t] = "signal")
      BY <2>1, <3>2 DEF CheckFlag, Release
    <3>5. \A a \in Actors : a # t => pc'[a] = pc[a]
      BY <3>3
    <3>6. pc'[t] \notin {"join", "clients"} /\ joining' = joining
      BY <3>1, <3>3
    <3>7. \A u \in joined' : pc'[u] = "done"
      BY <3>1, <3>2, <3>5
    <3>8. \A c \in Clients : client'[c] = "told" =>
            \E a \in Actors : pc'[a] = "clients" /\ joining'[a] = c
      BY <3>1, <3>5 DEF clientVars
    <3>9. QED
      BY <3>1, <3>2, <3>4, <3>5, <3>6, <3>7, <3>8 DEF clientVars
  <2>2. CASE EndRound(t)
    BY <2>2 DEF EndRound, bgVars, clientVars
  <2>3. CASE SelfJoin(t)
    BY <2>3 DEF SelfJoin, bgVars, clientVars
  <2>4. QED
    BY <1>4, <2>1, <2>2, <2>3 DEF ThreadStep
<1>5. ASSUME NEW c \in Clients, ClientEnds(c) PROVE JoinInv'
  BY <1>5 DEF ClientEnds, bgVars, clientVars
<1>6. QED
  BY <1>1, <1>2, <1>3, <1>4, <1>5 DEF LifeNext

(***************************************************************************)
(* The inductive invariant of start, shutdown and Drop.                    *)
(***************************************************************************)
THEOREM LifeInvariance == LifeSafety => []LifeInv
<1>1. LifeInit => LifeInv
  <2> SUFFICES ASSUME LifeInit PROVE LifeInv
    OBVIOUS
  <2> USE LifecycleAssumption DEF LifeInit, Actors, Threads
  <2>0. /\ pc \in [Actors -> OwnerStates \cup ThreadStates]
        /\ \A o \in Owners : pc[o] \in OwnerStates
        /\ \A t \in Threads : pc[t] \in ThreadStates
    BY DEF OwnerStates, ThreadStates
  <2>a. /\ joining \in [Actors -> Threads \cup Clients \cup {Nobody}]
        /\ client \in [Clients -> {"none", "run", "told", "done"}]
    OBVIOUS
  <2>b. refs \in SUBSET Actors /\ bg_thread = Nobody /\ spawned \in 0 .. MaxStarts
    OBVIOUS
  <2>1. LifeTypeOK
    BY <2>0, <2>a, <2>b DEF LifeTypeOK
  <2>2. ThreadsInv
    BY DEF ThreadsInv
  <2>3. FlagInv /\ HandleInv
    BY DEF FlagInv, HandleInv
  <2>4. DropInv
    BY DEF DropInv, InShutdown
  <2>5. JoinInv
    BY DEF JoinInv
  <2>6. QED
    BY <2>1, <2>2, <2>3, <2>4, <2>5 DEF LifeInv
<1>2. LifeInv /\ [LifeNext]_lifeVars => LifeInv'
  BY TypeStep, ThreadsStep, FlagStep, HandleStep, DropStep, JoinStep DEF LifeInv
<1>3. QED
  BY <1>1, <1>2, PTL DEF LifeSafety

(***************************************************************************)
(* However often start and shutdown are called, and by whom, no two        *)
(* background threads run a round at the same time.                        *)
(***************************************************************************)
THEOREM OneUpdaterHolds == LifeSafety => []OneUpdater
<1>1. LifeInv => OneUpdater
  BY LifecycleAssumption DEF LifeInv, LifeTypeOK, ThreadsInv, OneUpdater, Threads
<1>2. QED
  BY <1>1, LifeInvariance, PTL

(***************************************************************************)
(* Once the join of a background thread has returned, neither it nor any   *)
(* thread that is started later runs a round.                              *)
(***************************************************************************)
THEOREM JoinIsFinalHolds == LifeSafety => []JoinIsFinal
<1>1. LifeInv => JoinIsFinal
  BY LifecycleAssumption
  DEF LifeInv, LifeTypeOK, ThreadsInv, JoinInv, JoinIsFinal, Threads
<1>2. QED
  BY <1>1, LifeInvariance, PTL

(***************************************************************************)
(* When Drop of the server is over, no background thread and no client     *)
(* thread is left.                                                         *)
(***************************************************************************)
THEOREM DropLeavesNoThreadHolds == LifeSafety => []DropLeavesNoThread
<1>1. LifeInv => DropLeavesNoThread
  <2> SUFFICES ASSUME LifeInv, dropper # Nobody, pc[dropper] \in {"gone", "done"}
               PROVE  /\ \A t \in Threads : pc[t] \in {"none", "done"}
                      /\ \A c \in Clients : client[c] \in {"none", "done"}
    BY DEF DropLeavesNoThread
  <2>1. refs = {} /\ clients = {}
    BY DEF LifeInv, DropInv, JoinInv
  <2>2. \A a \in Actors : pc[a] # "clients"
    BY DEF LifeInv, DropInv
  <2>3. ASSUME NEW t \in Threads PROVE pc[t] \in {"none", "done"}
    <3>1. pc[t] \in ThreadStates /\ pc[t] \notin {"loop", "round"}
      BY <2>1 DEF LifeInv, LifeTypeOK, ThreadsInv
    <3>2. ~ InShutdown(t)
      BY DEF LifeInv, DropInv, InShutdown
    <3>3. QED
      BY <3>1, <3>2 DEF ThreadStates, InShutdown
  <2>4. ASSUME NEW c \in Clients PROVE client[c] \in {"none", "done"}
    BY <2>1, <2>2 DEF LifeInv, LifeTypeOK, JoinInv
  <2>5. QED
    BY <2>3, <2>4
<1>2. QED
  BY <1>1, LifeInvariance, PTL

(***************************************************************************)
(* A background thread that was started before any shutdown never runs     *)
(* Drop.  As in the inductive invariant, the reason is the owner that      *)
(* still waits for it when it lets go of its reference; the step is shown  *)
(* from LifeInv and the property before the step.                          *)
(***************************************************************************)
THEOREM ThreadDropsOnlyIfLateHolds == LifeSafety => []ThreadDropsOnlyIfLate
<1>1. LifeInit => ThreadDropsOnlyIfLate
  BY LifecycleAssumption DEF LifeInit, ThreadDropsOnlyIfLate, Threads
<1>2. ASSUME LifeInv, ThreadDropsOnlyIfLate, [LifeNext]_lifeVars
      PROVE  ThreadDropsOnlyIfLate'
  <2> USE <1>2, LifecycleAssumption DEF ThreadDropsOnlyIfLate, LifeInv, LifeTypeOK,
          Actors, Threads
  <2>1. ASSUME NEW a \in Actors, NEW from, NEW end, Release(a, from, end),
               pc[a] = "loop" => shutdown_flag,
               a \in Threads => from = "loop"
        PROVE  ThreadDropsOnlyIfLate'
    <3>1. CASE dropper' = dropper
      BY <2>1, <3>1 DEF Release, bgVars
    <3>2. CASE refs = {a} /\ dropper' = a /\ a \in Threads
      <4>1. pc[a] = "loop" /\ shutdown_flag /\ a < spawned
        BY <2>1, <3>2 DEF Release, Goto, ThreadsInv
      <4>2. a = 0 => a \in late
        BY <3>2, <4>1 DEF HandleInv
      <4>3. a \in late
        BY <3>2, <4>1, <4>2 DEF ThreadsInv
      <4>4. QED
        BY <2>1, <3>2, <4>3 DEF Release, bgVars
    <3>3. CASE dropper' = a /\ a \in Owners
      BY <3>3
    <3>4. QED
      BY <2>1, <3>1, <3>2, <3>3 DEF Release
  <2>2. CASE UNCHANGED <<dropper, late>>
    BY <2>2
  <2>3. ASSUME NEW o \in Owners, OwnerCall(o) PROVE ThreadDropsOnlyIfLate'
    <3>1. pc[o] # "loop" /\ o \notin Threads
      BY DEF OwnerStates
    <3>2. CASE DropRef(o) \/ Unwind(o)
      BY <2>1, <3>1, <3>2 DEF DropRef, Unwind
    <3>3. CASE Start(o)
      BY <3>3 DEF Start
    <3>4. QED
      BY <2>2, <2>3, <3>2, <3>3 DEF OwnerCall, CloneRef, StartPanics, Shutdown,
         AddClient, RemoveClient, bgVars
  <2>4. ASSUME NEW a \in Actors, ShutdownStep(a) PROVE UNCHANGED <<dropper, late>>
    BY <2>4 DEF ShutdownStep, Signal, Take, Join, DropClient, ClientDropped,
       Dropped, bgVars
  <2>5. ASSUME NEW t \in Threads, ThreadStep(t) PROVE ThreadDropsOnlyIfLate'
    <3>1. CASE CheckFlag(t) /\ shutdown_flag
      BY <2>1, <3>1 DEF CheckFlag
    <3>2. CASE UNCHANGED <<dropper, late>>
      BY <2>2, <3>2
    <3>3. QED
      BY <2>5, <3>1, <3>2 DEF ThreadStep, CheckFlag, EndRound, SelfJoin, bgVars
  <2>6. QED
    BY <1>2, <2>2, <2>3, <2>4, <2>5 DEF LifeNext, ClientEnds, lifeVars, bgVars
<1>3. QED
  BY <1>1, <1>2, LifeInvariance, PTL DEF LifeSafety
=============================================================================
