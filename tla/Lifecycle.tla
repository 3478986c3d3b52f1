------------------------------ MODULE Lifecycle ------------------------------
(***************************************************************************)
(* The life of a QuoteServer: start, shutdown and Drop of                  *)
(* src/quote_server.rs and Drop of src/client.rs.                          *)
(*                                                                         *)
(* The server lives in an Arc.  Owners (the main thread, the TCP server,   *)
(* handler threads) hold references to it, and so does every background    *)
(* thread that start has spawned.  Whoever drops the last reference runs   *)
(* Drop: a shutdown, and then the end of every client in the map.  What a  *)
(* background thread does in one round is the subject of QuoteServer; here *)
(* a round is one state.                                                   *)
(***************************************************************************)
EXTENDS Integers, FiniteSets

CONSTANTS
    Owners,         \* threads that may hold a reference and make calls
    Main,           \* the owner that creates the server
    Clients,        \* clients that may be added
    Nobody,
    MaxStarts,      \* bound: background threads that start spawns
    SpawnMayFail    \* thread::spawn may panic for lack of resources

Threads == 0 .. (MaxStarts - 1)

ASSUME LifecycleAssumption ==
    /\ Main \in Owners
    /\ Owners \cap Int = {}
    /\ Clients \cap Int = {}
    /\ Nobody \notin Owners \cup Clients \cup Int
    /\ MaxStarts \in Nat
    /\ SpawnMayFail \in BOOLEAN

Actors == Owners \cup Threads

VARIABLES
    shutdown_flag,  \* the field
    bg_thread,      \* the thread whose JoinHandle is in the field, or Nobody
    poisoned,       \* the mutex around bg_thread is poisoned
    spawned,        \* how many background threads there have been
    pc,             \* where each owner and each background thread is
    refs,           \* who holds a reference: the strong count
    joining,        \* the thread that each actor is joining, or Nobody
    dropper,        \* who runs Drop of the server, or Nobody
    clients,        \* the `clients` map
    client,         \* where the thread of each client is
    late,           \* history: threads spawned after the flag was set
    joined          \* history: background threads whose join has returned

bgVars == <<shutdown_flag, bg_thread, poisoned, spawned, late>>
clientVars == <<clients, client>>
lifeVars == <<bgVars, pc, refs, joining, dropper, clientVars, joined>>

OwnerStates == {"absent", "idle", "unwind", "signal", "take", "join", "clients",
                "gone"}
ThreadStates == {"none", "loop", "round", "signal", "take", "join", "clients",
                 "done"}

LifeTypeOK ==
    /\ shutdown_flag \in BOOLEAN
    /\ bg_thread \in Threads \cup {Nobody}
    /\ poisoned \in BOOLEAN
    /\ spawned \in 0 .. MaxStarts
    /\ pc \in [Actors -> OwnerStates \cup ThreadStates]
    /\ \A o \in Owners : pc[o] \in OwnerStates
    /\ \A t \in Threads : pc[t] \in ThreadStates
    /\ refs \in SUBSET Actors
    /\ joining \in [Actors -> Threads \cup Clients \cup {Nobody}]
    /\ dropper \in Actors \cup {Nobody}
    /\ clients \in SUBSET Clients
    /\ client \in [Clients -> {"none", "run", "told", "done"}]
    /\ late \in SUBSET Threads
    /\ joined \in SUBSET Threads

\* from_config and Arc::new in the main thread.
LifeInit ==
    /\ shutdown_flag = FALSE
    /\ bg_thread = Nobody
    /\ poisoned = FALSE
    /\ spawned = 0
    /\ pc = [a \in Actors |-> IF a = Main THEN "idle"
                              ELSE IF a \in Owners THEN "absent" ELSE "none"]
    /\ refs = {Main}
    /\ joining = [a \in Actors |-> Nobody]
    /\ dropper = Nobody
    /\ clients = {}
    /\ client = [c \in Clients |-> "none"]
    /\ late = {}
    /\ joined = {}

Goto(a, from, to) == pc[a] = from /\ pc' = [pc EXCEPT ![a] = to]

-----------------------------------------------------------------------------
(***************************************************************************)
(* Calls of the owners.                                                    *)
(***************************************************************************)

\* The reference is cloned for a thread that is about to use the server.
CloneRef(o, p) ==
    /\ pc[o] = "idle"
    /\ Goto(p, "absent", "idle")
    /\ refs' = refs \cup {p}
    /\ UNCHANGED <<bgVars, joining, dropper, clientVars, joined>>

\* Fault: start begins a new life by resetting the flag.
FlagAtStartReset == FALSE

\* start leaves the flag as it is.
FlagAtStart == shutdown_flag

(***************************************************************************)
(* start, all of it under the mutex around bg_thread: without a handle in  *)
(* it, a thread is spawned with a reference of its own.  With a handle, or *)
(* with the mutex poisoned, start changes nothing.                         *)
(***************************************************************************)
Start(o) ==
    /\ pc[o] = "idle"
    /\ ~ poisoned
    /\ bg_thread = Nobody
    /\ spawned < MaxStarts
    /\ shutdown_flag' = FlagAtStart
    /\ bg_thread' = spawned
    /\ spawned' = spawned + 1
    /\ pc' = [pc EXCEPT ![spawned] = "loop"]
    /\ refs' = refs \cup {spawned}
    /\ late' = IF shutdown_flag THEN late \cup {spawned} ELSE late
    /\ UNCHANGED <<poisoned, joining, dropper, clientVars, joined>>

\* start panics in thread::spawn: the mutex is poisoned and the owner unwinds.
StartPanics(o) ==
    /\ SpawnMayFail
    /\ Goto(o, "idle", "unwind")
    /\ ~ poisoned
    /\ bg_thread = Nobody
    /\ poisoned' = TRUE
    /\ UNCHANGED <<shutdown_flag, bg_thread, spawned, late, refs, joining,
                   dropper, clientVars, joined>>

Shutdown(o) ==
    /\ Goto(o, "idle", "signal")
    /\ UNCHANGED <<bgVars, refs, joining, dropper, clientVars, joined>>

\* add_client does not look at the flag.
AddClient(o, c) ==
    /\ pc[o] = "idle"
    /\ client[c] = "none"
    /\ clients' = clients \cup {c}
    /\ client' = [client EXCEPT ![c] = "run"]
    /\ UNCHANGED <<bgVars, pc, refs, joining, dropper, joined>>

\* remove_client joins the thread of the client before it returns.
RemoveClient(o, c) ==
    /\ pc[o] = "idle"
    /\ c \in clients
    /\ clients' = clients \ {c}
    /\ client' = [client EXCEPT ![c] = "done"]
    /\ UNCHANGED <<bgVars, pc, refs, joining, dropper, joined>>

\* Fault: a thread that ends does not give its reference back.
ReleaseOwnersOnly(a, from, end) ==
    /\ Goto(a, from, end)
    /\ refs' = IF a \in Owners THEN refs \ {a} ELSE refs
    /\ UNCHANGED <<bgVars, joining, dropper, clientVars, joined>>

\* a gives up its reference; if it was the last one, a runs Drop.
Release(a, from, end) ==
    /\ refs' = refs \ {a}
    /\ IF refs = {a}
       THEN Goto(a, from, "signal") /\ dropper' = a
       ELSE Goto(a, from, end) /\ UNCHANGED dropper
    /\ UNCHANGED <<bgVars, joining, clientVars, joined>>

DropRef(o) == Release(o, "idle", "gone")

Unwind(o) == Release(o, "unwind", "gone")

-----------------------------------------------------------------------------
(***************************************************************************)
(* The steps of shutdown, called by an owner or from Drop.                 *)
(***************************************************************************)

\* The flag is set.
Signal(a) ==
    /\ Goto(a, "signal", "take")
    /\ shutdown_flag' = TRUE
    /\ UNCHANGED <<bg_thread, poisoned, spawned, late, refs, joining, dropper,
                   clientVars, joined>>

\* shutdown returns, to the owner or to the drop of the fields.
Returned(a) == IF dropper = a THEN "clients" ELSE "idle"

(***************************************************************************)
(* The handle is taken out of bg_thread under the mutex, which is released *)
(* before the join.  Without a handle, and with the mutex poisoned, there  *)
(* is nothing to join.                                                     *)
(***************************************************************************)
Take(a) ==
    /\ IF bg_thread = Nobody \/ poisoned
       THEN Goto(a, "take", Returned(a)) /\ UNCHANGED <<bg_thread, joining>>
       ELSE /\ Goto(a, "take", "join")
            /\ joining' = [joining EXCEPT ![a] = bg_thread]
            /\ bg_thread' = Nobody
    /\ UNCHANGED <<shutdown_flag, poisoned, spawned, late, refs, dropper,
                   clientVars, joined>>

\* Fault: the thread is detached.
CanJoinDetached(t) == TRUE

CanJoin(t) == pc[t] = "done"

\* handle.join() returns.
Join(a) ==
    /\ Goto(a, "join", Returned(a))
    /\ joining[a] # a
    /\ CanJoin(joining[a])
    /\ joining' = [joining EXCEPT ![a] = Nobody]
    /\ joined' = joined \cup {joining[a]}
    /\ UNCHANGED <<bgVars, refs, dropper, clientVars>>

\* A thread that joins itself panics; unwinding goes on to drop the fields.
SelfJoin(t) ==
    /\ Goto(t, "join", "clients")
    /\ joining[t] = t
    /\ joining' = [joining EXCEPT ![t] = Nobody]
    /\ UNCHANGED <<bgVars, refs, dropper, clientVars, joined>>

\* Fault: Drop of a client does not join its thread.
MustJoinClientNot(c) == FALSE

MustJoinClient(c) == TRUE

\* The `clients` map is dropped: Drop of a client sends Shutdown ...
DropClient(a, c) ==
    /\ pc[a] = "clients"
    /\ joining[a] = Nobody
    /\ c \in clients
    /\ clients' = clients \ {c}
    /\ client' = [client EXCEPT ![c] = "told"]
    /\ joining' = [joining EXCEPT ![a] = IF MustJoinClient(c) THEN c ELSE Nobody]
    /\ UNCHANGED <<bgVars, pc, refs, dropper, joined>>

\* ... and joins the thread.
ClientDropped(a) ==
    /\ pc[a] = "clients"
    /\ joining[a] # Nobody
    /\ client[joining[a]] = "done"
    /\ joining' = [joining EXCEPT ![a] = Nobody]
    /\ UNCHANGED <<bgVars, pc, refs, dropper, clientVars, joined>>

\* Nothing is left of the server; the dropper goes on, a thread ends.
Dropped(a) ==
    /\ joining[a] = Nobody
    /\ clients = {}
    /\ Goto(a, "clients", IF a \in Owners THEN "gone" ELSE "done")
    /\ UNCHANGED <<bgVars, refs, joining, dropper, clientVars, joined>>

-----------------------------------------------------------------------------
(***************************************************************************)
(* The threads.                                                            *)
(***************************************************************************)

\* The head of the loop: with the flag set the closure ends, reference and all.
CheckFlag(t) ==
    IF shutdown_flag
    THEN pc[t] = "loop" /\ Release(t, "loop", "done")
    ELSE /\ Goto(t, "loop", "round")
         /\ UNCHANGED <<bgVars, refs, joining, dropper, clientVars, joined>>

\* sleep, update_quotes and notify_clients are over.
EndRound(t) ==
    /\ Goto(t, "round", "loop")
    /\ UNCHANGED <<bgVars, refs, joining, dropper, clientVars, joined>>

\* A client thread gets to the Shutdown in its channel.
ClientEnds(c) ==
    /\ client[c] = "told"
    /\ client' = [client EXCEPT ![c] = "done"]
    /\ UNCHANGED <<bgVars, pc, refs, joining, dropper, clients, joined>>

ShutdownStep(a) ==
    \/ Signal(a)
    \/ Take(a)
    \/ Join(a)
    \/ \E c \in Clients : DropClient(a, c)
    \/ ClientDropped(a)
    \/ Dropped(a)

ThreadStep(t) == CheckFlag(t) \/ EndRound(t) \/ SelfJoin(t)

OwnerCall(o) ==
    \/ \E p \in Owners : CloneRef(o, p)
    \/ Start(o)
    \/ StartPanics(o)
    \/ Shutdown(o)
    \/ \E c \in Clients : AddClient(o, c) \/ RemoveClient(o, c)
    \/ DropRef(o)
    \/ Unwind(o)

LifeNext ==
    \/ \E o \in Owners : OwnerCall(o)
    \/ \E a \in Actors : ShutdownStep(a)
    \/ \E t \in Threads : ThreadStep(t)
    \/ \E c \in Clients : ClientEnds(c)

LifeSafety == LifeInit /\ [][LifeNext]_lifeVars

\* Every thread that can run runs; nothing obliges an owner to make a call.
LifeFairness ==
    /\ \A a \in Actors : WF_lifeVars(ShutdownStep(a))
    /\ \A t \in Threads : WF_lifeVars(ThreadStep(t))
    /\ \A c \in Clients : WF_lifeVars(ClientEnds(c))

LifeSpec == LifeSafety /\ LifeFairness
-----------------------------------------------------------------------------
(***************************************************************************)
(* Properties.                                                             *)
(***************************************************************************)

InShutdown(a) == pc[a] \in {"signal", "take", "join", "clients"}

(***************************************************************************)
(* Never do two background threads update and notify at the same time,     *)
(* although shutdown takes the handle away before the thread has ended and *)
(* start then spawns another one.                                          *)
(***************************************************************************)
OneUpdater ==
    \A t, u \in Threads : pc[t] = "round" /\ pc[u] = "round" => t = u

(***************************************************************************)
(* The join of a background thread is final: neither that thread nor one   *)
(* that start spawns later ever runs another round.  Only a thread from    *)
(* before it may still be in its last round, with its own join under way.  *)
(***************************************************************************)
JoinIsFinal ==
    \A t \in joined, u \in Threads : t <= u => pc[u] # "round"

(***************************************************************************)
(* A background thread holds the last reference, and so runs Drop and the  *)
(* join of itself, only if it was started after a shutdown.                *)
(***************************************************************************)
ThreadDropsOnlyIfLate == dropper \in Threads => dropper \in late

(***************************************************************************)
(* When Drop is over, no thread of the server is left: the background      *)
(* threads (but for the one that ran Drop) and all clients have ended.     *)
(***************************************************************************)
DropLeavesNoThread ==
    dropper # Nobody /\ pc[dropper] \in {"gone", "done"} =>
        /\ \A t \in Threads : pc[t] \in {"none", "done"}
        /\ \A c \in Clients : client[c] \in {"none", "done"}

(***************************************************************************)
(* Why these hold.  The flag is never reset, so that only a thread from    *)
(* before the first shutdown, which is thread 0, ever runs a round; once   *)
(* the flag is set, an owner that still has its reference is about to take *)
(* the handle of thread 0 or joins it, until that thread has ended.  The   *)
(* conjunction LifeInv is inductive.                                       *)
(***************************************************************************)
ThreadsInv ==
    \A t \in Threads :
        /\ pc[t] = "none" <=> t >= spawned
        /\ t > 0 /\ t < spawned => t \in late
        /\ pc[t] = "round" => t \notin late
        /\ pc[t] \in {"loop", "round"} => t \in refs

FlagInv ==
    /\ ~ shutdown_flag =>
        /\ spawned \in {0, 1}
        /\ late = {}
        /\ spawned = 1 => bg_thread = 0 /\ pc[0] \in {"loop", "round"}
        /\ \A a \in Actors : pc[a] \notin {"take", "join", "clients"}
    /\ bg_thread # Nobody => ~ poisoned /\ bg_thread < spawned
    /\ late # {} => shutdown_flag

HandleInv ==
    shutdown_flag /\ spawned > 0 /\ 0 \notin late /\ pc[0] \in {"loop", "round"} =>
        \E o \in Owners \cap refs :
            \/ pc[o] = "take" /\ bg_thread = 0
            \/ pc[o] = "join" /\ joining[o] = 0

DropInv ==
    /\ dropper # Nobody => refs = {} /\ pc[dropper] \notin {"idle", "unwind", "none", "loop", "round"}
    /\ \A o \in Owners :
        pc[o] \in {"idle", "unwind"} \/ (InShutdown(o) /\ dropper # o) => o \in refs
    /\ \A t \in Threads : InShutdown(t) => dropper = t
    /\ \A a \in Actors : pc[a] = "clients" => dropper = a

JoinInv ==
    /\ \A t \in joined : pc[t] = "done"
    /\ \A a \in Actors :
        /\ pc[a] = "join" => joining[a] \in Threads
        /\ pc[a] = "clients" => joining[a] \in Clients \cup {Nobody}
        /\ pc[a] \notin {"join", "clients"} => joining[a] = Nobody
    /\ \A c \in Clients :
        /\ client[c] = "run" <=> c \in clients
        /\ client[c] = "told" => \E a \in Actors : pc[a] = "clients" /\ joining[a] = c
    /\ dropper # Nobody /\ pc[dropper] \in {"gone", "done"} => clients = {}

LifeInv == LifeTypeOK /\ ThreadsInv /\ FlagInv /\ HandleInv /\ DropInv /\ JoinInv

\* Every shutdown returns, and so does every Drop with its joins.
ShutdownReturns == \A a \in Actors : InShutdown(a) ~> ~ InShutdown(a)

(***************************************************************************)
(* A server that was shut down once and whose owners have let go of it     *)
(* comes to its end, with every thread: those that a start after the       *)
(* shutdown has spawned, the one that drops the last reference and joins   *)
(* itself, and the clients that were added meanwhile.                      *)
(***************************************************************************)
ShutServerEnds ==
    shutdown_flag /\ (\A o \in Owners : pc[o] \in {"absent", "gone"}) ~>
        /\ \A t \in Threads : pc[t] \in {"none", "done"}
        /\ \A c \in Clients : client[c] \in {"none", "done"}
=============================================================================
