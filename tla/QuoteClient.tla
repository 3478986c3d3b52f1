----------------------------- MODULE QuoteClient -----------------------------
(***************************************************************************)
(* The command line client of bins/client/main.rs.  Two of its threads use *)
(* the TCP connection: the main thread (cli), which sends what the user    *)
(* types, and the keep-alive thread (ka), which sends a PING from time to  *)
(* time.  Each takes the mutex around the stream and the mutex around the  *)
(* reader, writes a command, waits for one line, and on any error connects *)
(* again with both mutexes held.                                           *)
(*                                                                         *)
(* The server and the network are free: a write or a read may fail at any  *)
(* time (the read after a timeout, too), the server may go away and come   *)
(* back, and it answers the commands on a connection in order, or not.     *)
(***************************************************************************)
EXTENDS Integers, Sequences

CONSTANTS
    Scripts,    \* what the user may type: sequences of commands
    MaxPings,   \* bound: pings of the keep-alive thread
    Nobody

UserCommands == {"PING", "STREAM", "BAD STREAM", "STOP", "OTHER"}

ASSUME ScriptsAssumption ==
    /\ Scripts \subseteq Seq(UserCommands)
    /\ Nobody \notin {"cli", "ka"}

ASSUME PingsAssumption == MaxPings \in Nat

Procs == {"cli", "ka"}
Mutexes == {"stream", "reader"}

VARIABLES
    at,         \* where each thread is
    lock,       \* owner of the mutex around the stream, and around the reader
    doing,      \* the command of each thread
    script,     \* what the user has still to type
    pings,      \* how often the keep-alive thread has woken up
    pending,    \* commands on the connection whose replies were not yet read
    shown,      \* what the user has seen of the last command: its reply
    reachable   \* the server accepts connections

appVars == <<at, lock, doing, script, pings, pending, shown, reachable>>

Places == {"off", "connect", "bind", "idle", "first", "second", "write",
           "newline", "read", "reconnect", "swap", "exited"}

\* A thread that is there has both mutexes.
Exchange == {"write", "newline", "read", "reconnect", "swap"}

AppReplies == {"PONG", "STREAM OK", "STOP OK", "ERR Invalid command"}

AppTypeOK ==
    /\ at \in [Procs -> Places]
    /\ lock \in [Mutexes -> Procs \cup {Nobody}]
    /\ doing \in [Procs -> UserCommands]
    /\ script \in Seq(UserCommands)
    /\ pings \in 0 .. MaxPings
    /\ pending \in Seq(UserCommands)
    /\ shown \in AppReplies \cup {"", "failed"}
    /\ reachable \in BOOLEAN

AppInit ==
    /\ at = [p \in Procs |-> IF p = "cli" THEN "connect" ELSE "off"]
    /\ lock = [m \in Mutexes |-> Nobody]
    /\ doing = [p \in Procs |-> "PING"]
    /\ script \in Scripts
    /\ pings = 0
    /\ pending = <<>>
    /\ shown = ""
    /\ reachable = TRUE

\* The replies of handle_ping, handle_stream, handle_stop and handle_invalid; a
\* malformed STREAM is not answered at all.
ReplyTo == [c \in UserCommands \ {"BAD STREAM"} |->
    IF c = "PING" THEN "PONG"
    ELSE IF c = "STREAM" THEN "STREAM OK"
    ELSE IF c = "STOP" THEN "STOP OK" ELSE "ERR Invalid command"]

Move(p, from, to) == at[p] = from /\ at' = [at EXCEPT ![p] = to]

-----------------------------------------------------------------------------
(***************************************************************************)
(* main up to the command loop, and the ends of the process.               *)
(***************************************************************************)

\* The first connection is there: the keep-alive thread is started.
FirstConnect ==
    /\ reachable
    /\ at["cli"] = "connect"
    /\ at' = [at EXCEPT !["cli"] = "bind", !["ka"] = "idle"]
    /\ UNCHANGED <<lock, doing, script, pings, pending, shown, reachable>>

\* The UDP port is bound, the listener is started and the prompt appears.
BindUdp ==
    /\ Move("cli", "bind", "idle")
    /\ UNCHANGED <<lock, doing, script, pings, pending, shown, reachable>>

(***************************************************************************)
(* main returns and takes the keep-alive thread with it: the user types    *)
(* EXIT, stdin or stdout fails, or there is no first connection or no UDP  *)
(* port.                                                                   *)
(***************************************************************************)
Exit ==
    /\ at["cli"] \in {"connect", "bind", "idle"}
    /\ at' = [p \in Procs |-> "exited"]
    /\ UNCHANGED <<lock, doing, script, pings, pending, shown, reachable>>

-----------------------------------------------------------------------------
(***************************************************************************)
(* An exchange: send_command or send_ping with the mutexes around it.      *)
(***************************************************************************)

\* The user types a command that is not blank and not EXIT.
TypeCommand ==
    /\ Move("cli", "idle", "first")
    /\ script # <<>>
    /\ doing' = [doing EXCEPT !["cli"] = Head(script)]
    /\ script' = Tail(script)
    /\ shown' = ""
    /\ UNCHANGED <<lock, pings, pending, reachable>>

\* The sleep of the keep-alive thread is over.
WakeUp ==
    /\ Move("ka", "idle", "first")
    /\ pings < MaxPings
    /\ pings' = pings + 1
    /\ UNCHANGED <<lock, doing, script, pending, shown, reachable>>

\* Fault: the keep-alive thread locks the reader before the stream.
FirstMutexOfKa(p) == IF p = "ka" THEN "reader" ELSE "stream"

\* Both loops lock the stream first and the reader second.
FirstMutex(p) == "stream"

LockFirst(p) ==
    /\ Move(p, "first", "second")
    /\ lock[FirstMutex(p)] = Nobody
    /\ lock' = [lock EXCEPT ![FirstMutex(p)] = p]
    /\ UNCHANGED <<doing, script, pings, pending, shown, reachable>>

LockSecond(p) ==
    /\ Move(p, "second", "write")
    /\ \E m \in Mutexes \ {FirstMutex(p)} :
        lock[m] = Nobody /\ lock' = [lock EXCEPT ![m] = p]
    /\ UNCHANGED <<doing, script, pings, pending, shown, reachable>>

\* send_ping writes the line at once, send_command its newline separately.
Write(p) ==
    /\ Move(p, "write", IF p = "ka" THEN "read" ELSE "newline")
    /\ pending' = Append(pending, doing[p])
    /\ UNCHANGED <<lock, doing, script, pings, shown, reachable>>

WriteNewline(p) ==
    /\ Move(p, "newline", "read")
    /\ UNCHANGED <<lock, doing, script, pings, pending, shown, reachable>>

\* The guards go out of scope at the end of a round of either loop.
Unlock == lock' = [m \in Mutexes |-> Nobody]

(***************************************************************************)
(* read_line returns the reply r to the first command that waits for one.  *)
(* The cli prints it; the keep-alive thread takes anything but PONG for a  *)
(* failure.                                                                *)
(***************************************************************************)
ReadReply(p, r) ==
    /\ pending # <<>>
    /\ pending' = Tail(pending)
    /\ IF p = "ka" /\ r # "PONG"
       THEN Move(p, "read", "reconnect") /\ UNCHANGED lock
       ELSE Move(p, "read", "idle") /\ Unlock
    /\ shown' = IF p = "cli" THEN r ELSE shown
    /\ UNCHANGED <<doing, script, pings, reachable>>

\* Fault: the error is reported and the connection is used again.
AfterErrorGoOn(p) == at' = [at EXCEPT ![p] = "idle"] /\ Unlock

\* After an error the thread connects again and keeps the mutexes.
AfterError(p) == at' = [at EXCEPT ![p] = "reconnect"] /\ UNCHANGED lock

\* A write fails, or the read: end of file, an error, or five seconds without data.
ExchangeFails(p) ==
    /\ at[p] \in {"write", "newline", "read"}
    /\ AfterError(p)
    /\ shown' = IF p = "cli" THEN "failed" ELSE shown
    /\ UNCHANGED <<doing, script, pings, pending, reachable>>

\* reconnect: connect succeeds; until then it is tried again and again.
Reconnect(p) ==
    /\ reachable
    /\ Move(p, "reconnect", "swap")
    /\ UNCHANGED <<lock, doing, script, pings, pending, shown, reachable>>

\* The new stream and reader replace the old ones, which are closed.
Swap(p) ==
    /\ Move(p, "swap", "idle")
    /\ Unlock
    /\ pending' = <<>>
    /\ UNCHANGED <<doing, script, pings, shown, reachable>>

\* The server goes away or comes back.
ServerToggles ==
    /\ reachable' = ~ reachable
    /\ UNCHANGED <<at, lock, doing, script, pings, pending, shown>>

-----------------------------------------------------------------------------
ProcStep(p) ==
    \/ LockFirst(p)
    \/ LockSecond(p)
    \/ Write(p)
    \/ WriteNewline(p)
    \/ /\ pending # <<>>
       /\ Head(pending) \in DOMAIN ReplyTo
       /\ ReadReply(p, ReplyTo[Head(pending)])
    \/ ExchangeFails(p)
    \/ Reconnect(p)
    \/ Swap(p)

AppNext ==
    \/ FirstConnect
    \/ BindUdp
    \/ Exit
    \/ TypeCommand
    \/ WakeUp
    \/ \E p \in Procs : ProcStep(p)
    \/ ServerToggles

AppSafety == AppInit /\ [][AppNext]_appVars

(***************************************************************************)
(* Both threads run, and a mutex that is free again and again is obtained: *)
(* the threads sleep, or wait for the user, between two exchanges.         *)
(* Nothing obliges the user to type, the server to answer (a read ends     *)
(* after its timeout) or to come back.                                     *)
(***************************************************************************)
AppFairness ==
    /\ WF_appVars(WakeUp)
    /\ \A p \in Procs : WF_appVars(ProcStep(p)) /\ SF_appVars(LockFirst(p))

AppSpec == AppSafety /\ AppFairness
-----------------------------------------------------------------------------
(***************************************************************************)
(* Properties.                                                             *)
(***************************************************************************)

(***************************************************************************)
(* A thread that waits for a reply has the only command on the connection  *)
(* that was not answered: what it reads, even late, belongs to its own     *)
(* command, and never to one that timed out or to a ping.                  *)
(***************************************************************************)
ReplyIsOwn ==
    \A p \in Procs : at[p] \in {"newline", "read"} => pending = <<doing[p]>>

(***************************************************************************)
(* The mutexes are held from the first lock to the end of the exchange or  *)
(* of the reconnect, and nothing is left on the connection between two     *)
(* exchanges.  With the types and ReplyIsOwn this is inductive.            *)
(***************************************************************************)
ExchangeLocked ==
    /\ \A p \in Procs : at[p] \in {"second"} \cup Exchange => lock["stream"] = p
    /\ \A p \in Procs : at[p] \in Exchange => lock["reader"] = p
    /\ \A m \in Mutexes : lock[m] # Nobody =>
        at[lock[m]] \in {"second", "exited"} \cup Exchange

IdleWire ==
    pending # <<>> => \E p \in Procs : at[p] \in (Exchange \ {"write"}) \cup {"exited"}

\* The keep-alive thread starts after the first connect and ends with main.
LifeTogether ==
    /\ at["ka"] = "off" <=> at["cli"] = "connect"
    /\ at["ka"] = "exited" <=> at["cli"] = "exited"

AppInv == AppTypeOK /\ LifeTogether /\ ExchangeLocked /\ IdleWire /\ ReplyIsOwn

(***************************************************************************)
(* If the server is up for good some day, a command that was typed comes   *)
(* to an end, with a reply or a new connection, also when the keep-alive   *)
(* thread has lost the connection and reconnects with the mutexes held.    *)
(***************************************************************************)
CommandReturns ==
    <>[]reachable => (at["cli"] = "first" ~> at["cli"] \in {"idle", "exited"})

(***************************************************************************)
(* Then the keep-alive thread, too, gets through to the connection each    *)
(* time it wakes up: the two threads never wait for each other's mutex.    *)
(***************************************************************************)
PingIsSent ==
    <>[]reachable => (at["ka"] = "first" ~> at["ka"] \in {"write", "exited"})
=============================================================================
