------------------------------- MODULE Client -------------------------------
(***************************************************************************)
(* One Client of src/client.rs as its owner may use it: new, start, send   *)
(* and drop, in any order, with a callback that may also panic.            *)
(*                                                                         *)
(* QuoteServer uses a client in one way only (start once, then one         *)
(* Shutdown).  Here start may be called again: it replaces the channel and *)
(* the handle, and the thread that was started before is detached.         *)
(***************************************************************************)
EXTENDS Integers, Sequences

CONSTANTS
    MaxStarts,      \* bound: calls of start
    MaxUpdates      \* bound: Updates sent over the life of the client

ASSUME ClientAssumption == MaxStarts \in Nat /\ MaxUpdates \in Nat

Threads == 0 .. (MaxStarts - 1)
None == -1

VARIABLES
    tx,             \* the thread at the other end of the channel, or None
    thread_handle,  \* the thread that the handle stands for, or None
    started,        \* calls of start
    updates,        \* Updates sent
    owner,          \* the caller: idle, in the join of send or of drop, or done
    result,         \* what the last send returned
    thread,         \* where each thread is
    queue           \* the channel of each thread

callVars == <<tx, thread_handle, started, updates, owner, result>>
clientVars == <<callVars, thread, queue>>

ClientTypeOK ==
    /\ tx \in Threads \cup {None}
    /\ thread_handle \in Threads \cup {None}
    /\ started \in 0 .. MaxStarts
    /\ updates \in 0 .. MaxUpdates
    /\ owner \in {"idle", "send", "drop", "dropped"}
    /\ result \in {"", "ok", "error"}
    /\ thread \in [Threads -> {"none", "recv", "pass", "done"}]
    /\ queue \in [Threads -> Seq({"Update", "Shutdown"})]

\* Client::new: no channel and no thread yet.
ClientInit ==
    /\ tx = None
    /\ thread_handle = None
    /\ started = 0
    /\ updates = 0
    /\ owner = "idle"
    /\ result = ""
    /\ thread = [t \in Threads |-> "none"]
    /\ queue = [t \in Threads |-> <<>>]

-----------------------------------------------------------------------------
(***************************************************************************)
(* The owner.                                                              *)
(***************************************************************************)

Start ==
    /\ owner = "idle"
    /\ started < MaxStarts
    /\ started' = started + 1
    /\ tx' = started
    /\ thread_handle' = started
    /\ thread' = [thread EXCEPT ![started] = "recv"]
    /\ UNCHANGED <<updates, owner, result, queue>>

(***************************************************************************)
(* start panics in thread::spawn: the new channel is in tx already, but    *)
(* its receiver is gone.  Unwinding drops the client, whose Shutdown goes  *)
(* nowhere.                                                                *)
(***************************************************************************)
StartPanics ==
    /\ owner = "idle"
    /\ started < MaxStarts
    /\ started' = started + 1
    /\ tx' = started
    /\ thread' = [thread EXCEPT ![started] = "done"]
    /\ owner' = "drop"
    /\ UNCHANGED <<thread_handle, updates, result, queue>>

\* The receiver is still there: the thread has not ended.
Connected == tx # None /\ thread[tx] # "done"

Enqueue(cmd) == queue' = [queue EXCEPT ![tx] = Append(@, cmd)]

\* send returns the error of the channel, or that there is none.
SendFails ==
    /\ owner = "idle"
    /\ ~ Connected
    /\ result' = "error"
    /\ UNCHANGED <<tx, thread_handle, started, updates, owner, thread, queue>>

SendUpdate ==
    /\ owner = "idle"
    /\ Connected
    /\ updates < MaxUpdates
    /\ updates' = updates + 1
    /\ Enqueue("Update")
    /\ result' = "ok"
    /\ UNCHANGED <<tx, thread_handle, started, owner, thread>>

\* send(Shutdown) goes on to join the thread.
SendShutdown ==
    /\ owner = "idle"
    /\ Connected
    /\ Enqueue("Shutdown")
    /\ owner' = "send"
    /\ UNCHANGED <<tx, thread_handle, started, updates, result, thread>>

\* Fault: the thread is detached.
JoinableAlways(t) == TRUE

\* join returns once the thread has ended, also by a panic.
Joinable(t) == thread[t] = "done"

\* Fault: the sender is not taken out of the client.
SendJoinedKeepsSender ==
    /\ owner = "send"
    /\ Joinable(thread_handle)
    /\ owner' = "idle"
    /\ thread_handle' = None
    /\ result' = "ok"
    /\ UNCHANGED <<tx, started, updates, thread, queue>>

SendJoined ==
    /\ owner = "send"
    /\ Joinable(thread_handle)
    /\ owner' = "idle"
    /\ thread_handle' = None
    /\ tx' = None
    /\ result' = "ok"
    /\ UNCHANGED <<started, updates, thread, queue>>

\* Fault: drop only closes the channel, which it does after the join.
SayGoodbyeNot == UNCHANGED queue

\* drop sends Shutdown, and does not care whether it arrives.
SayGoodbye == IF Connected THEN Enqueue("Shutdown") ELSE UNCHANGED queue

Drop ==
    /\ owner = "idle"
    /\ SayGoodbye
    /\ owner' = "drop"
    /\ UNCHANGED <<tx, thread_handle, started, updates, result, thread>>

\* The thread is joined, if there is one; then the fields are dropped.
DropJoined ==
    /\ owner = "drop"
    /\ thread_handle # None => Joinable(thread_handle)
    /\ owner' = "dropped"
    /\ thread_handle' = None
    /\ tx' = None
    /\ UNCHANGED <<started, updates, result, thread, queue>>

-----------------------------------------------------------------------------
(***************************************************************************)
(* The threads.                                                            *)
(***************************************************************************)

\* Fault: the thread keeps a sender of its own channel.
SenderGoneNever(t) == FALSE

SenderGone(t) == tx # t

\* recv returns a command, or an error when all is read and the sender is gone.
Recv(t) ==
    /\ thread[t] = "recv"
    /\ IF queue[t] = <<>>
       THEN /\ SenderGone(t)
            /\ thread' = [thread EXCEPT ![t] = "done"]
            /\ UNCHANGED queue
       ELSE /\ queue' = [queue EXCEPT ![t] = Tail(@)]
            /\ thread' = [thread EXCEPT ![t] =
                            IF Head(queue[t]) = "Update" THEN "pass" ELSE "done"]
    /\ UNCHANGED callVars

\* The pass over the tickers ends; a callback that panics ends the thread.
EndPass(t) ==
    /\ thread[t] = "pass"
    /\ thread' \in {[thread EXCEPT ![t] = s] : s \in {"recv", "done"}}
    /\ UNCHANGED <<callVars, queue>>

ClientNext ==
    \/ Start
    \/ StartPanics
    \/ SendFails
    \/ SendUpdate
    \/ SendShutdown
    \/ SendJoined
    \/ Drop
    \/ DropJoined
    \/ \E t \in Threads : Recv(t) \/ EndPass(t)

ClientSafety == ClientInit /\ [][ClientNext]_clientVars

\* The threads run and a join that can return does; callbacks come to an end.
ClientSpec ==
    /\ ClientSafety
    /\ WF_clientVars(SendJoined \/ DropJoined)
    /\ \A t \in Threads : WF_clientVars(Recv(t) \/ EndPass(t))
-----------------------------------------------------------------------------
(***************************************************************************)
(* Properties.                                                             *)
(***************************************************************************)

Running(t) == thread[t] \in {"recv", "pass"}

(***************************************************************************)
(* Without a handle there is no thread but those that a later start had    *)
(* detached: after a Shutdown or a drop the latest one has ended, whether  *)
(* by the command or by a panic that made a send fail before.              *)
(***************************************************************************)
NoHandleNoThread ==
    thread_handle = None => \A t \in Threads : Running(t) => t < started - 1

(***************************************************************************)
(* What makes it inductive.  The handle and the sender belong to the       *)
(* thread started last; only a start that panicked leaves the handle       *)
(* behind, and then its own thread was never there.  Threads that were not *)
(* started do not run.                                                     *)
(***************************************************************************)
HandleOfLatest ==
    /\ owner \in {"idle", "send"} => tx = thread_handle
    /\ owner = "send" => thread_handle # None
    /\ owner = "dropped" => thread_handle = None
    /\ thread_handle # None => started > 0
    /\ thread_handle # None =>
        \/ thread_handle = started - 1
        \/ owner = "drop" /\ thread[started - 1] = "done"

NotStarted == \A t \in Threads : t >= started => ~ Running(t)

ClientInv == ClientTypeOK /\ HandleOfLatest /\ NotStarted /\ NoHandleNoThread

\* A send of Shutdown and a drop return, whatever is still in the channel.
JoinReturns == owner \in {"send", "drop"} ~> owner \in {"idle", "dropped"}

\* A thread whose channel was replaced or dropped ends: no thread is leaked.
DetachedThreadEnds ==
    \A t \in Threads : Running(t) /\ tx # t ~> thread[t] = "done"
=============================================================================
