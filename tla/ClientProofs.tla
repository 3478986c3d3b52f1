---------------------------- MODULE ClientProofs ----------------------------
(***************************************************************************)
(* A Client without a handle has left no running thread behind but those   *)
(* a later start has detached, for every order of the calls of its owner   *)
(* and any number of starts and Updates.                                   *)
(***************************************************************************)
EXTENDS Client, SequenceTheorems, TLAPS

\* The next thread, and the next number of starts.
LEMMA NextThread ==
    ASSUME started \in 0 .. MaxStarts, started < MaxStarts
    PROVE  /\ started \in Threads
           /\ started # None
           /\ started + 1 \in 0 .. MaxStarts
           /\ started + 1 > 0
           /\ (started + 1) - 1 = started
BY ClientAssumption DEF Threads, None

\* The number of starts is an integer.
LEMMA StartedNumber ==
    ASSUME started \in 0 .. MaxStarts
    PROVE  started \in Int
BY ClientAssumption

\* The last of the threads that were started is one.
LEMMA LastThread ==
    ASSUME started \in 0 .. MaxStarts, started > 0
    PROVE  started - 1 \in Threads
BY ClientAssumption DEF Threads

\* One more Update.
LEMMA NextUpdate ==
    ASSUME updates \in 0 .. MaxUpdates, updates < MaxUpdates
    PROVE  updates + 1 \in 0 .. MaxUpdates
BY ClientAssumption

\* A number below another one and not just below it.
LEMMA Below == \A a, b \in Int : a < b /\ a # b - 1 => a < b - 1
OBVIOUS

\* The handle of a client that waits in send is that of a thread.
LEMMA SendHasHandle ==
    ASSUME ClientInv, owner = "send"
    PROVE  thread_handle \in Threads
BY DEF ClientInv, ClientTypeOK, HandleOfLatest

(***************************************************************************)
(* When the thread started last has ended, those that run were started     *)
(* before it.                                                              *)
(***************************************************************************)
LEMMA LatestEnded ==
    ASSUME started \in 0 .. MaxStarts, NotStarted, ~ Running(started - 1)
    PROVE  \A t \in Threads : Running(t) => t < started - 1
<1> SUFFICES ASSUME NEW t \in Threads, Running(t) PROVE t < started - 1
  OBVIOUS
<1>1. t \in Int /\ started \in Int /\ MaxStarts \in Int
  BY ClientAssumption DEF Threads
<1>2. t < started
  BY <1>1 DEF NotStarted
<1>3. t # started - 1
  OBVIOUS
<1>4. QED
  BY <1>1, <1>2, <1>3, Below

\* A command that is sent goes to the end of the channel.
LEMMA EnqueueType ==
    ASSUME ClientTypeOK, NEW cmd \in {"Update", "Shutdown"}, tx \in Threads, Enqueue(cmd)
    PROVE  queue' \in [Threads -> Seq({"Update", "Shutdown"})]
<1>1. Append(queue[tx], cmd) \in Seq({"Update", "Shutdown"})
  BY AppendProperties DEF ClientTypeOK
<1>2. QED
  BY <1>1 DEF ClientTypeOK, Enqueue

\* Every call of the owner and every step of a thread keeps the types.
LEMMA ClientTypeStep == ClientInv /\ [ClientNext]_clientVars => ClientTypeOK'
<1> SUFFICES ASSUME ClientInv, [ClientNext]_clientVars PROVE ClientTypeOK'
  OBVIOUS
<1>0. ClientTypeOK
  BY DEF ClientInv
<1>1. CASE Start
  BY <1>0, <1>1, NextThread DEF Start, ClientTypeOK
<1>2. CASE StartPanics
  BY <1>0, <1>2, NextThread DEF StartPanics, ClientTypeOK
<1>3. CASE SendFails
  BY <1>0, <1>3 DEF SendFails, ClientTypeOK
<1>4. CASE SendUpdate
  <2>1. tx \in Threads
    BY <1>0, <1>4 DEF SendUpdate, Connected, ClientTypeOK
  <2>2. updates' \in 0 .. MaxUpdates
    BY <1>0, <1>4, NextUpdate DEF SendUpdate, ClientTypeOK
  <2>3. queue' \in [Threads -> Seq({"Update", "Shutdown"})]
    BY <1>0, <1>4, <2>1, EnqueueType DEF SendUpdate
  <2>4. QED
    BY <1>0, <1>4, <2>2, <2>3 DEF SendUpdate, ClientTypeOK
<1>5. CASE SendShutdown
  <2>1. tx \in Threads
    BY <1>0, <1>5 DEF SendShutdown, Connected, ClientTypeOK
  <2>2. queue' \in [Threads -> Seq({"Update", "Shutdown"})]
    BY <1>0, <1>5, <2>1, EnqueueType DEF SendShutdown
  <2>3. QED
    BY <1>0, <1>5, <2>2 DEF SendShutdown, ClientTypeOK
<1>6. CASE SendJoined
  BY <1>0, <1>6 DEF SendJoined, ClientTypeOK
<1>7. CASE Drop
  <2>1. queue' \in [Threads -> Seq({"Update", "Shutdown"})]
    BY <1>0, <1>7, EnqueueType DEF Drop, SayGoodbye, Connected, ClientTypeOK
  <2>2. QED
    BY <1>0, <1>7, <2>1 DEF Drop, ClientTypeOK
<1>8. CASE DropJoined
  BY <1>0, <1>8 DEF DropJoined, ClientTypeOK
<1>9. ASSUME NEW t \in Threads, Recv(t) PROVE ClientTypeOK'
  <2> USE <1>0 DEF ClientTypeOK
  <2>1. UNCHANGED callVars
    BY <1>9 DEF Recv
  <2>2. queue' \in [Threads -> Seq({"Update", "Shutdown"})]
    <3>1. CASE queue[t] = <<>>
      BY <1>9, <3>1 DEF Recv
    <3>2. CASE queue[t] # <<>>
      <4>1. Tail(queue[t]) \in Seq({"Update", "Shutdown"})
        BY <3>2, HeadTailProperties
      <4>2. QED
        BY <1>9, <3>2, <4>1 DEF Recv
    <3>3. QED
      BY <3>1, <3>2
  <2>3. thread' \in [Threads -> {"none", "recv", "pass", "done"}]
    BY <1>9 DEF Recv
  <2>4. QED
    BY <2>1, <2>2, <2>3 DEF callVars
<1>10. ASSUME NEW t \in Threads, EndPass(t) PROVE ClientTypeOK'
  BY <1>0, <1>10 DEF EndPass, callVars, ClientTypeOK
<1>11. CASE UNCHANGED clientVars
  BY <1>0, <1>11 DEF clientVars, callVars, ClientTypeOK
<1>12. QED
  BY <1>1, <1>2, <1>3, <1>4, <1>5, <1>6, <1>7, <1>8, <1>9, <1>10, <1>11
     DEF ClientNext

(***************************************************************************)
(* A step of a thread: it may end but never begin to run, and what the     *)
(* owner holds is not touched.                                             *)
(***************************************************************************)
LEMMA ThreadsOnlyEnd ==
    ASSUME ClientInv, NEW t \in Threads, Recv(t) \/ EndPass(t)
    PROVE  /\ UNCHANGED callVars
           /\ \A u \in Threads : Running(u)' => Running(u)
           /\ \A u \in Threads : thread[u] = "done" => thread'[u] = "done"
<1>1. CASE Recv(t)
  BY <1>1 DEF Recv, Running, ClientInv, ClientTypeOK
<1>2. CASE EndPass(t)
  BY <1>2 DEF EndPass, Running, ClientInv, ClientTypeOK
<1>3. QED
  BY <1>1, <1>2

(***************************************************************************)
(* The handle stays with the thread started last.  It is given up only     *)
(* when that thread has ended, in the joins of send and of drop.           *)
(***************************************************************************)
LEMMA HandleStep ==
    ClientInv /\ [ClientNext]_clientVars =>
        HandleOfLatest' /\ NotStarted' /\ NoHandleNoThread'
<1> DEFINE Goal == HandleOfLatest /\ NotStarted /\ NoHandleNoThread
<1> SUFFICES ASSUME ClientInv, [ClientNext]_clientVars PROVE Goal'
  OBVIOUS
<1>00. ClientTypeOK /\ HandleOfLatest /\ NotStarted /\ NoHandleNoThread
  BY DEF ClientInv
<1>01. started \in Int
  BY <1>00, StartedNumber DEF ClientTypeOK
<1>0. ClientTypeOK /\ HandleOfLatest /\ NotStarted /\ NoHandleNoThread /\ started \in Int
  BY <1>00, <1>01
<1>1. CASE Start
  <2>0. started' = started + 1
    BY <1>1 DEF Start
  <2>1. started \in Threads /\ started # None /\ started' - 1 = started /\ started' > 0
    BY <1>0, <1>1, <2>0, NextThread DEF Start, ClientTypeOK
  <2>2. tx' = started /\ thread_handle' = started /\ owner' = "idle"
    BY <1>1 DEF Start
  <2>3. HandleOfLatest' /\ NoHandleNoThread'
    BY <2>1, <2>2 DEF HandleOfLatest, NoHandleNoThread
  <2>4. ASSUME NEW t \in Threads, t >= started'
        PROVE  t >= started /\ t # started
    BY <1>0, <1>1, <2>4 DEF Start, Threads
  <2>5. ASSUME NEW t \in Threads, t # started PROVE thread'[t] = thread[t]
    BY <1>0, <1>1, <2>5 DEF Start, ClientTypeOK
  <2>6. NotStarted'
    BY <1>0, <2>4, <2>5 DEF NotStarted, Running
  <2>7. QED
    BY <2>3, <2>6
<1>2. CASE StartPanics
  <2>0. started' = started + 1
    BY <1>2 DEF StartPanics
  <2>1. started \in Threads /\ started # None /\ started' - 1 = started /\ started' > 0
    BY <1>0, <1>2, <2>0, NextThread DEF StartPanics, ClientTypeOK
  <2>2. owner' = "drop" /\ thread_handle' = thread_handle
    BY <1>2 DEF StartPanics
  <2>3. thread'[started] = "done"
    BY <1>0, <1>2, <2>1 DEF StartPanics, ClientTypeOK
  <2>4. HandleOfLatest'
    BY <2>1, <2>2, <2>3 DEF HandleOfLatest
  <2>5. ASSUME NEW t \in Threads, t >= started'
        PROVE  t >= started /\ t # started
    BY <1>0, <1>2, <2>5 DEF StartPanics, Threads
  <2>6. ASSUME NEW t \in Threads, t # started PROVE thread'[t] = thread[t]
    BY <1>0, <1>2, <2>6 DEF StartPanics, ClientTypeOK
  <2>7. NotStarted'
    BY <1>0, <2>5, <2>6 DEF NotStarted, Running
  <2>8. started' \in 0 .. MaxStarts
    BY <1>0, <1>2, NextThread DEF StartPanics, ClientTypeOK
  <2>9. ~ Running(started - 1)'
    BY <2>1, <2>3 DEF Running
  <2>10. NoHandleNoThread'
    <3>1. ASSUME NEW t \in Threads, Running(t)' PROVE t < started' - 1
      <4>1. t \in Int /\ started' \in Int
        BY <1>0, <1>2 DEF Threads, StartPanics
      <4>2. t < started'
        BY <2>7, <3>1, <4>1 DEF NotStarted
      <4>3. t # started' - 1
        BY <2>1, <2>3, <3>1 DEF Running
      <4>4. QED
        BY <4>1, <4>2, <4>3, Below
    <3>2. QED
      BY <3>1 DEF NoHandleNoThread
  <2>11. QED
    BY <2>4, <2>7, <2>10
<1>3. CASE SendFails \/ SendUpdate
  BY <1>0, <1>3
     DEF SendFails, SendUpdate, HandleOfLatest, NotStarted, NoHandleNoThread, Running
<1>4. CASE SendShutdown
  BY <1>0, <1>4
     DEF SendShutdown, Connected, HandleOfLatest, NotStarted, NoHandleNoThread, Running
<1>5. CASE SendJoined
  <2>1. ~ Running(started - 1)
    BY <1>0, <1>5 DEF SendJoined, Joinable, HandleOfLatest, Running
  <2>2. \A t \in Threads : Running(t) => t < started - 1
    BY <1>0, <2>1, LatestEnded DEF ClientTypeOK
  <2>3. QED
    BY <1>0, <1>5, <2>2 DEF SendJoined, HandleOfLatest, NotStarted, NoHandleNoThread, Running
<1>6. CASE Drop
  BY <1>0, <1>6 DEF Drop, HandleOfLatest, NotStarted, NoHandleNoThread, Running
<1>7. CASE DropJoined
  <2>1. \A t \in Threads : Running(t) => t < started - 1
    <3>1. CASE thread_handle = None
      BY <1>0, <3>1 DEF NoHandleNoThread
    <3>2. CASE thread_handle # None
      <4>1. ~ Running(started - 1)
        BY <1>0, <1>7, <3>2 DEF DropJoined, Joinable, HandleOfLatest, Running
      <4>2. QED
        BY <1>0, <4>1, LatestEnded DEF ClientTypeOK
    <3>3. QED
      BY <3>1, <3>2
  <2>2. QED
    BY <1>0, <1>7, <2>1 DEF DropJoined, HandleOfLatest, NotStarted, NoHandleNoThread, Running
<1>8. ASSUME NEW t \in Threads, Recv(t) \/ EndPass(t) PROVE Goal'
  <2>1. /\ UNCHANGED callVars
        /\ \A u \in Threads : Running(u)' => Running(u)
        /\ \A u \in Threads : thread[u] = "done" => thread'[u] = "done"
    BY <1>8, ThreadsOnlyEnd
  <2>2. NotStarted' /\ NoHandleNoThread'
    BY <1>0, <2>1 DEF callVars, NotStarted, NoHandleNoThread
  <2>4. thread_handle # None => started - 1 \in Threads
    BY <1>0, LastThread DEF ClientTypeOK, HandleOfLatest
  <2>5. HandleOfLatest'
    BY <1>0, <2>1, <2>4 DEF callVars, HandleOfLatest
  <2>6. QED
    BY <2>2, <2>5
<1>9. CASE UNCHANGED clientVars
  BY <1>0, <1>9
     DEF clientVars, callVars, HandleOfLatest, NotStarted, NoHandleNoThread, Running
<1>10. QED
  BY <1>1, <1>2, <1>3, <1>4, <1>5, <1>6, <1>7, <1>8, <1>9 DEF ClientNext

(***************************************************************************)
(* The inductive invariant of a client, whatever its owner calls.          *)
(***************************************************************************)
THEOREM ClientInvariance == ClientSpec => []ClientInv
<1>1. ClientInit => ClientInv
  <2> SUFFICES ASSUME ClientInit PROVE ClientInv
    OBVIOUS
  <2>1. 0 \in 0 .. MaxStarts /\ 0 \in 0 .. MaxUpdates
    BY ClientAssumption
  <2>2. queue \in [Threads -> Seq({"Update", "Shutdown"})]
    BY EmptySeq DEF ClientInit
  <2>3. ClientTypeOK
    BY <2>1, <2>2 DEF ClientInit, ClientTypeOK
  <2>4. HandleOfLatest /\ NotStarted /\ NoHandleNoThread
    BY DEF ClientInit, HandleOfLatest, NotStarted, NoHandleNoThread, Running
  <2>5. QED
    BY <2>3, <2>4 DEF ClientInv
<1>2. ClientInv /\ [ClientNext]_clientVars => ClientInv'
  BY ClientTypeStep, HandleStep DEF ClientInv
<1>3. QED
  BY <1>1, <1>2, PTL DEF ClientSpec, ClientSafety

(***************************************************************************)
(* After a Shutdown or a drop the thread started last has ended, also when *)
(* a start panicked or the callback did.                                   *)
(***************************************************************************)
THEOREM NoHandleNoThreadHolds == ClientSpec => []NoHandleNoThread
<1>1. ClientInv => NoHandleNoThread
  BY DEF ClientInv
<1>2. QED
  BY <1>1, ClientInvariance, PTL
=============================================================================
