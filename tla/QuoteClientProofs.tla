-------------------------- MODULE QuoteClientProofs --------------------------
(***************************************************************************)
(* In the command line client a reply is never taken for the answer to     *)
(* another command, whatever the user types and however the connection     *)
(* fails.                                                                  *)
(***************************************************************************)
EXTENDS QuoteClient, SequenceTheorems, TLAPS

\* The connection with one command outstanding.
LEMMA OneElement ==
    ASSUME NEW c PROVE Append(<<>>, c) = <<c>> /\ Tail(<<c>>) = <<>>
OBVIOUS

\* The bound on the pings is kept by a step that looks at it.
LEMMA NextPing ==
    /\ 0 \in 0 .. MaxPings
    /\ \A n \in 0 .. MaxPings : n < MaxPings => n + 1 \in 0 .. MaxPings
BY PingsAssumption

\* Every step of the client keeps the types.
LEMMA AppTypeStep == AppInv /\ [AppNext]_appVars => AppTypeOK'
<1> SUFFICES ASSUME AppInv, [AppNext]_appVars PROVE AppTypeOK'
  OBVIOUS
<1> USE ScriptsAssumption DEF AppInv, AppTypeOK, Move, Places, Procs, Mutexes
<1>1. CASE UNCHANGED appVars
  BY <1>1 DEF appVars
<1>2. CASE FirstConnect \/ BindUdp \/ Exit \/ WakeUp \/ ServerToggles
  <2>1. CASE FirstConnect
    BY <2>1 DEF FirstConnect
  <2>2. CASE BindUdp \/ WakeUp
    <3>1. CASE BindUdp
      BY <3>1 DEF BindUdp
    <3>2. CASE WakeUp
      <4>1. pings' \in 0 .. MaxPings
        BY <3>2, NextPing DEF WakeUp
      <4>2. at' \in [Procs -> Places]
        BY <3>2 DEF WakeUp
      <4>3. QED
        BY <3>2, <4>1, <4>2 DEF WakeUp
    <3>3. QED
      BY <2>2, <3>1, <3>2
  <2>3. CASE Exit
    BY <2>3 DEF Exit
  <2>4. CASE ServerToggles
    BY <2>4 DEF ServerToggles
  <2>5. QED
    BY <1>2, <2>1, <2>2, <2>3, <2>4
<1>3. CASE TypeCommand
  <2>1. Head(script) \in UserCommands /\ Tail(script) \in Seq(UserCommands)
    BY <1>3, HeadTailProperties DEF TypeCommand
  <2>2. QED
    BY <1>3, <2>1 DEF TypeCommand
<1>4. ASSUME NEW p \in Procs, ProcStep(p) PROVE AppTypeOK'
  <2>1. CASE LockFirst(p)
    BY <2>1 DEF LockFirst, FirstMutex
  <2>2. CASE LockSecond(p)
    BY <2>2 DEF LockSecond
  <2>3. CASE Write(p)
    <3>1. Append(pending, doing[p]) \in Seq(UserCommands)
      BY AppendProperties
    <3>2. QED
      BY <2>3, <3>1 DEF Write
  <2>4. CASE WriteNewline(p)
    BY <2>4 DEF WriteNewline
  <2>5. CASE /\ pending # <<>>
             /\ Head(pending) \in DOMAIN ReplyTo
             /\ ReadReply(p, ReplyTo[Head(pending)])
    <3>1. Tail(pending) \in Seq(UserCommands)
      BY <2>5, HeadTailProperties
    <3>2. ReplyTo[Head(pending)] \in AppReplies
      BY <2>5 DEF ReplyTo, AppReplies
    <3>3. at' \in [Procs -> Places] /\ lock' \in [Mutexes -> Procs \cup {Nobody}]
      BY <2>5 DEF ReadReply, Unlock
    <3>4. QED
      BY <2>5, <3>1, <3>2, <3>3 DEF ReadReply
  <2>6. CASE ExchangeFails(p)
    BY <2>6 DEF ExchangeFails, AfterError
  <2>7. CASE Reconnect(p)
    BY <2>7 DEF Reconnect
  <2>8. CASE Swap(p)
    <3>1. <<>> \in Seq(UserCommands)
      BY EmptySeq
    <3>2. QED
      BY <2>8, <3>1 DEF Swap, Unlock
  <2>9. QED
    BY <1>4, <2>1, <2>2, <2>3, <2>4, <2>5, <2>6, <2>7, <2>8 DEF ProcStep
<1>5. QED
  BY <1>1, <1>2, <1>3, <1>4 DEF AppNext

(***************************************************************************)
(* One thread at a time is in an exchange, it starts on a connection with  *)
(* nothing outstanding, and leaves it so or replaces it.                   *)
(***************************************************************************)
LEMMA ExchangeStep ==
    AppInv /\ [AppNext]_appVars =>
        LifeTogether' /\ ExchangeLocked' /\ IdleWire' /\ ReplyIsOwn'
<1> DEFINE Goal == LifeTogether /\ ExchangeLocked /\ IdleWire /\ ReplyIsOwn
<1> SUFFICES ASSUME AppInv, [AppNext]_appVars PROVE Goal'
  OBVIOUS
<1> USE ScriptsAssumption DEF AppInv, AppTypeOK, Move, Procs, Mutexes, Exchange,
        LifeTogether, ExchangeLocked, IdleWire, ReplyIsOwn
<1>1. CASE UNCHANGED appVars
  BY <1>1 DEF appVars
<1>2. CASE FirstConnect
  BY <1>2 DEF FirstConnect
<1>3. CASE BindUdp \/ TypeCommand \/ WakeUp \/ ServerToggles
  <2>1. CASE BindUdp
    BY <2>1 DEF BindUdp
  <2>2. CASE TypeCommand
    BY <2>2 DEF TypeCommand
  <2>3. CASE WakeUp
    BY <2>3 DEF WakeUp
  <2>4. CASE ServerToggles
    BY <2>4 DEF ServerToggles
  <2>5. QED
    BY <1>3, <2>1, <2>2, <2>3, <2>4
<1>4. CASE Exit
  BY <1>4 DEF Exit
<1>5. ASSUME NEW p \in Procs, ProcStep(p) PROVE Goal'
  <2>1. CASE LockFirst(p)
    BY <2>1 DEF LockFirst, FirstMutex
  <2>2. CASE LockSecond(p)
    BY <2>2 DEF LockSecond, FirstMutex
  <2>3. CASE Write(p)
    <3>1. pending = <<>>
      BY <2>3 DEF Write
    <3>2. pending' = <<doing[p]>>
      BY <2>3, <3>1, OneElement DEF Write
    <3>3. QED
      BY <2>3, <3>2 DEF Write
  <2>4. CASE WriteNewline(p)
    BY <2>4 DEF WriteNewline
  <2>5. CASE /\ pending # <<>>
             /\ Head(pending) \in DOMAIN ReplyTo
             /\ ReadReply(p, ReplyTo[Head(pending)])
    <3>1. at[p] = "read" /\ pending = <<doing[p]>>
      BY <2>5 DEF ReadReply
    <3>2. pending' = <<>>
      BY <2>5, <3>1, OneElement DEF ReadReply
    <3>3. CASE at' = [at EXCEPT ![p] = "reconnect"] /\ UNCHANGED lock
      BY <3>1, <3>2, <3>3
    <3>4. CASE at' = [at EXCEPT ![p] = "idle"] /\ Unlock
      BY <3>1, <3>2, <3>4 DEF Unlock
    <3>5. QED
      BY <2>5, <3>3, <3>4 DEF ReadReply
  <2>6. CASE ExchangeFails(p)
    BY <2>6 DEF ExchangeFails, AfterError
  <2>7. CASE Reconnect(p)
    BY <2>7 DEF Reconnect
  <2>8. CASE Swap(p)
    BY <2>8 DEF Swap, Unlock
  <2>9. QED
    BY <1>5, <2>1, <2>2, <2>3, <2>4, <2>5, <2>6, <2>7, <2>8 DEF ProcStep
<1>6. QED
  BY <1>1, <1>2, <1>3, <1>4, <1>5 DEF AppNext

\* It holds when the client starts.
LEMMA AppInvInit == AppInit => AppInv
<1> SUFFICES ASSUME AppInit PROVE AppInv
  OBVIOUS
<1>1. script \in Seq(UserCommands) /\ pending \in Seq(UserCommands)
  BY ScriptsAssumption, EmptySeq DEF AppInit
<1>2. at \in [Procs -> Places] /\ doing \in [Procs -> UserCommands]
  BY DEF AppInit, Places, Procs, UserCommands
<1>3. lock \in [Mutexes -> Procs \cup {Nobody}]
  BY DEF AppInit
<1>4. pings \in 0 .. MaxPings
  BY NextPing DEF AppInit
<1>5. AppTypeOK
  BY <1>1, <1>2, <1>3, <1>4 DEF AppInit, AppTypeOK
<1>6. LifeTogether /\ ExchangeLocked /\ IdleWire /\ ReplyIsOwn
  BY ScriptsAssumption DEF AppInit, LifeTogether, ExchangeLocked, IdleWire,
     ReplyIsOwn, Procs, Mutexes, Exchange
<1>7. QED
  BY <1>5, <1>6 DEF AppInv

(***************************************************************************)
(* The inductive invariant of the two threads of the client.               *)
(***************************************************************************)
THEOREM AppInvariance == AppSafety => []AppInv
<1>1. AppInit => AppInv
  BY AppInvInit
<1>2. AppInv /\ [AppNext]_appVars => AppInv'
  BY AppTypeStep, ExchangeStep DEF AppInv
<1>3. QED
  BY <1>1, <1>2, PTL DEF AppSafety

(***************************************************************************)
(* A thread that waits for a reply has the only outstanding command, for   *)
(* every script, any number of pings, and every pattern of failures and    *)
(* late replies.                                                           *)
(***************************************************************************)
THEOREM ReplyIsOwnHolds == AppSafety => []ReplyIsOwn
<1>1. AppInv => ReplyIsOwn
  BY DEF AppInv
<1>2. QED
  BY <1>1, AppInvariance, PTL
=============================================================================
