--------------------------- MODULE TcpServerProofs ---------------------------
(***************************************************************************)
(* The TCP server drives the quote server as QuoteServer specifies, so     *)
(* that everything proved there holds behind any number of connections.    *)
(***************************************************************************)
EXTENDS TcpServer, QuoteServerProofs

\* What is on its way to a handler is lines and newlines.
InboxOK == inbox \in [Handlers -> Seq(Lines \cup {NewLine})]

\* A STREAM line that a handler reads carries a ticker list.
LEMMA StreamLine ==
    ASSUME InboxOK, NEW h \in Handlers, ReadLine(h, "STREAM")
    PROVE  Head(inbox[h]).tl \in Subscriptions
<1>1. inbox[h] \in Seq(Lines \cup {NewLine}) /\ inbox[h] # <<>>
  BY DEF InboxOK, ReadLine, LineReady
<1>2. Head(inbox[h]) \in Lines \cup {NewLine}
  BY <1>1, HeadTailProperties
<1>3. Head(inbox[h]).cmd = "STREAM"
  BY DEF ReadLine
<1>4. QED
  BY <1>2, <1>3 DEF Lines, NewLine

\* Reading a line leaves lines and newlines.
LEMMA AfterLineType ==
    ASSUME NEW q \in Seq(Lines \cup {NewLine}), q # <<>>
    PROVE  AfterLine(q) \in Seq(Lines \cup {NewLine})
<1>1. Tail(q) \in Seq(Lines \cup {NewLine}) /\ Len(Tail(q)) = Len(q) - 1
  BY HeadTailProperties
<1>2. CASE Head(q) = NewLine \/ Len(q) = 1
  BY <1>1, <1>2 DEF AfterLine
<1>3. CASE ~ (Head(q) = NewLine \/ Len(q) = 1)
  <2>1. Tail(q) # <<>>
    BY <1>1, <1>3, EmptySeq
  <2>2. Tail(Tail(q)) \in Seq(Lines \cup {NewLine})
    BY <1>1, <2>1, HeadTailProperties
  <2>3. QED
    BY <1>3, <2>2 DEF AfterLine
<1>4. QED
  BY <1>2, <1>3

(***************************************************************************)
(* The channel from a peer keeps its type: peers append whole commands and *)
(* newlines, handlers take lines off the front or drop what they have.     *)
(***************************************************************************)
LEMMA InboxStep == InboxOK /\ [TcpNext]_tcpVars => InboxOK'
<1> SUFFICES ASSUME InboxOK, [TcpNext]_tcpVars PROVE InboxOK'
  OBVIOUS
<1> DEFINE T == Lines \cup {NewLine}
<1>0. UNCHANGED inbox => InboxOK'
  BY DEF InboxOK
<1>1. ASSUME NEW h \in Handlers, NEW kind, ReadLine(h, kind) PROVE InboxOK'
  <2>1. AfterLine(inbox[h]) \in Seq(T)
    BY <1>1, AfterLineType DEF InboxOK, ReadLine, LineReady
  <2>2. QED
    BY <1>1, <2>1 DEF InboxOK, ReadLine
<1>2. ASSUME NEW h \in Handlers, inbox' = [inbox EXCEPT ![h] = <<>>]
      PROVE  InboxOK'
  BY <1>2, EmptySeq DEF InboxOK
<1>3. ASSUME NEW h \in Handlers, PeerStep(h) PROVE InboxOK'
  <2>1. ASSUME NEW l \in Lines, NEW split, PeerWrites(h, l, split) PROVE InboxOK'
    <3>1. inbox[h] \in Seq(T) /\ l \in T /\ NewLine \in T
      BY DEF InboxOK
    <3>2. Append(inbox[h], l) \in Seq(T)
      BY <3>1, AppendProperties
    <3>3. <<l, NewLine>> \in Seq(T)
      BY <3>1
    <3>4. inbox[h] \o <<l, NewLine>> \in Seq(T)
      BY <3>1, <3>3, ConcatProperties
    <3>5. QED
      BY <2>1, <3>2, <3>4 DEF PeerWrites, InboxOK
  <2>2. CASE PeerEndsLine(h)
    <3>1. Append(inbox[h], NewLine) \in Seq(T)
      BY AppendProperties DEF InboxOK
    <3>2. QED
      BY <2>2, <3>1 DEF PeerEndsLine, InboxOK
  <2>3. QED
    BY <1>0, <1>3, <2>1, <2>2 DEF PeerStep, Accept, PeerLeaves, connVars
<1>4. ASSUME NEW h \in Handlers, ConnStep(h) PROVE InboxOK'
  BY <1>0, <1>1, <1>2, <1>4 DEF ConnStep, EmptyLine, Ping, Invalid, Stream,
     StreamFails, StreamPanics, Stop, Poll, EndOfFile, ReadError, RemoveBegins,
     RemoveFails, RemoveEnds
<1>5. QED
  BY <1>0, <1>3, <1>4 DEF TcpNext, tcpVars, connVars

(***************************************************************************)
(* Every step of the system is a step of QuoteServer or leaves the quote   *)
(* server alone.  A handler passes a list of Subscriptions to add_client,  *)
(* and only registered ids to remove_client.                               *)
(***************************************************************************)
LEMMA StepRefines == TypeOK /\ InboxOK /\ [TcpNext]_tcpVars => [Next]_vars
<1> SUFFICES ASSUME TypeOK, InboxOK, [TcpNext]_tcpVars PROVE [Next]_vars
  OBVIOUS
<1>1. ASSUME NEW h \in Handlers, PeerStep(h) PROVE UNCHANGED vars
  BY <1>1 DEF PeerStep, Accept, PeerWrites, PeerEndsLine, PeerLeaves
<1>2. ASSUME NEW h \in Handlers, ConnStep(h) PROVE [Next]_vars
  <2>1. CASE Stream(h)
    <3>1. AddClient(Head(inbox[h]).tl) /\ Head(inbox[h]).tl \in Subscriptions
      BY <2>1, StreamLine DEF Stream
    <3>2. QED
      BY <3>1 DEF Next, HandlerCall
  <2>2. CASE StreamPanics(h)
    BY <2>2 DEF StreamPanics, Next, HandlerCall
  <2>3. CASE RemoveBegins(h)
    <3>1. RemoveClient(h, client_id[h]) /\ client_id[h] \in Ids
      BY <2>3 DEF RemoveBegins, RemoveClient, TypeOK
    <3>2. QED
      BY <3>1 DEF Next, HandlerCall
  <2>4. CASE RemoveEnds(h)
    BY <2>4 DEF RemoveEnds, Next, HandlerCall
  <2>5. CASE UNCHANGED vars
    BY <2>5
  <2>6. QED
    BY <1>2, <2>1, <2>2, <2>3, <2>4, <2>5 DEF ConnStep, EmptyLine, Ping,
       Invalid, StreamFails, Stop, Poll, EndOfFile, ReadError, RemoveFails
<1>3. QED
  BY <1>1, <1>2 DEF TcpNext, Next, tcpVars

(***************************************************************************)
(* Whatever the connections and their peers do, the quote server behaves   *)
(* as QuoteServer specifies: TcpServer extends it.                         *)
(***************************************************************************)
LEMMA QuoteServerBehind == TcpSafety => Safety
<1>1. TcpInit => Init /\ TypeOK /\ InboxOK
  <2>1. <<>> \in Seq(Lines \cup {NewLine})
    BY EmptySeq
  <2>2. TcpInit => inbox = [h \in Handlers |-> <<>>]
    BY DEF TcpInit
  <2>3. TcpInit => InboxOK
    BY <2>1, <2>2 DEF InboxOK
  <2>4. QED
    BY <2>3, TypeOKInit DEF TcpInit
<1>2. TypeOK /\ InboxOK /\ [TcpNext]_tcpVars => TypeOK' /\ InboxOK'
  BY StepRefines, TypeOKInductive, InboxStep
<1>3. QED
  BY <1>1, <1>2, StepRefines, PTL DEF TcpSafety, Safety

(***************************************************************************)
(* Hence the invariants of the quote server hold behind the TCP server:    *)
(* passes are not torn, and no client thread is lost by a handler that     *)
(* ends, fails or panics.                                                  *)
(***************************************************************************)
THEOREM TcpInvariance == TcpSafety => []IInv
BY QuoteServerBehind, Invariance, PTL
=============================================================================
