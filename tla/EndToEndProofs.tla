--------------------------- MODULE EndToEndProofs ---------------------------
(***************************************************************************)
(* A session of the command line client with the TCP server: the client is *)
(* a peer as TcpServer knows them, and the server answers it as            *)
(* QuoteClient takes for granted, so that what was proved of either holds  *)
(* of the two together, and STOP OK means to the user what it means to the *)
(* handler.                                                                *)
(***************************************************************************)
EXTENDS EndToEnd, TcpConnectionProofs

AppProofs == INSTANCE QuoteClientProofs

Wired == {"newline", "read", "reconnect", "swap"}

\* Nothing is on its way on h, in either direction.
Quiet(h) ==
    /\ inbox[h] = <<>> /\ outbox[h] = <<>>
    /\ Stopping(h) = 0
    /\ peer[h] \in {"open", "reset"}

\* What may be on its way to the handler of h is the command c, or a part of it.
Underway(h, c) ==
    \/ inbox[h] \in {<<>>, <<NewLine>>}
    \/ \E l \in Lines : l.cmd = c /\ inbox[h] \in {<<l>>, <<l, NewLine>>}

\* c was written on h, and its newline not yet.
Half(h, c) ==
    /\ inbox[h] \in {<<>>} \cup {<<l>> : l \in Lines}
    /\ outbox[h] = <<>>
    /\ Stopping(h) = 0
    /\ peer[h] \in {"midline", "reset"}

(***************************************************************************)
(* The whole of c was written on h.  The handler has not read it or will   *)
(* not answer it, is removing a client for it, or has answered it.         *)
(***************************************************************************)
Asked(h, c) ==
    /\ \/ /\ inbox[h] \in {<<>>, <<NewLine>>} \cup {<<l, NewLine>> : l \in Lines}
          /\ outbox[h] = <<>> /\ Stopping(h) = 0
       \/ /\ inbox[h] = <<>> /\ outbox[h] = <<>>
          /\ Stopping(h) = 1 /\ c = "STOP"
       \/ /\ inbox[h] = <<>> /\ Stopping(h) = 0
          /\ c \in DOMAIN App!ReplyTo /\ outbox[h] = <<App!ReplyTo[c]>>
    /\ peer[h] \in {"open", "reset"}

OutboxOK == outbox \in [Handlers -> Seq(Replies)]

\* A connection that was not accepted is as it was made.
Unused == \A h \in Handlers : conn[h] = "listen" => Quiet(h) /\ peer[h] = "open"

\* The connection in use exists from the first connect on.
CurInUse ==
    /\ cur \in Handlers \cup {Nobody} /\ (cur # Nobody => conn[cur] # "listen")
    /\ at["cli"] \notin {"connect", "exited"} => cur # Nobody

\* The one that reconnect has made has not been used.
FreshUnused ==
    \A p \in App!Procs : at[p] = "swap" =>
        fresh \in Handlers /\ fresh # cur /\ Quiet(fresh) /\ Owned(fresh) = {}
            /\ conn[fresh] # "listen"

\* The connection in use matches what the threads of the client are doing.
WireMatches ==
    /\ /\ at["cli"] \notin {"connect", "exited"}
       /\ \A p \in App!Procs : at[p] \notin Wired
       => Quiet(cur)
    /\ \A p \in App!Procs :
        /\ at[p] \in Wired => Underway(cur, doing[p]) /\ peer[cur] # "eof"
        /\ at[p] = "newline" => Half(cur, doing[p])
        /\ at[p] = "read" => Asked(cur, doing[p])

\* The newest client of the connection in use has ended.
FinalOnCur == \A c \in Ids : Newest(c) /\ owner[c] = cur => thread[c] = "done"

(***************************************************************************)
(* STOP OK is final on its way to the user and on the screen; the only     *)
(* commands that follow it are pings.                                      *)
(***************************************************************************)
StopMatches ==
    /\ doing["ka"] = "PING"
    /\ at["cli"] \in {"connect", "bind"} => shown = ""
    /\ at["cli"] = "read" /\ doing["cli"] = "STOP" /\ outbox[cur] # <<>> => FinalOnCur
    /\ StopShownIsFinal

SessionInv == OutboxOK /\ Unused /\ CurInUse /\ FreshUnused /\ WireMatches /\ StopMatches
-----------------------------------------------------------------------------
(***************************************************************************)
(* What is known of the client alone.                                      *)
(***************************************************************************)

\* The two instances are the same.
LEMMA SameClient ==
    /\ App!AppInv <=> AppProofs!AppInv
    /\ App!AppInv' <=> AppProofs!AppInv'
    /\ App!AppInit => AppProofs!AppInit
    /\ AppProofs!ScriptsAssumption /\ AppProofs!PingsAssumption
<1>1. (App!AppInv <=> AppProofs!AppInv) /\ (App!AppInv' <=> AppProofs!AppInv')
  BY DEF App!AppInv, AppProofs!AppInv, App!AppTypeOK, AppProofs!AppTypeOK,
     App!LifeTogether, AppProofs!LifeTogether, App!ExchangeLocked,
     AppProofs!ExchangeLocked, App!IdleWire, AppProofs!IdleWire,
     App!ReplyIsOwn, AppProofs!ReplyIsOwn, App!Procs, AppProofs!Procs,
     App!Mutexes, AppProofs!Mutexes, App!Places, AppProofs!Places,
     App!UserCommands, AppProofs!UserCommands, App!AppReplies,
     AppProofs!AppReplies, App!Exchange, AppProofs!Exchange
<1>2. App!AppInit => AppProofs!AppInit
  BY DEF App!AppInit, AppProofs!AppInit, App!Procs, AppProofs!Procs,
     App!Mutexes, AppProofs!Mutexes
<1>3. AppProofs!ScriptsAssumption /\ AppProofs!PingsAssumption
  BY SessionAssumption DEF AppProofs!UserCommands, App!UserCommands, App!Procs
<1>4. QED
  BY <1>1, <1>2, <1>3

\* AppInv is kept by the steps of QuoteClient.
LEMMA AppStepKeeps == App!AppInv /\ [App!AppNext]_appVars => App!AppInv'
<1>1. [App!AppNext]_appVars => [AppProofs!AppNext]_(AppProofs!appVars)
  BY DEF appVars, AppProofs!appVars, App!AppNext, AppProofs!AppNext,
     App!FirstConnect, AppProofs!FirstConnect, App!BindUdp, AppProofs!BindUdp,
     App!Exit, AppProofs!Exit, App!TypeCommand, AppProofs!TypeCommand,
     App!WakeUp, AppProofs!WakeUp, App!ProcStep, AppProofs!ProcStep,
     App!LockFirst, AppProofs!LockFirst, App!FirstMutex, AppProofs!FirstMutex,
     App!LockSecond, AppProofs!LockSecond, App!Write, AppProofs!Write,
     App!WriteNewline, AppProofs!WriteNewline, App!ReadReply,
     AppProofs!ReadReply, App!ReplyTo, AppProofs!ReplyTo,
     App!ExchangeFails, AppProofs!ExchangeFails, App!AfterError,
     AppProofs!AfterError, App!Reconnect, AppProofs!Reconnect, App!Swap,
     AppProofs!Swap, App!ServerToggles, AppProofs!ServerToggles, App!Move,
     AppProofs!Move, App!Unlock, AppProofs!Unlock, App!Procs, AppProofs!Procs,
     App!Mutexes, AppProofs!Mutexes, App!UserCommands, AppProofs!UserCommands
<1>2. QED
  BY <1>1, SameClient, AppProofs!AppTypeStep, AppProofs!ExchangeStep
     DEF AppProofs!AppInv

-----------------------------------------------------------------------------
(***************************************************************************)
(* What a handler does with the one command that is on its way.            *)
(***************************************************************************)

\* One and two items in a channel.
LEMMA ShortChannels ==
    ASSUME NEW a, NEW b
    PROVE  /\ <<a>> # <<>> /\ Head(<<a>>) = a /\ Len(<<a>>) = 1 /\ Tail(<<a>>) = <<>>
           /\ <<a, b>> # <<>> /\ Head(<<a, b>>) = a /\ Len(<<a, b>>) = 2
           /\ Tail(Tail(<<a, b>>)) = <<>>
<1>1. <<a>> # <<>> /\ Head(<<a>>) = a /\ Len(<<a>>) = 1 /\ Tail(<<a>>) = <<>>
  OBVIOUS
<1>2. <<a, b>> # <<>> /\ Head(<<a, b>>) = a /\ Len(<<a, b>>) = 2
  OBVIOUS
<1>3. Tail(<<a, b>>) = <<b>> /\ Tail(<<b>>) = <<>>
  OBVIOUS
<1>4. QED
  BY <1>1, <1>2, <1>3

\* The newline joins the line.
LEMMA LineComplete ==
    ASSUME NEW S, NEW a \in S, NEW b \in S
    PROVE  Append(<<a>>, b) = <<a, b>>
<1>1. <<a>> \in Seq(S) /\ Len(<<a>>) = 1 /\ <<a>>[1] = a
  OBVIOUS
<1>2. Append(<<a>>, b) \in Seq(S) /\ Len(Append(<<a>>, b)) = 2
  BY <1>1
<1>3. Append(<<a>>, b)[1] = a /\ Append(<<a>>, b)[2] = b
  BY <1>1
<1>4. <<a, b>> \in Seq(S) /\ Len(<<a, b>>) = 2 /\ <<a, b>>[1] = a /\ <<a, b>>[2] = b
  OBVIOUS
<1>5. \A i \in 1 .. 2 : i = 1 \/ i = 2
  OBVIOUS
<1>6. QED
  BY <1>2, <1>3, <1>4, <1>5, SeqEqual

\* The channel of h holds the whole line of c.
WholeLine(h, c) == \E l \in Lines : l.cmd = c /\ inbox[h] = <<l, NewLine>>

\* A line is read whole, and then nothing is left.
LEMMA ReadUnderway ==
    ASSUME LedgerTypes, NEW h \in Handlers, NEW kind, ReadLine(h, kind),
           peer[h] # "eof", NEW c, Underway(h, c)
    PROVE  /\ inbox'[h] = <<>>
           /\ \A g \in Handlers \ {h} : inbox'[g] = inbox[g]
           /\ kind # "NL" => kind = c /\ WholeLine(h, c)
<1>1. /\ inbox[h] # <<>>
      /\ Head(inbox[h]) = NewLine \/ Len(inbox[h]) > 1
      /\ Head(inbox[h]).cmd = kind
      /\ inbox' = [inbox EXCEPT ![h] = AfterLine(inbox[h])]
  BY DEF ReadLine, LineReady
<1>2. /\ inbox'[h] = AfterLine(inbox[h])
      /\ \A g \in Handlers \ {h} : inbox'[g] = inbox[g]
  BY <1>1 DEF LedgerTypes, WireTypes, InboxOK
<1>3. CASE inbox[h] = <<NewLine>>
  <2>1. kind = "NL"
    BY <1>1, <1>3, ShortChannels DEF NewLine
  <2>2. AfterLine(inbox[h]) = <<>>
    BY <1>3, ShortChannels DEF AfterLine
  <2>3. QED
    BY <1>2, <2>1, <2>2
<1>4. ASSUME NEW l \in Lines, l.cmd = c, inbox[h] = <<l>> PROVE FALSE
  <2>1. Head(inbox[h]) = l /\ Len(inbox[h]) = 1 /\ l # NewLine
    BY <1>4, ShortChannels, LineOrNewLine
  <2>2. ~ (1 > 1)
    OBVIOUS
  <2>3. QED
    BY <1>1, <2>1, <2>2
<1>5. ASSUME NEW l \in Lines, l.cmd = c, inbox[h] = <<l, NewLine>>
      PROVE  AfterLine(inbox[h]) = <<>> /\ kind = c /\ WholeLine(h, c)
  <2>1. /\ Head(inbox[h]) = l /\ l # NewLine /\ Len(inbox[h]) = 2 /\ 2 # 1
        /\ Tail(Tail(inbox[h])) = <<>>
    BY <1>5, ShortChannels, LineOrNewLine
  <2>2. AfterLine(inbox[h]) = <<>>
    BY <2>1 DEF AfterLine
  <2>3. QED
    BY <1>1, <1>5, <2>1, <2>2 DEF WholeLine
<1>6. QED
  BY <1>1, <1>2, <1>3, <1>4, <1>5 DEF Underway

\* A handler goes on without an answer.
NoAnswer(h, c) ==
    /\ owed'[h] = owed[h]
    /\ \/ Stopping(h)' \in {0, Stopping(h)}
       \/ WholeLine(h, c) /\ inbox'[h] = <<>> /\ c = "STOP" /\ Stopping(h)' = 1

\* It answers the command that it reads, or the STOP that it has read before.
Answer(h, c) ==
    /\ owed'[h] = owed[h] - 1 /\ Stopping(h)' = 0 /\ conn'[h] = "read"
    /\ \/ /\ WholeLine(h, c) /\ inbox'[h] = <<>>
          /\ c \in DOMAIN App!ReplyTo /\ reply'[h] = App!ReplyTo[c]
       \/ Stopping(h) = 1 /\ inbox'[h] = inbox[h] /\ reply'[h] = "STOP OK"

\* A reply that is written is the one that was meant.
LEMMA RepliesTruly ==
    ASSUME LedgerTypes, NEW h \in Handlers, NEW r, Respond(h, r)
    PROVE  \/ owed'[h] = owed[h] /\ conn'[h] = "closed"
           \/ owed'[h] = owed[h] - 1 /\ conn'[h] = "read" /\ reply'[h] = r
<1>1. CASE Close(h, "write error")
  BY <1>1, HandlerReturns
<1>2. CASE /\ conn' = [conn EXCEPT ![h] = "read"]
           /\ reply' = [reply EXCEPT ![h] = r]
           /\ owed' = [owed EXCEPT ![h] = @ - 1]
  BY <1>2 DEF LedgerTypes, ConnTypes, WireTypes
<1>3. QED
  BY <1>1, <1>2 DEF Respond

\* The step of a handler is seen on its own connection only.
LEMMA HandlerElsewhere ==
    ASSUME LedgerTypes, NEW h \in Handlers, ConnStep(h)
    PROVE  /\ UNCHANGED peerVars
           /\ \A g \in Handlers \ {h} : inbox'[g] = inbox[g]
           /\ HandlerAlone(h)
           /\ conn[h] # "listen" /\ conn'[h] # "listen"
<1>1. UNCHANGED peerVars
  BY DEF ConnStep, EmptyLine, Ping, Invalid, Stream, StreamFails, StreamPanics,
     Stop, Poll, EndOfFile, ReadError, RemoveBegins, RemoveFails, RemoveEnds
<1>2. \/ inbox' = inbox
      \/ \E q : inbox' = [inbox EXCEPT ![h] = q]
  BY DEF ConnStep, EmptyLine, Ping, Invalid, Stream, StreamFails, StreamPanics,
     Stop, Poll, EndOfFile, ReadError, RemoveBegins, RemoveFails, RemoveEnds,
     ReadLine
<1>3. \/ UNCHANGED <<conn, why, owed>> /\ conn[h] = "read"
      \/ /\ UNCHANGED <<why, owed>> /\ conn[h] = "remove"
         /\ conn' = [conn EXCEPT ![h] = "join"]
      \/ conn[h] # "listen" /\ \E r : Respond(h, r) \/ Close(h, r) \/ CallRemove(h, r)
  BY DEF ConnStep, EmptyLine, Ping, Invalid, Stream, StreamFails, StreamPanics,
     Stop, Poll, EndOfFile, ReadError, RemoveBegins, RemoveFails, RemoveEnds,
     ReadLine
<1>4. /\ HandlerAlone(h)
      /\ conn[h] # "listen" /\ conn'[h] # "listen"
  <2>1. ASSUME NEW r, Respond(h, r) \/ Close(h, r) \/ CallRemove(h, r)
        PROVE  HandlerAlone(h) /\ conn'[h] # "listen"
    BY <2>1, HandlerReplies, HandlerReturns
  <2>2. QED
    BY <1>3, <2>1 DEF HandlerAlone, LedgerTypes, ConnTypes
<1>5. QED
  BY <1>1, <1>2, <1>4 DEF LedgerTypes, WireTypes, InboxOK

\* The effect of a step of the handler of h, with c on its way.
LEMMA HandlerEffect ==
    ASSUME LedgerTypes, NEW h \in Handlers, ConnStep(h), peer[h] # "eof",
           NEW c \in App!UserCommands, Underway(h, c)
    PROVE  inbox'[h] \in {inbox[h], <<>>} /\ (NoAnswer(h, c) \/ Answer(h, c))
<1> DEFINE Wire == inbox'[h] \in {inbox[h], <<>>}
           Effect == NoAnswer(h, c) \/ Answer(h, c)
<1>1. ASSUME NEW kind, ReadLine(h, kind) PROVE Wire
  BY <1>1, ReadUnderway
<1>2. ASSUME inbox' = inbox \/ inbox' = [inbox EXCEPT ![h] = <<>>]
      PROVE  Wire
  BY <1>2 DEF LedgerTypes, WireTypes, InboxOK
<1>3. ASSUME UNCHANGED <<conn, why, owed>> PROVE Effect
  BY <1>3 DEF NoAnswer, Stopping
<1>4. ASSUME NEW r, r # "STOP", Close(h, r) \/ CallRemove(h, r)
      PROVE  Effect
  <2>1. owed'[h] = owed[h] /\ why'[h] = r
    BY <1>4, HandlerReturns
  <2>2. QED
    BY <1>4, <2>1 DEF NoAnswer, Stopping
<1>5. ASSUME NEW kind, ReadLine(h, kind), kind \in DOMAIN App!ReplyTo,
             Respond(h, App!ReplyTo[kind])
      PROVE  Effect
  <2>1. kind # "NL"
    BY <1>5 DEF App!ReplyTo, App!UserCommands
  <2>2. inbox'[h] = <<>> /\ kind = c /\ WholeLine(h, c)
    BY <1>5, <2>1, ReadUnderway
  <2>3. \/ owed'[h] = owed[h] /\ conn'[h] = "closed"
        \/ owed'[h] = owed[h] - 1 /\ conn'[h] = "read" /\ reply'[h] = App!ReplyTo[kind]
    BY <1>5, RepliesTruly
  <2>4. Stopping(h)' = 0
    BY <2>3 DEF Stopping
  <2>5. QED
    BY <1>5, <2>2, <2>3, <2>4 DEF NoAnswer, Answer
<1>6. /\ {"PING", "OTHER", "STREAM", "STOP"} \subseteq DOMAIN App!ReplyTo
      /\ App!ReplyTo["PING"] = "PONG" /\ App!ReplyTo["STREAM"] = "STREAM OK"
      /\ App!ReplyTo["STOP"] = "STOP OK"
      /\ App!ReplyTo["OTHER"] = "ERR Invalid command"
  BY DEF App!ReplyTo, App!UserCommands
<1>7. CASE EmptyLine(h)
  BY <1>1, <1>3, <1>7 DEF EmptyLine
<1>8. CASE Ping(h) \/ Invalid(h) \/ Stream(h)
  <2>1. PICK kind \in {"PING", "OTHER", "STREAM"} :
            ReadLine(h, kind) /\ Respond(h, App!ReplyTo[kind])
    BY <1>6, <1>8 DEF Ping, Invalid, Stream
  <2>2. QED
    BY <1>1, <1>5, <1>6, <2>1
<1>9. CASE Stop(h)
  <2>1. /\ ReadLine(h, "STOP")
        /\ CallRemove(h, "STOP") \/ Respond(h, App!ReplyTo["STOP"])
    BY <1>6, <1>9 DEF Stop
  <2>2. CASE Respond(h, App!ReplyTo["STOP"])
    BY <1>1, <1>5, <1>6, <2>1, <2>2
  <2>3. CASE CallRemove(h, "STOP")
    <3>1. inbox'[h] = <<>> /\ c = "STOP" /\ WholeLine(h, c)
      BY <2>1, ReadUnderway
    <3>2. owed'[h] = owed[h] /\ Stopping(h)' \in {0, 1}
      BY <2>3, HandlerReturns DEF Stopping
    <3>3. QED
      BY <3>1, <3>2 DEF NoAnswer
  <2>4. QED
    BY <2>1, <2>2, <2>3
<1>10. CASE StreamFails(h) \/ StreamPanics(h)
  <2>1. PICK kind \in {"STREAM", "BAD STREAM"}, r \in Reasons \ {"STOP"} :
            ReadLine(h, kind) /\ Close(h, r)
    BY <1>10 DEF StreamFails, StreamPanics, Reasons
  <2>2. QED
    BY <1>1, <1>4, <2>1
<1>11. CASE Poll(h) \/ EndOfFile(h) \/ ReadError(h)
  <2>1. inbox' = inbox \/ inbox' = [inbox EXCEPT ![h] = <<>>]
    BY <1>11 DEF Poll, EndOfFile, ReadError
  <2>2. \/ UNCHANGED <<conn, why, owed>>
        \/ \E r \in {"expired", "closed by peer", "connection error"} :
                Close(h, r) \/ CallRemove(h, r)
    BY <1>11 DEF Poll, EndOfFile, ReadError
  <2>3. QED
    BY <1>2, <1>3, <1>4, <2>1, <2>2
<1>12. CASE RemoveBegins(h)
  <2>1. /\ conn[h] = "remove" /\ conn' = [conn EXCEPT ![h] = "join"]
        /\ UNCHANGED <<inbox, why, owed>>
    BY <1>12 DEF RemoveBegins
  <2>2. conn'[h] = "join"
    BY <2>1 DEF LedgerTypes, ConnTypes
  <2>3. Stopping(h)' = Stopping(h)
    BY <2>1, <2>2 DEF Stopping
  <2>4. QED
    BY <1>2, <2>1, <2>3 DEF NoAnswer
<1>13. CASE RemoveFails(h)
  BY <1>2, <1>4, <1>13 DEF RemoveFails
<1>14. CASE RemoveEnds(h)
  <2>1. conn[h] = "join" /\ UNCHANGED inbox
    BY <1>14 DEF RemoveEnds
  <2>2. CASE why[h] = "STOP"
    <3>1. Respond(h, "STOP OK")
      BY <1>14, <2>2 DEF RemoveEnds
    <3>2. \/ owed'[h] = owed[h] /\ conn'[h] = "closed"
          \/ owed'[h] = owed[h] - 1 /\ conn'[h] = "read" /\ reply'[h] = "STOP OK"
      BY <3>1, RepliesTruly
    <3>3. Stopping(h)' = 0 /\ Stopping(h) = 1
      BY <2>1, <2>2, <3>2 DEF Stopping
    <3>4. Effect
      BY <2>1, <3>2, <3>3 DEF NoAnswer, Answer
    <3>5. QED
      BY <1>2, <2>1, <3>4
  <2>3. CASE why[h] # "STOP"
    <3>1. Close(h, why[h])
      BY <1>14, <2>3 DEF RemoveEnds
    <3>2. QED
      BY <1>2, <1>4, <2>1, <2>3, <3>1
  <2>4. QED
    BY <2>2, <2>3
<1>15. QED
  BY <1>7, <1>8, <1>9, <1>10, <1>11, <1>12, <1>13, <1>14 DEF ConnStep

-----------------------------------------------------------------------------
(***************************************************************************)
(* The session implements both of its parts, step by step.                 *)
(***************************************************************************)

\* A thread that uses the connection has one.
LEMMA CurThere ==
    ASSUME App!AppInv, CurInUse, NEW p \in App!Procs,
           at[p] \in App!Exchange \cup {"idle", "first", "second"}
    PROVE  /\ cur \in Handlers /\ conn[cur] # "listen"
           /\ at["cli"] \notin {"connect", "exited"}
<1>1. at["cli"] \notin {"connect", "exited"}
  <2>1. CASE p = "cli"
    BY <2>1 DEF App!Exchange
  <2>2. CASE p = "ka"
    BY <2>2 DEF App!AppInv, App!LifeTogether, App!Exchange
  <2>3. QED
    BY <2>1, <2>2 DEF App!Procs
<1>2. QED
  BY <1>1 DEF CurInUse

\* The two threads are never on the connection together.
LEMMA OneAtATime ==
    ASSUME App!AppInv, NEW p \in App!Procs, NEW q \in App!Procs,
           at[p] \in App!Exchange, at[q] \in App!Exchange
    PROVE  p = q
BY DEF App!AppInv, App!ExchangeLocked

(***************************************************************************)
(* What the client writes is what a peer of TcpServer writes: it begins a  *)
(* line only when nothing is on its way.                                   *)
(***************************************************************************)
LEMMA WriteIsPeers ==
    ASSUME App!AppInv, CurInUse, WireMatches, WireTypes, NEW p \in App!Procs, Write(p)
    PROVE  /\ cur \in Handlers
           /\ \E l \in Lines : l.cmd = doing[p] /\ PeerWrites(cur, l, p = "cli")
<1>1. at[p] = "write"
  BY DEF Write, App!Write, App!Move
<1>2. /\ cur \in Handlers /\ conn[cur] # "listen"
      /\ at["cli"] \notin {"connect", "exited"}
  BY <1>1, CurThere DEF App!Exchange
<1>3. \A q \in App!Procs : at[q] \notin Wired
  BY <1>1, OneAtATime DEF Wired, App!Exchange
<1>4. PICK l \in Lines :
        /\ l.cmd = doing[p] /\ Room(l)
        /\ IF p = "cli" THEN Sends(<<l>>, "midline") ELSE Sends(<<l, NewLine>>, "open")
  BY DEF Write
<1>5. inbox[cur] = <<>> /\ peer[cur] = "open"
  <2>1. peer[cur] # "reset"
    BY <1>4 DEF Sends
  <2>2. QED
    BY <1>2, <1>3, <2>1 DEF WireMatches, Quiet
<1>6. Append(<<>>, l) = <<>> \o <<l>>
  OBVIOUS
<1>7. [peer EXCEPT ![cur] = "open"] = peer
  BY <1>2, <1>5 DEF WireTypes
<1>8. IF p = "cli"
      THEN /\ inbox' = [inbox EXCEPT ![cur] = Append(@, l)]
           /\ peer' = [peer EXCEPT ![cur] = "midline"]
      ELSE /\ inbox' = [inbox EXCEPT ![cur] = @ \o <<l, NewLine>>]
           /\ UNCHANGED peer
  BY <1>4, <1>5, <1>6, <1>7 DEF Sends
<1>9. UNCHANGED <<vars, conn, client_id, silence, why, reply, owner>>
  BY <1>4 DEF Sends
<1>10. PeerWrites(cur, l, p = "cli")
  BY <1>2, <1>4, <1>5, <1>8, <1>9 DEF Write, PeerWrites
<1>11. QED
  BY <1>2, <1>4, <1>10

\* It ends the line it has begun, and no other has come between.
LEMMA NewlineIsPeers ==
    ASSUME App!AppInv, CurInUse, WireMatches, NEW p \in App!Procs, WriteNewline(p)
    PROVE  cur \in Handlers /\ PeerEndsLine(cur)
<1>1. at[p] = "newline"
  BY DEF WriteNewline, App!WriteNewline, App!Move
<1>2. cur \in Handlers
  BY <1>1, CurThere DEF App!Exchange
<1>3. Sends(<<NewLine>>, "open") /\ UNCHANGED <<written, owed>>
  BY DEF WriteNewline
<1>4. inbox[cur] \in {<<>>} \cup {<<l>> : l \in Lines} /\ peer[cur] = "midline"
  BY <1>1, <1>3 DEF WireMatches, Half, Sends
<1>5. Append(inbox[cur], NewLine) = inbox[cur] \o <<NewLine>>
  <2>1. inbox[cur] \in Seq(Items) /\ NewLine \in Items
    <3>1. \A l \in Lines : <<l>> \in Seq(Items)
      BY DEF Items
    <3>2. <<>> \in Seq(Items) /\ NewLine \in Items
      BY DEF Items
    <3>3. CASE inbox[cur] = <<>>
      BY <3>2, <3>3
    <3>4. CASE \E l \in Lines : inbox[cur] = <<l>>
      BY <3>1, <3>2, <3>4
    <3>5. QED
      BY <1>4, <3>3, <3>4
  <2>2. \A S : \A q \in Seq(S), x \in S : Append(q, x) = q \o <<x>>
    BY AppendIsConcat
  <2>3. QED
    BY <2>1, <2>2
<1>6. QED
  BY <1>2, <1>3, <1>4, <1>5 DEF Sends, PeerEndsLine

\* To the server every step of the client is one of a peer.
LEMMA TcpRefines ==
    App!AppInv /\ CurInUse /\ WireMatches /\ WireTypes /\ [E2ENext]_e2eVars =>
        [TcpNext]_tcpVars
<1> SUFFICES ASSUME App!AppInv, CurInUse, WireMatches, WireTypes, [E2ENext]_e2eVars
             PROVE  [TcpNext]_tcpVars
  OBVIOUS
<1>1. ASSUME NEW h \in Handlers, PeerStep(h) PROVE TcpNext
  BY <1>1 DEF TcpNext
<1>2. CASE FirstConnect \/ \E p \in App!Procs : Reconnect(p)
  <2>1. PICK h \in Handlers : Accept(h)
    BY <1>2 DEF FirstConnect, Reconnect
  <2>2. QED
    BY <1>1, <2>1 DEF PeerStep
<1>3. ASSUME Hangup(cur) PROVE [TcpNext]_tcpVars
  <2>1. CASE cur = Nobody
    BY <1>3, <2>1 DEF Hangup
  <2>2. CASE cur \in Handlers
    BY <1>1, <1>3, <2>2 DEF Hangup, PeerStep
  <2>3. QED
    BY <2>1, <2>2 DEF CurInUse
<1>4. CASE Exit \/ \E p \in App!Procs : Swap(p)
  BY <1>3, <1>4 DEF Exit, Swap
<1>5. ASSUME NEW p \in App!Procs, Write(p) PROVE TcpNext
  <2>1. (p = "cli") \in SplitWrites
    BY SessionAssumption
  <2>2. QED
    BY <1>1, <1>5, <2>1, WriteIsPeers DEF PeerStep
<1>6. ASSUME NEW p \in App!Procs, WriteNewline(p) PROVE TcpNext
  BY <1>1, <1>6, NewlineIsPeers DEF PeerStep
<1>7. CASE Break
  <2>1. cur \in Handlers /\ PeerLeaves(cur)
    BY <1>7 DEF Break, CurInUse
  <2>2. QED
    BY <1>1, <2>1 DEF PeerStep
<1>8. CASE Serve \/ \E h \in Handlers : Handle(h)
  BY <1>8 DEF Serve, Handle, TcpNext
<1>9. CASE ClientAlone \/ \E p \in App!Procs : ReadReply(p)
  BY <1>9 DEF ClientAlone, ReadReply
<1>10. CASE UNCHANGED e2eVars
  BY <1>10 DEF e2eVars
<1>11. QED
  BY <1>2, <1>4, <1>5, <1>6, <1>7, <1>8, <1>9, <1>10 DEF E2ENext

\* To the client the server is one that answers in order.
LEMMA AppRefines ==
    App!AppInv /\ CurInUse /\ WireMatches /\ [E2ENext]_e2eVars => [App!AppNext]_appVars
<1> SUFFICES ASSUME App!AppInv, CurInUse, WireMatches, [E2ENext]_e2eVars
             PROVE  [App!AppNext]_appVars
  OBVIOUS
<1>1. ASSUME NEW p \in App!Procs, App!ProcStep(p) PROVE App!AppNext
  BY <1>1 DEF App!AppNext
<1>2. ASSUME NEW p \in App!Procs, ReadReply(p) PROVE App!AppNext
  <2>1. /\ at[p] = "read" /\ outbox[cur] # <<>>
        /\ App!ReadReply(p, Head(outbox[cur]))
    BY <1>2 DEF ReadReply
  <2>2. pending = <<doing[p]>>
    BY <2>1 DEF App!AppInv, App!ReplyIsOwn
  <2>3. doing[p] \in DOMAIN App!ReplyTo /\ outbox[cur] = <<App!ReplyTo[doing[p]]>>
    BY <2>1 DEF WireMatches, Asked
  <2>4. /\ pending # <<>> /\ Head(pending) = doing[p]
        /\ Head(outbox[cur]) = App!ReplyTo[doing[p]]
    BY <2>2, <2>3, ShortChannels
  <2>5. QED
    BY <1>1, <2>1, <2>3, <2>4 DEF App!ProcStep
<1>3. CASE FirstConnect \/ Exit \/ ClientAlone
  BY <1>3 DEF FirstConnect, Exit, ClientAlone, App!AppNext, App!ProcStep
<1>4. ASSUME NEW p \in App!Procs, Reconnect(p) \/ Swap(p) \/ Write(p) \/ WriteNewline(p)
      PROVE  App!AppNext
  BY <1>1, <1>4 DEF Reconnect, Swap, Write, WriteNewline, App!ProcStep
<1>5. CASE (\E h \in Handlers : Handle(h)) \/ Serve \/ Break
  BY <1>5 DEF Handle, Serve, Break
<1>6. CASE UNCHANGED e2eVars
  BY <1>6 DEF e2eVars
<1>7. QED
  BY <1>2, <1>3, <1>4, <1>5, <1>6 DEF E2ENext

-----------------------------------------------------------------------------
(***************************************************************************)
(* What is on its way fits what the threads of the client do.              *)
(***************************************************************************)

\* Nothing moves on the connection in use.
LEMMA SameWire ==
    ASSUME cur' = cur, inbox'[cur] = inbox[cur], outbox'[cur] = outbox[cur],
           conn'[cur] = conn[cur], why'[cur] = why[cur], peer'[cur] = peer[cur]
    PROVE  /\ Quiet(cur) => Quiet(cur)'
           /\ \A c : /\ Underway(cur, c) => Underway(cur, c)'
                     /\ Half(cur, c) => Half(cur, c)'
                     /\ Asked(cur, c) => Asked(cur, c)'
<1>1. Stopping(cur)' = Stopping(cur)
  BY DEF Stopping
<1>2. QED
  BY <1>1 DEF Quiet, Underway, Half, Asked

\* Nothing moves on h.
LEMMA QuietElsewhere ==
    ASSUME NEW h, Quiet(h), inbox'[h] = inbox[h], outbox'[h] = outbox[h],
           conn'[h] = conn[h], why'[h] = why[h],
           peer'[h] \in {peer[h], "reset"}
    PROVE  Quiet(h)'
<1>1. Stopping(h)' = Stopping(h)
  BY DEF Stopping
<1>2. QED
  BY <1>1 DEF Quiet

\* A handler that removes or closes, or only waits, adds no client.
LEMMA OwnersKept ==
    ASSUME IInv, ConnInv, NEW h \in Handlers, ConnStep(h)
    PROVE  /\ \A c \in Ids : owner[c] # Nobody =>
                /\ owner'[c] = owner[c]
                /\ thread[c] = "done" => thread'[c] = "done"
           /\ \A c \in Ids : owner'[c] \in {owner[c], h}
           /\ ~ Stream(h) => owner' = owner
<1>1. CASE Stream(h)
  <2>1. PICK n \in Ids : n = clients_count
    BY <1>1, NextId DEF Stream, AddClient, IInv
  <2>2. owner[n] = Nobody
    BY <2>1 DEF ConnInv, OwnersKnown, IInv, TypeOK, Ids
  <2>3. owner' = [owner EXCEPT ![n] = h] /\ thread' = [thread EXCEPT ![n] = "recv"]
    BY <1>1, <2>1 DEF Stream, AddClient
  <2>4. QED
    BY <1>1, <2>2, <2>3 DEF ConnInv, ConnTypes, IInv, TypeOK
<1>2. CASE ~ Stream(h)
  <2>1. UNCHANGED owner
    BY <1>2 DEF ConnStep, EmptyLine, Ping, Invalid, StreamFails, StreamPanics,
       Stop, Poll, EndOfFile, ReadError, RemoveBegins, RemoveFails, RemoveEnds
  <2>2. UNCHANGED thread
    BY <1>2 DEF ConnStep, EmptyLine, Ping, Invalid, StreamFails, StreamPanics,
       Stop, Poll, EndOfFile, ReadError, RemoveBegins, RemoveFails, RemoveEnds,
       AddClientPanics, RemoveClient, RemoveClientJoined, vars, threadVars
  <2>3. QED
    BY <2>1, <2>2
<1>3. QED
  BY <1>1, <1>2

\* A client that has ended stays so, and no other is added for the connection in use.
LEMMA FinalKept ==
    ASSUME FinalOnCur, cur' = cur,
           \A c \in Ids : owner[c] # Nobody =>
                /\ owner'[c] = owner[c]
                /\ thread[c] = "done" => thread'[c] = "done",
           \A c \in Ids : owner'[c] = cur => owner[c] = cur
    PROVE  FinalOnCur'
<1> SUFFICES ASSUME NEW c \in Ids, Newest(c)', owner'[c] = cur PROVE thread'[c] = "done"
  BY DEF FinalOnCur
<1>1. owner[c] = cur /\ owner[c] # Nobody
  BY DEF Newest
<1>2. \A d \in Ids : owner[d] = cur => d <= c
  BY <1>1 DEF Newest, Owned
<1>3. QED
  BY <1>1, <1>2 DEF FinalOnCur, Newest, Owned

\* A STREAM is read only when one was sent.
LEMMA NoStream ==
    ASSUME LedgerTypes, NEW h \in Handlers, peer[h] # "eof",
           NEW c, Underway(h, c), c # "STREAM"
    PROVE  ~ Stream(h)
<1>1. Stream(h) => ReadLine(h, "STREAM")
  BY DEF Stream
<1>2. QED
  BY <1>1, ReadUnderway

\* A handler that answers a STOP reads on without a client.
LEMMA StopAnswered ==
    ASSUME LedgerTypes, NEW h \in Handlers, ConnStep(h), peer[h] # "eof",
           Underway(h, "STOP"), owed'[h] # owed[h]
    PROVE  client_id'[h] = NoId
<1>1. ASSUME NEW kind, ReadLine(h, kind) PROVE kind \in {"NL", "STOP"}
  BY <1>1, ReadUnderway
<1>2. ASSUME NEW r PROVE ~ Close(h, r) /\ ~ CallRemove(h, r)
  BY HandlerReturns
<1>3. owed' # owed
  OBVIOUS
<1>4. CASE Stop(h)
  BY <1>2, <1>4 DEF Stop
<1>5. CASE RemoveEnds(h) \/ RemoveFails(h)
  BY <1>5 DEF RemoveEnds, RemoveFails, LedgerTypes, ConnTypes
<1>6. CASE Ping(h) \/ Invalid(h) \/ Stream(h)
  <2>1. PICK kind \in {"PING", "OTHER", "STREAM"} : ReadLine(h, kind)
    BY <1>6 DEF Ping, Invalid, Stream
  <2>2. QED
    BY <1>1, <2>1
<1>7. CASE \/ EmptyLine(h) \/ StreamFails(h) \/ StreamPanics(h) \/ Poll(h)
           \/ EndOfFile(h) \/ ReadError(h) \/ RemoveBegins(h)
  BY <1>2, <1>3, <1>7 DEF EmptyLine, StreamFails, StreamPanics, Poll, EndOfFile,
     ReadError, RemoveBegins
<1>8. QED
  BY <1>4, <1>5, <1>6, <1>7 DEF ConnStep

\* The handler of a connection with nothing on its way leaves it so.
LEMMA QuietHandler ==
    ASSUME LedgerTypes, IInv, ConnInv, NEW h \in Handlers, ConnStep(h), Quiet(h)
    PROVE  /\ inbox'[h] = <<>> /\ owed'[h] = owed[h] /\ Stopping(h)' = 0
           /\ peer' = peer /\ owner' = owner
<1>1. inbox[h] = <<>> /\ Stopping(h) = 0 /\ peer[h] # "eof"
  BY DEF Quiet
<1>2. "PING" \in App!UserCommands /\ Underway(h, "PING")
  BY <1>1 DEF App!UserCommands, Underway
<1>3. ~ WholeLine(h, "PING")
  BY <1>1, ShortChannels DEF WholeLine
<1>4. NoAnswer(h, "PING")
  <2>1. NoAnswer(h, "PING") \/ Answer(h, "PING")
    BY <1>1, <1>2, HandlerEffect
  <2>2. ~ Answer(h, "PING")
    BY <1>1, <1>3 DEF Answer
  <2>3. QED
    BY <2>1, <2>2
<1>5. ~ Stream(h)
  BY <1>1, <1>2, NoStream
<1>6. QED
  BY <1>1, <1>2, <1>3, <1>4, <1>5, HandlerEffect, HandlerElsewhere, OwnersKept
     DEF NoAnswer, peerVars

-----------------------------------------------------------------------------
(***************************************************************************)
(* SessionInv is kept, by the steps of the server and of the network first. *)
(***************************************************************************)

\* What is known of a state of the session.
Known == App!AppInv /\ IInv /\ ConnInv /\ LedgerTypes /\ SessionInv

\* The handler reads, answers or drops what is on its way.
LEMMA HandleAsked ==
    ASSUME Known, NEW h \in Handlers, Handle(h), NEW c \in App!UserCommands,
           Underway(h, c), peer[h] # "eof"
    PROVE  /\ Underway(h, c)'
           /\ Half(h, c) => Half(h, c)'
           /\ Asked(h, c) => Asked(h, c)'
<1>1. /\ ConnStep(h) /\ LedgerTypes
      /\ outbox' = IF owed'[h] < owed[h]
                   THEN [outbox EXCEPT ![h] = Append(@, reply'[h])] ELSE outbox
  BY DEF Handle, Known
<1>2. /\ inbox'[h] \in {inbox[h], <<>>}
      /\ NoAnswer(h, c) \/ Answer(h, c)
  BY <1>1, HandlerEffect
<1>3. peer'[h] = peer[h] /\ owed[h] \in Int
  BY <1>1, HandlerElsewhere DEF peerVars, LedgerTypes, WireTypes
<1>4. NoAnswer(h, c) => outbox'[h] = outbox[h]
  <2>1. owed'[h] = owed[h] => ~ (owed'[h] < owed[h])
    BY <1>3
  <2>2. QED
    BY <1>1, <2>1 DEF NoAnswer
<1>5. Answer(h, c) /\ outbox[h] = <<>> => outbox'[h] = <<reply'[h]>>
  <2> SUFFICES ASSUME Answer(h, c), outbox[h] = <<>> PROVE outbox'[h] = <<reply'[h]>>
    OBVIOUS
  <2>1. owed'[h] < owed[h]
    <3>1. \A n \in Int : n - 1 < n
      OBVIOUS
    <3>2. owed'[h] = owed[h] - 1
      BY DEF Answer
    <3>3. QED
      BY <1>3, <3>1, <3>2
  <2>2. outbox'[h] = Append(<<>>, reply'[h])
    BY <1>1, <2>1 DEF Known, SessionInv, OutboxOK
  <2>3. QED
    BY <2>2
<1>6. WholeLine(h, c) => inbox[h] \notin {<<>>} \cup {<<l>> : l \in Lines}
  BY ShortChannels DEF WholeLine
<1>7. Underway(h, c)'
  BY <1>2 DEF Underway
<1>8. ASSUME Half(h, c) PROVE Half(h, c)'
  <2>1. ~ WholeLine(h, c) /\ Stopping(h) = 0
    BY <1>6, <1>8 DEF Half
  <2>2. NoAnswer(h, c) /\ Stopping(h)' = 0
    BY <1>2, <2>1 DEF NoAnswer, Answer
  <2>3. QED
    BY <1>2, <1>3, <1>4, <1>8, <2>2 DEF Half
<1>9. ASSUME Asked(h, c) PROVE Asked(h, c)'
  <2>1. CASE /\ inbox[h] \in {<<>>, <<NewLine>>} \cup {<<l, NewLine>> : l \in Lines}
             /\ outbox[h] = <<>> /\ Stopping(h) = 0
    <3>1. CASE Answer(h, c)
      <4>1. /\ inbox'[h] = <<>> /\ Stopping(h)' = 0
            /\ c \in DOMAIN App!ReplyTo /\ reply'[h] = App!ReplyTo[c]
        BY <2>1, <3>1 DEF Answer
      <4>2. QED
        BY <1>3, <1>5, <1>9, <2>1, <3>1, <4>1 DEF Asked
    <3>2. CASE NoAnswer(h, c)
      <4>1. CASE Stopping(h)' = 0
        BY <1>2, <1>3, <1>4, <1>9, <2>1, <3>2, <4>1 DEF Asked
      <4>2. CASE Stopping(h)' # 0
        <5>1. c = "STOP" /\ inbox'[h] = <<>> /\ Stopping(h)' = 1
          BY <2>1, <3>2, <4>2 DEF NoAnswer
        <5>2. QED
          BY <1>3, <1>4, <1>9, <2>1, <3>2, <5>1 DEF Asked
      <4>3. QED
        BY <4>1, <4>2
    <3>3. QED
      BY <1>2, <3>1, <3>2
  <2>2. CASE inbox[h] = <<>> /\ outbox[h] = <<>> /\ Stopping(h) = 1 /\ c = "STOP"
    <3>1. ~ WholeLine(h, c) /\ inbox'[h] = <<>>
      BY <1>2, <1>6, <2>2
    <3>2. CASE Answer(h, c)
      <4>1. Stopping(h)' = 0 /\ reply'[h] = "STOP OK"
        BY <3>1, <3>2 DEF Answer
      <4>2. c \in DOMAIN App!ReplyTo /\ App!ReplyTo[c] = "STOP OK"
        BY <2>2 DEF App!ReplyTo, App!UserCommands
      <4>3. QED
        BY <1>3, <1>5, <1>9, <2>2, <3>1, <3>2, <4>1, <4>2 DEF Asked
    <3>3. CASE NoAnswer(h, c)
      <4>1. Stopping(h)' \in {0, 1}
        BY <2>2, <3>1, <3>3 DEF NoAnswer
      <4>2. QED
        BY <1>3, <1>4, <1>9, <2>2, <3>1, <3>3, <4>1 DEF Asked
    <3>4. QED
      BY <1>2, <3>2, <3>3
  <2>3. CASE /\ inbox[h] = <<>> /\ Stopping(h) = 0
             /\ c \in DOMAIN App!ReplyTo /\ outbox[h] = <<App!ReplyTo[c]>>
    <3>1. ~ WholeLine(h, c) /\ inbox'[h] = <<>>
      BY <1>2, <1>6, <2>3
    <3>2. NoAnswer(h, c) /\ Stopping(h)' = 0
      BY <1>2, <2>3, <3>1 DEF NoAnswer, Answer
    <3>3. QED
      BY <1>3, <1>4, <1>9, <2>3, <3>1, <3>2 DEF Asked
  <2>4. QED
    BY <1>9, <2>1, <2>2, <2>3 DEF Asked
<1>10. QED
  BY <1>7, <1>8, <1>9

\* Before the first connect and after the exit nobody uses the connection.
LEMMA NobodyWired ==
    ASSUME Known
    PROVE  \/ cur \in Handlers
           \/ /\ at["cli"] \in {"connect", "exited"}
              /\ \A p \in App!Procs : at[p] \notin Wired
<1>1. App!AppInv /\ CurInUse
  BY DEF Known, SessionInv
<1>2. ASSUME NEW p \in App!Procs, at[p] \in Wired PROVE cur \in Handlers
  BY <1>1, <1>2, CurThere DEF Wired, App!Exchange
<1>3. QED
  BY <1>1, <1>2 DEF CurInUse

\* A handler takes a step.
LEMMA HandleKeeps ==
    ASSUME Known, LedgerTypes', ConnInv', NEW h \in Handlers, Handle(h)
    PROVE  SessionInv'
<1>1. /\ ConnStep(h) /\ UNCHANGED <<at, doing, shown, cur, fresh>>
      /\ outbox' = IF owed'[h] < owed[h]
                   THEN [outbox EXCEPT ![h] = Append(@, reply'[h])] ELSE outbox
  BY DEF Handle, appVars
<1>2. App!AppInv /\ IInv /\ ConnInv /\ LedgerTypes /\ SessionInv
  BY DEF Known
<1>3. /\ peer' = peer
      /\ conn[h] # "listen" /\ conn'[h] # "listen"
      /\ \A g \in Handlers \ {h} :
            inbox'[g] = inbox[g] /\ conn'[g] = conn[g] /\ why'[g] = why[g]
  BY <1>1, <1>2, HandlerElsewhere DEF peerVars, HandlerAlone
<1>4. OutboxOK'
  <2>1. reply'[h] \in Replies /\ outbox[h] \in Seq(Replies)
    BY <1>2 DEF LedgerTypes, WireTypes, SessionInv, OutboxOK
  <2>2. Append(outbox[h], reply'[h]) \in Seq(Replies)
    BY <2>1
  <2>3. QED
    BY <1>1, <1>2, <2>2 DEF SessionInv, OutboxOK
<1>5. \A g \in Handlers \ {h} : outbox'[g] = outbox[g]
  BY <1>1, <1>2 DEF SessionInv, OutboxOK
<1>6. Quiet(h) => Quiet(h)' /\ owner' = owner
  <2> SUFFICES ASSUME Quiet(h) PROVE Quiet(h)' /\ owner' = owner
    OBVIOUS
  <2>1. inbox'[h] = <<>> /\ owed'[h] = owed[h] /\ Stopping(h)' = 0 /\ owner' = owner
    BY <1>1, <1>2, QuietHandler
  <2>2. ~ (owed'[h] < owed[h])
    <3>1. \A n \in Int : ~ (n < n)
      OBVIOUS
    <3>2. QED
      BY <1>2, <2>1, <3>1 DEF LedgerTypes, WireTypes
  <2>3. outbox' = outbox
    BY <1>1, <2>2
  <2>4. QED
    BY <1>3, <2>1, <2>3 DEF Quiet
<1>7. \A g \in Handlers : Quiet(g) => Quiet(g)'
  BY <1>3, <1>5, <1>6, QuietElsewhere
<1>8. Unused' /\ CurInUse'
  BY <1>1, <1>2, <1>3, <1>7 DEF SessionInv, Unused, CurInUse
<1>9. FreshUnused'
  <2> SUFFICES ASSUME NEW p \in App!Procs, at[p] = "swap"
               PROVE  Quiet(fresh)' /\ Owned(fresh)' = {} /\ conn'[fresh] # "listen"
    BY <1>1, <1>2 DEF SessionInv, FreshUnused
  <2>1. PICK g \in Handlers : g = fresh /\ fresh' = g
    BY <1>1, <1>2 DEF SessionInv, FreshUnused
  <2>2. Quiet(g) /\ Owned(g) = {} /\ conn[g] # "listen"
    BY <1>2, <2>1 DEF SessionInv, FreshUnused
  <2>3. Quiet(g)' /\ conn'[g] # "listen"
    BY <1>3, <1>7, <2>2
  <2>4. Owned(g)' = {}
    BY <1>1, <1>2, <1>6, <2>2, OwnersKept DEF Owned
  <2>5. QED
    BY <2>1, <2>3, <2>4 DEF Quiet, Stopping, Owned
<1>10. WireMatches'
  <2>1. CASE cur \notin Handlers
    BY <1>1, <2>1, NobodyWired DEF WireMatches, Wired
  <2>2. CASE cur \in Handlers /\ cur # h
    <3>1. /\ Quiet(cur) => Quiet(cur)'
          /\ \A c : /\ Underway(cur, c) => Underway(cur, c)'
                    /\ Half(cur, c) => Half(cur, c)'
                    /\ Asked(cur, c) => Asked(cur, c)'
      BY <1>1, <1>3, <1>5, <2>2, SameWire
    <3>2. WireMatches /\ peer'[cur'] = peer[cur] /\ at' = at /\ doing' = doing
      BY <1>1, <1>2, <1>3 DEF SessionInv
    <3>3. QED
      BY <3>1, <3>2 DEF WireMatches
  <2>3. CASE cur = h
    <3>1. Quiet(cur) => Quiet(cur)'
      BY <1>1, <1>6, <2>3 DEF Quiet, Stopping
    <3>2. ASSUME NEW p \in App!Procs, at[p] \in Wired
          PROVE  /\ Underway(cur, doing[p])' /\ peer'[cur'] # "eof"
                 /\ Half(cur, doing[p]) => Half(cur, doing[p])'
                 /\ Asked(cur, doing[p]) => Asked(cur, doing[p])'
      <4>1. PICK c \in App!UserCommands : c = doing[p] /\ doing'[p] = c
        BY <1>1, <1>2 DEF App!AppInv, App!AppTypeOK
      <4>2. Underway(h, c) /\ peer[h] # "eof"
        BY <1>2, <2>3, <3>2, <4>1 DEF SessionInv, WireMatches
      <4>3. /\ Underway(h, c)'
            /\ Half(h, c) => Half(h, c)'
            /\ Asked(h, c) => Asked(h, c)'
        BY <4>2, HandleAsked
      <4>4. cur' = h /\ cur = h /\ peer'[cur'] # "eof"
        BY <1>1, <1>3, <2>3, <4>2
      <4>5. Underway(cur, doing[p])'
        BY <4>1, <4>3, <4>4 DEF Underway
      <4>6. Half(cur, doing[p]) => Half(cur, doing[p])'
        BY <4>1, <4>3, <4>4 DEF Half, Stopping
      <4>7. Asked(cur, doing[p]) => Asked(cur, doing[p])'
        BY <4>1, <4>3, <4>4 DEF Asked, Stopping
      <4>8. QED
        BY <4>4, <4>5, <4>6, <4>7
    <3>3. WireMatches /\ at' = at
      BY <1>1, <1>2 DEF SessionInv
    <3>4. QED
      BY <3>1, <3>2, <3>3 DEF WireMatches, Wired
  <2>4. QED
    BY <2>1, <2>2, <2>3
<1>11. ASSUME cur # h \/ ~ Stream(h), FinalOnCur PROVE FinalOnCur'
  <2>1. \A c \in Ids : owner'[c] = cur => owner[c] = cur
    BY <1>1, <1>2, <1>11, OwnersKept
  <2>2. QED
    BY <1>1, <1>2, <1>11, <2>1, OwnersKept, FinalKept
<1>12. StopShownIsFinal'
  <2> SUFFICES ASSUME at["cli"] = "idle", shown = "STOP OK" PROVE FinalOnCur'
    BY <1>1 DEF StopShownIsFinal, FinalOnCur
  <2>1. FinalOnCur
    BY <1>2 DEF SessionInv, StopMatches, StopShownIsFinal, FinalOnCur
  <2>2. CASE at["ka"] \in Wired
    <3>1. doing["ka"] = "PING" /\ Underway(cur, "PING") /\ peer[cur] # "eof"
      BY <1>2, <2>2 DEF SessionInv, StopMatches, WireMatches, App!Procs
    <3>2. cur # h \/ ~ Stream(h)
      BY <1>2, <3>1, NoStream
    <3>3. QED
      BY <1>11, <2>1, <3>2
  <2>3. CASE at["ka"] \notin Wired
    <3>1. Quiet(cur)
      BY <1>2, <2>3 DEF SessionInv, WireMatches, Wired, App!Procs
    <3>2. cur # h \/ ~ Stream(h)
      BY <3>1 DEF Quiet, Stream, ReadLine, LineReady
    <3>3. QED
      BY <1>11, <2>1, <3>2
  <2>4. QED
    BY <2>2, <2>3
<1>13. ASSUME at["cli"] = "read", doing["cli"] = "STOP", outbox'[cur] # <<>>
       PROVE  FinalOnCur'
  <2>1. /\ Asked(cur, "STOP") /\ Underway(cur, "STOP") /\ peer[cur] # "eof"
        /\ cur \in Handlers
    BY <1>2, <1>13, NobodyWired DEF SessionInv, WireMatches, Wired, App!Procs
  <2>2. cur # h \/ ~ Stream(h)
    BY <1>2, <2>1, NoStream
  <2>3. CASE outbox[cur] # <<>>
    BY <1>2, <1>11, <1>13, <2>2, <2>3 DEF SessionInv, StopMatches
  <2>4. CASE outbox[cur] = <<>>
    <3>1. cur = h /\ owed'[h] # owed[h]
      <4>1. cur = h
        BY <1>5, <1>13, <2>1, <2>4
      <4>2. outbox' # outbox
        BY <1>13, <2>4
      <4>3. \A n \in Int : ~ (n < n)
        OBVIOUS
      <4>4. QED
        BY <1>1, <1>2, <4>1, <4>2, <4>3 DEF LedgerTypes, WireTypes
    <3>2. client_id'[h] = NoId
      BY <1>1, <1>2, <2>1, <3>1, StopAnswered
    <3>3. conn'[h] = "read"
      <4>1. "STOP" \in App!UserCommands
        BY DEF App!UserCommands
      <4>2. Answer(h, "STOP")
        BY <1>1, <1>2, <2>1, <3>1, <4>1, HandlerEffect DEF NoAnswer
      <4>3. QED
        BY <4>2 DEF Answer
    <3>4. StopOkIsFinal'
      BY DEF ConnInv
    <3>5. QED
      BY <1>1, <3>1, <3>2, <3>3, <3>4 DEF StopOkIsFinal, FinalOnCur
  <2>5. QED
    BY <2>3, <2>4
<1>14. StopMatches'
  BY <1>1, <1>2, <1>12, <1>13 DEF SessionInv, StopMatches
<1>15. QED
  BY <1>4, <1>8, <1>9, <1>10, <1>14 DEF SessionInv

\* The threads of the quote server run.
LEMMA ServeKeeps ==
    ASSUME Known, Serve
    PROVE  SessionInv'
<1>1. /\ UNCHANGED <<inbox, outbox, conn, why, peer, owner>>
      /\ UNCHANGED <<at, doing, shown, cur, fresh>>
  BY DEF Serve, connVars, peerVars, appVars, linkVars
<1>2. SessionInv /\ thread \in [Ids -> {"none", "recv", "lock", "read", "done"}]
  BY DEF Known, IInv, TypeOK
<1>3. \A c \in Ids : thread[c] = "done" => thread'[c] = "done"
  <2>1. ASSUME NEW c \in Ids, ClientStep(c)
        PROVE  \A d \in Ids : thread[d] = "done" => thread'[d] = "done"
    BY <1>2, <2>1 DEF ClientStep, RecvUpdate, ReadLock, Callback, ReadUnlock,
       RecvShutdown
  <2>2. BackgroundStep => UNCHANGED thread
    BY DEF BackgroundStep, Tick, TryWrite, WriteBusy, UpdateTimeout, UpdateQuote,
       UpdateFails, WriteUnlock, Notify, threadVars
  <2>3. QED
    BY <2>1, <2>2 DEF Serve
<1>4. OutboxOK' /\ Unused' /\ CurInUse' /\ FreshUnused'
  BY <1>1, <1>2 DEF SessionInv, OutboxOK, Unused, CurInUse, FreshUnused, Quiet,
     Stopping, Owned
<1>5. WireMatches'
  <2>1. /\ Quiet(cur) => Quiet(cur)'
        /\ \A c : /\ Underway(cur, c) => Underway(cur, c)'
                  /\ Half(cur, c) => Half(cur, c)'
                  /\ Asked(cur, c) => Asked(cur, c)'
    BY <1>1, SameWire
  <2>2. WireMatches /\ peer'[cur'] = peer[cur] /\ at' = at /\ doing' = doing
    BY <1>1, <1>2 DEF SessionInv
  <2>3. QED
    BY <2>1, <2>2 DEF WireMatches
<1>6. FinalOnCur => FinalOnCur'
  BY <1>1, <1>3, FinalKept
<1>7. StopMatches'
  BY <1>1, <1>2, <1>6 DEF SessionInv, StopMatches, StopShownIsFinal, FinalOnCur
<1>8. QED
  BY <1>4, <1>5, <1>7 DEF SessionInv

\* The connection in use breaks.
LEMMA BreakKeeps ==
    ASSUME Known, Break
    PROVE  SessionInv'
<1>1. SessionInv /\ LedgerTypes
  BY DEF Known
<1>2. PICK h \in Handlers : h = cur /\ cur' = h
  BY <1>1 DEF Break, SessionInv, CurInUse, linkVars
<1>3. /\ UNCHANGED <<inbox, outbox, conn, why, owner, thread>>
      /\ UNCHANGED <<at, doing, shown, cur, fresh>>
      /\ conn[h] # "listen" /\ peer'[h] = "reset"
      /\ \A g \in Handlers \ {h} : peer'[g] = peer[g]
  BY <1>1, <1>2 DEF Break, PeerLeaves, vars, threadVars, connVars, appVars, linkVars,
     LedgerTypes, WireTypes
<1>4. \A g \in Handlers : Quiet(g) => Quiet(g)'
  BY <1>3, QuietElsewhere
<1>5. OutboxOK' /\ Unused' /\ CurInUse'
  BY <1>1, <1>2, <1>3, <1>4 DEF SessionInv, OutboxOK, Unused, CurInUse
<1>6. FreshUnused'
  <2> SUFFICES ASSUME NEW p \in App!Procs, at[p] = "swap"
               PROVE  Quiet(fresh)' /\ Owned(fresh)' = {}
    BY <1>1, <1>3 DEF SessionInv, FreshUnused
  <2>1. PICK g \in Handlers : g = fresh /\ fresh' = g /\ Quiet(g) /\ Owned(g) = {}
    BY <1>1, <1>3 DEF SessionInv, FreshUnused
  <2>2. Quiet(g)' /\ Owned(g)' = {}
    BY <1>3, <1>4, <2>1 DEF Owned
  <2>3. QED
    BY <2>1, <2>2 DEF Quiet, Stopping, Owned
<1>7. WireMatches'
  <2>1. Stopping(cur)' = Stopping(cur)
    BY <1>3 DEF Stopping
  <2>2. Quiet(cur) => Quiet(cur)'
    BY <1>2, <1>3, <2>1 DEF Quiet
  <2>3. WireMatches /\ peer'[cur'] # "eof" /\ at' = at /\ doing' = doing
    BY <1>1, <1>2, <1>3 DEF SessionInv
  <2>4. ASSUME NEW p \in App!Procs
        PROVE  /\ at'[p] \in Wired => Underway(cur, doing[p])' /\ peer'[cur'] # "eof"
               /\ at'[p] = "newline" => Half(cur, doing[p])'
               /\ at'[p] = "read" => Asked(cur, doing[p])'
    <3>1. PICK c : c = doing[p] /\ c = doing'[p]
      BY <2>3
    <3>2. at'[p] \in Wired => Underway(cur, c)
      BY <2>3, <3>1 DEF WireMatches
    <3>3. at'[p] = "newline" => Half(cur, c)
      BY <2>3, <3>1 DEF WireMatches
    <3>4. at'[p] = "read" => Asked(cur, c)
      BY <2>3, <3>1 DEF WireMatches
    <3>5. Underway(cur, c) => Underway(cur, doing[p])'
      BY <1>2, <1>3, <3>1 DEF Underway
    <3>6. Half(cur, c) => Half(cur, doing[p])'
      BY <1>2, <1>3, <2>1, <3>1 DEF Half
    <3>7. Asked(cur, c) => Asked(cur, doing[p])'
      BY <1>2, <1>3, <2>1, <3>1 DEF Asked
    <3>8. QED
      BY <2>3, <3>2, <3>3, <3>4, <3>5, <3>6, <3>7
  <2>5. QED
    BY <2>2, <2>3, <2>4 DEF WireMatches, Wired
<1>8. FinalOnCur => FinalOnCur'
  BY <1>3, FinalKept
<1>9. StopMatches'
  BY <1>1, <1>3, <1>8 DEF SessionInv, StopMatches, StopShownIsFinal, FinalOnCur
<1>10. QED
  BY <1>5, <1>6, <1>7, <1>9 DEF SessionInv

-----------------------------------------------------------------------------
(***************************************************************************)
(* SessionInv is kept by the steps of the client.                          *)
(***************************************************************************)

\* A thread steps without touching the connection, or gives up an exchange.
LEMMA AloneMoves ==
    ASSUME App!AppInv, ClientAlone
    PROVE  /\ \A p \in App!Procs :
                \/ at'[p] = at[p] /\ doing'[p] = doing[p]
                \/ /\ at[p] \notin Wired \cup {"connect", "exited"}
                   /\ at'[p] \notin Wired \cup {"connect", "exited", "bind"}
                \/ /\ at[p] \in {"write", "newline", "read"}
                   /\ at'[p] = "reconnect" /\ doing'[p] = doing[p]
           /\ doing'["ka"] = doing["ka"]
           /\ shown' = shown \/ at'["cli"] \in {"first", "reconnect"}
           /\ at'["cli"] = "idle" => at["cli"] = "idle" \/ at["cli"] = "bind"
<1> USE DEF App!Procs, App!Move, Wired
<1>1. at \in [App!Procs -> App!Places] /\ doing \in [App!Procs -> App!UserCommands]
  BY DEF App!AppInv, App!AppTypeOK
<1>2. CASE App!BindUdp
  BY <1>1, <1>2 DEF App!BindUdp
<1>3. CASE App!TypeCommand
  BY <1>1, <1>3 DEF App!TypeCommand
<1>4. CASE App!WakeUp
  BY <1>1, <1>4 DEF App!WakeUp
<1>5. ASSUME NEW p \in App!Procs, App!LockFirst(p) \/ App!LockSecond(p)
      PROVE  /\ at' = [at EXCEPT ![p] = at'[p]] /\ at[p] \in {"first", "second"}
             /\ at'[p] \in {"second", "write"} /\ UNCHANGED <<doing, shown>>
  BY <1>1, <1>5 DEF App!LockFirst, App!LockSecond
<1>6. CASE \E p \in App!Procs : App!LockFirst(p) \/ App!LockSecond(p)
  BY <1>1, <1>5, <1>6
<1>7. CASE \E p \in App!Procs : App!ExchangeFails(p)
  BY <1>1, <1>7 DEF App!ExchangeFails, App!AfterError
<1>8. QED
  BY <1>2, <1>3, <1>4, <1>6, <1>7 DEF ClientAlone

\* A step that does not touch the connection.
LEMMA AloneKeeps ==
    ASSUME Known, ClientAlone
    PROVE  SessionInv'
<1>1. UNCHANGED <<inbox, outbox, conn, why, peer, owner, thread, cur, fresh>>
  BY DEF ClientAlone, tcpVars, vars, threadVars, connVars, peerVars, linkVars
<1>2. App!AppInv /\ SessionInv
  BY DEF Known
<1>3. "cli" \in App!Procs
  BY DEF App!Procs
<1>4. OutboxOK' /\ Unused'
  BY <1>1, <1>2 DEF SessionInv, OutboxOK, Unused, Quiet, Stopping
<1>5. CurInUse'
  BY <1>1, <1>2, <1>3, AloneMoves DEF SessionInv, CurInUse
<1>6. FreshUnused'
  <2>1. \A p \in App!Procs : at'[p] = "swap" => at[p] = "swap"
    BY <1>2, AloneMoves DEF Wired
  <2>2. QED
    BY <1>1, <1>2, <2>1 DEF SessionInv, FreshUnused, Quiet, Stopping, Owned
<1>7. WireMatches'
  <2>1. Quiet(cur) => Quiet(cur)'
    BY <1>1, SameWire
  <2>2. ASSUME NEW p \in App!Procs, at[p] = "write"
        PROVE  Underway(cur, doing[p]) /\ peer[cur] # "eof"
    <3>1. \A q \in App!Procs : at[q] \notin Wired
      BY <1>2, <2>2, OneAtATime DEF Wired, App!Exchange
    <3>2. Quiet(cur)
      BY <1>2, <2>2, <3>1, CurThere DEF SessionInv, WireMatches, App!Exchange
    <3>3. QED
      BY <3>2 DEF Quiet, Underway
  <2>3. ASSUME NEW p \in App!Procs
        PROVE  /\ at'[p] \in Wired => Underway(cur, doing[p])' /\ peer'[cur'] # "eof"
               /\ at'[p] = "newline" => Half(cur, doing[p])'
               /\ at'[p] = "read" => Asked(cur, doing[p])'
    <3>1. PICK c : c = doing[p]
      OBVIOUS
    <3>2. /\ at'[p] \in Wired => doing'[p] = c /\ Underway(cur, c) /\ peer[cur] # "eof"
          /\ at'[p] = "newline" => doing'[p] = c /\ Half(cur, c)
          /\ at'[p] = "read" => doing'[p] = c /\ Asked(cur, c)
      BY <1>2, <2>2, <3>1, AloneMoves DEF SessionInv, WireMatches, Wired
    <3>3. doing'[p] = c /\ Underway(cur, c) => Underway(cur, doing[p])'
      BY <1>1 DEF Underway
    <3>4. doing'[p] = c /\ Half(cur, c) => Half(cur, doing[p])'
      BY <1>1 DEF Half, Stopping
    <3>5. doing'[p] = c /\ Asked(cur, c) => Asked(cur, doing[p])'
      BY <1>1 DEF Asked, Stopping
    <3>6. QED
      BY <1>1, <3>2, <3>3, <3>4, <3>5
  <2>4. at'["cli"] \notin {"connect", "exited"} /\ (\A p \in App!Procs : at'[p] \notin Wired)
        => Quiet(cur)
    BY <1>2, <1>3, AloneMoves DEF SessionInv, WireMatches, Wired
  <2>5. QED
    BY <2>1, <2>3, <2>4 DEF WireMatches, Wired
<1>8. FinalOnCur' <=> FinalOnCur
  BY <1>1 DEF FinalOnCur, Newest, Owned
<1>9. StopShownIsFinal'
  <2> SUFFICES ASSUME at'["cli"] = "idle", shown' = "STOP OK" PROVE FinalOnCur'
    BY DEF StopShownIsFinal, FinalOnCur
  <2>1. shown = "STOP OK" /\ at["cli"] = "idle"
    BY <1>2, AloneMoves DEF SessionInv, StopMatches
  <2>2. QED
    BY <1>2, <1>8, <2>1 DEF SessionInv, StopMatches, StopShownIsFinal, FinalOnCur
<1>10. StopMatches'
  BY <1>1, <1>2, <1>3, <1>8, <1>9, AloneMoves DEF SessionInv, StopMatches, Wired
<1>11. QED
  BY <1>4, <1>5, <1>6, <1>7, <1>10 DEF SessionInv

\* A connection that is accepted is as it was made.
LEMMA AcceptFresh ==
    ASSUME Known, NEW h \in Handlers, Accept(h)
    PROVE  /\ UNCHANGED <<inbox, why, peer, owner, thread>>
           /\ Quiet(h) /\ Owned(h) = {} /\ Stopping(h)' = 0
           /\ conn[h] = "listen" /\ conn'[h] # "listen"
           /\ \A g \in Handlers \ {h} : conn'[g] = conn[g]
<1>1. conn[h] = "listen" /\ UNCHANGED <<inbox, why, peer, owner, thread>>
  BY DEF Accept, vars, threadVars, peerVars
<1>2. conn'[h] \in {"read", "closed"} /\ \A g \in Handlers \ {h} : conn'[g] = conn[g]
  BY DEF Accept, Known, LedgerTypes, ConnTypes
<1>3. Quiet(h) /\ Owned(h) = {}
  BY <1>1 DEF Known, SessionInv, Unused, ConnInv, ListenFresh
<1>4. Stopping(h)' = 0
  BY <1>2 DEF Stopping
<1>5. QED
  BY <1>1, <1>2, <1>3, <1>4

\* The first connection is made.
LEMMA FirstConnectKeeps ==
    ASSUME Known, FirstConnect
    PROVE  SessionInv'
<1>1. SessionInv /\ at \in [App!Procs -> App!Places]
  BY DEF Known, App!AppInv, App!AppTypeOK
<1>2. PICK h \in Handlers : Accept(h) /\ cur' = h
  BY DEF FirstConnect
<1>3. /\ UNCHANGED <<inbox, outbox, why, peer, fresh, doing, shown>>
      /\ at' = [at EXCEPT !["cli"] = "bind", !["ka"] = "idle"]
      /\ at["cli"] = "connect"
  BY <1>2, AcceptFresh DEF FirstConnect, App!FirstConnect
<1>4. at'["cli"] = "bind" /\ at'["ka"] = "idle"
  BY <1>1, <1>3 DEF App!Procs
<1>5. OutboxOK' /\ CurInUse' /\ FreshUnused'
  BY <1>1, <1>2, <1>3, <1>4, AcceptFresh, HandlersAssumption
     DEF SessionInv, OutboxOK, CurInUse, FreshUnused, App!Procs
<1>6. Unused'
  <2> SUFFICES ASSUME NEW g \in Handlers, conn'[g] = "listen"
               PROVE  Quiet(g)' /\ peer'[g] = "open"
    BY DEF Unused
  <2>1. g # h /\ conn'[g] = conn[g] /\ Quiet(g) /\ peer[g] = "open"
    BY <1>1, <1>2, AcceptFresh DEF SessionInv, Unused
  <2>2. QED
    BY <1>3, <2>1, QuietElsewhere
<1>7. WireMatches'
  <2>1. Quiet(cur)'
    BY <1>2, <1>3, AcceptFresh DEF Quiet, Stopping
  <2>2. QED
    BY <1>4, <2>1 DEF WireMatches, Wired, App!Procs
<1>8. StopMatches'
  BY <1>1, <1>3, <1>4 DEF SessionInv, StopMatches, StopShownIsFinal
<1>9. QED
  BY <1>5, <1>6, <1>7, <1>8 DEF SessionInv

\* A thread makes a new connection.
LEMMA ReconnectKeeps ==
    ASSUME Known, NEW p \in App!Procs, Reconnect(p)
    PROVE  SessionInv'
<1>1. SessionInv /\ App!AppInv /\ at \in [App!Procs -> App!Places]
  BY DEF Known, App!AppInv, App!AppTypeOK
<1>2. PICK h \in Handlers : Accept(h) /\ fresh' = h
  BY DEF Reconnect
<1>3. /\ UNCHANGED <<inbox, outbox, why, peer, owner, thread, cur, doing, shown>>
      /\ at[p] = "reconnect" /\ at' = [at EXCEPT ![p] = "swap"]
  BY <1>2, AcceptFresh DEF Reconnect, App!Reconnect, App!Move
<1>4. /\ cur \in Handlers /\ cur # h /\ conn'[cur] = conn[cur]
      /\ at["cli"] \notin {"connect", "exited"}
  BY <1>1, <1>2, <1>3, CurThere, AcceptFresh DEF SessionInv, App!Exchange
<1>5. /\ at'[p] = "swap"
      /\ \A q \in App!Procs : q # p => at'[q] = at[q]
  BY <1>1, <1>3
<1>6. OutboxOK' /\ CurInUse'
  BY <1>1, <1>3, <1>4 DEF SessionInv, OutboxOK, CurInUse
<1>7. Unused'
  <2> SUFFICES ASSUME NEW g \in Handlers, conn'[g] = "listen"
               PROVE  Quiet(g)' /\ peer'[g] = "open"
    BY DEF Unused
  <2>1. g # h /\ conn'[g] = conn[g] /\ Quiet(g) /\ peer[g] = "open"
    BY <1>1, <1>2, AcceptFresh DEF SessionInv, Unused
  <2>2. QED
    BY <1>3, <2>1, QuietElsewhere
<1>8. FreshUnused'
  <2>1. Quiet(fresh)'
    BY <1>2, <1>3, AcceptFresh DEF Quiet, Stopping
  <2>2. fresh' \in Handlers /\ fresh' # cur' /\ Owned(fresh)' = {} /\ conn'[fresh'] # "listen"
    BY <1>2, <1>3, <1>4, AcceptFresh DEF Owned
  <2>3. QED
    BY <2>1, <2>2 DEF FreshUnused
<1>9. WireMatches'
  <2>1. /\ Quiet(cur) => Quiet(cur)'
        /\ \A c : /\ Underway(cur, c) => Underway(cur, c)'
                  /\ Half(cur, c) => Half(cur, c)'
                  /\ Asked(cur, c) => Asked(cur, c)'
    BY <1>3, <1>4, SameWire
  <2>2. WireMatches /\ peer'[cur'] = peer[cur] /\ doing' = doing
    BY <1>1, <1>3 DEF SessionInv
  <2>3. \A q \in App!Procs :
            /\ at'[q] \in Wired <=> at[q] \in Wired
            /\ at'[q] \in {"newline", "read"} => at'[q] = at[q]
    BY <1>3, <1>5 DEF Wired
  <2>4. QED
    BY <1>4, <2>1, <2>2, <2>3 DEF WireMatches
<1>10. FinalOnCur' <=> FinalOnCur
  BY <1>3 DEF FinalOnCur, Newest, Owned
<1>11. StopMatches'
  <2>1. at'["cli"] \in {"connect", "bind", "idle", "read"} => at'["cli"] = at["cli"]
    BY <1>5 DEF App!Procs
  <2>2. QED
    BY <1>1, <1>3, <1>10, <2>1 DEF SessionInv, StopMatches, StopShownIsFinal, FinalOnCur
<1>12. QED
  BY <1>6, <1>7, <1>8, <1>9, <1>11 DEF SessionInv

\* The end that the client closes is not that of another connection.
LEMMA HangupElsewhere ==
    ASSUME Known, Hangup(cur)
    PROVE  /\ UNCHANGED <<inbox, conn, why, owner, thread>>
           /\ \A g \in Handlers : g # cur => peer'[g] = peer[g]
<1>1. CASE UNCHANGED tcpVars
  BY <1>1 DEF tcpVars, vars, threadVars, connVars, peerVars
<1>2. CASE PeerLeaves(cur)
  BY <1>2 DEF PeerLeaves, vars, threadVars, connVars, Known, LedgerTypes, WireTypes
<1>3. QED
  BY <1>1, <1>2 DEF Hangup

\* The process ends.
LEMMA ExitKeeps ==
    ASSUME Known, Exit
    PROVE  SessionInv'
<1>1. /\ UNCHANGED <<inbox, outbox, conn, why, cur, doing>>
      /\ \A g \in Handlers : g # cur => peer'[g] = peer[g]
      /\ SessionInv
  BY HangupElsewhere DEF Exit, App!Exit, linkVars, Known
<1>2. \A p \in App!Procs : at'[p] = "exited"
  BY DEF Exit, App!Exit
<1>3. OutboxOK' /\ CurInUse' /\ FreshUnused' /\ WireMatches' /\ StopMatches'
  BY <1>1, <1>2 DEF SessionInv, OutboxOK, CurInUse, FreshUnused, WireMatches, Wired,
     StopMatches, StopShownIsFinal, App!Procs
<1>4. Unused'
  <2> SUFFICES ASSUME NEW g \in Handlers, conn[g] = "listen"
               PROVE  Quiet(g)' /\ peer'[g] = "open"
    BY <1>1 DEF Unused
  <2>1. g # cur /\ Quiet(g) /\ peer[g] = "open"
    BY <1>1, HandlersAssumption DEF SessionInv, Unused, CurInUse
  <2>2. QED
    BY <1>1, <2>1, QuietElsewhere
<1>5. QED
  BY <1>3, <1>4 DEF SessionInv

\* The new connection takes the place of the old one.
LEMMA SwapKeeps ==
    ASSUME Known, NEW p \in App!Procs, Swap(p)
    PROVE  SessionInv'
<1>1. SessionInv /\ App!AppInv /\ at \in [App!Procs -> App!Places]
  BY DEF Known, App!AppInv, App!AppTypeOK
<1>2. at[p] = "swap" /\ at' = [at EXCEPT ![p] = "idle"] /\ UNCHANGED <<doing, shown>>
  BY DEF Swap, App!Swap, App!Move
<1>3. PICK h \in Handlers :
        /\ h = fresh /\ cur' = h /\ h # cur
        /\ Quiet(h) /\ Owned(h) = {} /\ conn[h] # "listen"
  BY <1>1, <1>2 DEF SessionInv, FreshUnused, Swap
<1>4. /\ UNCHANGED <<inbox, outbox, conn, why, owner, thread>>
      /\ \A g \in Handlers : g # cur => peer'[g] = peer[g]
  BY HangupElsewhere DEF Swap
<1>5. \A q \in App!Procs : at'[q] \notin App!Exchange
  BY <1>1, <1>2, OneAtATime DEF App!Exchange
<1>6. OutboxOK' /\ CurInUse' /\ FreshUnused'
  BY <1>1, <1>3, <1>4, <1>5, HandlersAssumption
     DEF SessionInv, OutboxOK, CurInUse, FreshUnused, App!Exchange
<1>7. Unused'
  <2> SUFFICES ASSUME NEW g \in Handlers, conn[g] = "listen"
               PROVE  Quiet(g)' /\ peer'[g] = "open"
    BY <1>4 DEF Unused
  <2>1. g # cur /\ Quiet(g) /\ peer[g] = "open"
    BY <1>1, HandlersAssumption DEF SessionInv, Unused, CurInUse
  <2>2. QED
    BY <1>4, <2>1, QuietElsewhere
<1>8. WireMatches'
  <2>1. Quiet(h)'
    BY <1>3, <1>4, QuietElsewhere
  <2>2. Quiet(cur)'
    BY <1>3, <2>1 DEF Quiet, Stopping
  <2>3. QED
    BY <1>5, <2>2 DEF WireMatches, Wired, App!Exchange
<1>9. StopMatches'
  <2>1. FinalOnCur'
    BY <1>3, <1>4 DEF FinalOnCur, Newest, Owned
  <2>2. at'["cli"] \in {"connect", "bind"} => at["cli"] = at'["cli"]
    BY <1>1, <1>2 DEF App!Procs
  <2>3. QED
    BY <1>1, <1>2, <2>1, <2>2 DEF SessionInv, StopMatches, StopShownIsFinal, FinalOnCur
<1>10. QED
  BY <1>6, <1>7, <1>8, <1>9 DEF SessionInv

\* A thread writes or reads on the connection that it has to itself.
LEMMA ExchangeOn ==
    ASSUME Known, NEW p \in App!Procs, at[p] \in {"write", "newline", "read"}
    PROVE  /\ cur \in Handlers /\ conn[cur] # "listen"
           /\ at["cli"] \notin {"connect", "exited"}
           /\ \A q \in App!Procs : q # p => at[q] \notin App!Exchange
           /\ \A q \in App!Procs : at[q] # "swap"
           /\ doing[p] \in App!UserCommands
           /\ inbox[cur] \in Seq(Items) /\ outbox[cur] \in Seq(Replies)
<1>1. App!AppInv /\ SessionInv /\ LedgerTypes
  BY DEF Known
<1>2. /\ cur \in Handlers /\ conn[cur] # "listen"
      /\ at["cli"] \notin {"connect", "exited"}
  BY <1>1, CurThere DEF SessionInv, App!Exchange
<1>3. /\ \A q \in App!Procs : q # p => at[q] \notin App!Exchange
      /\ \A q \in App!Procs : at[q] # "swap"
  BY <1>1, OneAtATime DEF App!Exchange
<1>4. doing[p] \in App!UserCommands
  BY <1>1 DEF App!AppInv, App!AppTypeOK
<1>5. inbox[cur] \in Seq(Items) /\ outbox[cur] \in Seq(Replies)
  BY <1>1, <1>2 DEF LedgerTypes, WireTypes, InboxOK, Items, SessionInv, OutboxOK
<1>6. QED
  BY <1>2, <1>3, <1>4, <1>5

\* It goes on to a place from which it still has the connection, or gives it back.
LEMMA ExchangeGoesOn ==
    ASSUME Known, NEW p \in App!Procs, at[p] \in {"write", "newline", "read"},
           NEW s, s \notin {"swap", "connect", "bind", "exited"},
           at' = [at EXCEPT ![p] = s],
           UNCHANGED <<conn, doing, cur, fresh>>,
           \A g \in Handlers \ {cur} :
              /\ inbox'[g] = inbox[g] /\ outbox'[g] = outbox[g]
              /\ why'[g] = why[g] /\ peer'[g] = peer[g]
    PROVE  /\ Unused' /\ CurInUse' /\ FreshUnused'
           /\ at'[p] = s
           /\ \A q \in App!Procs : q # p => at'[q] = at[q] /\ at'[q] \notin App!Exchange
<1>1. SessionInv /\ at \in [App!Procs -> App!Places]
  BY DEF Known, App!AppInv, App!AppTypeOK
<1>2. /\ at'[p] = s
      /\ \A q \in App!Procs : q # p => at'[q] = at[q] /\ at'[q] \notin App!Exchange
  BY <1>1, ExchangeOn
<1>3. CurInUse'
  BY <1>1, ExchangeOn DEF SessionInv, CurInUse
<1>4. Unused'
  <2> SUFFICES ASSUME NEW g \in Handlers, conn[g] = "listen"
               PROVE  Quiet(g)' /\ peer'[g] = "open"
    BY DEF Unused
  <2>1. g # cur /\ Quiet(g) /\ peer[g] = "open"
    BY <1>1, ExchangeOn DEF SessionInv, Unused
  <2>2. QED
    BY <2>1, QuietElsewhere
<1>5. \A q \in App!Procs : at'[q] # "swap"
  BY <1>2, ExchangeOn
<1>6. QED
  BY <1>2, <1>3, <1>4, <1>5 DEF FreshUnused

\* A thread sends its command, and the newline at once or later.
LEMMA WriteKeeps ==
    ASSUME Known, NEW p \in App!Procs, Write(p)
    PROVE  SessionInv'
<1> DEFINE s == IF p = "ka" THEN "read" ELSE "newline"
<1>1. /\ at[p] = "write" /\ at' = [at EXCEPT ![p] = s]
      /\ UNCHANGED <<doing, shown, cur, fresh, outbox>>
  BY DEF Write, Sends, App!Write, App!Move, linkVars
<1>2. PICK l \in Lines : l.cmd = doing[p] /\ PeerWrites(cur, l, p = "cli")
  BY WriteIsPeers DEF Known, SessionInv, LedgerTypes
<1>3. /\ SessionInv /\ LedgerTypes
      /\ cur \in Handlers /\ at["cli"] \notin {"connect", "exited"}
      /\ \A q \in App!Procs : q # p => at[q] \notin App!Exchange
  BY <1>1, ExchangeOn DEF Known
<1>4. Quiet(cur) /\ peer[cur] = "open"
  <2>1. \A q \in App!Procs : at[q] \notin Wired
    BY <1>1, <1>3 DEF Wired, App!Exchange
  <2>2. QED
    BY <1>2, <1>3, <2>1 DEF SessionInv, WireMatches, PeerWrites
<1>5. /\ UNCHANGED <<conn, why, owner, thread>>
      /\ p = "cli" => inbox'[cur] = <<l>> /\ peer'[cur] = "midline"
      /\ p # "cli" => inbox'[cur] = <<l, NewLine>> /\ peer'[cur] = "open"
      /\ \A g \in Handlers \ {cur} : inbox'[g] = inbox[g] /\ peer'[g] = peer[g]
  <2>1. UNCHANGED <<conn, why, owner, thread>>
    BY <1>2 DEF PeerWrites, vars, threadVars
  <2>2. inbox[cur] = <<>>
    BY <1>4 DEF Quiet
  <2>3. Append(<<>>, l) = <<l>> /\ <<>> \o <<l, NewLine>> = <<l, NewLine>>
    OBVIOUS
  <2>4. CASE p = "cli"
    <3>1. /\ inbox' = [inbox EXCEPT ![cur] = Append(@, l)]
          /\ peer' = [peer EXCEPT ![cur] = "midline"]
      BY <1>2, <2>4 DEF PeerWrites
    <3>2. QED
      BY <1>3, <2>1, <2>2, <2>3, <2>4, <3>1 DEF LedgerTypes, WireTypes, InboxOK
  <2>5. CASE p # "cli"
    <3>1. inbox' = [inbox EXCEPT ![cur] = @ \o <<l, NewLine>>] /\ peer' = peer
      BY <1>2, <2>5 DEF PeerWrites
    <3>2. QED
      BY <1>3, <1>4, <2>1, <2>2, <2>3, <2>5, <3>1 DEF LedgerTypes, WireTypes, InboxOK
  <2>6. QED
    BY <2>4, <2>5
<1>6. /\ Unused' /\ CurInUse' /\ FreshUnused'
      /\ at'[p] = s
      /\ \A q \in App!Procs : q # p => at'[q] = at[q] /\ at'[q] \notin App!Exchange
  BY <1>1, <1>5, ExchangeGoesOn
<1>7. WireMatches'
  <2>1. Underway(cur, doing[p])' /\ peer'[cur'] # "eof"
    BY <1>1, <1>2, <1>5 DEF Underway
  <2>2. Stopping(cur)' = 0 /\ outbox'[cur'] = <<>> /\ cur' = cur
    BY <1>1, <1>4, <1>5 DEF Quiet, Stopping
  <2>3. at'[p] = "newline" => Half(cur, doing[p])'
    BY <1>5, <1>6, <2>2 DEF Half, App!Procs
  <2>4. at'[p] = "read" => Asked(cur, doing[p])'
    BY <1>5, <1>6, <2>2 DEF Asked, App!Procs
  <2>5. at'[p] \in Wired
    BY <1>6 DEF Wired
  <2>6. QED
    BY <1>6, <2>1, <2>3, <2>4, <2>5 DEF WireMatches, Wired, App!Exchange
<1>8. OutboxOK'
  BY <1>1, <1>3 DEF SessionInv, OutboxOK
<1>9. StopMatches'
  <2>1. FinalOnCur' <=> FinalOnCur
    BY <1>1, <1>5 DEF FinalOnCur, Newest, Owned
  <2>2. /\ at'["cli"] # "read"
        /\ at'["cli"] \in {"connect", "bind", "idle"} => at["cli"] = at'["cli"]
    BY <1>6 DEF App!Procs, App!Exchange
  <2>3. QED
    BY <1>1, <1>3, <2>1, <2>2 DEF SessionInv, StopMatches, StopShownIsFinal, FinalOnCur
<1>10. QED
  BY <1>6, <1>7, <1>8, <1>9 DEF SessionInv

\* The line is complete.
LEMMA WriteNewlineKeeps ==
    ASSUME Known, NEW p \in App!Procs, WriteNewline(p)
    PROVE  SessionInv'
<1>1. /\ at[p] = "newline" /\ at' = [at EXCEPT ![p] = "read"]
      /\ UNCHANGED <<doing, shown, cur, fresh, outbox>>
      /\ PeerEndsLine(cur)
  BY NewlineIsPeers DEF WriteNewline, Sends, App!WriteNewline, App!Move, linkVars,
     Known, SessionInv
<1>2. /\ SessionInv /\ LedgerTypes
      /\ cur \in Handlers /\ at["cli"] \notin {"connect", "exited"}
  BY <1>1, ExchangeOn DEF Known
<1>3. Half(cur, doing[p]) /\ Underway(cur, doing[p])
  BY <1>1, <1>2 DEF SessionInv, WireMatches, Wired
<1>4. /\ UNCHANGED <<conn, why, owner, thread>>
      /\ inbox'[cur] = Append(inbox[cur], NewLine) /\ peer'[cur] = "open"
      /\ \A g \in Handlers \ {cur} : inbox'[g] = inbox[g] /\ peer'[g] = peer[g]
  BY <1>1, <1>2 DEF PeerEndsLine, vars, threadVars, LedgerTypes, WireTypes, InboxOK
<1>5. /\ Unused' /\ CurInUse' /\ FreshUnused'
      /\ at'[p] = "read"
      /\ \A q \in App!Procs : q # p => at'[q] = at[q] /\ at'[q] \notin App!Exchange
  BY <1>1, <1>4, ExchangeGoesOn
<1>6. \/ inbox'[cur] = <<NewLine>>
      \/ \E l \in Lines : l.cmd = doing[p] /\ inbox'[cur] = <<l, NewLine>>
  <2>1. CASE inbox[cur] = <<>>
    BY <1>4, <2>1
  <2>2. CASE \E l \in Lines : inbox[cur] = <<l>>
    <3>1. PICK l \in Lines : inbox[cur] = <<l>>
      BY <2>2
    <3>2. inbox'[cur] = <<l, NewLine>>
      <4>1. l \in Items /\ NewLine \in Items
        BY DEF Items
      <4>2. QED
        BY <1>4, <3>1, <4>1, LineComplete
    <3>3. l.cmd = doing[p]
      <4>1. \A a, b, e : /\ <<a>> # <<>> /\ <<a>> # <<b, e>>
                        /\ <<a>> = <<b>> => a = b
        <5>1. 1 # 2
          OBVIOUS
        <5>2. QED
          BY <5>1, ShortChannels
      <4>2. l # NewLine
        BY LineOrNewLine
      <4>3. QED
        BY <1>3, <3>1, <4>1, <4>2 DEF Underway
    <3>4. QED
      BY <3>2, <3>3
  <2>3. QED
    BY <1>3, <2>1, <2>2 DEF Half
<1>7. WireMatches'
  <2>1. Underway(cur, doing[p])'
    BY <1>1, <1>6 DEF Underway
  <2>2. Stopping(cur)' = 0 /\ outbox'[cur'] = <<>> /\ cur' = cur
    BY <1>1, <1>3, <1>4 DEF Half, Stopping
  <2>3. Asked(cur, doing[p])'
    BY <1>4, <1>6, <2>2 DEF Asked
  <2>4. QED
    BY <1>1, <1>4, <1>5, <2>1, <2>3 DEF WireMatches, Wired, App!Exchange
<1>8. OutboxOK'
  BY <1>1, <1>2 DEF SessionInv, OutboxOK
<1>9. StopMatches'
  <2>1. FinalOnCur' <=> FinalOnCur
    BY <1>1, <1>4 DEF FinalOnCur, Newest, Owned
  <2>2. /\ at'["cli"] = "read" => p = "cli"
        /\ at'["cli"] \in {"connect", "bind", "idle"} => at["cli"] = at'["cli"]
    BY <1>5 DEF App!Procs, App!Exchange
  <2>3. outbox'[cur'] = <<>>
    BY <1>1, <1>3 DEF Half
  <2>4. QED
    BY <1>1, <1>2, <2>1, <2>2, <2>3
       DEF SessionInv, StopMatches, StopShownIsFinal, FinalOnCur
<1>10. QED
  BY <1>5, <1>7, <1>8, <1>9 DEF SessionInv

\* A thread reads the reply to its command.
LEMMA ReadReplyKeeps ==
    ASSUME Known, NEW p \in App!Procs, ReadReply(p)
    PROVE  SessionInv'
<1>1. /\ at[p] = "read" /\ outbox[cur] # <<>>
      /\ outbox' = [outbox EXCEPT ![cur] = Tail(@)]
      /\ UNCHANGED <<inbox, conn, why, peer, owner, thread, doing, cur, fresh>>
      /\ shown' = IF p = "cli" THEN Head(outbox[cur]) ELSE shown
  BY DEF ReadReply, App!ReadReply, tcpVars, vars, threadVars, connVars, peerVars
<1>2. /\ SessionInv
      /\ cur \in Handlers /\ at["cli"] \notin {"connect", "exited"}
  BY <1>1, ExchangeOn DEF Known
<1>3. PICK s \in {"idle", "reconnect"} : at' = [at EXCEPT ![p] = s]
  BY DEF ReadReply, App!ReadReply, App!Move
<1>4. /\ doing[p] \in DOMAIN App!ReplyTo /\ outbox[cur] = <<App!ReplyTo[doing[p]]>>
      /\ inbox[cur] = <<>> /\ Stopping(cur) = 0 /\ peer[cur] \in {"open", "reset"}
  BY <1>1, <1>2 DEF SessionInv, WireMatches, Asked
<1>5. /\ outbox'[cur] = <<>> /\ Head(outbox[cur]) = App!ReplyTo[doing[p]]
      /\ \A g \in Handlers \ {cur} : outbox'[g] = outbox[g]
  BY <1>1, <1>2, <1>4, ShortChannels DEF SessionInv, OutboxOK
<1>6. /\ Unused' /\ CurInUse' /\ FreshUnused'
      /\ at'[p] = s
      /\ \A q \in App!Procs : q # p => at'[q] = at[q] /\ at'[q] \notin App!Exchange
  BY <1>1, <1>3, <1>5, ExchangeGoesOn
<1>7. OutboxOK'
  <2>1. <<>> \in Seq(Replies)
    OBVIOUS
  <2>2. outbox' = [outbox EXCEPT ![cur] = <<>>]
    BY <1>1, <1>4, ShortChannels
  <2>3. QED
    BY <1>2, <2>1, <2>2 DEF SessionInv, OutboxOK
<1>8. WireMatches'
  <2>1. Quiet(cur)'
    BY <1>1, <1>4, <1>5 DEF Quiet, Stopping
  <2>2. Underway(cur, doing[p])' /\ peer'[cur'] # "eof"
    BY <1>1, <1>4 DEF Underway
  <2>3. QED
    BY <1>3, <1>6, <2>1, <2>2 DEF WireMatches, Wired, App!Exchange
<1>9. StopMatches'
  <2>1. FinalOnCur' <=> FinalOnCur
    BY <1>1 DEF FinalOnCur, Newest, Owned
  <2>2. /\ at'["cli"] # "read"
        /\ at'["cli"] \in {"connect", "bind"} => at["cli"] = at'["cli"]
    BY <1>3, <1>6 DEF App!Procs, App!Exchange
  <2>3. StopShownIsFinal'
    <3> SUFFICES ASSUME at'["cli"] = "idle", shown' = "STOP OK" PROVE FinalOnCur'
      BY DEF StopShownIsFinal, FinalOnCur
    <3>1. CASE p = "cli"
      <4>1. doing["cli"] = "STOP"
        BY <1>1, <1>4, <1>5, <3>1 DEF App!ReplyTo, App!UserCommands
      <4>2. QED
        BY <1>1, <1>2, <2>1, <3>1, <4>1 DEF SessionInv, StopMatches
    <3>2. CASE p # "cli"
      <4>1. at["cli"] = "idle" /\ shown = "STOP OK"
        BY <1>1, <1>6, <3>2 DEF App!Procs
      <4>2. QED
        BY <1>2, <2>1, <4>1 DEF SessionInv, StopMatches, StopShownIsFinal, FinalOnCur
    <3>3. QED
      BY <3>1, <3>2
  <2>4. QED
    BY <1>1, <1>2, <2>2, <2>3, <1>3, <1>6 DEF SessionInv, StopMatches, App!Procs
<1>10. QED
  BY <1>6, <1>7, <1>8, <1>9 DEF SessionInv

-----------------------------------------------------------------------------
(***************************************************************************)
(* SessionInv is an invariant, and the properties follow.                  *)
(***************************************************************************)

\* A session begins with nothing on its way.
LEMMA SessionInit == E2EInit => SessionInv /\ App!AppInv
<1> SUFFICES ASSUME E2EInit PROVE SessionInv /\ App!AppInv
  OBVIOUS
<1>1. /\ TcpInit /\ App!AppInit /\ cur = Nobody
      /\ outbox = [h \in Handlers |-> <<>>]
  BY DEF E2EInit
<1>2. at["cli"] = "connect" /\ at["ka"] = "off"
  BY <1>1 DEF App!AppInit, App!Procs
<1>3. OutboxOK
  BY <1>1, EmptySeq DEF OutboxOK
<1>4. Unused
  BY <1>1 DEF TcpInit, Unused, Quiet, Stopping
<1>5. CurInUse /\ FreshUnused /\ WireMatches
  BY <1>1, <1>2 DEF CurInUse, FreshUnused, WireMatches, Wired, App!Procs
<1>6. StopMatches
  BY <1>1, <1>2 DEF StopMatches, StopShownIsFinal, App!AppInit, App!Procs
<1>7. App!AppInv
  BY <1>1, SameClient, AppProofs!AppInvInit
<1>8. QED
  BY <1>3, <1>4, <1>5, <1>6, <1>7 DEF SessionInv

\* Every step keeps it.
LEMMA SessionStep ==
    Known /\ ConnInv' /\ LedgerTypes' /\ [E2ENext]_e2eVars => SessionInv'
<1> SUFFICES ASSUME Known, ConnInv', LedgerTypes', [E2ENext]_e2eVars PROVE SessionInv'
  OBVIOUS
<1>1. CASE UNCHANGED e2eVars
  BY <1>1 DEF Known, SessionInv, OutboxOK, Unused, CurInUse, FreshUnused,
     WireMatches, StopMatches, StopShownIsFinal, FinalOnCur, Newest, Owned,
     Quiet, Underway, Half, Asked, Stopping, e2eVars, tcpVars, vars, threadVars,
     connVars, peerVars, appVars, linkVars
<1>2. QED
  BY <1>1, FirstConnectKeeps, ExitKeeps, ReconnectKeeps, SwapKeeps, WriteKeeps,
     WriteNewlineKeeps, ReadReplyKeeps, AloneKeeps, HandleKeeps, ServeKeeps,
     BreakKeeps DEF E2ENext

\* In every reachable state the session fits together.
LEMMA SessionInvariance == E2ESafety => []Known
<1>1. E2EInit => Known
  <2>1. E2EInit => TcpInit /\ Init
    BY DEF E2EInit, TcpInit
  <2>2. ConnInv => ConnTypes
    BY DEF ConnInv
  <2>3. QED
    BY <2>1, <2>2, SessionInit, IInvInit, ConnInvInit, LedgerInit DEF Known, LedgerTypes
<1>2. Known /\ [E2ENext]_e2eVars => Known'
  <2> SUFFICES ASSUME Known, [E2ENext]_e2eVars PROVE Known'
    OBVIOUS
  <2>1. App!AppInv /\ IInv /\ ConnInv /\ LedgerTypes /\ SessionInv
    BY DEF Known
  <2>2. [TcpNext]_tcpVars
    BY <2>1, TcpRefines DEF SessionInv, LedgerTypes
  <2>3. IInv'
    BY <2>1, <2>2, StepRefines, IInvInductive DEF IInv, LedgerTypes, WireTypes
  <2>4. ConnInv'
    BY <2>1, <2>2, ConnInvStep
  <2>5. LedgerTypes'
    BY <2>1, <2>2, <2>4, WireTypesStep DEF LedgerTypes, ConnInv
  <2>6. App!AppInv'
    BY <2>1, AppRefines, AppStepKeeps DEF SessionInv
  <2>7. QED
    BY <2>3, <2>4, <2>5, <2>6, SessionStep DEF Known
<1>3. QED
  BY <1>1, <1>2, PTL DEF E2ESafety

(***************************************************************************)
(* To the server the command line client is a peer like any other, in      *)
(* whatever order its two threads type, ping, time out and reconnect.      *)
(***************************************************************************)
THEOREM ClientServedAsPeer == E2ESafety => ServedAsPeer
<1>1. E2EInit => TcpInit
  BY DEF E2EInit
<1>2. Known /\ [E2ENext]_e2eVars => [TcpNext]_tcpVars
  BY TcpRefines DEF Known, SessionInv, LedgerTypes
<1>3. QED
  BY <1>1, <1>2, SessionInvariance, PTL DEF E2ESafety, ServedAsPeer, TcpSafety

(***************************************************************************)
(* To the client the server is one that answers in order: what a thread    *)
(* reads is the reply to its own command, for any number of connections,   *)
(* and whatever polls, breaks and reconnects came between.                 *)
(***************************************************************************)
THEOREM AnsweredInOrder == E2ESafety => ServerAnswersInOrder
<1>1. E2EInit => App!AppInit
  BY DEF E2EInit
<1>2. Known /\ [E2ENext]_e2eVars => [App!AppNext]_(App!appVars)
  BY AppRefines DEF Known, SessionInv, appVars, App!appVars
<1>3. QED
  BY <1>1, <1>2, SessionInvariance, PTL DEF E2ESafety, ServerAnswersInOrder, App!AppSafety

(***************************************************************************)
(* When the user sees STOP OK, the client that was added last for the      *)
(* connection in use has ended.                                            *)
(***************************************************************************)
THEOREM StopShownHolds == E2ESafety => []StopShownIsFinal
<1>1. Known => StopShownIsFinal
  BY DEF Known, SessionInv, StopMatches
<1>2. QED
  BY <1>1, SessionInvariance, PTL
=============================================================================
