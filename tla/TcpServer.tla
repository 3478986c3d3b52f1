------------------------------ MODULE TcpServer ------------------------------
(***************************************************************************)
(* The TCP control server of src/tcp_server.rs on top of the quote server: *)
(* one handler thread per connection reads lines and calls add_client and  *)
(* remove_client.  The peers write lines, perhaps in two pieces, and may   *)
(* fall silent, close the connection or lose it.                           *)
(***************************************************************************)
EXTENDS QuoteServer

CONSTANTS
    Commands,       \* kinds of lines that peers send
    SplitWrites,    \* whether peers write a line and its newline separately
    MaxLines,       \* bound: lines that the peer of a connection sends
    KeepAliveSec,   \* CLIENT_KEEP_ALIVE_SEC
    TicksPerSec     \* resolution of the model's clock

\* A line is classified as handle_connection does: by its first word, and a
\* STREAM also by whether its arguments are well formed.
CommandKinds == {"PING", "STREAM", "BAD STREAM", "STOP", "OTHER", "NOT UTF8"}

ASSUME CommandsAssumption ==
    /\ Commands \subseteq CommandKinds
    /\ SplitWrites \subseteq BOOLEAN
    /\ MaxLines \in Nat
    /\ KeepAliveSec \in Nat
    /\ TicksPerSec \in Nat \ {0}

\* What travels on a connection: command lines, and the newlines behind them.
NewLine == [cmd |-> "NL", tl |-> <<>>]
Lines ==
    [cmd : Commands \ {"STREAM"}, tl : {<<>>}] \cup
    [cmd : Commands \cap {"STREAM"}, tl : Subscriptions]

MaxSilence == TicksPerSec * (KeepAliveSec + 1)

Replies == {"", "PONG", "STREAM OK", "STOP OK", "ERR Invalid command"}

Reasons == {"", "STOP", "expired", "connection error", "closed by peer",
            "invalid command", "write error", "bind error", "poisoned", "panic"}

VARIABLES
    conn,       \* where the handler of each connection is
    client_id,  \* the id in the handler's client_id, or NoId
    inbox,      \* what was written to the connection and not yet read
    silence,    \* ticks since the last line, at the last look at the clock
    why,        \* why the handler is removing its client, or has ended
    reply,      \* the last reply
    peer,       \* the other end: "open", "midline", "eof" or "reset"
    written,    \* lines the peer has begun to write
    owed,       \* commands the peer has sent and not seen answered
    owner       \* the connection for which each client was added

connVars == <<conn, client_id, inbox, silence, why, reply, owed, owner>>
peerVars == <<peer, written>>
tcpVars == <<vars, connVars, peerVars>>

\* The type invariant of the connections.
TcpTypeOK ==
    /\ conn \in [Handlers -> {"listen", "read", "remove", "join", "closed"}]
    /\ client_id \in [Handlers -> Ids \cup {NoId}]
    /\ inbox \in [Handlers -> Seq(Lines \cup {NewLine})]
    /\ silence \in [Handlers -> 0 .. MaxSilence]
    /\ why \in [Handlers -> Reasons]
    /\ reply \in [Handlers -> Replies]
    /\ peer \in [Handlers -> {"open", "midline", "eof", "reset"}]
    /\ written \in [Handlers -> 0 .. MaxLines]
    /\ owed \in [Handlers -> 0 .. MaxLines]
    /\ owner \in [Ids -> Handlers \cup {Nobody}]

TcpInit ==
    /\ Init
    /\ conn = [h \in Handlers |-> "listen"]
    /\ client_id = [h \in Handlers |-> NoId]
    /\ inbox = [h \in Handlers |-> <<>>]
    /\ silence = [h \in Handlers |-> 0]
    /\ why = [h \in Handlers |-> ""]
    /\ reply = [h \in Handlers |-> ""]
    /\ peer = [h \in Handlers |-> "open"]
    /\ written = [h \in Handlers |-> 0]
    /\ owed = [h \in Handlers |-> 0]
    /\ owner = [c \in Ids |-> Nobody]

-----------------------------------------------------------------------------
(***************************************************************************)
(* The peers, as the handlers may meet them.                               *)
(***************************************************************************)

\* Bound: STREAM lines on their way do not exceed the ids that are left.
StreamsPending ==
    {p \in Handlers \X (1 .. 2 * MaxLines) :
        p[2] <= Len(inbox[p[1]]) /\ inbox[p[1]][p[2]].cmd = "STREAM"}

Room(l) ==
    l.cmd = "STREAM" => clients_count + Cardinality(StreamsPending) < MaxClients

(***************************************************************************)
(* The peer writes a command.  With split its newline follows in a write   *)
(* of its own, as in send_command of src/bins/client/main.rs.              *)
(***************************************************************************)
PeerWrites(h, l, split) ==
    /\ conn[h] # "listen"
    /\ peer[h] = "open"
    /\ written[h] < MaxLines
    /\ Room(l)
    /\ written' = [written EXCEPT ![h] = @ + 1]
    /\ owed' = [owed EXCEPT ![h] = @ + 1]
    /\ IF split
       THEN /\ inbox' = [inbox EXCEPT ![h] = Append(@, l)]
            /\ peer' = [peer EXCEPT ![h] = "midline"]
       ELSE /\ inbox' = [inbox EXCEPT ![h] = @ \o <<l, NewLine>>]
            /\ UNCHANGED peer
    /\ UNCHANGED <<vars, conn, client_id, silence, why, reply, owner>>

PeerEndsLine(h) ==
    /\ peer[h] = "midline"
    /\ inbox' = [inbox EXCEPT ![h] = Append(@, NewLine)]
    /\ peer' = [peer EXCEPT ![h] = "open"]
    /\ UNCHANGED <<vars, conn, client_id, silence, why, reply, written, owed,
                   owner>>

\* The peer closes the connection or exits, or the connection breaks.
PeerLeaves(h) ==
    /\ conn[h] # "listen"
    /\ \/ peer[h] \in {"open", "midline"} /\ peer' = [peer EXCEPT ![h] = "eof"]
       \/ peer[h] # "reset" /\ peer' = [peer EXCEPT ![h] = "reset"]
    /\ UNCHANGED <<vars, connVars, written>>

-----------------------------------------------------------------------------
(***************************************************************************)
(* The handler threads (handle_connection).                                *)
(***************************************************************************)

(***************************************************************************)
(* A connection is accepted; setting it up may fail, which ends its        *)
(* thread.  Left out: thread::spawn may panic for want of threads, which   *)
(* ends the accept loop and with it the process.                           *)
(***************************************************************************)
Accept(h) ==
    /\ conn[h] = "listen"
    /\ conn' \in {[conn EXCEPT ![h] = s] : s \in {"read", "closed"}}
    /\ UNCHANGED <<vars, client_id, inbox, silence, why, reply, owed, owner,
                   peerVars>>

\* read_line can return a line: up to a newline, or what is left before EOF.
LineReady(h) ==
    /\ inbox[h] # <<>>
    /\ Head(inbox[h]) = NewLine \/ Len(inbox[h]) > 1 \/ peer[h] = "eof"

\* What is left once that line is taken.
AfterLine(q) ==
    IF Head(q) = NewLine \/ Len(q) = 1 THEN Tail(q) ELSE Tail(Tail(q))

\* read_line returns a line with a command of this kind; last_ping is reset.
ReadLine(h, kind) ==
    /\ conn[h] = "read"
    /\ LineReady(h)
    /\ Head(inbox[h]).cmd = kind
    /\ inbox' = [inbox EXCEPT ![h] = AfterLine(@)]
    /\ silence' = [silence EXCEPT ![h] = 0]

\* The handler returns.
Close(h, reason) ==
    /\ conn' = [conn EXCEPT ![h] = "closed"]
    /\ why' = [why EXCEPT ![h] = reason]
    /\ UNCHANGED <<reply, owed>>

(***************************************************************************)
(* write_all of a reply, after which the handler reads on.  It may fail    *)
(* once the peer has closed, and fails when the connection is broken; the  *)
(* handler then returns the error.                                         *)
(***************************************************************************)
Respond(h, r) ==
    \/ /\ peer[h] # "reset"
       /\ conn' = [conn EXCEPT ![h] = "read"]
       /\ reply' = [reply EXCEPT ![h] = r]
       /\ owed' = [owed EXCEPT ![h] = @ - 1]
       /\ UNCHANGED why
    \/ peer[h] \in {"eof", "reset"} /\ Close(h, "write error")

EmptyLine(h) ==
    /\ ReadLine(h, "NL")
    /\ UNCHANGED <<vars, conn, client_id, why, reply, owed, owner, peerVars>>

\* handle_ping.
Ping(h) ==
    /\ ReadLine(h, "PING")
    /\ Respond(h, "PONG")
    /\ UNCHANGED <<vars, client_id, owner, peerVars>>

\* handle_invalid.
Invalid(h) ==
    /\ ReadLine(h, "OTHER")
    /\ Respond(h, "ERR Invalid command")
    /\ UNCHANGED <<vars, client_id, owner, peerVars>>

\* Fault: a second STREAM does not replace the id in client_id.
StreamKeepsOldId(h) ==
    /\ ReadLine(h, "STREAM")
    /\ AddClient(Head(inbox[h]).tl)
    /\ owner' = [owner EXCEPT ![clients_count] = h]
    /\ client_id' = [client_id EXCEPT ![h] = IF @ = NoId THEN clients_count ELSE @]
    /\ Respond(h, "STREAM OK")
    /\ UNCHANGED peerVars

(***************************************************************************)
(* handle_stream with good arguments.  The line is taken when add_client   *)
(* gets the mutex: until then it makes no difference to anybody whether    *)
(* the waiting handler has read it.  An id the connection had before is    *)
(* overwritten.                                                            *)
(***************************************************************************)
Stream(h) ==
    /\ ReadLine(h, "STREAM")
    /\ AddClient(Head(inbox[h]).tl)
    /\ owner' = [owner EXCEPT ![clients_count] = h]
    /\ client_id' = [client_id EXCEPT ![h] = clients_count]
    /\ Respond(h, "STREAM OK")
    /\ UNCHANGED peerVars

(***************************************************************************)
(* handle_stream returns an error before a client is added, without a      *)
(* reply: the arguments are bad, no UDP socket can be bound, or the mutex  *)
(* is poisoned.                                                            *)
(***************************************************************************)
StreamFails(h) ==
    /\ \/ ReadLine(h, "BAD STREAM") /\ Close(h, "invalid command")
       \/ ReadLine(h, "STREAM") /\ Close(h, "bind error")
       \/ ReadLine(h, "STREAM") /\ poisoned /\ Close(h, "poisoned")
    /\ UNCHANGED <<vars, client_id, owner, peerVars>>

\* add_client panics: the handler thread ends and the mutex is poisoned.
StreamPanics(h) ==
    /\ ReadLine(h, "STREAM")
    /\ AddClientPanics
    /\ Close(h, "panic")
    /\ UNCHANGED <<client_id, owner, peerVars>>

(***************************************************************************)
(* The handler takes the id out of client_id and calls remove_client; the  *)
(* model keeps the id in client_id until the call has returned.            *)
(***************************************************************************)
CallRemove(h, reason) ==
    /\ client_id[h] # NoId
    /\ conn' = [conn EXCEPT ![h] = "remove"]
    /\ why' = [why EXCEPT ![h] = reason]
    /\ UNCHANGED <<reply, owed>>

\* Fault: STOP is confirmed when the removal begins, and again when it ends.
StopConfirmsTwice(h) ==
    /\ ReadLine(h, "STOP")
    /\ \/ /\ client_id[h] # NoId
          /\ conn' = [conn EXCEPT ![h] = "remove"]
          /\ why' = [why EXCEPT ![h] = "STOP"]
          /\ reply' = [reply EXCEPT ![h] = "STOP OK"]
          /\ owed' = [owed EXCEPT ![h] = @ - 1]
       \/ client_id[h] = NoId /\ Respond(h, "STOP OK")
    /\ UNCHANGED <<vars, client_id, owner, peerVars>>

\* Fault: a STOP without a client is only logged.
StopWithoutReply(h) ==
    /\ ReadLine(h, "STOP")
    /\ \/ CallRemove(h, "STOP")
       \/ client_id[h] = NoId /\ UNCHANGED <<conn, why, reply, owed>>
    /\ UNCHANGED <<vars, client_id, owner, peerVars>>

\* handle_stop, up to remove_client; without a client there is only a reply.
Stop(h) ==
    /\ ReadLine(h, "STOP")
    /\ \/ CallRemove(h, "STOP")
       \/ client_id[h] = NoId /\ Respond(h, "STOP OK")
    /\ UNCHANGED <<vars, client_id, owner, peerVars>>

Expired(ticks) == ticks \div TicksPerSec > KeepAliveSec

\* Fault: an expired connection is closed and its client left behind.
PollLeavesClient(h) ==
    /\ conn[h] = "read"
    /\ ~ LineReady(h)
    /\ peer[h] \in {"open", "midline"}
    /\ inbox' = [inbox EXCEPT ![h] = <<>>]
    /\ \E now \in (silence[h] + 1) .. MaxSilence :
        /\ silence' = [silence EXCEPT ![h] = now]
        /\ \/ ~ Expired(now) /\ UNCHANGED <<conn, why, reply, owed>>
           \/ Expired(now) /\ Close(h, "expired")
    /\ UNCHANGED <<vars, client_id, owner, peerVars>>

\* Fault: every timeout of the read counts as a sign of life.
PollResetsClock(h) ==
    /\ conn[h] = "read"
    /\ ~ LineReady(h)
    /\ peer[h] \in {"open", "midline"}
    /\ inbox' = [inbox EXCEPT ![h] = <<>>]
    /\ silence' = [silence EXCEPT ![h] = 0]
    /\ UNCHANGED <<vars, conn, why, reply, owed, client_id, owner, peerVars>>

(***************************************************************************)
(* read_line times out, and with it goes what it has read of a line: the   *)
(* next call starts with an empty string.  The handler looks at the clock, *)
(* which may have gone on by any amount.                                   *)
(***************************************************************************)
Poll(h) ==
    /\ conn[h] = "read"
    /\ ~ LineReady(h)
    /\ peer[h] \in {"open", "midline"}
    /\ inbox' = [inbox EXCEPT ![h] = <<>>]
    /\ \E now \in (silence[h] + 1) .. MaxSilence :
        /\ silence' = [silence EXCEPT ![h] = now]
        /\ \/ ~ Expired(now) /\ UNCHANGED <<conn, why, reply, owed>>
           \/ Expired(now) /\ CallRemove(h, "expired")
           \/ Expired(now) /\ client_id[h] = NoId /\ Close(h, "expired")
    /\ UNCHANGED <<vars, client_id, owner, peerVars>>

\* read_line returns 0: the peer has closed and everything has been read.
EndOfFile(h) ==
    /\ conn[h] = "read"
    /\ peer[h] = "eof"
    /\ inbox[h] = <<>>
    /\ Close(h, "closed by peer")
    /\ UNCHANGED <<vars, client_id, inbox, silence, owner, peerVars>>

\* read_line fails: the connection is broken, or the line is not UTF-8.
ReadError(h) ==
    /\ conn[h] = "read"
    /\ \/ peer[h] = "reset"
       \/ LineReady(h) /\ Head(inbox[h]).cmd = "NOT UTF8"
    /\ inbox' = [inbox EXCEPT ![h] = <<>>]
    /\ \/ CallRemove(h, "connection error")
       \/ client_id[h] = NoId /\ Close(h, "connection error")
    /\ UNCHANGED <<vars, client_id, silence, owner, peerVars>>

\* Fault: the client that was registered last is removed.
RemoveBeginsLatest(h) ==
    /\ conn[h] = "remove"
    /\ RemoveClient(h, clients_count - 1)
    /\ conn' = [conn EXCEPT ![h] = "join"]
    /\ UNCHANGED <<client_id, inbox, silence, why, reply, owed, owner, peerVars>>

\* remove_client gets the mutex.
RemoveBegins(h) ==
    /\ conn[h] = "remove"
    /\ RemoveClient(h, client_id[h])
    /\ conn' = [conn EXCEPT ![h] = "join"]
    /\ UNCHANGED <<client_id, inbox, silence, why, reply, owed, owner, peerVars>>

\* remove_client returns an error: the mutex is poisoned.
RemoveFails(h) ==
    /\ conn[h] = "remove"
    /\ poisoned
    /\ client_id' = [client_id EXCEPT ![h] = NoId]
    /\ Close(h, "poisoned")
    /\ UNCHANGED <<vars, inbox, silence, owner, peerVars>>

\* Fault: the reply to STOP is written before the thread has ended.
RemoveReturnsEarly(h) ==
    /\ conn[h] = "join"
    /\ RemoveClientDetached(h)
    /\ client_id' = [client_id EXCEPT ![h] = NoId]
    /\ IF why[h] = "STOP" THEN Respond(h, "STOP OK") ELSE Close(h, why[h])
    /\ UNCHANGED <<inbox, silence, owner, peerVars>>

\* Fault: the id is copied from client_id and not taken out of it.
RemoveEndsKeepsId(h) ==
    /\ conn[h] = "join"
    /\ RemoveClientJoined(h)
    /\ IF why[h] = "STOP" THEN Respond(h, "STOP OK") ELSE Close(h, why[h])
    /\ UNCHANGED <<client_id, inbox, silence, owner, peerVars>>

\* remove_client returns; a STOP is answered, otherwise the handler returns.
RemoveEnds(h) ==
    /\ conn[h] = "join"
    /\ RemoveClientJoined(h)
    /\ client_id' = [client_id EXCEPT ![h] = NoId]
    /\ IF why[h] = "STOP" THEN Respond(h, "STOP OK") ELSE Close(h, why[h])
    /\ UNCHANGED <<inbox, silence, owner, peerVars>>

-----------------------------------------------------------------------------
PeerStep(h) ==
    \/ Accept(h)
    \/ \E l \in Lines, split \in SplitWrites : PeerWrites(h, l, split)
    \/ PeerEndsLine(h)
    \/ PeerLeaves(h)

ConnStep(h) ==
    \/ EmptyLine(h)
    \/ Ping(h)
    \/ Invalid(h)
    \/ Stream(h)
    \/ StreamFails(h)
    \/ StreamPanics(h)
    \/ Stop(h)
    \/ Poll(h)
    \/ EndOfFile(h)
    \/ ReadError(h)
    \/ RemoveBegins(h)
    \/ RemoveFails(h)
    \/ RemoveEnds(h)

TcpNext ==
    \/ BackgroundStep /\ UNCHANGED <<connVars, peerVars>>
    \/ \E c \in Ids : ClientStep(c) /\ UNCHANGED <<connVars, peerVars>>
    \/ \E h \in Handlers : PeerStep(h) \/ ConnStep(h)

TcpSafety == TcpInit /\ [][TcpNext]_tcpVars

(***************************************************************************)
(* The threads of the server run; a handler that waits for the mutex gets  *)
(* it in the end.  The peers are free to do nothing.                       *)
(***************************************************************************)
TcpFairness ==
    /\ Fairness
    /\ \A h \in Handlers :
        /\ WF_tcpVars(ConnStep(h))
        /\ SF_tcpVars(Stream(h))
        /\ SF_tcpVars(RemoveBegins(h))

TcpSpec == TcpSafety /\ TcpFairness
-----------------------------------------------------------------------------
(***************************************************************************)
(* Properties.                                                             *)
(***************************************************************************)

Owned(h) == {c \in Ids : owner[c] = h}

\* c is the client that was added last for its connection.
Newest(c) == owner[c] # Nobody /\ \A d \in Owned(owner[c]) : d <= c

(***************************************************************************)
(* The id in a handler's client_id is that of a registered client of this  *)
(* connection, up to the moment remove_client takes it out of the map: the *)
(* branch of remove_client for an unknown id is never taken.               *)
(***************************************************************************)
ClientIdRegistered ==
    \A h \in Handlers : client_id[h] # NoId =>
        /\ owner[client_id[h]] = h
        /\ conn[h] \in {"read", "remove"} => client_id[h] \in clients
        /\ conn[h] = "join" => holder = h /\ removing = client_id[h]

(***************************************************************************)
(* A registered client that nobody will remove is one of two kinds: a      *)
(* later STREAM of its connection has taken its place, or the connection   *)
(* ended other than by expiry and by a read error.  In particular those    *)
(* two ends, and a STOP, always release the latest client.                 *)
(***************************************************************************)
ClientsAccountedFor ==
    \A c \in clients :
        \/ client_id[owner[c]] = c /\ conn[owner[c]] \in {"read", "remove"}
        \/ ~ Newest(c)
        \/ /\ conn[owner[c]] = "closed"
           /\ why[owner[c]] \notin {"STOP", "expired", "connection error"}

(***************************************************************************)
(* When a handler reads on without a client_id, the thread of the client   *)
(* added last for it has ended: after STOP OK it sends nothing more.       *)
(***************************************************************************)
StopOkIsFinal ==
    \A c \in Ids :
        Newest(c) /\ conn[owner[c]] = "read" /\ client_id[owner[c]] = NoId =>
            thread[c] = "done"

(***************************************************************************)
(* A client is removed only by the handler of the connection it was added  *)
(* for, whatever ids the other handlers hold.                              *)
(***************************************************************************)
OnlyOwnerRemoves ==
    [][\A c \in clients \ clients' :
        conn[owner[c]] = "remove" /\ client_id[owner[c]] = c]_tcpVars

(***************************************************************************)
(* A client whose id was overwritten by a later STREAM of its connection   *)
(* is out of reach of every STOP, expiry and error: nobody removes it.     *)
(***************************************************************************)
OverwrittenStays ==
    [][\A c \in clients : ~ Newest(c) => c \in clients']_tcpVars

(***************************************************************************)
(* What src/lib.rs says of each command: a handler that has read all that  *)
(* its peer sent has answered it.                                          *)
(***************************************************************************)
CommandsAnswered ==
    \A h \in Handlers :
        conn[h] = "read" /\ peer[h] = "open" /\ inbox[h] = <<>> => owed[h] = 0

(***************************************************************************)
(* The commands in a channel, where commands and newlines take turns.      *)
(***************************************************************************)
Alternates(q) ==
    \A i \in 1 .. Len(q) :
        q[i] = NewLine <=> IF Head(q) = NewLine THEN i % 2 = 1 ELSE i % 2 = 0

Unread(q) ==
    IF q # <<>> /\ Head(q) = NewLine THEN Len(q) \div 2 ELSE (Len(q) + 1) \div 2

\* A STOP whose remove_client has not returned, as a number.
Stopping(h) ==
    IF conn[h] \in {"remove", "join"} /\ why[h] = "STOP" THEN 1 ELSE 0

(***************************************************************************)
(* Every command that the handler may still answer is one that its peer    *)
(* waits for: no command is answered twice, also if the first half of its  *)
(* line was thrown away, and none is answered that was not sent.           *)
(***************************************************************************)
AnswersAreOwed ==
    \A h \in Handlers :
        /\ Alternates(inbox[h])
        /\ inbox[h] # <<>> /\ peer[h] \in {"open", "midline"} =>
                (inbox[h][Len(inbox[h])] = NewLine <=> peer[h] = "open")
        /\ Unread(inbox[h]) + Stopping(h) <= owed[h]
        /\ owed[h] <= written[h]

\* Commands that the peer waits for and the handler will never answer.
Unanswered(h) == owed[h] - Unread(inbox[h]) - Stopping(h)

(***************************************************************************)
(* While a connection is served the number of commands without an answer   *)
(* stays the same, but for one step: the read timeout strikes between a    *)
(* command and its newline, and that one command is lost.                  *)
(***************************************************************************)
OnlyHalfLinesLost ==
    [][\A h \in Handlers :
        /\ conn'[h] = "read" \/ Stopping(h)' = 1
        /\ Unanswered(h)' # Unanswered(h)
        => /\ Unanswered(h)' = Unanswered(h) + 1
           /\ peer[h] = "midline"
           /\ Len(inbox[h]) = 1
           /\ inbox'[h] = <<>>]_tcpVars

(***************************************************************************)
(* A connection whose peer sends finitely many lines comes to an end, also *)
(* when its handler has to wait for the mutex or for a client thread.      *)
(***************************************************************************)
EveryConnectionEnds ==
    \A h \in Handlers : conn[h] = "read" ~> conn[h] = "closed"

(***************************************************************************)
(* What src/lib.rs promises: clients are cleaned up automatically.  The    *)
(* clients of a connection that has ended are removed in the end.          *)
(***************************************************************************)
ClientsCleanedUp ==
    \A h \in Handlers :
        conn[h] = "closed" ~> Owned(h) \cap clients = {} \/ poisoned
=============================================================================
