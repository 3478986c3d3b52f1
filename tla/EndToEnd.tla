------------------------------ MODULE EndToEnd ------------------------------
(***************************************************************************)
(* A session: the command line client of QuoteClient connected to the      *)
(* server of TcpServer.  Every step of the client on its connection is the *)
(* step of a peer in TcpServer, and what the client reads is what the      *)
(* handler of that connection has written.                                 *)
(*                                                                         *)
(* The server stays up.  The connection may break at any time, and a read  *)
(* of the client may time out at any time.                                 *)
(***************************************************************************)
EXTENDS TcpServer

CONSTANTS
    Scripts,    \* what the user may type
    MaxPings    \* bound: pings of the keep-alive thread

VARIABLES
    at, lock, doing, script, pings, pending, shown, reachable, \* of QuoteClient
    cur,        \* the connection behind the mutexes, or Nobody
    fresh,      \* the connection that reconnect has just made, or Nobody
    outbox      \* replies written to each connection and not yet read

App == INSTANCE QuoteClient

\* The client writes in both ways: send_command splits a line, send_ping does not.
ASSUME SessionAssumption ==
    /\ Scripts \subseteq Seq(App!UserCommands)
    /\ Nobody \notin App!Procs
    /\ MaxPings \in Nat
    /\ SplitWrites = BOOLEAN

appVars == <<at, lock, doing, script, pings, pending, shown, reachable>>
linkVars == <<cur, fresh, outbox>>
e2eVars == <<tcpVars, appVars, linkVars>>

E2EInit ==
    /\ TcpInit
    /\ App!AppInit
    /\ cur = Nobody
    /\ fresh = Nobody
    /\ outbox = [h \in Handlers |-> <<>>]

-----------------------------------------------------------------------------
(***************************************************************************)
(* Steps of the client on its connection.                                  *)
(***************************************************************************)

\* A connection is as good as accepted when connect returns.
FirstConnect ==
    /\ App!FirstConnect
    /\ \E h \in Handlers : Accept(h) /\ cur' = h
    /\ UNCHANGED <<fresh, outbox>>

Reconnect(p) ==
    /\ App!Reconnect(p)
    /\ \E h \in Handlers : Accept(h) /\ fresh' = h
    /\ UNCHANGED <<cur, outbox>>

\* The client closes its end of h, which may be broken already.
Hangup(h) ==
    IF h = Nobody THEN UNCHANGED tcpVars
    ELSE IF peer[h] = "reset" THEN UNCHANGED tcpVars ELSE PeerLeaves(h)

\* The new stream and reader take the place of the old ones.
Swap(p) ==
    /\ App!Swap(p)
    /\ Hangup(cur)
    /\ cur' = fresh
    /\ fresh' = Nobody
    /\ UNCHANGED outbox

Exit ==
    /\ App!Exit
    /\ Hangup(cur)
    /\ UNCHANGED linkVars

(***************************************************************************)
(* Text goes out on the connection in use, whatever was written on it      *)
(* before; on a broken one the write fails (ExchangeFails).                *)
(***************************************************************************)
Sends(text, end) ==
    /\ peer[cur] # "reset"
    /\ inbox' = [inbox EXCEPT ![cur] = @ \o text]
    /\ peer' = [peer EXCEPT ![cur] = end]
    /\ UNCHANGED <<vars, conn, client_id, silence, why, reply, owner, linkVars>>

\* send_command writes the line in two pieces, send_ping in one.
Write(p) ==
    /\ App!Write(p)
    /\ written[cur] < MaxLines
    /\ \E l \in Lines :
        /\ l.cmd = doing[p] /\ Room(l)
        /\ IF p = "cli" THEN Sends(<<l>>, "midline") ELSE Sends(<<l, NewLine>>, "open")
    /\ written' = [written EXCEPT ![cur] = @ + 1]
    /\ owed' = [owed EXCEPT ![cur] = @ + 1]

\* Fault: the line that is sent has its newline already, and one more follows.
WriteNewlineTwice(p) ==
    App!WriteNewline(p) /\ Sends(<<NewLine, NewLine>>, "open") /\ UNCHANGED <<written, owed>>

WriteNewline(p) ==
    App!WriteNewline(p) /\ Sends(<<NewLine>>, "open") /\ UNCHANGED <<written, owed>>

ReadReply(p) ==
    /\ at[p] = "read"
    /\ outbox[cur] # <<>>
    /\ App!ReadReply(p, Head(outbox[cur]))
    /\ outbox' = [outbox EXCEPT ![cur] = Tail(@)]
    /\ UNCHANGED <<tcpVars, cur, fresh>>

\* Steps that do not touch the connection.
ClientAlone ==
    /\ \/ App!BindUdp
       \/ App!TypeCommand
       \/ App!WakeUp
       \/ \E p \in App!Procs :
            App!LockFirst(p) \/ App!LockSecond(p) \/ App!ExchangeFails(p)
    /\ UNCHANGED <<tcpVars, linkVars>>

-----------------------------------------------------------------------------
(***************************************************************************)
(* Steps of the server and of the network.                                 *)
(***************************************************************************)

\* A step of a handler; a reply it has written is on its way to the client.
Handle(h) ==
    /\ ConnStep(h)
    /\ outbox' = IF owed'[h] < owed[h]
                 THEN [outbox EXCEPT ![h] = Append(@, reply'[h])] ELSE outbox
    /\ UNCHANGED <<appVars, cur, fresh>>

Serve ==
    /\ BackgroundStep \/ \E c \in Ids : ClientStep(c)
    /\ UNCHANGED <<connVars, peerVars, appVars, linkVars>>

\* The connection in use breaks.
Break ==
    /\ cur # Nobody
    /\ PeerLeaves(cur)
    /\ peer'[cur] = "reset"
    /\ UNCHANGED <<appVars, linkVars>>

E2ENext ==
    \/ FirstConnect
    \/ Exit
    \/ \E p \in App!Procs :
        \/ Reconnect(p)
        \/ Swap(p)
        \/ Write(p)
        \/ WriteNewline(p)
        \/ ReadReply(p)
    \/ ClientAlone
    \/ \E h \in Handlers : Handle(h)
    \/ Serve
    \/ Break

E2ESafety == E2EInit /\ [][E2ENext]_e2eVars
-----------------------------------------------------------------------------
(***************************************************************************)
(* Properties.                                                             *)
(***************************************************************************)

(***************************************************************************)
(* To the server the client is a peer like any other: it begins a line     *)
(* only behind a whole one, ends each line once, and writes on no          *)
(* connection that it has left or not made.  What holds of TcpServer holds *)
(* with this client.                                                       *)
(***************************************************************************)
ServedAsPeer == TcpSafety

(***************************************************************************)
(* The session is one of QuoteClient's: the reply a thread reads from the  *)
(* real server, whatever polls, breaks and reconnects came between, is the *)
(* reply to the command at the head of what it has sent, and so its own.   *)
(***************************************************************************)
ServerAnswersInOrder == App!AppSafety

(***************************************************************************)
(* When the user sees STOP OK, the client that was added last for the      *)
(* connection in use has ended: no datagram of it follows the prompt.      *)
(***************************************************************************)
StopShownIsFinal ==
    at["cli"] = "idle" /\ shown = "STOP OK" =>
        \A c \in Ids : Newest(c) /\ owner[c] = cur => thread[c] = "done"

(***************************************************************************)
(* What Readme.md says of STOP: it unsubscribes.  When the user sees       *)
(* STOP OK, nothing streams to the session's UDP port any more.            *)
(***************************************************************************)
StopUnsubscribes ==
    at["cli"] = "idle" /\ shown = "STOP OK" => \A c \in Ids : ~ Live(c)
=============================================================================
