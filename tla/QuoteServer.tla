----------------------------- MODULE QuoteServer -----------------------------
(***************************************************************************)
(* The quote server of src/quote_server.rs together with the client        *)
(* threads of src/client.rs and the generator of src/quote_generator.rs.   *)
(*                                                                         *)
(* Three kinds of threads run concurrently:                                *)
(*   - the background thread, which every tick updates the quotes under    *)
(*     the write half of an RwLock and then, under the `clients` mutex,    *)
(*     sends an Update command to every registered client;                 *)
(*   - one thread per client, which takes commands from its mpsc channel   *)
(*     and, for an Update, walks its tickers under the read half of the    *)
(*     RwLock and calls its callback for each of them;                     *)
(*   - handler threads (one per TCP connection), which call add_client and *)
(*     remove_client.  remove_client keeps the `clients` mutex while it    *)
(*     joins the client's thread.                                          *)
(* The background thread has been started and is never shut down, as in    *)
(* bins/server/main.rs.                                                    *)
(***************************************************************************)
EXTENDS Integers, Sequences, FiniteSets

CONSTANTS
    Names,          \* words that occur as tickers, in the config or in a STREAM
    Blank,          \* the empty word, what a blank config line trims to
    Upper,          \* to_uppercase, as a function on Names
    ConfigLines,    \* the words on the lines of the config file
    Subscriptions,  \* ticker lists that handlers pass to add_client
    Values,         \* contents of a quote: price, volume and timestamp
    NoQuote,        \* what a client finds for a ticker that is not served
    Handlers,       \* threads that call add_client and remove_client
    Nobody,         \* owner of a free mutex
    MaxClients,     \* bound: number of add_client calls that succeed
    MaxBacklog,     \* bound: a tick starts only while no channel is longer
    MaxAttempts,    \* WRITE_TIMEOUT_MS / QUOTE_UPDATE_RETRY_PERIOD_MSEC
    SpawnMayFail,   \* thread::spawn may panic for lack of resources
    ClockMayFail    \* SystemTime::now may lie before the epoch

ASSUME NamesAssumption ==
    /\ Upper \in [Names -> Names]
    /\ ConfigLines \subseteq Names
    /\ Subscriptions \subseteq Seq(Names)

ASSUME ValuesAssumption == NoQuote \notin Values

ASSUME HandlersAssumption == Nobody \notin Handlers

ASSUME BoundsAssumption ==
    /\ MaxClients \in Nat
    /\ MaxBacklog \in Nat
    /\ MaxAttempts \in Nat
    /\ SpawnMayFail \in BOOLEAN
    /\ ClockMayFail \in BOOLEAN

Ids == 0 .. (MaxClients - 1)

NoId == -1

(***************************************************************************)
(* from_config: a config line is trimmed and put in upper case; blank      *)
(* lines are skipped; a ticker listed twice has one entry.                 *)
(***************************************************************************)
Tickers == {Upper[l] : l \in ConfigLines} \ {Blank}

VARIABLES
    quotes,         \* the shared map: ticker -> contents of its quote
    clients,        \* keys of the `clients` map
    clients_count,  \* the next id
    holder,         \* owner of the `clients` mutex between two steps
    poisoned,       \* the `clients` mutex is poisoned
    removing,       \* the client whose thread the holder is joining
    bg,             \* where the background thread is
    todo,           \* quotes the running update has still to write
    attempts,       \* failed try_write calls of the running update
    thread,         \* where each client thread is
    tickers,        \* the ticker list of each client
    queue,          \* the mpsc channel of each client
    sent            \* what each client has sent in its last or current pass

bgVars == <<bg, todo, attempts>>
registryVars == <<clients, clients_count, holder, poisoned, removing>>
threadVars == <<thread, tickers, queue, sent>>
vars == <<quotes, bgVars, registryVars, threadVars>>

Command == {"Update", "Shutdown"}

\* The type invariant.
TypeOK ==
    /\ quotes \in [Tickers -> Values]
    /\ clients \in SUBSET Ids
    /\ clients_count \in 0 .. MaxClients
    /\ holder \in Handlers \cup {Nobody}
    /\ poisoned \in BOOLEAN
    /\ removing \in Ids \cup {NoId}
    /\ bg \in {"sleep", "try", "write", "notify"}
    /\ todo \in SUBSET Tickers
    /\ attempts \in 0 .. MaxAttempts
    /\ thread \in [Ids -> {"none", "recv", "lock", "read", "done"}]
    /\ tickers \in [Ids -> Seq(Names)]
    /\ queue \in [Ids -> Seq(Command)]
    /\ sent \in [Ids -> Seq(Values \cup {NoQuote})]

Init ==
    /\ quotes \in [Tickers -> Values]
    /\ clients = {}
    /\ clients_count = 0
    /\ holder = Nobody
    /\ poisoned = FALSE
    /\ removing = NoId
    /\ bg = "sleep"
    /\ todo = {}
    /\ attempts = 0
    /\ thread = [c \in Ids |-> "none"]
    /\ tickers = [c \in Ids |-> <<>>]
    /\ queue = [c \in Ids |-> <<>>]
    /\ sent = [c \in Ids |-> <<>>]

Live(c) == thread[c] \in {"recv", "lock", "read"}

\* The threads that hold the read half of the RwLock around the quotes.
Readers == {c \in Ids : thread[c] = "read"}

(***************************************************************************)
(* Client::send: the command goes to the channel unless the receiver is    *)
(* gone, which it is once the thread has ended.                            *)
(***************************************************************************)
Send(c, cmd) == IF Live(c) THEN Append(queue[c], cmd) ELSE queue[c]

-----------------------------------------------------------------------------
(***************************************************************************)
(* The background thread.                                                  *)
(***************************************************************************)

(***************************************************************************)
(* The loop of start(): the sleep ends and update_quotes is called.  The   *)
(* guard on the channels is the bound MaxBacklog; the code has none.       *)
(***************************************************************************)
Tick ==
    /\ bg = "sleep"
    /\ \A c \in clients : Len(queue[c]) < MaxBacklog
    /\ bg' = "try"
    /\ attempts' = 0
    /\ UNCHANGED <<quotes, todo, registryVars, threadVars>>

\* Fault: the write lock is taken without a look at the readers.
TryWriteUnchecked ==
    /\ bg = "try"
    /\ attempts < MaxAttempts
    /\ bg' = "write"
    /\ todo' = Tickers
    /\ UNCHANGED <<quotes, attempts, registryVars, threadVars>>

\* try_write succeeds: no client thread is reading.
TryWrite ==
    /\ bg = "try"
    /\ attempts < MaxAttempts
    /\ Readers = {}
    /\ bg' = "write"
    /\ todo' = Tickers
    /\ UNCHANGED <<quotes, attempts, registryVars, threadVars>>

\* Fault: the retry loop has no deadline.
WriteBusyForever ==
    /\ bg = "try"
    /\ Readers # {}
    /\ attempts' = attempts + 1
    /\ UNCHANGED <<quotes, bg, todo, registryVars, threadVars>>

\* try_write fails and the thread sleeps before it tries again.
WriteBusy ==
    /\ bg = "try"
    /\ attempts < MaxAttempts
    /\ Readers # {}
    /\ attempts' = attempts + 1
    /\ UNCHANGED <<quotes, bg, todo, registryVars, threadVars>>

\* Fault: after a failed update the loop goes back to sleep.
UpdateTimeoutSkipsNotify ==
    /\ bg = "try"
    /\ bg' = "sleep"
    /\ UNCHANGED <<quotes, todo, attempts, registryVars, threadVars>>

(***************************************************************************)
(* The deadline of update_quotes has passed at the head of its loop: it    *)
(* returns an error, which start() logs, and the clients are notified all  *)
(* the same.                                                               *)
(***************************************************************************)
UpdateTimeout ==
    /\ bg = "try"
    /\ bg' = "notify"
    /\ UNCHANGED <<quotes, todo, attempts, registryVars, threadVars>>

(***************************************************************************)
(* update_single_quote on the quote of t.  rayon takes the quotes in any   *)
(* order, and the new contents are random.                                 *)
(***************************************************************************)
UpdateQuote(t) ==
    /\ bg = "write"
    /\ t \in todo
    /\ \E v \in Values : quotes' = [quotes EXCEPT ![t] = v]
    /\ todo' = todo \ {t}
    /\ UNCHANGED <<bg, attempts, registryVars, threadVars>>

\* Fault: an update that fails on the clock is tried again under the lock.
UpdateFailsRetries(t) ==
    /\ ClockMayFail
    /\ bg = "write"
    /\ t \in todo
    /\ \E v \in Values : quotes' = [quotes EXCEPT ![t] = v]
    /\ UNCHANGED <<bg, todo, attempts, registryVars, threadVars>>

(***************************************************************************)
(* update_single_quote fails on the clock after it has written the price   *)
(* and the volume of t: try_for_each gives up the quotes that no worker    *)
(* has taken yet, and the others are still written.                        *)
(***************************************************************************)
UpdateFails(t) ==
    /\ ClockMayFail
    /\ bg = "write"
    /\ t \in todo
    /\ \E v \in Values : quotes' = [quotes EXCEPT ![t] = v]
    /\ todo' \in SUBSET (todo \ {t})
    /\ UNCHANGED <<bg, attempts, registryVars, threadVars>>

\* update_quotes returns and the write lock is dropped.
WriteUnlock ==
    /\ bg = "write"
    /\ todo = {}
    /\ bg' = "notify"
    /\ UNCHANGED <<quotes, todo, attempts, registryVars, threadVars>>

(***************************************************************************)
(* notify_clients, all of it under the `clients` mutex.  Sending never     *)
(* blocks and a failure to send is only logged.  With the mutex poisoned   *)
(* nobody is notified.                                                     *)
(***************************************************************************)
Notify ==
    /\ bg = "notify"
    /\ holder = Nobody
    /\ bg' = "sleep"
    /\ queue' = [c \in Ids |-> IF c \in clients /\ ~poisoned
                               THEN Send(c, "Update") ELSE queue[c]]
    /\ UNCHANGED <<quotes, todo, attempts, registryVars, thread, tickers, sent>>

-----------------------------------------------------------------------------
(***************************************************************************)
(* The loop of a client thread (Client::start).                            *)
(***************************************************************************)

\* Fault: the command is looked at but stays in the channel.
RecvUpdatePeeks(c) ==
    /\ thread[c] = "recv"
    /\ queue[c] # <<>>
    /\ Head(queue[c]) = "Update"
    /\ thread' = [thread EXCEPT ![c] = "lock"]
    /\ UNCHANGED <<quotes, bgVars, registryVars, tickers, queue, sent>>

\* recv() returns an Update; the thread goes for the read lock.
RecvUpdate(c) ==
    /\ thread[c] = "recv"
    /\ queue[c] # <<>>
    /\ Head(queue[c]) = "Update"
    /\ queue' = [queue EXCEPT ![c] = Tail(@)]
    /\ thread' = [thread EXCEPT ![c] = "lock"]
    /\ UNCHANGED <<quotes, bgVars, registryVars, tickers, sent>>

\* quotes.read() returns: the writer is out.  Readers do not exclude readers.
ReadLock(c) ==
    /\ thread[c] = "lock"
    /\ bg # "write"
    /\ thread' = [thread EXCEPT ![c] = "read"]
    /\ sent' = [sent EXCEPT ![c] = <<>>]
    /\ UNCHANGED <<quotes, bgVars, registryVars, tickers, queue>>

\* all_quotes.get(name): the lookup does not change the case of the name.
Lookup(name) == IF name \in Tickers THEN quotes[name] ELSE NoQuote

(***************************************************************************)
(* One round of the for loop: the quote of the next ticker is serialized   *)
(* and given to the callback, which sends it in a datagram and cannot      *)
(* fail.  NoQuote stands for the round in which nothing is sent.           *)
(***************************************************************************)
Callback(c) ==
    /\ thread[c] = "read"
    /\ Len(sent[c]) < Len(tickers[c])
    /\ sent' = [sent EXCEPT ![c] = Append(@, Lookup(tickers[c][Len(@) + 1]))]
    /\ UNCHANGED <<quotes, bgVars, registryVars, thread, tickers, queue>>

\* The for loop ends and the read lock is dropped.
ReadUnlock(c) ==
    /\ thread[c] = "read"
    /\ Len(sent[c]) = Len(tickers[c])
    /\ thread' = [thread EXCEPT ![c] = "recv"]
    /\ UNCHANGED <<quotes, bgVars, registryVars, tickers, queue, sent>>

\* recv() returns a Shutdown and the thread ends.
RecvShutdown(c) ==
    /\ thread[c] = "recv"
    /\ queue[c] # <<>>
    /\ Head(queue[c]) = "Shutdown"
    /\ queue' = [queue EXCEPT ![c] = Tail(@)]
    /\ thread' = [thread EXCEPT ![c] = "done"]
    /\ UNCHANGED <<quotes, bgVars, registryVars, tickers, sent>>

-----------------------------------------------------------------------------
(***************************************************************************)
(* Calls of the handler threads.                                           *)
(***************************************************************************)

\* The mutex can be taken, and taking it does not return a poison error.
LockClients == holder = Nobody /\ ~poisoned

\* Fault: the id is the size of the map.
AddClientById(tl) ==
    LET id == Cardinality(clients) IN
    /\ LockClients
    /\ clients_count < MaxClients
    /\ thread' = [thread EXCEPT ![id] = "recv"]
    /\ tickers' = [tickers EXCEPT ![id] = tl]
    /\ queue' = [queue EXCEPT ![id] = <<>>]
    /\ clients' = clients \cup {id}
    /\ clients_count' = clients_count + 1
    /\ UNCHANGED <<quotes, bgVars, holder, poisoned, removing, sent>>

(***************************************************************************)
(* add_client, all of it under the mutex and without blocking: the         *)
(* client's thread is started, an id is drawn from the counter and the     *)
(* client is entered in the map.                                           *)
(***************************************************************************)
AddClient(tl) ==
    /\ LockClients
    /\ clients_count < MaxClients
    /\ thread' = [thread EXCEPT ![clients_count] = "recv"]
    /\ tickers' = [tickers EXCEPT ![clients_count] = tl]
    /\ queue' = [queue EXCEPT ![clients_count] = <<>>]
    /\ clients' = clients \cup {clients_count}
    /\ clients_count' = clients_count + 1
    /\ UNCHANGED <<quotes, bgVars, holder, poisoned, removing, sent>>

(***************************************************************************)
(* add_client panics in thread::spawn.  Unwinding drops the guard, which   *)
(* poisons the mutex; no id has been drawn and nothing was inserted.       *)
(***************************************************************************)
AddClientPanics ==
    /\ SpawnMayFail
    /\ LockClients
    /\ poisoned' = TRUE
    /\ UNCHANGED <<quotes, bgVars, clients, clients_count, holder, removing,
                   threadVars>>

\* Fault: the client is told to stop but is left in the map.
RemoveClientKeepsEntry(h, id) ==
    /\ LockClients
    /\ id \in clients
    /\ queue' = [queue EXCEPT ![id] = Send(id, "Shutdown")]
    /\ holder' = h
    /\ removing' = id
    /\ UNCHANGED <<quotes, bgVars, clients, clients_count, poisoned, thread,
                   tickers, sent>>

\* Fault: the Shutdown jumps the queue of the pending Updates.
RemoveClientUrgent(h, id) ==
    /\ LockClients
    /\ id \in clients
    /\ clients' = clients \ {id}
    /\ queue' = [queue EXCEPT ![id] = <<"Shutdown">> \o @]
    /\ holder' = h
    /\ removing' = id
    /\ UNCHANGED <<quotes, bgVars, clients_count, poisoned, thread, tickers,
                   sent>>

(***************************************************************************)
(* remove_client(id) called by h, up to the join: the client leaves the    *)
(* map, Shutdown is sent to its thread, and the mutex stays with h.  For   *)
(* an id that is not in the map remove_client changes nothing.             *)
(***************************************************************************)
RemoveClient(h, id) ==
    /\ LockClients
    /\ id \in clients
    /\ clients' = clients \ {id}
    /\ queue' = [queue EXCEPT ![id] = Send(id, "Shutdown")]
    /\ holder' = h
    /\ removing' = id
    /\ UNCHANGED <<quotes, bgVars, clients_count, poisoned, thread, tickers,
                   sent>>

\* Fault: remove_client returns without waiting for the thread.
RemoveClientDetached(h) ==
    /\ holder = h
    /\ holder' = Nobody
    /\ removing' = NoId
    /\ UNCHANGED <<quotes, bgVars, clients, clients_count, poisoned,
                   threadVars>>

\* The join returns, remove_client drops the mutex and returns to h.
RemoveClientJoined(h) ==
    /\ holder = h
    /\ thread[removing] = "done"
    /\ holder' = Nobody
    /\ removing' = NoId
    /\ UNCHANGED <<quotes, bgVars, clients, clients_count, poisoned,
                   threadVars>>

-----------------------------------------------------------------------------
BackgroundStep ==
    \/ Tick
    \/ TryWrite
    \/ WriteBusy
    \/ UpdateTimeout
    \/ \E t \in Tickers : UpdateQuote(t)
    \/ \E t \in Tickers : UpdateFails(t)
    \/ WriteUnlock
    \/ Notify

ClientStep(c) ==
    \/ RecvUpdate(c)
    \/ ReadLock(c)
    \/ Callback(c)
    \/ ReadUnlock(c)
    \/ RecvShutdown(c)

HandlerCall(h) ==
    \/ \E tl \in Subscriptions : AddClient(tl)
    \/ AddClientPanics
    \/ \E id \in Ids : RemoveClient(h, id)
    \/ RemoveClientJoined(h)

Next ==
    \/ BackgroundStep
    \/ \E c \in Ids : ClientStep(c)
    \/ \E h \in Handlers : HandlerCall(h)

Safety == Init /\ [][Next]_vars

(***************************************************************************)
(* Every thread that can run does run, and a thread that waits for a lock  *)
(* which is free again and again gets it in the end.  Nothing obliges a    *)
(* handler to make a call; a call it has begun returns.                    *)
(***************************************************************************)
Fairness ==
    /\ WF_vars(BackgroundStep) /\ SF_vars(Notify)
    /\ \A c \in Ids : WF_vars(ClientStep(c)) /\ SF_vars(ReadLock(c))
    /\ \A h \in Handlers : WF_vars(RemoveClientJoined(h))

Spec == Safety /\ Fairness
-----------------------------------------------------------------------------
(***************************************************************************)
(* Properties.                                                             *)
(***************************************************************************)

(***************************************************************************)
(* What a client sends in one pass over its tickers is one state of the    *)
(* quotes: as long as the pass lasts, everything it has sent is still what *)
(* the map holds.  (The read lock is kept around the whole for loop of     *)
(* Client::start, and update_quotes writes only with no reader inside.)    *)
(***************************************************************************)
PassIsSnapshot ==
    \A c \in Ids : thread[c] = "read" =>
        \A i \in 1 .. Len(sent[c]) : sent[c][i] = Lookup(tickers[c][i])

\* A channel with nothing but Updates, and one that ends with its only Shutdown.
AllUpdates(q) == \A i \in 1 .. Len(q) : q[i] = "Update"

EndsWithShutdown(q) ==
    /\ q # <<>>
    /\ \A i \in 1 .. Len(q) : q[i] = "Shutdown" <=> i = Len(q)

(***************************************************************************)
(* Every client in the map has a running thread that has not been told to  *)
(* stop, so that the sends of notify_clients and remove_client never fail. *)
(***************************************************************************)
RegisteredAlive ==
    \A c \in clients : Live(c) /\ AllUpdates(queue[c])

(***************************************************************************)
(* No client thread is lost: one that runs is in the map, or remove_client *)
(* is waiting for it with the mutex held.                                  *)
(***************************************************************************)
NoThreadLeak ==
    \A c \in Ids : Live(c) =>
        \/ c \in clients
        \/ removing = c /\ holder # Nobody

(***************************************************************************)
(* The join of remove_client waits for a thread that has its Shutdown in   *)
(* the channel, behind the Updates that were sent before and with nothing  *)
(* after it: no notification overtakes or follows the removal.             *)
(***************************************************************************)
ShutdownIsLast ==
    removing # NoId /\ Live(removing) => EndsWithShutdown(queue[removing])

(***************************************************************************)
(* What the locks and the id counter guarantee by themselves, needed to    *)
(* carry the invariants above from one step to the next.                   *)
(***************************************************************************)
LockDiscipline ==
    /\ bg = "write" => Readers = {}
    /\ holder = Nobody <=> removing = NoId
    /\ removing \notin clients

IdsInOrder ==
    \A c \in Ids : c >= clients_count =>
        thread[c] = "none" /\ c \notin clients /\ removing # c

PassInBounds ==
    \A c \in Ids : thread[c] = "read" => Len(sent[c]) <= Len(tickers[c])

\* The inductive invariant: the safety invariants and what supports them.
IInv ==
    /\ TypeOK
    /\ LockDiscipline
    /\ IdsInOrder
    /\ PassInBounds
    /\ PassIsSnapshot
    /\ RegisteredAlive
    /\ NoThreadLeak
    /\ ShutdownIsLast

\* The client c was added, and a remove_client for it has returned.
Removed(c) == c < clients_count /\ c \notin clients /\ removing # c

(***************************************************************************)
(* Once remove_client has returned, the callback of the client is never    *)
(* called again.                                                           *)
(***************************************************************************)
QuietAfterRemove ==
    [][\A c \in Ids : Removed(c) => sent'[c] = sent[c] /\ Removed(c)']_vars

(***************************************************************************)
(* add_client never gives out an id that some client has had before, even  *)
(* one that was removed: a late remove_client cannot hit a newer client.   *)
(***************************************************************************)
IdsNeverReused ==
    [][\A c \in clients' \ clients : thread[c] = "none"]_vars

\* remove_client returns: the pending Updates are worked off and the join ends.
RemoveReturns == \A h \in Handlers : holder = h ~> holder = Nobody

(***************************************************************************)
(* Every registered client is served: its thread makes a pass over the     *)
(* quotes, unless the client is removed or the mutex is poisoned.  This    *)
(* holds even if every update of the quotes times out.                     *)
(***************************************************************************)
EveryClientServed ==
    \A c \in Ids :
        c \in clients ~> thread[c] = "read" \/ c \notin clients \/ poisoned

(***************************************************************************)
(* The abstract feed that the server implements.  A client's pass counts   *)
(* when the read lock is dropped; the removal of a client is over when the *)
(* join is.                                                                *)
(***************************************************************************)
FeedState(c) ==
    IF c >= clients_count THEN "new"
    ELSE IF c \in clients THEN "active"
    ELSE IF removing = c THEN "leaving" ELSE "gone"

FeedStates == [c \in Ids |-> FeedState(c)]

FeedPasses == [c \in Ids |-> IF thread[c] = "read" THEN <<>> ELSE sent[c]]

Feed == INSTANCE QuoteFeed WITH
    Id <- Ids, Ticker <- Tickers, List <- Subscriptions, Value <- Values,
    Missing <- NoQuote,
    book <- quotes, rewriting <- (bg = "write"), wanted <- tickers,
    state <- FeedStates, pass <- FeedPasses

\* The quote server implements the abstract feed.
ImplementsFeed == Feed!FeedSpec
=============================================================================
