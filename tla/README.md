# Verification of rust-quote-streamer

TLA+ models of the quote streaming server, TLC configurations that check them on
small instances, and TLAPS proofs of the core properties for every instance.

## 1. The system and its parts

| Part | State | Operations |
|---|---|---|
| `src/quote_server.rs` `QuoteServer` | `quotes` (RwLock map), `clients` (Mutex map), `clients_count`, `bg_thread`, `shutdown_flag` | `from_config`, `start`, `shutdown`, `add_client`, `remove_client`, `update_quotes`, `notify_clients`, `Drop` |
| `src/client.rs` `Client` | ticker list, mpsc channel, thread handle | `new`, `start` (the command loop), `send`, `Drop` |
| `src/quote_generator.rs` | volatility | `update_quotes`, `update_single_quote` |
| `src/tcp_server.rs` `TcpServer` | per connection: `client_id`, `last_ping`, the line being read | accept loop, `handle_connection`, `handle_ping`, `handle_stream`, `handle_stop`, `handle_invalid` |
| `src/stock_quote.rs` | a quote | text format: `from_string`, `to_bytes`, `Display` |
| `bins/client/main.rs` | stream and reader mutexes | keep-alive thread, UDP listener, CLI loop, `reconnect` |
| `bins/server/main.rs`, `errors.rs`, `defs.rs`, `lib.rs` | none | wiring, error types, constants, documentation |

How they interact. A *background thread* sleeps, rewrites all quotes under the write
lock (which it tries for at most a second) and then, under the `clients` mutex, puts an
`Update` in the channel of every client. Each *client thread* takes commands from its
channel; for an `Update` it holds the read lock while it sends one datagram per ticker.
Each TCP connection has a *handler thread* that calls `add_client` and `remove_client`;
`remove_client` sends `Shutdown` and joins the client's thread **with the `clients`
mutex held**. The command line client writes commands and pings to its connection.

What is hard here: three kinds of threads around an RwLock, a mutex and unbounded
channels; a join under a lock; updates that time out or stop halfway; a panic that
poisons the mutex; connections that end in nine different ways, of which only some
release the subscription; lines that arrive in pieces around a read timeout; a
keep-alive limit compared in whole seconds. `PROJECT.json` lists these hazards with
their lines and the properties that watch them.

What makes each part correct:

* quote server: a client sees one state of the quotes per pass; registered clients run
  and running clients are registered; a removal is final; ids are fresh; calls return
  and clients are served;
* TCP server: a handler holds the id of a registered client of its own and removes no
  other; commands are answered; STOP and the end of a connection release the
  subscription; connections end;
* life cycle: at most one background thread updates; joins are final; `Drop` leaves no
  thread behind; `shutdown` returns;
* client object: whatever order `new`, `start`, `send` and `drop` are called in, joins
  return and no thread is leaked;
* command line client: a reply belongs to the command before it; its two threads do not
  block each other; STOP ends what the connection in use subscribed to;
* quote: `from_string` inverts the text format.

## 2. Modules

| Module | Models |
|---|---|
| `QuoteServer` | `quote_server.rs` while it runs, the loop of `client.rs`, `quote_generator.rs` |
| `QuoteFeed` | abstract specification: what the quote server promises |
| `TcpServer` | `tcp_server.rs`; EXTENDS `QuoteServer` and composes its actions with those of the connections |
| `Lifecycle` | `start`, `shutdown`, `Drop` of `quote_server.rs` and the references to the server |
| `Client` | `client.rs` on its own: every order of `new`, `start`, `send`, `drop` |
| `QuoteClient` | `bins/client/main.rs`: the two threads that use the TCP connection |
| `EndToEnd` | `QuoteClient` as the peer of `TcpServer`: EXTENDS the one, INSTANCE of the other |
| `StockQuote` | one quote of `stock_quote.rs`, its update and its formats |
| `MCQuoteServer`, `MCTcpServer`, `MCQuoteClient`, `MCEndToEnd`, `MCStockQuote` | values of the constants for TLC |
| `QuoteServerProofs` | types, inductive invariant, safety theorems; `QuoteServer` implements `QuoteFeed` |
| `TcpServerProofs` | what is proved of `QuoteServer` holds behind `TcpServer` |
| `TcpConnectionProofs` | the inductive invariant of the connections and their safety properties; what handlers owe their peers |
| `LifecycleProofs` | the inductive invariant of `Lifecycle` and its safety properties |
| `ClientProofs` | the inductive invariant of `Client` |
| `QuoteClientProofs` | the inductive invariant of `QuoteClient` |
| `EndToEndProofs` | client and server implement each other's view of the connection |
| `StockQuoteProofs` | the text format of a quote, for texts of any length |

### QuoteServer

`quotes`, `clients`, `clients_count` are the fields of the struct. `holder` and
`poisoned` are the mutex; `removing` is the client whose thread the holder joins. `bg`,
`todo`, `attempts` are the program counter and locals of the background thread
(`sleep`, `try`, `write`, `notify`). Per client, `thread` is where its thread is
(`recv`, `lock` = waiting for the read lock, `read` = holding it, `done`), `queue` its
channel, and `sent` what it has given to its callback in the current or last pass. The
write lock is held when `bg = "write"`, read locks by the threads in `read`.

| Code | Actions |
|---|---|
| loop of `start` | `Tick`, then the actions of `update_quotes` and `Notify` |
| `update_quotes` | `TryWrite`, `WriteBusy`, `UpdateTimeout`, `UpdateQuote`, `UpdateFails`, `WriteUnlock` |
| `notify_clients` | `Notify` |
| client thread | `RecvUpdate`, `ReadLock`, `Callback` (one ticker), `ReadUnlock`, `RecvShutdown` |
| `add_client` | `AddClient`; `AddClientPanics` when `thread::spawn` panics |
| `remove_client` | `RemoveClient` up to the join, `RemoveClientJoined` |

`Notify` and `AddClient` are single steps: they run under the mutex without blocking,
and what a client thread does with a command in between it could do just as well
afterwards. A quote's contents are one opaque value: no property looks inside. Case is
kept (`Upper`), because `from_config` changes it and the lookup does not. Branches
that are unreachable are left out and the invariant that makes them so is checked: sends
to a client never fail and a channel is never disconnected before its `Shutdown`
(`RegisteredAlive`, also proved), and an unknown id is never removed
(`ClientIdRegistered`). Definitions marked *Fault* are plausible bugs used to show that
each property can fail; no specification uses them.

### QuoteFeed

No threads, locks or channels: the book is rewritten or not; a client is new, active,
leaving or gone; a pass is published in one step, from the book as it is and never in
the middle of a rewrite; nothing is published to a client that is gone. The mapping
(`FeedStates`, `FeedPasses`) lets a pass count when the read lock is dropped and a
removal when the join has returned.

### TcpServer

Per connection: `conn` (`listen`, `read`, `remove` = waiting for the mutex in
`remove_client`, `join`, `closed`), `client_id`, `inbox` (lines and newlines that were
written but not read), `silence` (ticks since `last_ping` at the last poll), `why` and
`reply`. `peer` and `written` are the other end; `owed` and `owner` are history
variables: commands sent but not answered, and the connection each client was added
for. A line is its kind, as `handle_connection` tells lines apart; a well formed
`STREAM` carries a ticker list. Reading is modelled with the semantics of
`BufRead::read_line`: a line ends with a newline or, after EOF, with the data; a timeout
throws away what was read (`Poll`), because the string is new in each round. The clock
may advance by any amount between two polls. A write may fail once the peer has closed
and fails when the connection is broken. Binding the UDP socket may always fail.

Peers are arbitrary within `MaxLines`; `SplitWrites` is the set of ways in which they
write: TRUE is in it if the newline may be a write of its own, as in `send_command` of
the command line client, and FALSE if it may come with its line, as in `send_ping`.

### Lifecycle

`shutdown_flag` and `bg_thread` are the fields, `poisoned` is the mutex around the
second. `refs` is the strong count of the `Arc`, as the set of holders: owners (main,
handler threads) and every background thread, which has a clone of its own. `pc` is
where each of them is; `joining` whom it joins; `dropper` who let go of the last
reference and runs `Drop`. A round of the loop is one state, for what happens in it is
`QuoteServer`. `late` and `joined` are history variables.

| Code | Actions |
|---|---|
| `Arc::clone`, dropping it | `CloneRef`, `DropRef`, `Unwind` (an owner that panicked) |
| `start` | `Start`; `StartPanics` when `thread::spawn` panics under the mutex |
| loop of the thread | `CheckFlag`, `EndRound` |
| `shutdown` | `Shutdown`, `Signal` (flag), `Take` (handle), `Join` |
| `Drop` | the steps of `shutdown`, then `DropClient` and `ClientDropped` for each client, `Dropped`; `SelfJoin` when the background thread itself is the dropper |

### Client

`tx` and `thread_handle` are the fields; each `start` makes a new channel and thread,
and the old ones go on without an owner (`DetachedThreadEnds`). `send` and `drop` are
split at the join. Callbacks may panic, which ends the thread and makes later sends fail. `QuoteServer`
uses only part of this (one `start`, one `Shutdown`) in more detail.

### QuoteClient and EndToEnd

`at` is where the main thread (`cli`) and the keep-alive thread (`ka`) are, `lock` the
two mutexes around the stream and the reader, `pending` the commands on the connection
whose replies were not read, `shown` what the user sees of the last command. `first`
and `second` wait for the mutexes; `reconnect` and `swap` are the parts of `reconnect`
with both held. A read may fail at any time (its timeout of five seconds) and the reply
may be on its way nevertheless. In `QuoteClient` the server is free and answers in
order; its replies are those of the documentation.

`EndToEnd` replaces the free server by `TcpServer`: `Write` and `WriteNewline` send what
`send_command` and `send_ping` write on the connection in use (`cur`), `Swap` and `Exit` close it, `Reconnect` has the server accept
another, and a reply comes out of `outbox`, what the handler has written. That
every session is one of `QuoteClient` is a refinement (`ServerAnswersInOrder`), and it
is what justifies `ReplyTo` and the order of `pending` there. That every session is one
of `TcpServer` is another (`ServedAsPeer`): `Sends` looks at nothing but whether the
connection is broken, while `PeerWrites` begins a line only behind a whole one and
`PeerEndsLine` ends one only once. That two threads, one of which writes a line in two
pieces, with timeouts and reconnects between, keep to this is the property.

### StockQuote

A text is a sequence of words, numbers and separators; tickers are any text, since the
config file may hold any line. `Split` is `str::split`, given by the positions of the
separators (`Seps`, `Marks`, `Rank`, `Cut`) without recursion, so that it can be reasoned
about; `FromString` follows the code. Numbers are bounded by `MaxU32` and `MaxU64`.
`UpdateSingleQuote` is one step, although the code writes price, volume and timestamp one
after the other: its caller holds the write lock. When the clock is before the epoch the
timestamp stays as it is.

## 3. Runs

| Run | Shows | States |
|---|---|---|
| `quote_server_safety` | `TypeOK`, `PassIsSnapshot`, `RegisteredAlive`, `NoThreadLeak`, `ShutdownIsLast`, `IInv`, `QuietAfterRemove`, `IdsNeverReused`, `ImplementsFeed` | 856 000 |
| `quote_server_liveness` | `RemoveReturns`, `EveryClientServed` | 122 000 |
| `tcp_server_safety` | `ClientIdRegistered`, `ClientsAccountedFor`, `StopOkIsFinal`, `OnlyOwnerRemoves`, `OverwrittenStays` | 4 400 000, up to symmetry |
| `tcp_server_session` | `TcpTypeOK`, `AnswersAreOwed`, `OnlyHalfLinesLost`, `EveryConnectionEnds` | 57 000 |
| `lifecycle` | `LifeInv`, `OneUpdater`, `JoinIsFinal`, `ThreadDropsOnlyIfLate`, `DropLeavesNoThread`, `ShutdownReturns`, `ShutServerEnds` | 96 000 |
| `client_life` | `NoHandleNoThread`, `ClientInv`, `JoinReturns`, `DetachedThreadEnds` | 4 800 |
| `quote_client` | `ReplyIsOwn`, `AppInv`, `CommandReturns`, `PingIsSent` | 71 000 |
| `end_to_end_safety` | `StopShownIsFinal`, `ServedAsPeer`, `ServerAnswersInOrder` | 1 700 000, up to symmetry |
| `stock_quote` | `ParseInvertsDisplay` | 5 800 |

Three runs show where the code does not do what its documentation says:

| Run | What happens |
|---|---|
| `cleanup_at_eof` | a peer that closes its connection leaves its subscription behind for ever |
| `line_in_two_pieces` | a command whose newline comes after a read timeout is never answered |
| `stop_after_reconnect` | STREAM, reconnect, STOP: the user sees `STOP OK` and the old subscription streams on |

Several properties that hold are the exact form of something the documentation puts more
simply, and say where it does not hold:

* `ClientsAccountedFor`: which clients can be left behind. Those that a later STREAM of
  their connection has overwritten (STREAM, STREAM, STOP leaves the first one streaming),
  and those of a connection that ended other than by expiry or a read error, for instance
  by a malformed STREAM, which is not answered with `ERR Invalid command`.
* `OverwrittenStays`: an overwritten client is not merely late to go: no STOP, expiry or
  error of its connection reaches it any more.
* `OnlyHalfLinesLost`: which commands can be lost. A connection that is served leaves a
  command without an answer only if the read timeout strikes between the command and its
  newline (`line_in_two_pieces` shows that this happens), and then that one alone.
* `JoinIsFinal`: no round follows the *join* of a background thread. A `shutdown` that
  runs into another one finds no handle (`Take`) and returns before that. A `start` after
  a `shutdown` spawns a thread that runs no round, because the flag is never reset.
* `ThreadDropsOnlyIfLate`: without a `shutdown`, dropping the server does not run `Drop`,
  for the thread holds a reference; `ShutServerEnds` says what happens after one.
* `NoHandleNoThread`: after `send(Shutdown)` only the threads of earlier `start`s run.

Two further differences are visible in single definitions: a ticker configured in lower
case is stored in upper case but looked up as the client spells it (`Tickers`, `Lookup`),
and a silent connection is kept for 6 seconds, not 5 (`Expired`).

**Bounds.** `MaxClients` (successful `add_client` calls), `MaxBacklog` (a tick waits
while a channel is full; the code has no such limit), `MaxAttempts` (100 in the code),
`MaxLines`. Two clients are enough for one to be removed while another is served and for
an id to be given out after a removal; two tickers for a torn pass; a backlog of two for
`Update`s in front of a `Shutdown`; one failed attempt, and the timeout, for every path
through `update_quotes`; two lines per connection for STREAM followed by STOP or by a
second STREAM. Two connections are needed only where handlers compete;
`tcp_server_session` has one, with all kinds of lines, because the liveness graph with
two is out of reach, and the competition of two handlers for the mutex is in
`quote_server_liveness`. There the clock may fail in every update and the contents of a
quote may differ from one write to the next, so that an update that kept the write lock,
or a loop that stopped after the error, would leave a client without its next pass:
`EveryClientServed` asks for another pass after each one. `TicksPerSec` is two in
`tcp_server_session`, so that the whole seconds of `Expired` round.

`MaxStarts` is the number of background threads (of `start` calls in `Client`): three
let a thread of before a shutdown, the one joined and a later one coexist. `MaxPings`
bounds how often the keep-alive thread wakes up and `Scripts` is what the user types:
three commands and three pings for a reply that comes after its timeout, after a
reconnect, or between a ping and a command. `EndToEnd` has one client, two
connections (so one reconnect), one ping and scripts of at most two commands: each of its
hazards needs a reconnect and no second one. `MaxUpdates` bounds the channel in `Client`.
`CommandsAnswered` is what `line_in_two_pieces` refutes; what is left of it for whole lines
and split ones alike is `AnswersAreOwed` (no answer is given twice or without a command)
and `OnlyHalfLinesLost`. Tickers of up to four
tokens contain every way in which a separator or a number can shift a field of four; the
small `MaxU32` and `MaxU64` stand for the real limits, at which one value lies.

Deadlock is checked in the runs of `QuoteServer` and `TcpServer`. (In `QuoteClient` and
`StockQuote` the server and the clock can always move, so that it means nothing there:
`CommandReturns` and `PingIsSent` say that the mutexes do not block.) It is not checked in
the runs of `Lifecycle` and `Client`, whose owners may have made all their calls and be
gone, nor in those of `EndToEnd`, where a session ends with its connections;
`ShutdownReturns` and `JoinReturns` say what must not block there.

**Fairness.** Weak fairness for each thread: the operating system runs every thread that
can run. Strong fairness for taking a lock (`Notify`, `ReadLock`, `Stream`,
`RemoveBegins`): the holders release it, and the queues of the standard library's locks
let a waiting thread in after finitely many releases. Nothing is assumed of peers, and
nothing of `TryWrite`: `try_write` may fail for ever, and `EveryClientServed` holds
nevertheless. In `Lifecycle` and `Client` the steps of a call that was begun and of the
threads are weakly fair, and no owner has to make a call. In `QuoteClient` each thread
is weakly fair and obtains its first mutex if it is free again and again (`SF` of
`LockFirst`), since the other thread sleeps or waits for the user between two exchanges;
the server need not answer, nor be there: the two properties assume that it accepts
connections for good from some time on (`<>[]reachable`), because `reconnect` tries for
ever.

## 4. Proofs

All proofs are for arbitrary constants under the named assumptions of the modules
(`NamesAssumption`, `HandlersAssumption`, `BoundsAssumption`, ...).

* `TypeCorrect`: `Safety => []TypeOK`.
* `Invariance`: `Safety => []IInv`. `IInv` adds to the four safety invariants what makes
  them inductive: `LockDiscipline` (no reader during a rewrite; the mutex is held exactly
  while a client is being removed; that client is out of the map), `IdsInOrder` (ids not
  given out have neither thread nor entry) and `PassInBounds`. `PassIsSnapshot` needs
  the first part of `LockDiscipline`; `ShutdownIsLast` needs the mutex to keep `Notify`
  away and `RegisteredAlive` to know that only `Update`s are in front; `RegisteredAlive`
  needs `IdsInOrder` for a fresh id. One lemma per conjunct.
* `SnapshotPasses`, `RegisteredRun`, `NoThreadLost`, `ShutdownLast`: the invariants a
  reader cares about, each from `IInv`.
* `RemovedIsQuiet`, `FreshIds`: the action properties `QuietAfterRemove`,
  `IdsNeverReused`, from `IInv`.
* `FeedImplemented`: `Safety => ImplementsFeed`, step by step; `NoThreadLeak` shows that
  whoever sends is active or leaving, and `CompletePass` that a finished pass is the
  abstract one.
* `TcpInvariance`: `TcpSafety => []IInv`. `TcpServer` extends `QuoteServer` and its steps
  conjoin those of the quote server, so that `TcpSafety => Safety` (the lemma
  `QuoteServerBehind`) needs no more than the types; what it gives is that the invariants
  of the quote server can be used in the proofs about connections.
* `ConnInvariance`: `TcpSafety => [](IInv /\ ConnInv)`, for any number of connections.
  The properties need each other, and more: that ids which were drawn, and no others, have
  an owner (`OwnersKnown`), so that a fresh id is nobody's; that `client_id` holds the id
  drawn last for the connection (`LatestHeld`), so that the thread `remove_client` has
  joined when STOP is answered is that of the newest client; and that a connection not yet
  accepted has added nothing (`ListenFresh`). From `IInv` come `IdsInOrder` and the types.
  One lemma per kind of step: `ServerRuns`, `HandlerMoves` (every step that leaves the
  registry alone), `StreamKeeps`, `RemoveBeginsKeeps`, `RemoveEndsKeeps`. The corollaries
  are `IdsRegistered`, `RegistryAccountedFor`, `StopIsFinal` and the action properties
  `RemovedByOwner` and `OverwrittenLeft`: a removal takes the client whose id the handler
  holds, and `LatestHeld` says that this is the newest.
* `AnswersOwed`: `TcpSafety => []AnswersAreOwed`, for peers that write as they like. It is
  inductive given the types: commands and newlines take turns in the channel, so that
  reading a line takes one command out of it at most (`AfterLineAlternates`); and `owed` is
  at least the number of commands in the channel, plus one while a STOP waits for its
  client to end. A `Poll` that throws half a line away lowers the one side only.
  `TcpTypes`, that a handler never answers more than it was asked among them, follows from
  `AnswersOwed`.
* `HalfLinesLost`: `TcpSafety => OnlyHalfLinesLost`, with nothing assumed of how peers
  write. `Unanswered` is the difference of the two sides above: what is `owed` less the
  commands that are in the channel or wait for a removal. A line that is read and its
  answer lower both sides by one (`AccountRead`), a removal that ends turns a STOP in
  progress into an answer (`AccountMove`), a peer raises both (`AccountPeer`). While the
  connection is served only `Poll` can lower one side alone, and `AnswersAreOwed` says of what it finds in the channel that
  it is nothing or a single command whose newline is still to come (`AccountPoll`).
* `ClientInvariance`: `ClientSpec => []ClientInv`, for every order of the calls of the
  owner. `NoHandleNoThread` needs that a handle is always that of the thread started last
  (`HandleOfLatest`), so that joining it leaves only the earlier ones, and that no thread
  runs that was not started (`NotStarted`). `NoHandleNoThreadHolds` is the corollary.
* `LifeInvariance`: `LifeSafety => []LifeInv`. `OneUpdater` is not inductive: one has to
  know that only a thread spawned before the flag was set ever runs a round
  (`ThreadsInv`), that this is thread 0 and that its handle is in the field, or taken by
  an owner that joins it (`FlagInv`, `HandleInv`), and who may hold a reference or run
  `Drop` (`DropInv`, `JoinInv`). `OneUpdaterHolds`, `JoinIsFinalHolds`,
  `ThreadDropsOnlyIfLateHolds` and `DropLeavesNoThreadHolds` follow from it.
* `AppInvariance`: `AppSafety => []AppInv`. `ReplyIsOwn` needs that a thread in an
  exchange has both mutexes (`ExchangeLocked`), so that the other is in none, and that
  nothing is left on the connection when an exchange begins (`IdleWire`).
  `ReplyIsOwnHolds` is the corollary, for all scripts and any number of pings.
* `ClientServedAsPeer` and `AnsweredInOrder`: `E2ESafety => ServedAsPeer` and
  `E2ESafety => ServerAnswersInOrder`, for any number of connections, clients and
  reconnects. Neither refinement can be proved first: the guard of `PeerEndsLine` holds
  because `QuoteClient` has only one thread on the connection, and the reply that a thread
  reads is its own because `TcpServer` answers what was asked. The invariant `Known` is
  therefore that of the client (`AppInv`), those of the server (`IInv`, `ConnInv` and the
  types) and what relates them, `SessionInv`: the connection in use is `Quiet` while no
  thread is in an exchange; behind a `Write` it holds the command or nothing (`Half`, since
  the handler may have thrown it away), behind the newline at most one command, one
  STOP that waits, or one reply (`Asked`), which is the one to what the thread is `doing`;
  and the connection that `reconnect` has just made was never used (`FreshUnused`). One
  lemma per action, for the steps of the client and those of the server.
* `StopShownHolds`: `E2ESafety => []StopShownIsFinal`. `StopOkIsFinal` says it for the
  moment in which the handler answers. That it is still so on the screen (`StopMatches`)
  needs that what may be on its way in the meantime is a ping of the keep-alive thread and
  never a STREAM, which would make another client the newest one.
* `ParseInvertsDisplayHolds`: `QuoteSpec => []ParseInvertsDisplay`, for tickers of any
  length. A text has as many parts as separators and one more. Without a separator in the
  ticker there are three, the marks are five and `Cut` is known at each of them; with one
  there are at least four, so more than four parts, and `FourFields` fails. Counting sets
  takes the place of the induction over the text.

With these every invariant, action property and refinement that a passing run checks is
also a theorem. Only model-checked are the liveness properties (`RemoveReturns`,
`EveryClientServed`, `EveryConnectionEnds`, `ShutdownReturns`, `ShutServerEnds`,
`JoinReturns`, `DetachedThreadEnds`, `CommandReturns`, `PingIsSent`), for fairness and
ENABLED are outside the prover's reach, and what the three violation runs refute.
`SessionInv` was checked with TLC on the constants of `end_to_end_safety` before it was
proved.

## 5. Not modelled, and the plan

Next:

1. that the client threads of `QuoteServer` are `Client`s: a refinement with one `start`
   and one `Shutdown` per client, in place of the remark in section 2;
2. that no ticker of the book is found under a spelling other than the one it is stored
   with (`Upper`, `Lookup`), the one hazard of the quote server without a property;
3. safety facts that the liveness properties rest on and that are within the prover's
   reach, such as the order in which the locks are taken.

Not modelled: the UDP listener of the command line client (it prints datagrams and
counts them in an `i32`; no other thread sees its state), the command loop after the end
of stdin (`read_line` returns `Ok(0)` and the loop goes on at once, for ever) and the
periods of the keep-alive thread: a ping may come at any time, so that nothing is
shown about 2 seconds between pings against the limit of the server.

Left out for good: logging, argument parsing, error texts and conversions (`errors.rs`),
the random numbers of the generator, a failing `accept()` and a panic of `thread::spawn` in
the accept loop (they end the process), a
`write_all` that blocks because the peer does not read, and loss of UDP datagrams (the
server neither notices nor reacts).
