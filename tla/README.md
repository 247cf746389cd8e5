# MCPWatch in TLA+

MCPWatch stands between an MCP client and an MCP server. It passes their bytes
on, parses the JSON-RPC messages among them, pairs responses with requests,
keeps everything in a BadgerDB log and shows it live on a dashboard. These
modules specify how it does that, TLC checks them on small instances, and TLAPS
proves the most important invariants for instances of every size. Paths are
those of the repository (`internal/...`, `main.go`).

To check a module: `tlc -config MCStore.cfg MCStore`; to check proofs:
`tlapm StoreProofs.tla`. `PROJECT.json` lists the runs, which lines each
definition stands for, the theorems, the hazards and the findings.

## 1. Inventory

### Components and their state

| Component | Code | State | Operations |
|---|---|---|---|
| Message log | `internal/storage/badger.go` | queue (channel, 4096), batch (up to 256), id counter, `msg:` keys, the `stats` key | `Insert`, `runDrain`, `flush`, `Clear`, `New`, `Close`, queries |
| Live feed | `internal/server/hub.go`, `handleWebSocket` | the client map and its RWMutex, each client's channel (256) | `Register`, `Unregister`, `Broadcast`, `writePump` |
| Correlator | `internal/engine/correlator.go` | 4096 slots of pending requests | `Process` |
| Parser | `internal/engine/parser.go` | none | `ParseJSONRPC` |
| Orchestrator | `main.go` | the messages channel (1000), the context, `errChan` | the select loop, start and shutdown |
| Configuration | `main.go` | `cfg` | flags, the file, the choice of a mode |
| Stdio transport | `internal/transport/stdio.go` | three pipes, three scanners with 1 MB of buffer | `Start` |
| Socket transport | `internal/transport/socket.go` | two copying goroutines per connection | `Start`, `handleConnection` |
| HTTP proxy | `internal/transport/proxy.go` | a line buffer per body (10 MB) | `RoundTrip`, the interceptors' `Read` |
| eBPF transport | `internal/transport/ebpf_linux.go`, `ebpf_parser.go`, `bpf/tracer.c` | rings, one buffer per stream | tracepoints, the reader's loop, extraction |
| Alerter | `internal/alert/alert.go` | the ticker, time of the last alert | `Start`, `check`, `fireAlert` |
| Metrics | `internal/metrics/metrics.go` | counters, histograms | `RecordMetrics` |
| HTTP API | `internal/server/server.go` | none | queries, `Clear`, the websocket |
| Dashboard | `web/app.js` | the list of messages on the page | history, live messages, filters |
| Tracing, assets | `internal/tracing`, `web` | set once | |

### How they interact

A transport's goroutines read bytes, pass them on, parse them and offer the
messages to one bounded channel without waiting. `main` is the only receiver.
For each message it calls the correlator, counts metrics, calls `Insert` (again
a send that does not wait) and broadcasts the message to the hub. The store's
drain goroutine takes messages from the queue, numbers them and commits them in
batches. HTTP handlers run on goroutines of their own: they query and clear the
store, and they hold websockets whose messages come from `Broadcast` through a
channel per client. The alerter reads the whole log on a goroutine of its own.
A message is one object that `main`, the drain goroutine and
the marshaller share by pointer.

### What is hard

* **Interleavings.** A flush and a `Clear` share the id counter and the
  database without a lock. Three kinds of goroutines unregister the same client
  while `Broadcast` walks over the map. The drain goroutine writes `msg.ID`
  while `main` marshals the message.
* **Order.** Requests and responses are parsed on different goroutines, and a
  response can reach the correlator before its request. Ids are given far from
  where messages arrive.
* **Partial failure.** A batch may be refused as a whole, `DropAll` refuses
  commits, a second `Clear` is refused by the first, and what was counted must
  still be what is stored.
* **Crash and restart.** Nothing is flushed at shutdown; `New` rebuilds the id
  counter from the statistics.
* **Bounds.** Channels that are full drop or evict; scanners that are full stop;
  rings that are full lose events.
* **Cuts.** The eBPF transport sees a stream, and the proxy a body, in pieces that end
  anywhere.
* **Time.** The alerter's tick, window and cooldown, and a webhook that does not answer,
  overlap; a tick that finds its channel full is lost.
* **Precedence.** A setting has three places it can come from, and its zero value is
  also what it has when it is absent.
* **Waiting.** The wrapped command must never wait for its observer, `main`
  never for a client or for the drain goroutine, and a process that should stop
  must stop.

### What makes each component correct

| Component | Properties |
|---|---|
| Message log | a message is stored at most once; ids follow arrival; the newest messages are listed; statistics are those of the log and never count what was cleared; the statistics key is readable; what is accepted leaves the memory |
| Live feed | no panic; a feed is complete and in order until its client is evicted; those who leave are gone with their goroutines; `Broadcast` gives its lock back |
| Correlator | a response is paired with the last request of its id, once, and its latency covers the exchange but for less than a millisecond; slots implement pairing by id |
| Orchestrator | the log has the order of the feed and of each source; nothing that was inserted is in two places or in none; sources never wait; the process stops; the database is closed unless a late signal kills it |
| Configuration | what runs is what was asked for, and only if that is one mode |
| Stdio transport | what is passed on is what is scanned; output is complete when `Start` returns; the command never waits for long |
| Socket transport | what is passed on is what is captured; a leaver's last bytes arrive; both goroutines end with the connection, whatever the programs do |
| HTTP proxy | what is captured is the lines of what is passed on; only a long line aborts an exchange; a request is captured before its answer |
| eBPF transport | extraction does not depend on the cuts and finds exactly the texts of an undisturbed stream |
| Alerter | a breach that lasts is told; nothing is told of twice; it stops with the context |

## 2. Modules

| Module | Models | Role |
|---|---|---|
| `Store` | the message log, with BadgerDB as the code uses it | specification |
| `StoreProofs` | | theorems about `Store` and `Alerter`, which reads the log |
| `LiveFeed` | the feed, without locks, goroutines and channels | abstract specification |
| `Hub` | the hub, its clients and `handleWebSocket` | implements `LiveFeed` |
| `HubProofs` | | theorems about `Hub`, and the refinement |
| `Correlation` | pairing by id, without slots and hashes | abstract specification |
| `Correlator` | `Process` and the order in which messages reach it | implements `Correlation` |
| `CorrelatorProofs` | | theorems about `Correlator`, and the refinement |
| `Pipeline` | transports, the channel, `main`'s loop, the drain goroutine | composes what `main` sees of the parts |
| `Startup` | flags, the file, the modes, what `main` starts and closes | specification |
| `MainProofs` | | theorems about `Pipeline` and `Startup`, the two parts of `main` |
| `Stdio` | the stdio transport | specification |
| `StdioProofs` | | theorems about `Stdio` |
| `Socket` | the socket transport | specification |
| `SocketProofs` | | theorems about `Socket` |
| `Proxy` | one exchange through the HTTP proxy | specification |
| `ProxyProofs` | | theorems about `Proxy` |
| `StreamBuffer` | `extractJSON` and `extractLines` as functions of the buffer; what a JSON text is | operators |
| `Ebpf` | tracer, rings and the reader's loop, over `StreamBuffer` | specification |
| `EbpfProofs` | | theorems about `Ebpf` and the extraction |
| `Alerter` | the alerter, its ticker and the webhook | specification |
| `MCStore`, `MCHub`, ... | | instances for TLC |

In each specification the definitions under the heading "Slips" are plausible
mistakes. The specification does not use them; replacing the definition they
imitate by one of them makes TLC find a property violated, which shows that the
property depends on that piece of the code.

### Store

The variables are the fields of `Store`, `runDrain`'s batch, `flush`'s open
transaction, and the database: `entries` for the `msg:` keys and `stats` for the
statistics key, which may be absent. `flush` is one action per turn of its loop
and one for the commit, because a `Clear` on another goroutine can come in
between; `Clear` is four actions for the same reason (the counter, the begin and
the end of `DropAll`, the statistics). BadgerDB is not in the repository, so it is
modelled by its documented promises: snapshot reads, `ErrConflict` for a key
that was read and has been committed since, `ErrBlockedWrites` during `DropAll`,
`ErrTxnTooBig`, keys that overwrite, entries that expire. `Exit` may come between
any two steps and stands for a crash and for `Close`, which writes nothing.

History variables: `epoch` counts the resets of the counter, `expired` keeps what
TTL has removed, `overlapped` records that a flush ran together with a `Clear`. The code keeps an average latency as a float and
multiplies it back by the count; the model keeps the exact sum, so rounding is
not modelled. The queries only read: `QueryAll`, the list of `entries` in the order of
their keys, and `QueryRecent` are operators. A key is compared as a string, so `Digits`
gives the digits that it shows of an id, padded to `IdDigits` as `%06d` does, and longer
when the id needs more; `IdBefore` compares the shorter id with as many digits of the
longer one.

### Hub

Each connection is a `Client` object. `Broadcast` is split into the taking of the
read lock, one step per client and the release. `Unregister`, called by the
handler, by the pump and by eviction goroutines, needs the write lock. A send on a
closed channel and a second close set `panicked`, and nothing follows a panic. The
range loop of `writePump` goes on over what a closed channel still holds. The
handler's goroutine returns when its read fails. `Flaky` are the connections that may
fail or leave by themselves; the others only end when the hub closes them.

`LiveFeed` publishes a message to all present clients in one step. Under the refinement
mapping a client is owed what its pump holds, what waits in its channel and, until
`Broadcast` has come to it, the present message; it is `slow` while an eviction waits for
the lock. A client misses a message only when `SendCap` others wait, must leave then,
and, if its connection is sound, leaves for no other reason and is given first what it is
owed.

### Correlator and Correlation

The clock, the stamp that a transport goroutine gives to a message when it parses
it, and the order in which `main` processes messages are separate: a message that
was observed may be processed in any order, or never, if a full channel dropped it.
The clock is finer than a millisecond: `Milli` of its readings make one, and `Latency`
cuts to whole milliseconds as `Milliseconds()` does, so that a short exchange has none.
`Hash` is a constant, so the proofs cover every hash function; TLC uses
`HashString`, which is the code's, with two slots so that ids collide.
`Correlation` promises pairing by id and says what may be forgotten: a request
with the same id, or one other for each new request.

### Pipeline

Sources are the transport's goroutines. A message is known by its source and its
place there. `main`'s loop is one action per case of its select, and one each for
`Insert` and `Broadcast`, between which the drain goroutine may give the message
its id. The `cancel` that `main` calls after the transport's end is the stop function of
`signal.NotifyContext`: until then a signal cancels the context, from then on
(`Uncaught`) it kills the process. A data race on `msg.ID` exists in the code (written by `flush`, read by the
marshaller); a 64-bit word is written at once on the platforms that the program
builds for, so the reader sees 0 or the id, and `Broadcast` reads whichever is
there.

### Startup

A setting's value is an integer with 0 for the zero value of its type, so that what
the code does with absent, zero and negative values can be told apart. Each block of
`main` before its loop is an action: parsing the flags, taking the file over and then
the flags that are on the command line again, counting the modes, catching signals,
opening the store, starting the alerter, the server and the transport. `signals` says
what a signal does: before `signal.NotifyContext` it kills the process, then it cancels
the context, and after `main`'s own `cancel()`, which gives the signals back, it kills the
process again, also while `main` is returning (phase "closing"). `os.Exit` skips the
deferred `Close`, which `StoreLeftClosed` is about. The specification is called `Program`;
its names differ from those of `Pipeline`, so that `MainProofs` can extend both.

### Stdio

Three pipes of a few bytes, three scanners that pass on each byte before they look
at it. A scanner that meets a line longer than its buffer ends for good. Standard
input's goroutine closes the command's input when it ends; `Start` itself scans
standard output, then calls `cmd.Wait`, which waits for the command and closes the
pipes. Parsing and the channel are in `Pipeline`. The client reads whatever it is
passed.

### Socket

One connection, the listener and the context: connections share nothing else. The
programs on both sides write, read, shut their side and close when they like. A
copying goroutine reads a piece of any length and passes it on byte by byte; a socket
holds `SockCap` bytes for a program that does not read. The interceptor keeps what
Write has passed on only when Write returns, so a response may be captured before
its request (`Correlator` takes messages in any order for this reason). What follows
the last line feed is passed on and not captured. The two deferred `Close` calls are
one step; nothing can tell them apart.

### Proxy

One exchange. `net/http` sends the request in one goroutine and copies the response in
another one; it is external, and reads through the interceptors in pieces of any size up
to `MaxPiece`. A body is a sequence of the things that the interceptors tell apart: line
feeds, white space, the record separator of json-seq, the `data:` of an event stream,
objects, and anything else. An interceptor's `Read` is one operator: the limit on the
buffer, the loop over complete lines, and the rest of the buffer at the end of the body.
`RoundTrip` goes on with what `ReadAll` has received even if that failed, and the
library then notices, for a request whose length was given, that it is too short. A
target that is `patient` answers only a complete request; `WireBuffer` is what the
library holds back of a request until it is complete.

### Alerter

The code compares times with the present only, so the model keeps ages, and time passes
without a bound: `Advance` ages the messages in the window, the ticker and the cooldown.
A tick that comes while the channel of the ticker is full is lost, which happens behind
a post. `check` reads a snapshot and is one action. A message is what `check` sees of it:
whether it is counted, whether it is an error, its latency. The average is an integer
division, as in the code.

### StreamBuffer and Ebpf

A byte is one of seven kinds, those that the code tells apart. The scanner inside
`extractJSON` is a fold over the buffer with its three locals (depth, inString,
escape). The traced process transfers its streams in pieces of any size on any CPU;
a piece becomes an event in the ring of its CPU or is lost when the ring is full,
and the loop reads one event at a time. `trace_write` copies when a write begins, so
a write that fails or is short is copied in full, and what the process writes again
is copied again (`ShortWrite`). A read or write that faults, several threads on one
stream, and attaching are left out.

## 3. Runs

| Run | What it shows | Bounds |
|---|---|---|
| `store` | two `Clear` calls, a flush, refused batches, expiry and a restart: stored once, ids in order, the newest listed, statistics readable, true to the log and free of what was cleared; what is accepted leaves the memory | 3 messages of 3 shapes, queue and batch of 2, 2 clears, 2 sessions, ids in base 3 padded to 2 digits |
| `hub` | no panic, complete feeds; refinement of `LiveFeed`; evicted and failed clients are gone; `Broadcast` returns whatever clients do | 2 clients of which one is flaky, channels of 2, 4 messages |
| `correlator` | pairing, latency, refinement of `Correlation` | 3 ids in 2 slots, 4 messages of which 2 wait at once, a clock of 3 readings, 2 to the millisecond |
| `pipeline` | the log has the order of the feed and of each source, ids agree, what was inserted is in one place; sources never wait for `main`; `main` stops or is killed | 2 sources, 2 messages each, channel, queue and batch of 2 |
| `stdio` | what is passed on is scanned, and only a line that fills the buffer is given up; output is complete; the command goes on; its end is noticed; closed input reaches it unless it is stuck behind a line that was too long | 4 bytes of output, 2 of input and of errors, pipes of 1, buffers of 2 |
| `socket` | what is captured is what is passed on; a leaver's last bytes arrive; a leaver is noticed; a cancelled context ends everything | a stream of 3 bytes with a line and a half, or an empty line; 1 byte back; sockets of 1 |
| `proxy` | captures are the complete lines of what was handed on; only long lines abort; requests are captured first | every response of up to 3 pieces and 3 longer ones, 6 requests; pieces of 2, a buffer of 4, a wire buffer of 1 |
| `ebpf` | texts and lines with strings, escapes and garbage, cut anywhere, on two CPUs, with a dropped event or a short write | 8 bytes in all, 2 items per stream, pieces of up to 3 bytes, rings of 1 event, 1 mishap |
| `ebpf_chunk` | violation: a full chunk is copied as nothing | pieces of up to the chunk size, 4 |
| `startup` | the program runs as it was asked to, and closes its database, unless a signal comes after the transport's end | up to 2 options on the command line and up to 2 in the file, of 2 groups; values absent, 0, positive and negative; good, missing, unreadable and malformed files |
| `startup_file` | violation: a file cannot ask for the socket mode | files without flags |
| `alerter` | a lasting breach is told; nothing is told twice; the alerter stops | a window of 3 steps, ticks every 2, a timeout of 1, messages of 2 kinds found at age 0 or 1, 1 failure in a row |

The longest run, `stdio`, takes about two minutes. `ebpf` uses the symmetry of CPUs and
checks invariants only. Timestamps are all equal within a session in `store`, the hardest
case for keys made of a timestamp and an id; the theorem `StoreRecentAreNewest` holds for
any. Deadlock is checked in every run but `hub`:
`Finished` and `Ended` are the states in which a system may rest, and any other state
without a step is reported. A hub with no connection left really stops; that no
goroutine of it is locked up with work to do is what `BroadcastReturns` and `LeaversGone`
say, and they say it under less fairness than the absence of deadlock would need.

**Why these bounds are enough.** Every limit in the code (queue, batch, channel,
slots, line, ring, chunk) is a constant of the model and is set so small that the
runs pass through it in both directions: full and not full, hit and missed. What
can go wrong needs two or three actors, not many: two clears that fail each other,
a client and its three unregistering goroutines, a second client that is not
disturbed, three ids of which two collide. One client that fails and one that does not
show both that the first is removed and that the second is not touched. An option in
the file and one on the command line show every precedence; two of each, the modes and
settings that come in halves. Four bytes of output are a line that fills the scanner's
buffer, one byte for the pipe and one that no longer fits: the command is then stuck in its
write. Three readings of a clock with two to the millisecond give exchanges without time, of
less than a millisecond, and of a whole one. A message, a window and a cooldown overlap in every way
when the window is longer than the ticker's period and that longer than the timeout. Three messages are needed to have one
in the queue, one in the batch and one committed. A second session is needed to
see what a restart forgets. What the theorems of section 5 state holds without
these bounds.

## 4. Fairness

Each specification's `FairSpec` (`FairAlertSpec` in `Alerter`) assumes the least that its weakest liveness property
needs; a property that needs more names it as a condition (`ClientFair(c) => ...`).

* `Store`: the drain goroutine is scheduled and database calls return. `runDrain` is a
  loop that nothing stops, and its ticker fires every 50 ms. Only weak fairness of its
  steps is assumed, nothing of `Insert`, `Clear` or `Exit`.
* `Hub`: `FairSpec` schedules `main` inside `Broadcast`; nothing is assumed of any
  client, and `BroadcastReturns` holds. `ClientFair(c)`, for `LeaversGone`: the pump, the
  reader and the evictions of `c` are scheduled, whatever the others do, and a write ends
  because of its timeout of 5 seconds
  (`writePump`). For the steps that take the write lock strong fairness is assumed:
  Go's RWMutex keeps new readers out when a writer waits, so that `Broadcast`, which
  takes the lock again and again, cannot starve them.
* `Pipeline`: `FairSpec` schedules the transport's goroutines and not `main`, and
  `SourcesNeverWait` holds. `MainFair`, for `MainStops`: `main` is scheduled, and since
  Go's select picks among ready cases at random, a case that is ready over and over is
  taken in the end (strong fairness of `TransportEnded` and `Done`). Nothing is assumed
  of the drain goroutine.
* `Socket`: the goroutines are scheduled and a closed listener or connection fails the
  calls on it. Nothing is assumed of the programs on both sides; `LeaverNoticed` has
  `PeersRead` as its condition, because a goroutine in a Write cannot see that its
  source has left.
* `Alerter`: the post ends after its timeout or with the context (`PostGivenUp`), and the
  select of `Start`, which picks a ready case at random, takes the context's in the end
  (strong fairness of `Return`). Nothing is assumed of the webhook. `BreachHeard` is an
  invariant: in `Advance`, time does not pass while the goroutine has something to do.
* `Stdio`: the scanners' goroutines and `cmd.Wait` are scheduled, and the kernel
  completes a write for which the pipe has room. Nothing is assumed of what client and
  command want to do; `CloseReachesCommand` is about a command that goes on reading when
  it can (strong fairness of `CommandReads`, because its own writes come in between). It
  excepts a command that is `Stuck`: it waits in a write to a full pipe which nobody reads
  since a line was too long, never reads again, and a full pipe to it may keep its input
  open for ever.

## 5. Proofs

The theorems hold for every capacity, every number of clients, messages and clears,
every hash function; their assumptions are the named ones of the modules
(capacities are positive, sentinels are not ordinary values).

* **Store** (`StoreProofs`).
  `StoreTypes` follows from `TypeInv`: types, and `BatchInv`, which relates the open
  transaction to the batch (without it a flush could index past the batch).
  `StoreStatsReadable` needs `DropInv`: commits are blocked exactly while some `Clear`
  is inside `DropAll`, and only one is, so that a reset can only be refused by a
  `DropAll` that is itself still to be followed by a reset.
  `StoreIdsFollowArrival` and `StoreStoredOnce` follow from `OrderInv`: messages move
  from queue to batch to log in order (`LineInv`, `PastInv`), the transaction holds a
  prefix of the batch (`WritesInv`), and the counter is at or above each id given
  since it was last set (`CounterInv`). The properties alone are not inductive: a
  restart that set the counter below an id of the same epoch, or a batch that was
  older than the log, would break them one step later.
  `StoreStatsMatchLog` follows from `StatsInv`, which says the same of the statistics
  that the open transaction will write, counting what it has written so far. That needs
  `KeepInv`: no two entries share a key (`KeyInv`: an entry that overwrote another one
  would be counted twice), which holds because, unless a flush and a `Clear` overlapped,
  what the log has of this session is of the present epoch (`EpochInv`), and what it has
  of earlier sessions has earlier timestamps (`SessionInv`).
  `StoreClearedStayUncounted` adds `CountInv`: a transaction that read the statistics
  before a `Clear` and could still commit counts no more than what the log and its own
  writes have of the latest epoch, since the reset makes every other one fail.
  `StoreRecentAreNewest` is about every list that is in key order: strings of digits
  padded to the same length order like numbers (`DigitsPadded`, `KeysInOrder`), so by
  `IdsFollowArrival` keys order the messages like their arrival (`EntriesInOrder`); a
  finite set in a strict order has a list in this order (`ListExists`), which has each
  member once (`ListHasAll`), and the last ones of it are the greatest.
* **Hub** (`HubProofs`). `HubTypes` and `HubNoPanic` follow from `HubInv`, whose part
  `LockInv` says that a closed channel belongs to nobody in the map, and that what
  `Broadcast` has still to visit is in the map: the lock keeps `Unregister` away.
  `HubFeedComplete` and `HubFeedInOrder` add `FeedInv`: what a client has
  been written, is being written and has waiting is one sequence, to which `Broadcast`
  appends the message it has just counted, and nothing in it is newer than the last
  broadcast that reached the client. Order alone is not inductive without that bound,
  and completeness not without the place where the client joined.
  `HubImplementsLiveFeed` has one lemma per action. It needs the absence of panics, `LockInv`
  (nobody is unregistered while something is still to be sent to him) and `SoundInv`: a
  connection that cannot fail by itself is closed by its pump only, at the pump's end, so
  that its handler cannot unregister it while it is served.
* **Pipeline** (`MainProofs`). `PipelineTypes` needs `InHand` (main holds a message
  exactly between its select and the broadcast) and `BatchRoom` (a full batch is flushed
  at once). `PipelineNoneForgotten`, `PipelineLogOrder`, `PipelineLogFollowsFeed` and
  `PipelineLiveIds` follow from `PlaceInv`. Its part `ArrivalInv` says that main gets the
  messages of a source by rising numbers, `StoreInv` that none overtakes another one of
  its source between queue, batch and log and that these places are disjoint, and
  `IdInv` which ids are given: the numbered part of the batch has the last ids of the
  counter in a row, the log only ids below them, and what is still in the queue none.
  `OrderInv` is about messages of different sources: each of queue and batch is in the
  order in which main handled its messages, what is in the batch was handled before what
  is in the queue, what has an id before what waits without one, and ids rise with that
  order. Since main handles a message once (`HandledOnce`), this says of a pair in the
  log what `LogFollowsFeed` states. The properties compare messages in the log and in the
  feed only; without the places before these, a step that brings a message there could
  break them.
* **Startup** (`MainProofs`). `StartupRunsAsAsked` and `StartupStoreLeftClosed` hold for
  every command line and file. Each phase gets the part of the property that its
  predecessors have established; a store that is open belongs to a phase after the last
  `os.Exit`, and in such a phase signals are caught, or main has called `cancel()`, and that
  only after the transport had ended.
* **Alerter** (`StoreProofs`). `AlerterToldOnce` follows from `ToldInv`: outside of a
  post, what an alert was about is at least as old as the alert, so that it has left the
  window when the cooldown, which is longer than the window, is over.
  `AlerterBreachHeard` follows from `HeardInv`, which says how long a breach may have
  lasted unheard in each state: one `Delay` (cooldown, wait for the tick, post) for each
  failure so far, and the slack, which is what of such a delay has gone by since the
  last one. `NoticeInv` says that when the cooldown is over and the goroutine waits, a
  breach that lasts is one of the present window, so that the next tick finds it.
* **Stdio** (`StdioProofs`). `StdioSeenIsPassed` and `StdioOutputComplete` follow from
  `StdioInv`. Its part `ScanInv` says that a scanner's lines and buffer are the two parts
  of the cut of what it has passed on (`Cut`, a fold), and that at its end the rest has
  become a line; `BoundInv`, that lines and buffer stay below the limit until the line at
  which the scanner gives up has reached it; `StartInv`, that `Start` leaves its loop only with that scanner and that
  the scanner ends regularly only after the command has exited and its pipe is empty.
* **Socket** (`SocketProofs`). The interceptor's loop takes lines from its buffer after
  each write, `LinesOf` defines the lines of a stream by the places of its line feeds.
  `TookPieces` shows that the loop does not notice where a stream is cut: two writes take
  what one write of both takes. `TookIsLines` shows, byte by byte, that what it takes of a
  stream is `LinesOf`. `SocketSeenIsPassed` is then `TakenInv`, with `PlaceInv`, which
  orders the places up to which bytes are recorded, passed on, read and written.
  `SocketLastWordsPassed` needs `CauseInv`: outside of a cancelled context,
  `handleConnection` closes only after a goroutine that ended, and a goroutine ends only
  because its source has left and is read to the end, or because its sink is gone.
* **Proxy** (`ProxyProofs`). All three theorems follow from `ProxyInv`. The property speaks of
  the places in a body where lines end, the interceptor takes pieces one after the other.
  `SplitTakes` relates the two: while the loop goes over what was read, its buffer is the
  line under way (`BufInv`; `LineAtSteps`), and what is captured corresponds, in order, to
  the lines that end so far (`Matches`; `MatchesStep`), whatever the other direction
  captures in between (`MatchesOther`). That this correspondence exists is
  `CapturedIsPassed`, which with `BufInv` is inductive for a read of any length.
  `OnlyLongLinesAbort` needs that the line under way becomes a line of the body which is not
  shorter (`LinesGoOn`). `RequestFirst` needs `AnswerInv`: when an awaited answer is copied,
  nothing is left of the request that has a message. It holds when the answer begins
  (`ArrivedIsCaptured`), because a request that is on the wire without its end having been
  read is larger than `WireBuffer`, so that it ends with a line feed.
* **eBPF** (`EbpfProofs`). `EbpfCutsDoNotMatter` holds without any condition: for events
  that are dropped, read in another order and cut anywhere. It follows from `Digested`: what
  was extracted and what the buffer holds are what the extraction makes of all bytes so far
  at once. The texts alone would not be inductive, an event could complete a text that the
  buffer no longer holds. That a read keeps `Digested` is `ExtractTwice`, a lemma about the
  two extractions: extracting in two steps, the second of what the first kept and of what
  came later, finds the same as extracting once. It is shown byte by byte (`Bytewise`): a
  turn of the outer loop does not depend on the texts before it (`TurnPrefixed`), there are
  enough turns (`TurnsEnough`), so that the extraction unfolds at its first text
  (`TextCases`, `LineCases`); and the scan, which `extractJSON` starts again for each event,
  ends at the byte that closes a text, whatever comes later (`TextEndSteps`).
  `EbpfTextsFound` says that these texts are the right ones. `IsText` defines a JSON text
  without the scan, by counting: a quote counts behind an even number of backslashes, and a
  bracket behind an even number of such quotes. `ScanFindsTexts` shows that
  the scan's flags and depth are these counts, `WholeStream` that a stream made of texts and
  garbage, or of lines, is extracted into these texts and lines, without a rest. What is
  left is that the bytes arrive: `EbpfChunksCopiedWhole`, from the arithmetic of the mask,
  and `Covered`, which gives each byte that was copied a place among those that were read or
  in one event in a ring. Both need the theorems' premise `MaxTransfer < ChunkSize`, that
  the process reads and writes less than 4096 bytes at a time; `ebpf_chunk` shows that it
  cannot be dropped. `TextsAssumption` says what the constants stand for: members of `Texts`
  are JSON texts, and garbage holds no bracket that opens.
* **Correlator** (`CorrelatorProofs`). `CorrelatorTypes`, `CorrelatorPairsLatest`,
  `CorrelatorPairsOnce` and `CorrelatorLatency` follow from `CorrInv`: each slot
  holds the last request with its id that was processed, which has not been
  answered (`SlotInv`), and stamps are not in the future (`StampInv`). For the latency,
  `DivFloor` says by how much a quotient may fall short.
  `CorrelatorImplementsCorrelation` shows that every step of the slots is a step of
  pairing by id: an overwritten slot is the one request that may be forgotten.

**Inductions.** A fold or a list is reached through the well-foundedness of `<` on the
natural numbers and of the strict subset on finite sets (`NatLessThanWellFounded`,
`FS_StrictSubsetOrderingWellFounded`): the set of counterexamples, if it is not empty,
has a least member. `FoldExists` so shows that the recursion by which the community
modules define `FoldLeft` defines a function, and `CutSteps`, `TakeSteps` that a fold of a
longer sequence is one step after the fold of the shorter one; `SeqInduction` goes over a
sequence byte by byte. These lemmas are in each of `StdioProofs`, `SocketProofs`,
`ProxyProofs` and `EbpfProofs`, because they are about the operator that the component of
each folds with.

**Only proved:** `FeedInOrder`, which says of what a client is still to be given what
`LiveFeed` implies of what it was given, and the type invariants.

**Only model-checked:** everything about fairness (`EventuallyDrained`,
`LeaversGone`, `BroadcastReturns`, `SourcesNeverWait`, `MainStops`, `CommandGoesOn`,
`ExitNoticed`, `CloseReachesCommand`, `LeaverNoticed`, `CancelEndsAll`,
`StopsWhenCancelled`), because the prover has no liveness rules. Every invariant and every
action property that a passing run checks has a theorem.

## 6. Findings

* `ebpf_chunk`: `len &= 4095` makes nothing of a transfer of exactly 4096 bytes
  (`bpf/tracer.c:77`), while the comment on the payload promises chunks of 4 KB.
* `startup_file`: `Config` has JSON names for `socket_local` and `socket_target`, but the
  block that takes the file's settings over leaves these two out (`main.go:117-167`), so
  a file alone cannot ask for the socket mode, although the README says that a file can
  stand in for flags.

Behaviours of the code that the models have and that contradict no promise of it, but
that a maintainer may want to know:

* A batch that is committed between the `DropAll` of a `Clear` and its reset stays in the
  log and is not counted (`badger.go:262-272`; `StatsMatchLog` excludes it by
  `overlapped`).
* When the transport has returned, `main` may leave at once: what is in the channel, the
  queue and the batch is lost, and `Close` flushes nothing (`main.go:357`;
  `NoneForgotten` says where it was).
* A line of 1 MB or more on the command's standard output ends its only reader;
  `cmd.Wait` and a command that goes on writing wait for each other (`stdio.go`;
  `CommandGoesOn` excludes it). The command's input is then not closed either, when its
  pipe is full (`Stuck` in `CloseReachesCommand`).
* When the transport has ended, `main`'s `cancel()` also gives the signals back: a signal
  between it and the end of the deferred `Close` kills the program with the database open
  (`main.go:355`, `285`; the exception in `StoreLeftClosed`).
* An exchange of less than a millisecond is recorded with the latency 0, which the
  alerter leaves out of its average (`correlator.go:79`, `alert.go:80`).
* From the millionth id on, messages of one instant are listed out of order, because keys
  are compared as strings (`badger.go:137`; `RecentAreNewest` excludes it).
* Of standard error nothing is stated when the command has exited: `cmd.Wait` closes its
  pipe, although its goroutine may still have to read from it.
* `RoundTrip` ignores the error of `ReadAll`, so a request that the client broke off can be
  sent to the target as far as it came (`proxy.go`, action `Receive`).
* The dashboard's history, when it arrives, replaces the live messages that came before
  it (`web/app.js:83`; not modelled).

## 7. Not modelled

* **JSON.** A parsed message is given by its type and id; `Parser` is modelled by its
  classification only.
* **BadgerDB** beyond its promises, and the collection of its value log, which changes
  nothing that a caller sees. The same for `net/http`, the websocket library, the kernel's
  rings and pipes: they are the environment of the code.
* **Metrics**: counters of the Prometheus library that nothing reads back. **Tracing**: an
  exporter chosen at the start, and the remote parent of a span, which only labels what
  is exported.
* **HTTP API** beyond `handleWebSocket`, `Clear` and the lists: formatting, basic
  authentication and TLS keep no state.
* **HTTP proxy**: `Start`, which leaves serving and shutting down to `net/http`, and the
  trace context that `RoundTrip` reads from and writes into requests.
* **eBPF**: attaching, the choice of the process, reads or writes that fault, several
  threads that transfer on one stream at once; the generated bindings have no logic.
* **Dashboard**: a browser script, outside of the Go program. **Assets** and **test
  programs** are not part of the system.

## 8. Plan

What the next steps would be, in this order:

1. A message log as an abstract specification that `Pipeline` implements; `PlaceInv` of
   `MainProofs` is the invariant for it.
2. The dashboard's list of messages: history and live messages, caps and `Clear`.
