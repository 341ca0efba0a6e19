# A TLA+ model of peercast-mi

peercast-mi is a PeerCast node written in Go.  It takes a stream from an
encoder over RTMP or from another node over PCP, keeps the last seconds of it
in a buffer, and sends it to media players over HTTP and to further nodes over
PCP.  It announces its broadcasts to a yellow page (YP) and keeps an audit log
in a database.  This directory models the parts of the node in which
goroutines share state, where most of what can go wrong depends on the order
of steps that no test fixes.

Paths below are relative to `src/`.

## Inventory

| Component | State | Operations | Interacts with | Modelled in |
|---|---|---|---|---|
| Stream key store (`internal/channel/stream_key_store.go`) | accounts and keys in both directions; a JSON file | issue, revoke, load, save | manager, RTMP, site | `StreamKeyStore` |
| Channel manager (`internal/channel/manager.go`) | channels by ID and by key, key by ID, relay clients | broadcast, start relay, stop, stop all | everything | `ChannelLifecycle` |
| Channel and its output registry (`internal/channel/channel.go`) | info, track, outputs, counters, ban list | set info/track/header, write, broadcast, add/remove/evict/close outputs | sources, outputs | `Admission`, `StreamSource`, `BcstRouting` |
| Content buffer (`internal/channel/content.go`) | header, ring of packets, count, signal channel | set header, write, since, packets after | channel, outputs | `ContentBuffer`, `PacketWindow` |
| Listener and admission (`internal/servent/listener.go`) | `admitMu`, connection IDs | handle a connection, admit, deny | channels, manager | `Admission` |
| PCP relay output (`internal/servent/pcp.go`) | cursor, notification channels, broadcast queue, close flag | handshake, initial atoms, stream loop, read loop | channel, node table | `PCPDelivery`, `BcstRouting` |
| HTTP viewer output (`internal/servent/http.go`) | last packet sent, notification channels | wait for info and data, stream loop | channel | `HTTPDelivery` |
| Idle cleaner (`internal/channel/cleaner.go`) | first-seen-idle time by ID | periodic cleanup | manager | `Cleaner` |
| Relay client (`internal/relay`) | source nodes, ignored nodes, connection, bump flag, queue to the upstream | select, connect, receive, send broadcasts, reconnect, stop | manager, channel | `RelayClient`, `ChannelLifecycle` |
| BCST routing (`internal/pcputil/bcst.go`) | none; a rule on messages | route | outputs, relay client | `BcstRouting` |
| Node table (`internal/channel/nodes.go`, `observed_hosts.go`) | known hosts, statistics, owners | observe, expire, remove | outputs, relay client | `BcstRouting` (statistics and owners) |
| RTMP ingest (`internal/rtmp`) | a session's key, sequence headers, the channel it feeds; publish limiter | publish, metadata, audio, video, close | manager, channel, audit | `RtmpSession` |
| YP client (`internal/yp`) | connection, announced states | announce, withdraw, reconnect, bump, quit | manager | `YPClient` |
| Audit log (`internal/audit`) | runs, queue, spool files, database | emit, append, deliver, recover | manager, RTMP, site | `AuditSpool`, `RtmpSession` (runs) |
| Website and catalogue (`internal/site`, `internal/catalog`) | caches, sessions | start a broadcast, rotate a key, list channels | manager, audit | only the end of `createBroadcast`, in `RtmpSession` |
| JSON-RPC API (`internal/jsonrpc`) | none | decode, call, encode | manager | as callers of the actions |

What is hard here:

* the manager's lock protects only its maps, the channel's lock only its
  fields and the buffer's lock only the ring: an operation that spans them is
  a sequence of critical sections, and other goroutines run in between;
* outputs are told of changes by channels that hold one token, and of data by
  a signal channel that is replaced at every write;
* positions are 32-bit and wrap, a header change may rewind them, and the
  ring overwrites what a reader has not read;
* channels are stopped by the API, by an encoder that disconnects, by a relay
  that gives up, by the cleaner and at shutdown, all at once and all by ID;
* admission reads limits, frees a slot, talks to the peer and adds the output
  in separate steps;
* the relay client reconnects at once, without backoff, and four goroutines
  share its connection;
* broadcasts travel through queues that drop, over a network that may have
  circles and changes while they travel;
* an RTMP callback looks its channel up several times, and the channel may be
  another one each time;
* the YP remembers what the client told it, and the client what it believes
  the YP remembers;
* the key store and the audit spool must survive failed writes and a process
  that dies.

What makes each part correct is stated as properties below; `hazards` in
`PROJECT.json` lists the places in the code at which they could fail.

## Modules

| Module | Models | State and actions |
|---|---|---|
| `StreamKeyStore` | the key store | both maps, the file, the operation that holds the mutex; issue and revoke split at the rename, failing saves, crash, load |
| `Admission` | `handlePCPRelay`, `handleHTTPStream`, the output registry | one action per critical section of a connection's handler; eviction in two steps, `CloseAll`, `CloseConnection`, stop and restart of channels |
| `PacketWindow` | what the buffer promises | a header and a window of packets; the readers' operators |
| `ContentBuffer` | the ring | ring, count, positions of both kinds of source; implements `PacketWindow` |
| `StreamSource` | the sending half of a channel | set header and write, each split into buffer change, copy of the outputs and notification; set info and track |
| `PCPDelivery` | a relay output | extends `StreamSource`; every read of the channel in `sendInitial`, `startCursor` and `streamLoop` is a step |
| `HTTPDelivery` | a viewer's output | extends `StreamSource`; every read of the channel in `run` is a step |
| `ChannelLifecycle` | the manager's maps and the end of a relay client | broadcast, start relay, the steps of a stop, the deferred functions of `Run` |
| `Cleaner` | the periodic cleanup | extends `ChannelLifecycle`; list, visit, stop and prune as separate steps, outputs that come and go |
| `RelayClient` | the relay client | `Run` and `connectTo` from selection to decision, the goroutine that closes the connection, the sender and its queue, `Stop`, `Reconnect`, `Channel.Broadcast` |
| `BcstRouting` | broadcasts between nodes | `RouteBcst` and `Channel.Broadcast` over both ends of every connection, the sections of `ObserveHost`, info updates, peers that leave and connect elsewhere |
| `RtmpSession` | encoders with one stream key | one action per lookup in a callback; the manager's stop in two steps; the audit run as operators |
| `AuditSpool` | the recorder and its database | emit, collect, append, rename, deliver line by line, recover; errors of the disk and the database, crash and start |
| `YPClient` | the YP client | wait, dial, handshake, the round of announcements channel by channel, `select`, quit, sleep; channels, network and YP around it |
| `StorageProofs` (of `StreamKeyStore` and `AuditSpool`), `AdmissionProofs`, `ContentBufferProofs`, `PCPDeliveryProofs`, `LifecycleProofs` (of `ChannelLifecycle` and `Cleaner`), `HTTPDeliveryProofs`, `NetworkProofs` (of `RelayClient` and `BcstRouting`), `RtmpSessionProofs` | | theorems |
| `MC...` | | constants for TLC |

`PCPDelivery` and `HTTPDelivery` compose an output with its source, `Cleaner`
composes the cleanup with the manager, `BcstRouting` composes the two ends of
connections over a network of nodes, `RtmpSession` composes encoders, manager
and audit runs.  The delivery modules use the window of `PacketWindow` instead of the ring;
`ContentBuffer` shows that the ring implements it, and that `Since` and
`PacketsAfter` return from the ring what the operators return from the window.
Both refinements are proved: `RingImplementsWindow`, and
`CleanerImplementsLifecycle`, that the cleaner's specification implements that
of the manager.

Abstractions, apart from wording, logging and formats:

* A packet is its position, length and timestamp; in the delivery modules it
  also has the generation of its header, a serial number as its timestamp and
  a keyframe flag.  A header is its length, or its generation, and its
  position.  `CanStartContent` is the keyframe flag.
* A connection is the last thing written to it, or a queue of what is written
  and not read.  A write may fail wherever there is one; a timeout may happen
  wherever the code waits with one.
* In `Admission`, send rates, what is known of a peer's relays, the expiry of
  a ban and the outcome of the handshake are inputs.
* In `Cleaner` time is counted in cleanup intervals, because the code reads
  the clock once per cleanup.  In `RelayClient`, `BcstRouting`, `YPClient` and
  `AuditSpool` timers and expiries may happen at any moment.
* In `ChannelLifecycle` a channel object and its relay client are one
  instance, and an instance to which nothing refers is reused (the garbage
  collector).  `StopInstance` for a channel that is registered is `Stop`; for
  another one it does nothing.
* In `RelayClient` the handshake is its outcomes, and the score of a host is
  what orders the candidates.
* In `RtmpSession` a tag is its version, a run is whether it is committed and
  closed, and its open inputs, and the info of a channel is whose metadata went
  into it (it is read and written under two locks, so one encoder's values may
  undo another's).
* In `AuditSpool` a process has at most one broadcast; an event is its
  process, number and kind, whether anything was dropped before it, and whether
  its line can be read and its row is accepted (`sound`: `valid` and
  `invalidRow` decide by what the event says, so it is so at every delivery).
  The size of the directory is counted in lines.
* In `YPClient` the announcement of a channel is one value; the YP forgets
  what a connection announced when the connection ends.
* Variables marked "history" are not in the code; properties need them.

## Runs

Passing runs (states are distinct states):

| Run | Bounds | Shows |
|---|---|---|
| `stream_keys` | 2 accounts, 3 keys, with the site and without (43,000) | the maps are inverse; with the site an issued key survives whatever fails |
| `admission` | 3 relays, 1 viewer, 1 channel; at most 2 relays per channel, 1 in total, 1 viewer, a bandwidth limit (818,000) | counters exact, channel and total limits kept, no lost slot; the eviction loop ends and `admitMu` is released |
| `content_buffer` | ring of 2, 6 headers and packets, wrap at 64 (83,000) | the ring implements the window; readers get exactly what follows, announced positions are right on both sides of a wrap |
| `pcp_delivery` | ring of 2, 2 headers, 3 packets, 1 info update, wrap at 16, forwarded broadcasts (6.7 million) | data in order under its own header, no gap but what the ring has overwritten, no lost wake-up or notification, cursor in reach |
| `http_delivery` | ring of 2, 2 headers, 4 packets, wrap at 16 (332,000) | behind each header: keyframe first, in order, no gap; what is sent again follows its own header; every header reaches the viewer |
| `cleaner` | 2 channel objects, 1 ID, 1 key, 1 relay at most, limit of 1 interval, 1 other goroutine that stops (482,000) | the maps agree, no relay is lost, every stop returns, dead and idle channels are removed, one that is watched since before the cleanup is kept |
| `relay_client` | tracker and a host behind the same NAT with two addresses, queue of 1 (208,000) | a failed host is not dialled again at once, the sender lives as long as its connection, a bump takes effect, `Stop` ends the client |
| `bcst_routing` | 4 nodes as chain, fork and circle; TTL 3, queues of 1 and 2, 2 events out of info updates, reports and departures | no report twice in a tree, broadcasts die out, info converges, what is counted has an owner |
| `rtmp` | 2 encoders, 2 channels, 1 version of each tag (4 million) | the first data under the right header and with the encoder's own metadata, inputs closed, ended runs silent, the fed channel off the air |
| `audit` | queue and batch of 2, directory of 3 lines, 2 starts, 3 events, 1 error of the disk or row that the database refuses (223,000) | no silent loss, ends recorded, only what a dead process left open is called interrupted |
| `yp` | 3 channel objects with 2 IDs, one a relay, 2 versions of an announcement, 2 changes, 1 fault (227,000) | the listing converges, a node without broadcasts stays away, `Stop` ends the client |

Why the bounds are enough: each interesting case needs one more of everything
than the case before it.

* A ring of two wraps at the third packet and then has packets on both sides
  of the index and, with a start just below the wrap, of the position; two
  headers give a change in the middle of a stream, with positions that
  continue or rewind.  In `ContentBuffer` the longest behaviour stays below
  half of the position space, as 2^31 bytes do in the code; a header or packet
  takes less than `Stride` = 3 bytes of it.  The positions of an upstream may
  skip, in every packet, but not go back under one header.
* Three relays are the least with which a channel limit of two can be exceeded
  while one of them is evicted; the channel limit binds when the channel is
  deregistered and no longer counts for the total, which is the tighter limit
  before.  The total over several channels is left to the proof.
* Two channel objects on one ID let an old relay, a broadcast or relay that
  takes its place, the cleaner and a caller of `Stop` meet.  More IDs, keys
  and goroutines are left to the proof.
* One host with two addresses beside the tracker is what selection can confuse;
  a queue of one is full after one message.
* In four nodes a report can go up and come down at another branch, and two
  nodes can relay from each other below the origin of a broadcast.  A TTL of
  three ends inside the chain.
* Two encoders and two channels are what the lookups of one callback can
  confuse.
* With two starts the second finds what the first left; three events overflow
  the queue of two and the directory of three lines together with a gap event.
  They are also the least with which a row is refused between a creation and an
  end that are accepted.
* The channel object that shares an ID with another one gives a stop and a
  start between the note of a state and its sending.

`CHECK_DEADLOCK FALSE` is there where the events are bounded and everything
may come to rest after them: in `content_buffer`, `bcst_routing`, `rtmp`,
`audit` and `yp`.  The other runs check for deadlock.

One run finds a violation of what a comment says; `findings` in `PROJECT.json`
quotes it:

| Run | What happens |
|---|---|
| `http_body_before_header` | a header change between the check and `PacketsAfter` sends the new body first |

Other behaviour that the models contain and that a reader of the comments may
not expect; no run of its own shows it:

* An output is added to a channel that was closed after it was looked up
  (`servent/listener.go:417`); nothing closes that output.
* A relay that ends removes whatever channel has its ID (`manager.go:268`), and
  so does the cleaner (`cleaner.go:89`), a broadcast that took the ID in the
  meantime included, although `cleaner.go:14` says that broadcasts are never
  removed.
* `RevokeStreamKey` only logs a failed save and reports success
  (`stream_key_store.go:131`), so a restart brings the key back.
* Without the site, a cache file that cannot be read is only warned about
  (`main.go:84-89`), and the next save overwrites it; `IssuedKeySurvives` is
  stated for the site, where it is fatal.
* An evicted relay is unregistered at once (`channel.go:426`) but goes on
  sending while there are packets, without header notifications: it may send
  data of the next stream behind the old header.  `DataUnderOwnHeader`, `NoGap`
  and `NoLostWakeup` of `PCPDelivery` therefore have the condition that the
  output is registered.  `streamLoop` looks at its close channel only when
  there is nothing to send.
* A header update makes the viewer's loop forget what it has sent
  (`http.go:152`).  Packets that went ahead of their header (the run above), or
  behind one whose notification was still under way, are sent again after it,
  although `content.go:225-227` speaks of monotonic delivery and
  `docs/decisions/peercaststation-compat.md:186` says that nothing is sent twice
  across a header change.  The history variable `newest` remembers what the
  update forgets; `Contiguous` says that only packets of the header just sent
  come again.
* A viewer that takes `HasData` before `Signal` (`http.go:103-106`) is not woken
  by a first packet written in between; it waits for the next one.  A header
  notification that arrives after the drop at `http.go:120` makes the viewer
  get the same header twice, and the packets since it as well.
* The cleaner's entries are kept by ID (`cleaner.go:84-102`): a relay restarted
  between two cleanups inherits the idle time of its predecessor, and a viewer
  that comes and goes between two cleanups does not reset it.
* A requested reconnect ignores the current host.  If that leaves no host, the
  tracker being ignored, the relay ends, although `relay/reconnect.go:3` says
  that the channel stays alive.
* A chan atom that is not wrapped in a broadcast has no TTL: between nodes
  that relay from each other it circulates for ever.  `Quiesces` is about
  broadcasts.
* `readLoop` may observe a host after `RemoveNodeStats` of its peer; the
  statistics then stay until they expire after three minutes.
* A broadcast that is dropped at a full queue may leave a node with old info;
  `InfoConverges` excepts behaviours in which something was lost.
* A relay writes at whatever position its upstream gives (`relay/client.go:493`).
  If a new upstream sends the same head packet and continues at a lower
  position, the buffer goes back without being emptied.  `ContentBuffer` has
  upstreams that skip forward, and assumes that none goes back under one header;
  in the delivery modules (`StreamSource`) positions continue without skipping,
  and one goroutine at a time writes to a channel.
* Two encoders on one key: the metadata of one may overwrite the other's
  (`applyMetaInfo` reads and writes the info in two steps), and one that finds
  positions at zero may send data before its own sequence header.
* An encoder that fed an earlier channel of the key and found none at its last
  frame stops the present channel when it disconnects (`rtmp/server.go:234-240`,
  `326`), although `docs/spec/audit.md:66` says that it does not.
* A row of an earlier process that the database refuses is skipped, the lines
  behind it are recorded, the file is put aside as `.bad`, and the gap event
  carries the present process (`recorder.go:485-504`).  The broadcast of the
  earlier process may therefore be ended and complete although one of its
  events is only in that file.  `NoSilentLoss` names such events (`Aside`) and
  excepts them; while the process that emitted the event delivers it, the gap
  makes the right broadcast incomplete.
* A torn spool file of an earlier process is reported as a gap of the present
  one as well; a crash before a gap event is spooled loses it (the exception in
  `NoSilentLoss`); a failing sync after the rename counts delivered events as
  dropped; and quarantined files that fill the directory keep `Recover` from
  writing (the exception in `Reconciled`).  A gap event that is delivered twice
  is applied twice in the model and once in the code (`mysql.go:85-88`), which
  comes to the same.
* A channel whose announced state changes and changes back between the note
  and the sending is put right only by the next forced round of the YP client.

Fairness is weak fairness of each goroutine's next step, since the Go
scheduler is fair to runnable goroutines.  Beyond that:

* `ChannelLifecycle` and `RelayClient` assume that a relay whose context is
  cancelled leaves its loop, since cancelling closes its connection; a relay
  that is not cancelled may run for ever.  `RelayClient` assumes strong
  fairness of the steps that need `writeMu` or compete in a `select`.
* `BcstRouting` assumes strong fairness of taking a queued broadcast, because
  `select` chooses among ready cases at random.
* `HTTPDelivery` assumes that timers fire, `Cleaner` that the ticker does.
* `Admission` assumes that the holder of `admitMu` goes on, as its sections do
  no I/O.
* `AuditSpool` assumes that the recorder's loop runs and that the database is
  up and answers again and again; crashes are bounded.
* `YPClient` assumes strong fairness of the cases of its `select`s.
  `ListingConverges` and `IdleStaysAway` have the premise that a peer which does
  not read is not silent for ever (`StallsEnd`); `StopEnds` has not.

No fairness is assumed of encoders, peers, viewers, the API, failures or
evictions.  `PCPDelivery` is checked for safety only.

## Proofs

All theorems hold for every value of the constants that satisfies the named
assumptions of the module.  Most of these only give the constants their types.
Two say more, both about the position space, which has 2^32 bytes in the code:
`WrapAssumption` of `StreamSource` (a whole stream of `MaxPackets` packets takes
less than half of it, so that an output is never 2^31 bytes behind) and
`StrideAssumption` of `ContentBuffer` (a ring full of packets takes less than
half of it, which `content.go:38-40` says).  A comparison of wrapping positions
means nothing without them.

`AdmissionProofs`: the registry is type correct (no counter below zero),
`numRelays` and `numListeners` equal the numbers of registered outputs, channel
limits and the total limit hold, every registered output has a handler that
will remove it, and a banned relay does not come back before its ban ends
(`NoBounce`).  None of these is inductive alone.  `Control` says where handlers
can be and what they hold: only one is inside `admitMu` and exactly those whose
program counter says so (`LockInv`), a picked victim belongs to the holder's
channel (`VictimInv`), registered outputs are those of streaming or leaving
handlers (`NoSlotLeak`), bounced relays are not past the first check
(`BounceInv`).  Counters need it because a removal must find the output exactly
once; the total limit needs `TotalInv`: while the value of `TotalRelays` is in
use, the true total is at most that value, because only the holder of `admitMu`
adds and all others remove.  `TotalIsExact` links the sum over the channels
with the number of registered relays by a bijection.

`ContentBufferProofs`: the ring implements the window
(`RingImplementsWindow`), `Since` and `PacketsAfter` return exactly what was
written after a position that is in reach (`ReadersAreExact`), and the positions
that are announced are those of what was written (`PositionsAreExact`), for
rings of any size and streams of any length, with positions that wrap any
number of times.  `CInv` says that the slots hold the last packets of what was
written (`Ringed`), that the source stands at the end of what it wrote
(`Reached`), and that what is in reach lies behind the source in the order
written (`Spaced`): without the last, comparing two positions modulo the
position space says nothing about which was written first.  `InReach` in
`ReadersExact` leaves out positions that the stream passed more than a ring ago;
it excludes nothing within the bounds of the run.

`PCPDeliveryProofs`: the four safety properties of a relay output, for any ring,
number of headers, packets and updates.  The invariant `DInv` has these parts:
a waiting relay has nothing to read or will be woken, and metadata it was not
told of is on its way (`Woken`); the window is the last packets of the current
header without a gap, at consecutive positions (`Shaped`), and so is a batch
that was taken from it, also after the window has moved on (`Batched`); a batch
belongs to the header that was sent, which is the current one unless the output
is behind (`Headed`); the cursor is not past the tip and not more than one
packet per number written behind it (`Reaching`); it is at the end of the last
packet sent, and what comes next is the first one after it that the window
still has (`Ordered`).  Each property needs several of these: `NoGap`, for
instance, holds because a batch keeps its shape while the source overwrites the
ring under it, and because a cursor in reach is compared correctly.

`StorageProofs`, key store: the store is type correct, the maps are inverse, the
file is injective (`DiskInjective`), and with the site enabled an issued key
survives.  `IInv` adds to the properties what the operation in progress has
changed and not yet saved, which is what a failing save restores; `SInv`, under
the condition that the site is enabled, adds that the file agrees with memory
for every account without an operation in progress or is covered by `promised`.

`StorageProofs`, audit spool: only what a dead process left open is called
interrupted (`InterruptionsAreJustified`), for any queue, batch and directory
sizes and any number of starts, crashes and errors.  `AInv` says which file
exists in which part of the recorder's loop (`Shape`), which process emitted
what is in memory, in the files and in the database, and that an end has the
last number of its broadcast (`Origin`), that nothing of a broadcast which is or
will be marked as interrupted was its end (`Interruptions`), and that a row has
the status of the event whose number it carries (`RowsFollow`).

Nothing is lost silently (`NothingIsLostSilently`, the property `NoSilentLoss`):
a broadcast that the database calls ended and complete has all its events there,
but for those that a later process delivered and the database refused (`Aside`).
`NInv` says why.  Every number that a broadcast has emitted is kept, in memory,
in a file, in the database or aside, or excused (`Accounted`): the row is incomplete, a
gap event that will make it so is still to be delivered (`Telling`), every end
of the broadcast that the database accepts is marked, so that the row becomes incomplete with it
(`Marked`), or the process ended before it could spool its gap event
(`gapLost`, the stated exception).  For that the events have to stay in turn
(`InTurn`): nothing is emitted after the end, and what is emitted after a gap
event is marked.  A gap event that finds no row therefore loses nothing, since
the events behind it are marked, and so does a crash that loses memory, since
what is lost was emitted after all that is left and the broadcast has no end.
`Told` is the part of this that survives a crash, which moves an earlier
process's temporary file before its other files (`acquire`), `Steady` ties the
batch to its file, and `Written` says that delivered lines are in the database.
The proof showed one thing that the model had to say: that the absence of a
temporary file is not a file (`NoFileAssumption`).

`HTTPDeliveryProofs`: `Contiguous`, for any buffer size and stream.  Its first
part (`GoesOn`) is about the packets between one header written to the viewer
and the next; across a header update packets may come again, and the second
part (`RepeatsOwnStream`) says which.  `VInv` says
that packets have consecutive serial numbers in the window and in the batch that
`run` goes through, that what has the same number has the same position
(`Numbered`: positions wrap, and `PacketsAfter` searches by position), that the
variable `sent` of `run` is the last packet written after the header and a
keyframe is awaited exactly until there is one (`Remembered`), and that the batch
goes on where that packet ended (`Continued`).  The last part survives the
source's concurrent `Write` and `SetHeader`, which only drop packets from the
window or add later ones.  For the repetitions, `Tagged` says that the window
holds packets of the present header only, and that wherever `run` has gone back
behind the newest packet written, the buffered or fetched packets up to that one
belong to the header the viewer has.

`LifecycleProofs`: the four maps of the manager agree and no running relay is
lost, for any channels, keys and goroutines.  The invariant `LInv` adds that
every channel is registered under its own ID, that a key's channels have IDs of
that key, that a relay is in the relay map only with its channel, and that a
running relay which is in no map is cancelled or held by a goroutine that is
going to stop it.  `CleanerImplementsLifecycle` shows that each step of the
cleaner is a step of the manager's callers or leaves the maps alone, so that
both results carry over (`CleanerKeepsMaps`).  `WatchedIsKept` is about the
cleaner itself: a channel that is watched since before the cleanup is not removed.
Its invariant `WInv` says that a channel object starts without outputs, that the
cleaner holds channels only during a cleanup, that another channel registered
under the ID of a held one was started during this cleanup, and that what was
seen of the visited channel stays true except for who has joined since.

`NetworkProofs`, of the relay client: `NoHotRetry` and `UpstreamServed`, for any hosts and HOST
atoms.  `RInv` says that what has been tried is ignored or is the host of the
present attempt, which `Decide` adds to the ignored before the next one is
selected, and in which part of an attempt sender, callback and queue exist.

`RtmpSessionProofs`: `InputsClosed` and `FedChannelStopped`, for any number of
encoders and channels.  The invariant says that an open input of a run is known
to its handler as `inputChannel`, that between lookup and write a handler has
no input in any other channel, and that a handler on its way to stop a channel
fed that one or none; channel numbers are never used twice.
`DeferredIsApplied`: the first data of an encoder in a channel comes under the
head packet made of its last tags, and with its own metadata.  The invariant
says that a head packet was built from the tags of the handler that set it,
unless that handler is about to rebuild it, that a handler feeds no channel to
which it has not applied a head packet, and the same for metadata, for which
`SetInfo` may be still to come; it may reach a channel that has been stopped
since `applyMetaInfo` looked it up, and its ended run.

`NetworkProofs`, of the broadcasts: `CountedIsOwned`, for any network.  It needs that a
connection is not replaced while its reader is between the sections of
`ObserveHost`, and that messages name nodes.  `TakenOnce`, for any tree.  A copy
of a report that is queued, written or being read can still get to a certain
part of the tree and nowhere else (`Region`): going up, to everything that is
not below its sender; going down, to what is below its connection.  `Flood` says
that the regions of a report's copies are disjoint and contain no node that
took it.  Forwarding replaces a copy by copies that share its region
(`Splits`), which is where `Broadcast` must leave out the connection a report
came from, and where the nodes must form a tree: the region of a connection's
reader contains the rest of the tree only because nothing is below two
connections.  `InTree` says that every group of nodes has one whose upstream
node is outside of the group, which needs no induction over paths.

Only model-checked:

* all liveness (fairness and ENABLED are out of the prover's reach):
  `AdmitMuReleased`, `IdleRemoved`, `StopReturns`, `DeadChannelRemoved`,
  `BumpServed`, both `StopEnds`, `Quiesces`, `InfoConverges`,
  `HeaderDelivered`, `EndRecorded`, `Reconciled`, `ListingConverges` and
  `IdleStaysAway`.

## Not modelled

* Formats (FLV, AMF0, PCP atoms, HTTP headers), hashing of IDs, configuration,
  version strings, SQL queries, the migration tool, the web user interface
  (`ui/`), playlist and ping requests, the size formula of the buffer.
* The meter of send rates, which is an input of `Admission`.
* The JSON-RPC handlers and most of the website: they decode, call what other
  modules model, and encode.  The website's sessions, forms and comments have
  no state that the streaming parts share.
* The channel catalogue and the website's caches: entries with an expiry under
  one lock, fetched once for all callers; a stale entry changes only what a
  page shows.
* The publish limiter of RTMP and the counting of repeated login failures:
  counters under one lock.
* The cache of known hosts in the node table, the lookup of a tracker, the
  deletion of old audit rows.
* The rest of process start and shutdown: it starts and stops the parts above
  in a fixed order.

## State of the plan

Done: key store, admission, buffer and delivery, lifecycle and cleaner, relay
client, broadcast routing with the node table's statistics, RTMP sessions with
audit runs, audit spool, YP client; the proofs above.  Open: the
shared refresh of the catalogue.
