# OBConnector-go in TLA+

A model of the OceanBase driver for Go's `database/sql`: one connection and the
calls made on it, the packet layer below it, the way a connection is opened, the
sessions of a pool, and the pure functions on texts, bytes and data source names. TLC checks the modules on small
instances, TLAPS proves what matters most for every instance. Source paths are relative to the repository root.

## 1. Inventory

| Part | State | Operations | Hard because |
|---|---|---|---|
| Connection (`conn.go`, `conn_stmt.go`, `stmt.go`, `tx.go`) | `mu`, `closed`, `bad`, `inTx`, socket deadline, watcher goroutines | Query, Exec, Prepare, Ping, bulk execute, statement reset and close, BeginTx, Commit/Rollback, ResetSession, Close, IsValid | several goroutines; a lock that outlives the call; timeouts and cancellation while a reply is under way; errors that must, or must not, retire the connection |
| Rows (`rows.go`) | place in the result set, the handed-over lock | Next, Close, draining | reads after the call returned, without a deadline; further results; two shapes of terminator |
| Packet layer (`internal/protocol/packet.go`, `ob20.go`) | sequence number, request number, buffer of MySQL bytes, extra info | WritePacket, ReadPacket, ResetSequence, EnableOB20, EnableCompression | chunk and frame boundaries, wrap-around, reassembly over frames |
| Opening (`conn_handshake.go`, `driver.go`) | the address tried, the socket, capabilities, authentication round | dial, TLS, handshake, authentication, init queries, time zone | failover in the middle of it, agreement of two ends, a peer that does not stop |
| Session (`session_timezone.go`, `conn.go`) | `inTx`, `sessionLocation` | transaction, time zone statements, pool reset | client's view against server's state |
| Bulk insert (`bulk.go`) | rows handed over so far | native path, fallback in chunks | retry of what may have been done |
| Texts (`params.go`, `session_timezone.go`, `bulk.go`) | none | placeholders, literals, quoted names, recognition of time zone statements | two scanners that must agree, texts nobody thought of |
| Codecs (`binary.go`, `lenenc.go`, `oracle_time.go`, parts of `rows.go`, `conn_stmt.go`) | none | lengths, rows, terminators, parameters, times | boundaries, bytes with several meanings |
| Configuration, DSN (`config.go`, `driver.go`) | the connector's `Config` | parsing of three forms, normalisation | separators in names and passwords, a shared configuration |
| Presets and labels, hashes (`auth.go`), `obping` | none that survives | constants, digests, command line | sequential |

How they interact: `database/sql` (external) opens connections through the
connector and calls a connection under its own driverConn lock; a call takes
`Conn.mu`, arms the socket deadline and starts a watcher (`withDeadline`), writes
a request and reads the reply through `PacketConn`; a query that returns rows
leaves the lock to the `Rows`, whose `Next` and `Close` read the rest of the reply.
Errors go through `markProtocolError`, `markBadIfConnErr` or
`markSessionResetError`, which set `bad`; the pool asks `IsValid`.

What makes the parts correct:

* a connection that is still in use is in step with its server: whoever takes the
  lock finds nothing unread and nothing unanswered, and reads only replies to its
  own request, each packet at the place of the reply it belongs to;
* the wire has one user at a time;
* what breaks that (network, timeouts, malformed packets, half-written requests)
  retires the connection; errors of the server do not;
* calls end, whatever the server does, where the code has a deadline;
* the packet layer is a FIFO channel of packets;
* opening leaks no socket, sends no secret in the clear, runs init queries on one
  server, and ends with two ends that agree;
* a session goes from user to user without a transaction or a time zone of the last
  one, a transaction is undone or done as a whole, and a row is inserted twice only if
  the driver could not know that it was inserted;
* a value or a name put into a text or a packet is read there as itself.

The hazards, each with the line where it bites and the properties that cover it,
are listed in `PROJECT.json`.

## 2. Modules

| Module | Models | Notes |
|---|---|---|
| `Conn` | connection, calls, Rows, watcher; server and network external | the core |
| `Exchange` | what a connection promises: requests and replies take turns | abstract specification |
| `ConnInv` | the inductive invariants of `Conn`, its refinement of `Exchange` | shared by TLC and the proofs |
| `ConnProof`, `ConnWireProof`, `ConnRetireProof` | theorems about `Conn`: the lock, the wire, retirement | TLAPS |
| `MCConn` | instances of `Conn` | |
| `PacketChannel` | what the packet layer promises: a FIFO of packets | abstract specification |
| `Packet`, `MCPacket` | `WritePacket`, `ReadPacket`, three framings | implements `PacketChannel` |
| `PacketProof` | theorems about `Packet`: types and failures, the FIFO | TLAPS |
| `Connect` | `dialAndHandshake` | failover, negotiation, authentication |
| `ConnectProof` | theorems about `Connect` | TLAPS |
| `Pool`, `MCPool` | connections against their sessions, `BulkInsert`; database/sql's pool external | composes what `Conn` and `Connect` promise |
| `PoolProof` | theorems about `Pool` | TLAPS |
| `Text` | scanners, interpolation, time zone statements, text of the INSERT | operators |
| `Codec`, `OracleTime` | encodings, Oracle time stamps, local times | operators |
| `Dsn` | from a data source name to a `Config` | operators |
| `MCData` | inputs and references for the operators | `EXTENDS Text, OracleTime, Dsn` |
| `TextProof` | theorems about statement texts of every length | TLAPS |
| `DataProof` | theorems about data of every size, and the invariants of `MCData` | TLAPS, `EXTENDS TextProof` |

### Conn

*State.* `mu`, `closed`, `bad`, `inTx` are the fields of `Conn`; `cseq`, `nreq`
those of `PacketConn`. `mu` is free, held by a caller, or `RowsHold`: handed to an
open `Rows` (`r.release = c.mu.Unlock`). A caller is a goroutine with a program
counter `pc` (`idle`, `lock` waiting for the mutex, `write`, `read`, `end`, `mark`
the window between unlock and marking), the operation `op`, its context `ctx`, its
watcher `watch`, and the outcome `out`. `deadline` is the socket deadline, `pending`
counts watchers between the test of `done` and their `SetDeadline`.

*Replies.* A packet is its kind and what the readers branch on: the MORE_RESULTS
flag and the number of packets that follow. A *place* says how far a reply has got;
`After` is the server's order of packets, `TakePacket` is the client's readers
(`ReadFirst`, `ReadDefs`, `DrainRow`, `NextRow`, ...), translated from the code
independently. `PlaceInStep` compares them. One-byte sequence numbers are counted
modulo `SeqMod`.

*Server.* Any legal reply, at any pace: OK, OUT parameters, result sets, further
results, errors, and malformed packets (`JUNK`, `BADROW`, `BADERR`).

*Actions.* One per step the code can be interrupted in: taking the lock with the
check of usability and arming the deadline; writing (or failing to, possibly half
way, or failing to encode an argument); each packet read; the end of the call
(marking, clearing the deadline, unlocking, in the order of each method); and
`Cancel`, `WatcherWakes`, `WatcherFires`, `Expire`, `Drop`, `ServerStarts`,
`ServerSends`. `FinishQuery` and `FinishRows` unlock before `MarkBad`, as
`QueryContext` and `nextStreaming` do. A statement execution and a text query differ
in their encoding only and share `query` and `exec`; `execout` is an execution with
OUT parameters. The intermediate steps inside a locked call that touch nothing
shared are merged into the next one. Every `withDeadline` arms a deadline: the model
assumes a positive `Timeout`. `Config.normalize` never leaves it at 0, but a negative one
is accepted, and then no deadline is set.

*Writes that fail.* Any request may be cut off in the middle: `torn` collects the operations
of which one was, and a server that has got a part of a request takes no further ones.
Under OB20 a frame is three `Write`s (`packet.go:318-331`), so that even the five bytes of a
statement close can be cut. `closeStmt` and `resetStmt` return such an error unmarked. A write
that has no deadline over it (`closeStmt`, `resetStmt`, a prepare's and `Close`'s) is short and assumed
to fit the socket's buffers: it fails, but does not block.

*Further results.* `SingleMore` allows the server to announce more results in the OK of a ping,
a bulk execution or a statement reset. The code ignores the flag there (`conn_stmt.go:297`
for the bulk execution) and would leave what follows on the wire; the runs set it to `FALSE`.

*Ghosts.* The request number and place inside packets, `longest` and `fault` are read
by properties only.

*Refinement.* `Exchange` knows only whether the connection is in use, the number of
requests, whether the server owes packets and to which requests packets are under way.
`ConnInv!TakesTurns` maps `Conn` to it: `up` is `Usable`, `asked` the request number,
`busy` a request or a place at the server, `coming` the requests of the unread packets.

### Packet

One end writes, the other reads. A byte is what it is part of: a header byte of a
packet with a length and number, byte *k* of payload *i*, extra info, or a byte of a compressed
header or of a zlib stream; so a frame
boundary inside a header is a real case and lost, repeated or foreign bytes are seen.
`mode` is the negotiated framing; `"server"` is OB20 with a server that cuts its
stream into frames at any byte. Lengths shrink: `MaxLen` stands for 2^24-1, `HdrLen`
for 4, `FixLen` for the OB20 header and tail, `Small` for 50; the differences of the code
(`maxOB20Chunk`) are kept. `OB20Frame` keeps the three-byte width of
`compressLength`. Checksums and zlib are taken to be right.

In compressed mode the reader takes bytes, not frames (`ZipArrives`, `ReadZipHeader`, `ReadZip`,
`TakeUnzipped`): `ZipHdrLen` of them as a header, wherever they come from, and then as many as the
header says. A packet that is not longer than `Small` leaves without such a header and is misread:
its own header gives the first length, other bytes give any (`ZipLengths`), and the reader waits, takes
bytes of the next packet, returns rubbish or fails. A stored frame comes back with its packet header in
front. The lengths of a packet of nearly `MaxLen` bytes or more do not fit their three bytes, and
full chunks are not joined. `misfit`, a history variable, says that such a packet has left; the
properties are about what happens before. What remains is a compressed connection on which every
packet is long enough to compress, short enough for its length field, and gets shorter.

### Connect

One action per exchange of the handshake, in the order of the code, each of which may
fail instead (`HandshakeFails`, `InitQueryFails`, `TimeZoneFails`). `cfg` is chosen at
the start. `cli` and `srv` hold what each end goes by afterwards: EOF packets,
compression, OB20, time zone. The options `CapabilityAdd` and `CapabilityDrop`,
with which a user overrides the negotiation, are left out: with them the ends need not
agree.

### Pool

The level above: `sess` holds for each slot of the pool the fields `bad`, `inTx` and
`sessionLocation` of the connection, next to the time zone and the uncommitted work of its
server session. A statement is one step, since the mutex keeps others out and `Conn` says
what happens inside; it ends acknowledged, refused by the server, or cut before or after
the server did it (`Insert`, `SetZone`, `Finish`, `ResetSession` give the set of ends).
Users run one job each: an insert, a time zone change, a transaction, a `BulkInsert`.
database/sql is external: its free list, `ResetSession` when a free connection is handed
out, two repetitions after `ErrBadConn` and then a new connection, none inside a
transaction or under `Raw`, the rollback when a context ends. `tenant` says whether the
server is an Oracle tenant and commits by itself; `AnyCommit` allows transactions on
sessions that do. `count` is what the database holds, `lost` and `acked` are ghosts.

### Text, Codec, OracleTime, Dsn

No state: operators, one per function of the code, that `MCData` evaluates. A text is a
sequence of symbols: a character the scanners tell apart, or a word. Bytes are numbers
from 0 to 255; a value is its kind with its bytes or its number, and types with the same
encoding are one type. A DSN is its symbols up to the question mark, an escaped character
being one symbol, and a function from keys to values; `timeout`, `preset`, `oracleMode`,
`tls` and `tls.ca` stand for the options, which are all read in the same way. The references
in `MCData` are written from the other end: how a server writes a row and reads parameters,
what the text between two quotes is, which zone a statement sets.

## 3. Runs

Passing:

| Run | Question | Bounds and why they suffice |
|---|---|---|
| `MCConn` | do request and reply stay in step and take turns, over every operation, fault and kind of reply, and does every call inside `withDeadline` return? | one caller (database/sql's lock), 2 requests (one leaves something behind, the next meets it), 2 rows = `MaxDrain`, one further result, sequence numbers wrap at 4, one packet in flight (`MCConnShared` has two; a server that has more to send is still busy, which the properties see as well), silent or slow server |
| `MCConnShared` | does the mutex with its hand-over protect the wire from two goroutines, without sequence checks, and is it passed on? | 2 callers, each of which makes one call in either order or while the other has the lock or an open Rows (`MaxReq` 1: calls start until a request is out); queries, executions, bulk, pool reset, statement reset and close, close; silent or slow server |
| `MCPacket` | is every framing a FIFO of packets? | 2 packets, lengths around one and two times `MaxLen` (compressed 1 to `MaxLen` + 1: too short, right, too long, two chunks), sequence numbers modulo 3, all cuts of the server's stream |
| `MCConnect` | do the promises of opening hold in every configuration? | 3 addresses, 3 rounds, 2 init queries |
| `MCPool` | what is a session left with, what has a transaction done, how often is a row inserted? | 2 users (one leaves something, the next finds it), 2 connections, all jobs and kinds of tenant, 3 rows in chunks of 2 (a full chunk and a rest); symmetric users and connections |
| `MCData` | is each text, packet and DSN read as what it says? | all texts of 5 symbols out of 11, arguments bound to texts of 4, names of 3 symbols; lengths, bitmaps, times and offsets at their boundaries; data source names with each separator in each part |

Properties:

* `Conn`: `IdleWireClean` (a free lock means a finished exchange), `OwnReply`, `SeqInStep`,
  `PlaceInStep`, `TornIsRetired`, `RetiredIsJustified`, `WireExclusive`, `TakesTurns`
  (refinement of `Exchange`), `TimedCallReturns`, `LockIsPassedOn` (a call
  waits for the mutex for ever only behind code without a deadline: a Rows that is open or
  reads, or a `resetStmt` that waits for its answer);
* `Packet`: `DeliversInOrder` (refinement of `PacketChannel`), `FailsOnlyIfCut`,
  `NothingKeptBack`;
* `Connect`: `SocketsOwned`, `EndsAgree`, `SecretsEncrypted`, `InitOnOneServer`,
  `ConnectReturns`;
* `Pool`: `HandedOutClean`, `ZoneInStep`, `RolledBackIsUndone`, `CommittedIsWhole`,
  `TwiceOnlyIfLost`, `SuccessMeansAll`;
* `MCData`: `ScannersAgree`, `ArgumentsStayWhole`, `NamesStayNames`, `ZoneChangeIsSeen`,
  `RowsReadBack`, `TerminatorsToldApart`, `ParametersArrive`, `StampReadsBack`,
  `LocalTimeUnambiguous`, `DsnReadsBack`, `NormalizeIsStable`;
* one `TypeOK` for each of `Conn`, `Packet`, `Connect` and `Pool`.

Each is stated in words above its definition, and each has a mutant: a plausible bug
in the code with which TLC finds it violated.

Runs that end in a violation, where the code does something else than the
repository says (the quotations are in `PROJECT.json`):

| Run | What TLC shows |
|---|---|
| `MCConnTorn` | a request of `closeStmt` or `resetStmt` is cut off in the middle and the connection stays valid |
| `MCConnPrepare` | `PrepareContext`, which takes no lock, uses the wire of an open Rows |
| `MCConnOutParam` | a failed assignment of an OUT parameter leaves the next result unread on a connection that stays in use |
| `MCConnWatcher` | a late watcher times out an idle connection, or dereferences a nil `netConn` |
| `MCPacketChunk` | an OB20 payload of `maxOB20Chunk` bytes or more is read back in pieces |
| `MCPoolRollback` | on a session that commits by itself `Rollback` succeeds and undoes nothing |

Met while modelling, without a run of their own:

* `Conn`: reads of a streaming Rows and of `resetStmt` have no deadline (`rows.go:73`,
  `conn_stmt.go:363`; `README.md:105` calls `timeout` a "Connection and read/write timeout");
  ping, bulk executions and statement resets ignore MORE_RESULTS (`conn_stmt.go:297`): with
  `SingleMore` `MCConn` ends in a violation of `IdleWireClean`; `PrepareContext` does not ask
  whether the connection is still usable and writes to a retired one (`conn_stmt.go:22`), which is
  why `TornIsRetired` excepts it; the drain
  gives up on exactly `maxDrainRows` rows (`rows.go:72`); prepare, ping, commit and reset send
  the extra info of the last query (`conn.go:288`).
* `Packet`: compressed mode does not read what it writes, unless every packet is compressed and of
  medium length (`packet.go:334`, `packet.go:168`, `packet.go:352`, `packet.go:194-200`; see *Packet* above); and a
  packet that is already in the buffer waits for the next frame (`packet.go:154`).
* `Connect`: NewExtraInfo is set unconfirmed (`conn_handshake.go:203`, against
  `CHANGELOG.md:12`); after a failover TLS verifies the name of the first address
  (`conn_handshake.go:145`, against `CHANGELOG.md:30`).
* `Pool`: rows inserted outside a transaction on a session that does not commit by itself stay
  pending when the connection goes back to the pool (`conn.go:98`); of several statements in
  one text the first may change the time zone and a later one fail, after which the location is
  stale (`conn.go:268`).
* `Text`: the two scanners disagree on two dashes before a word, on backticks and on block
  comments that are not closed, and literals run together with a quote, a placeholder or a minus
  sign beside them; `ScannersAgree` and `ArgumentsStayWhole` leave these texts out.
* `Codec`: a bulk execution sends the types of its first row (`conn_stmt.go:254`), so
  `ParametersArrive` leaves out columns with a NULL there or with several types; a time of
  length 1 to 3 is read past its end (`binary.go:168`); `BulkInsert` without columns panics
  (`bulk.go:75`).
* `Dsn`: a negative timeout arms no deadline (`config.go:417`); of two options that differ in
  case only either is used (`config.go:408`); without escapes an @ or a plus in a password
  is misread in the opaque form, a plus in the tcp form too (`config.go:234`).

Runs of `Conn`, `Packet`, `Pool` and `MCData` do not check for deadlock: a bound on
requests, packets, jobs or symbols ends every behaviour, and in `Conn` a goroutine may wait for
a lock an abandoned Rows holds. `Connect` is checked for it.

*Fairness.* `Conn!FairSpec`: a goroutine that can run does run, and an armed
deadline passes. `FairMutexSpec` adds strong fairness of taking the mutex: a `sync.Mutex` that is
unlocked again and again goes to everyone who waits (its starvation mode). Nothing is assumed
of the server, the network, contexts, or the caller's next call, so Rows may stay open for ever. `Connect!FairSpec`: some step is taken, because the dialler's
timeout and the deadline of `withDeadline` end every wait; which step, success or
failure, is free.

## 4. Proofs

Every theorem holds for all values of the constants: any number of callers, users,
connections and addresses, every bound, every size of chunk, payload, row and text. Each inductive
invariant was first checked by TLC on the instance of the component's run, `StreamInv` of
`PacketProof` and `Inputs` of `DataProof` excepted: they speak of sequences without a bound.

### Assumptions

Those named in the modules (`CallersAssumption`, `OpsAssumption`, `FlagsAssumption`,
`BoundsAssumption`; `FramingAssumption`, `SizesAssumption`; `ConnectAssumption`; `PoolAssumption`), which
TLC evaluates in every run. Hypotheses say how the driver is used; a theorem names
those it needs, and the table says what there is without them:

| Hypothesis | Meaning | Without it |
|---|---|---|
| `PrepareAlone` | prepares run only under database/sql's lock, never beside an open Rows | `MCConnPrepare` |
| `OutParamsFit` | OUT parameters can be stored in their destinations | `MCConnOutParam` |
| `SinglesEnd` | nothing follows the OK of a ping, a bulk execution or a statement reset | it is left on the wire (section 3) |
| `DcLock` | calls come one at a time, as from database/sql | `QueryContext` unlocks before it marks (`conn.go:177`): another goroutine writes after a request that was cut off |
| `~AnyCommit` | transactions run on sessions that do not commit by themselves | `MCPoolRollback` |
| `OB20Fits` | with OB20 framing a payload and its extra info fit one frame | `MCPacketChunk` |
| `NotCompressed` | no connection negotiates compression | packets are misread (section 2) |

### Conn

* `TypeCorrect`: `Spec => []TypeOK`. The invariant is `TypeOK /\ LockInv`: where a
  request is written the operation must be one that has a request, so types need
  `CallsInPlace`. `TakePacketType` covers the readers, `AfterType` the server.
* `OneUserOfTheWire`: `Spec => []WireExclusive` if `PrepareAlone`. `WireExclusive` is
  not inductive: that two calls are not on the wire together follows from who holds
  the lock at each program counter. `LockInv` says it: a call past its lock holds
  `mu` until its end (`LockHeld`); a method of Rows works under `RowsHold`, and only one
  does; a caller that holds `mu` is in such a call, so a lock is not left behind; a
  prepare, which holds nothing, is alone (`PrepareIsAlone`).
* `WireInStep`, and from it `CleanBetweenCalls` (`IdleWireClean`), `RepliesAreOwn` (`OwnReply`),
  `SequencesAgree` (`SeqInStep`), `PlacesAgree` (`PlaceInStep`): if `PrepareAlone`, `OutParamsFit` and `SinglesEnd`.
  None of the four is inductive, since what a call leaves behind depends on how far it
  read. `WireInv` says, of a usable connection: which loop reads at which place (`Shaped`);
  how far the reply has been read at each program counter, so that a lock is only
  released between replies or with a Rows open (`ReaderInPlace`); the packets under way are
  one stretch of the latest reply, each following the one before by `After` and by its number
  (`Stretch`); the server goes on where the stretch ends (`ServerInPlace`). The argument has
  one lemma per reading loop: what the loop does with a packet is what `After` does with the
  place of the server.
* `ConnTakesTurns`: `Spec => TakesTurns`, the refinement of `Exchange`. Each action maps to a
  request, an arrival, an end or a retirement of `Exchange`, or to a stutter.
* `TornRequestRetires` (`TornIsRetired`), if `DcLock`. Not inductive: between the failed write and the
  mark the caller knows, and is on its way to mark (`TornIsKnown`); nobody works on a closed
  connection (`ClosedIsLeft`); and nobody is about to write meanwhile, because one call runs at a time
  (`OneAtATime`) and one that is on the wire found the connection in use (`StaysInUse`).
* `RetiredForCause` (`RetiredIsJustified`). As long as nothing intervened no call can see an
  error of the network, no deadline has passed, nothing malformed is under way (`CauseInv`). That a
  drain stops at its limit only on a long result needs a count of the rows on the wire
  (`CountInv`), and that a packet is never read in the wrong place needs `WireInv`.

### Connect

`ConnectTypes` (`TypeOK`), `NoSocketLeaks` (`SocketsOwned`), `OpenedEndsAgree` (`EndsAgree`),
`SecretsStayEncrypted` (`SecretsEncrypted`), `InitRunsOnce` (`InitOnOneServer`), from `ConnectInv`: both
ends go by what the response asked for from the response on, not only when the connection is
open (`ViewsAgree`); TLS is up before the response (`Encrypted`); init queries start after the
last failover, so the address they ran on is the current one (`InitHere`); the address that is
tried, and only it, has an open socket (`SocketHere`).

### Pool

`PoolTypes` (`TypeOK`), `PoolHandsOutClean` (`HandedOutClean`), `ZoneFollows` (`ZoneInStep`), `RollbackUndoes`
(`RolledBackIsUndone`, if `~AnyCommit`), `CommitIsWhole` (`CommittedIsWhole`), `CopiesOnlyIfLost`
(`TwiceOnlyIfLost`), `SuccessIsComplete` (`SuccessMeansAll`), from `PoolInv`: a connection has one
user (`Owned`); a broken session has lost its work and a free one is not broken (`Sound`); rows
of a transaction that are not committed are in a session that says `inTx`, and belong to its
user or to one whose end was refused, so the next reset undoes them (`TxWork`, `OpenOnce`); the
fallback has acknowledged the rows before `row` and none after it (`Progress`); copies of a row
are counted against acknowledgement and losses (`Counted`); the rows of a transaction are
accounted for at each stage (`TxRows`). `InsertEnd` states once how an INSERT may end; the native
path, the fallback and the statements of a transaction are proved from it.

### Packet

`PacketTypes` (`TypeOK`) and `NoReadFailsUncut` (`FailsOnlyIfCut`), if `OB20Fits` and `NotCompressed`. The reader tests a length
field and, in plain framing, a number. `LengthsRight`: the length field of every frame under way is
what the reader will compute, which needs that what is left to write fits (`RestFits`). `NumbersRight`: plain
packets under way are numbered on from the reader's number to the writer's, modulo the
wrap. The lemmas give the bytes of headers, packets and frames (`PacketBytes`, `FrameBytes`).

`NoPacketKeptBack` (`NothingKeptBack`) and `PacketsInOrder` (`DeliversInOrder`, the refinement of
`PacketChannel`), under the same hypotheses. What is in the buffer, in
frames and in the server's hands says nothing by itself: a frame may end in the middle of a header.
`StreamInv` speaks of the stream of all MySQL bytes written so far, which only ever grows:

* it is a sequence of packets, each with its header and its data (`Whole`);
* a packet is the next part of a payload; one of the maximal length is continued by the next
  packet, and any other ends its payload (`Follows`), which is where the empty continuation is needed;
* from the place of the reader on, the stream is in the buffer, the frames and the server's hands,
  in this order and without a gap (`Carried`);
* the reader is at the start of a packet and has the bytes of its payload up to there
  (`ReaderAt`); the writer goes on where the stream ends (`WriterAt`).

The stream is hidden by an existential quantifier (`Written`). The writer's steps lengthen it
(`HistoryGrows`), `ServerFrames` and `ReadOB20` move a boundary (`CarriedFramed`, `CarriedRead`), and
a buffer that starts with a whole packet starts with the reader's next one (`FirstPacket`),
so that taking it returns the next payload or goes on with it (`TakesPacket`).

### Codec and OracleTime

The library's induction theorems cannot be used here, but sets can: `NatSets` (a set of numbers with 0
and the successor of each of its elements has all of them) follows from `WFMin`, and induction is
over the set of numbers for which a statement holds. What a recursive definition or a fold computes is
stated once as a chain, the value after each step, of which a lemma proves the existence
(`LEChain`, `UnLEChain`, `FoldChain`, `FlattenChain`). On these rest theorems without any bound:

* `TextRowReadsBack`, `BinaryRowReadsBack`: a row of any number of columns, NULLs anywhere, values of
  every type and size, is read column for column; a packet that is a part of a binary row, or goes
  on after it, is refused. Both are `RowReads`, which knows a row only as pieces after a
  header and a step that reads a piece or refuses a part of it. Under it are the round trips of
  little-endian numbers, of length-encoded integers and strings, and of bitmaps (`BitmapIs`: a bit of
  a sum of powers of two is set if its power is a summand).
* `TerminatorRecognised`, `BinaryRowNotTerminator`, `TextRowNotTerminator`: a terminator with any
  counts, info and session state is recognised with its flag, and no row is taken for one. The
  hypothesis on text rows, a first value below 16 MB, is needed: longer ones start with the byte 254.
* `LocalTimes`: in a zone with any number of changes a wall clock is decoded to its instant if it has
  one, and refused if it has none or several. The zone must be `Steady`: keep each offset at least
  as long as any offset is and as any two differ. The first half was found by the proof and is needed:
  with offsets 4, 5, 2 that change at 1 and 4, wall clock 4 is ambiguous and decoded. The zones of the
  driver are fixed offsets.
* `ExecutionArrives`, `BulkExecutionArrives`: a server that reads the bitmap, the types and the
  values of an execution takes the arguments it was called with, whatever they are and
  however many, and nothing is left over; one that reads a bulk execution, where a byte says of each
  value if it is NULL, takes the rows one after the other. The columns of a bulk execution must
  have one type each (`BulkRows`), since only the types of the first row are sent. Under them are
  `MomentArrives` (a time is read to the microsecond in whichever of the four lengths it is sent),
  the bitmap of the parameters, which is a bitmap of a row that starts at bit 0 (`BitsAreBitmap`), and
  `AllTaken`: if each step of a fold takes one value from its piece, whatever follows, the fold takes
  all of them.
* `AllRowsReadBack`, `ParametersAlwaysArrive`, `TerminatorsAreToldApart`, `StampsReadBack`,
  `LocalTimeIsUnambiguous`: the invariants `RowsReadBack`, `ParametersArrive`,
  `TerminatorsToldApart`, `StampReadsBack`, `LocalTimeUnambiguous` of `MCData`. The inductive invariant is `Inputs`: a probe is an input that the theorems speak of.

### Text

The symbols of a text may be any set that has those the driver writes itself (`Alphabet`).

* `InterpolationStaysWhole`: for every query and all arguments, if none touches a symbol that it
  merges with (`Glued`), the result is scanned around the arguments as the query was, it has no
  placeholder, and strings read back; a wrong number of arguments is refused.
* `InsertNamesStayNames`: whatever the names are, the statement of `BulkInsert` has a placeholder for
  each value and for nothing else, and a table name that is quoted reads back.
* `ArgumentsAlwaysWhole`, `NamesAlwaysNames`: the invariants `ArgumentsStayWhole` and `NamesStayNames` of
  `MCData`, by `Inputs` again.

The scanner looks one symbol ahead and skips the second of a pair, so a piece of text cannot be read
by itself. `Goes` says of a piece from which state to which the scanner passes over it wherever
it stands, how many placeholders it counts there, and which symbols must not follow. It holds of single
symbols (`Symbols1`) and is kept by joining pieces if the second may follow the first (`GoesJoin`). A
quoted text is such a piece by induction over its symbols, each doubled or not (`QuotedGoes`), and so is
each literal (`LiteralGoes`). Interpolation then goes through the pieces of the result: after each
the scanner is where it was in the query (`Keeps`), of which `Unglued` and the lemmas `SymbolKeeps` and
`LiteralKeeps` are the step. That `Closing` and `Undouble`, which read a quoted text from its start,
give back what was quoted is an induction from the end of the text (`Descends`), since both are defined by
what follows (`QuotedCloses`, `QuotedUndoubles`).

### Only model-checked

Liveness (`TimedCallReturns` and the other properties under fairness) and deadlock are out of the
prover's reach. Of the properties of `MCData`, `ScannersAgree`, `ZoneChangeIsSeen`,
`DsnReadsBack` and `NormalizeIsStable` are checked on bounded inputs only. Compressed
mode of `Packet` is checked by TLC only, and so is everything `misfit` is about.

## 5. Not modelled

Presets, capability names, context keys, constants and the version: labels without state.
Password hashes, CRC and checksum functions, zlib: digests on bytes, out of TLC's reach and
taken to be right. Floating point values, the Oracle time types inside of binary rows, and the conversion of text values and column
definitions by their SQL type: formatting and tables. Extra info (trace and partition ids):
only its length, in `Packet`. Certificate files: taken to be valid. Affected-row counts of
`BulkInsert`. Rows of 16 MB and more, of which the first byte is that of a terminator.
`obping`: a client of the driver. `TenantMode`, `IsOB20`, `ConnectionID` read a field under
the lock and change nothing. More than one statement in a text, in `Pool`. Goroutines that
race on the connector's `Config`: `NormalizeIsStable` shows that they write what is there.

## 6. Plan

1. `Conn`, its runs, `TypeCorrect` and `OneUserOfTheWire`; `Packet`; `Connect`: done.
2. `Pool` with ResetSession, retries after `ErrBadConn` and `BulkInsert`; `Exchange` and its
   refinement; `Text`, `Codec`, `OracleTime`, `Dsn` against reference definitions: done.
3. Proofs about `Conn` (wire, retirement, refinement of `Exchange`), `Connect`, `Pool` and `Packet`
   (types, failures, refinement of `PacketChannel` without compression): done.
4. Proofs about what `Codec`, `OracleTime` and the interpolation of `Text` compute, for data of
   every size: done.
