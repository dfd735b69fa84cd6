# A TLA+ model of adbc-driver-oracle

This directory holds the specifications of `adbc-driver-oracle`, a pure Go ADBC
driver for Oracle Database: TLA+ modules translated from the Go source, the
configurations TLC checks them with, and proofs for TLAPS. `src/` below is the
root of the repository. The reference is always the code; where a doc, a comment
or a test says something else, that is listed under *Findings*.

    tlc -workers 2 -config session_inband.cfg MCSession   # one run
    tlapm SessionProofs.tla                               # one proof module

Each run is a `.cfg` of the same name; `PROJECT.json` lists the runs, the module
of each, the lines of code each definition translates (`map`), the hazards the
properties are aimed at, and the mutants. Every module has some definitions
called `Faulty...`: each is its namesake with a plausible bug (a dropped guard, a
missing reset, a wrong bound). They are not part of `Next`; put in the place of
the real definition they make a property fail, which shows that the property
says something about that code. There is one for every property of every passing run.

## 1. Inventory

The driver is four layers, each calling the one below; there is no callback from
below except the `RowSink` a statement is given.

| Component | Code | State it keeps | Operations | What makes it correct |
|---|---|---|---|---|
| Transport | `internal/tns/transport.go` | socket, `closed`, security, framing | ReadPacket, WritePacket, SendOOB, Close, UpgradeTLS | one reader at a time; whole packets; a socket is closed once and always |
| ReadBuffer | `internal/tns/readbuf.go` | packet queue, current packet, sticky error, saved packets | WaitForPackets, Read..., ClearErr, ResetPackets | a response is read exactly up to its end; an error does not outlive its call |
| WriteBuffer | `internal/tns/writebuf.go` | buffer, `maxSize` | Write..., EndRequest | a packet is never larger than negotiated |
| Native encryption (NNE/ANO) | `internal/tns/security.go`, `ano.go` | key streams, active services | wrap, unwrap, Reset, negotiation | fails closed; streams in step with the server |
| Capabilities | `internal/tns/caps.go` | protocol version, SDU, flags | AdjustForProtocol, AdjustForServerCompileCaps | describe the server one is connected to |
| Dial and connect | `internal/ttc/conn.go:120-480`, `connect.go` | address, retries, transport | Dial, connectAddress, redirect, resend, retry with ANO | required protection; no socket left; ends |
| Authentication | `internal/ttc/auth.go`, `protocol.go`, `conn.go:500-591` | session parameters | protocol, data types, two-phase or fast authentication | order of messages; nothing sent unprotected |
| Call protocol | `internal/ttc/conn.go:593-950` | `mu`, `breakSent`, buffers | processMessageCtx, sendBreak, reset, Cancel | request and response stay paired; every call returns |
| Statements and cursors | `internal/ttc/execute.go`, `message.go` | `cursorID`, `requiresDefine`, `moreRows`, `implicit`; `cursorsToClose` | Execute, Fetch, Describe, Close | a cursor is its statement's own, open until closed, closed once |
| ADBC statement, connection | `driver/oracle/driver.go` | `prepared`, options, autocommit | SetSqlQuery, Prepare, ExecuteQuery, ExecuteUpdate, ExecuteSchema, Commit, Rollback, Close | ownership of the prepared statement moves to a reader or is closed |
| Record reader | `driver/oracle/record_reader.go` | sink, pending slices, `err`, `done`, `closed`, references | Next, Retain, Release | all rows, once, in order, within the limits |
| Arrow conversion | `driver/oracle/arrow_conv.go`, `objects.go` | builders, byte count | AppendValue, FinishRow, newRecord | bytes counted as rows arrive |
| Object columns | `internal/ttc/objtype.go`, `objimage.go`, `driver/oracle/objects.go` | type cache; raw images kept until a batch is built | ObjectType, geometry to WKB, rendering as JSON | no half-read type in the cache; a geometry is found again in its WKB |
| Bulk ingest | `driver/oracle/bulk_ingest.go` | mode, table, bound stream | create/append/replace/create_append, batched inserts | every row once and in order; nothing committed that nobody asked to |
| Oracle codecs | `internal/oratype/` | none | NUMBER, DATE, INTERVAL, OSON | decode is the inverse of encode |
| SQL scanning | `internal/ttc/sqlparse.go`, `rewriteQmark` | none | bind names, `?` to `:n` | literals and comments untouched |
| Options, metadata | `driver/oracle/options*.go`, `metadata*.go`, `get_objects*.go` | configuration | Get/SetOption, GetObjects, GetTableSchema | what is given last and explicitly wins, in whatever order maps are read |
| C ABI | `pkg/oracle/` (generated) | table of handles, contexts, `globalPoison` | ADBC entry points | handles match structs; Cancel reaches the call; nothing after a panic |
| Python package | `python/adbc_driver_oracle/` | none | connect, dbapi | passes options on |

How they interact: several `adbc.Statement`s, record readers and LOB readers, each
possibly on a goroutine of its own, share one `ttc.Conn`; `Conn.mu` is the only
thing between them. Beside the call that holds it run a watcher goroutine per
cancellable context and the application's own `Conn.Cancel`. `Statement.Close`
only notes a cursor id, and the next request, whoever sends it, carries the list
to the server. The reader owns its `ttc.Statement` and closes it at the end, at
an error, or with its last reference.

What is hard here, and hard to test (every item at its line in `hazards`):

- a break races the end of its call, the answer of the server, the next call, and
  a second break; with TCP urgent data it is two things, a byte and a marker,
  that the server may see in any order relative to its own work;
- the reset handshake must throw away exactly the packets of the broken call;
- a call may fail in the middle: a bind value that does not convert, a response
  that cannot be processed, a message that is sent again, a lost connection;
- cursor ids are reused by the server, closed lazily and cleared by errors;
- the define pass of LOB queries, with state that survives from one execution to
  the next;
- the reader mixes prefetched rows, fetched rows and pending slices;
- `Dial` reuses its capabilities through addresses, redirects and retries, and
  must never log on over a connection that lacks a protection that was required;
- with native encryption both ends keep a keystream per direction, that a reset
  starts again while packets of the old one are still under way;
- an ingestion is many calls, of which any may fail, in a transaction of
  the caller's or in none;
- a C client's `Cancel` reads and clears fields that a call is writing;
- values cross from Arrow to Oracle and back through widths, units, roundings
  and byte biases that differ; a scanner's idea of a literal decides what is bound.

## 2. Modules

    Session      --implements-->  CallService        SessionProofs
      SecureSession (Session and the keystreams of both ends)  SessionProofs
    Statements                                       StatementsProofs StatementsRowsProofs
    RecordReader --implements-->  RowStream          RecordReaderProofs
    Connect                                          ConnectProofs
    Ingest                                           IngestProofs
    CApi                                             CApiProofs
    Packets  NumberCodec  SqlScan  Values  Geometry  ObjectTypes  JsonText  Options
                                                     DataProofs (but for SqlScan, Geometry and JsonText)
      MCData (all eight; a behaviour takes one input of one of them)

`MCSession`, `MCSecureSession`, `MCStatements`, `MCRecordReader`, `MCConnect`, `MCIngest`
and `MCCApi` extend the module they are named after, for TLC.

### Session: the call protocol

One authenticated `ttc.Conn`. Each member of `Calls` is one round trip of some
goroutine. Its `pc` follows `processMessageCtx` and `processMessageLocked`:

| `pc` | code (`conn.go`) | actions |
|---|---|---|
| `ready` | before `mu.Lock` | `Lock`, `LockFails` |
| `write` | `msg.write`, `EndRequest`; `deferredErr` | `WriteRequest` (a packet each), `WriteDefers` |
| `receive`, `read` | `receivePacket`, `process` | `ReadData`, `ReceiveMarker`, `ReadMarker`, `ReadAborts`, `ReadFails` |
| `flush` | the FLUSH_OUT_BINDS round | `SendFlush` |
| `break`, `reset`, `drain`, `skip` | the error path and `reset()` | `SendBreakMarker`, `SendReset`, `Drain`, `SkipMarkers` |
| `stop`, `clear` | `stop()`, what is done after a break, `breakSent.Store(false)` | `Stop`, `Clear` |

`stage` says what the reading is for (the first round, once more after a reset,
the flush round, clean-up of a failed call, the late answer to a break), which
decides what an error or a marker does. `breaker[b]` is a watcher, or `App`:
`SwapBreakSent` is `sendBreak` up to the `Swap`, `SendBreak` the write, so that a
call can end between the two; `WatcherExits` is the other case of the `select`,
and both are possible when both channels are ready. `c2s` and `s2c` are the
two directions of the stream, packet by packet, `urgent` a byte outside it.

The server is external: a small state machine that does what `conn.go` and its
comments expect. It executes one request at a time, stops when a break reaches
it, discards up to a reset marker, answers with one and then with ORA-01013,
which is also what it does with a marker that comes between calls. Of a request
it knows the call it belongs to, so that the properties can tell whose response
is consumed.

`CallService` is what the callers may rely on: one call at a time is served, the
server works only for that call, and "ok" means executed.

### Statements: cursors

Each user is one `adbc.Statement` with one SQL text: a query, a query with LOB
columns, a PL/SQL block or DML. `stm` is every `ttc.Statement` made, with the
fields that matter (`cursor`, `define` for `requiresDefine`, `noPrefetch`, `more`,
`closed`, `implicit`); `prepared` and `readers` say who owns them. A round trip
is `Lock`, `Write` (`executeMessage.write`, `fetchMessage.write` with the
piggyback of cursors to close), one server step, and `Process`: describe, rows,
implicit results, `processErrorInfo`, `finish`, in the order of the code,
including the second message of the define pass and the resend of a query. The
server keeps `cursors`: whose each is, executed, defined, and rows left. The results a
block returns have LOB columns or not, as the server chooses; `Child` is the statement
made of one, due for a define pass if it has, and due again in every fetch, since nothing
clears it (section 4). `Fault` names all that may go wrong; a run chooses a set of them. Waiting for a lock one
holds oneself is the `pc` "relock", where no step leaves.

### RecordReader: rows into records

`ExecuteQuery` (`Execute`, `ExecuteFails`), `Next` (`CallNext`, then the loop of
`Fetch` and one of `Builds`, `Ends`, `Fails`), `Retain`, `Release`. Rows are numbers;
what the sink holds, a record and the pending slices are blocks of consecutive
rows, so a lost, repeated or reordered row shows in the numbers. A row weighs
one of `RowBytes`, and the rows of one fetch weigh the same. `asks` says whether the
statement's requests ask for rows: those of an implicit result with LOB or JSON columns do not
(`execute.go:828`), and what answers them is neither rows nor the end.
`RowStream` is what a consumer may rely on: all rows in order, "end" only behind
the last, nothing after the end, an error or a release.

### Connect: Dial

The loop over addresses of `Dial`, with `connectAddress` unfolded: dial, over tcps a
TLS handshake (`pc` "tls", also after a RESEND that asks for one), CONNECT, then REDIRECT, RESEND, REFUSE or ACCEPT; negotiation of encryption, its outcome
being any set of services the client does not reject; the second pass with ANO;
`verifyNNERequirement`; the messages of `authenticate` with and without fast
authentication, and the end-of-response flag put off meanwhile. Anywhere a read may fail.
`caps` keeps its flags through addresses, as the code does. `opened` counts
the sockets of the process nobody has closed, so that what `Close` does to a
transport already marked closed is seen.

### SecureSession: Session under native encryption

Extends Session with what `security.go` adds. A DATA packet is wrapped with a
keystream that both ends advance per packet; the two directions are FIFO and
each packet is wrapped and unwrapped once, so a keystream is its *epoch*: how
often it was started. Every packet under way carries the epoch it was wrapped in.
`SecureNext` conjoins to each step of Session what it does to the epochs: `reset()`
starts the client's, taking the reset marker starts the server's.

### Ingest: transactions, parameters, bulk ingestion

One connection and one of its statements, on `driver.go` and `bulk_ingest.go`.
A row is `<<b, i>>`, row `i` of the `b`-th Bind, so that `db.saved` and `db.pending`
tell which rows the server has, in what order and how often. Calls go to a server that
commits at DDL and at logoff, and inserts the rows of an array up to one that
fails. Each call may go well, fail, be answered by a response that
cannot be processed (`unread`: `txnInProgress` is then what it was), or lose the session.
An ingestion is `BeginIngest`, `Drop`, `Create`, then `NextBatch` and `Pump` (a slice of
`BatchRows`) up to `Pumped`; `exec` is where it is.

### CApi: the C interface

`pkg/oracle/driver.go`: structs with a handle in `private_data`, the table of handles, the Go
objects behind them, the options kept for Init, `globalPoison`. The client makes one call at
a time, as adbc.h asks, except for `Cancel`. The fields `ctx` and `cancel` of a struct are guarded by no
lock, so every access to them is a step. `CancelContextStep` is `cancelContext`, for either
thread: look at `cancel`, call it (read again, so that it may be another function by now, or nil), then
clear `ctx` and `cancel`. A call under a context is `Supersede` (that, for its own struct), `NewCtx`, `NewCancel`,
`GiveCtx`, then `Succeed`, `Fail` or `Panic`; a `Cancel` beside it is `BeginCancel` and the steps of
`Cancel`, or `CancelPanic` if the function is nil when called (`CallsNil`). A call whose context was cleared
before it took it runs with none and cannot be cancelled; taken half cleared, it panics (`HalfContext`).
Every other function is one action.

### The data modules

Pure code, as machines that take one input step by step. Their data is scaled, never
replaced by the identity: every constant the code compares with is a CONSTANT.

- **Packets**: `WriteBuffer` and `ReadBuffer`: a message in pieces that are written whole or
  cut where the packet ends, an answer the server cuts anywhere, and the reader with its
  position, its scratch array (a slice of it changes when a later value is split) and the chunks of a long value.
- **NumberCodec**: `EncodeNumber` and `DecodeNumber`, byte by byte.
- **SqlScan**: `rewriteQmark`, then `parseSQL` on what it wrote, one character a
  step. `odd` notes the constructs the two are known to disagree on.
- **Values**: a value from Arrow to a column made for its type and back
  (`oracleTypeForArrow`, `bindForArray`, the bytes, `arrowTypeFor`, `makeAppender`), from a
  column, or from an OUT bind. Integers wrap at `Width`, floats keep `Mantissa53` bits,
  dates have the century byte.
- **Geometry**: `sdoGeometryToWKB`, one element a step; `Reading` is a reader of WKB
  that knows nothing of the writer.
- **ObjectTypes**: `Conn.ObjectType` with its recursion as a stack of `frames` and the
  cache entry that is made before the dictionary is read.
- **JsonText**: `DecodeOSONToJSON`, and `DecodeObjectImage` with the `jsonWriter` behind it. The
  recursion of each is the stack `open`, one frame per object or array. A byte is a number, a
  set of flags or opaque; the text is a sequence of tokens. `MCData` has the packer, which
  chooses every size of counts, ids, lengths and offsets.
- **Options**: `parseOptions`: connect string, then parameters, then options, each map in any order.

## 3. What is checked

Twelve runs: ten pass, two show a disagreement.

| Run | Instance | States | Shows |
|---|---|---|---|
| `session_inband` | 2 cancellable calls, requests and responses of 2 packets, one `Cancel`; errors, resends, dead sessions, an aborted response, a lost connection | 1.8M | `OwnResponse`, `DataBelongsToHolder`, `ResetExpected`, `OneVictimPerBreak`; `Implements` (CallService) |
| `session_oob` | 3 calls, one cancellable, breaks as urgent bytes, one `Cancel`, aborted response, bind failure, flush rounds | 0.6M | `CallsReturn` |
| `secure` | 2 cancellable calls under native encryption, in-band, one `Cancel`, errors and flush rounds, connection may go | 0.78M | `InStep`, `CallsReturn` |
| `session_stale_break` | as short as it gets | | violated: `CancelHitsOwnCall` |
| `statements` | LOB query with its define pass, described or executed, and a block with up to two results; refusals, errors, resends, readers that do not start; results with LOB columns and without | 4.5M | `OwnCursor`, `ClosesAreDead`, `OpenIsAccounted`, `EveryRowOnce` |
| `statements_end` | LOB query and DML, six kinds of failure, readers and updates | 99k | `ExecuteRuns`, `RowsAreDefined`; `OperationsEnd` |
| `reader_slices` | 12 rows of 0, 1 or 3 units, batches of 5 rows and 4 units; requests that ask for rows or do not | 9k | `BatchWithinSize`, `BatchWithinBytes`; `NextReturns`, `Implements` (RowStream) |
| `connect` | 2 addresses, all 4 levels of both services, TCP and TLS, 2 packet sizes, one redirect or resend | 1.7M | `FailClosed`, `UrgentOnlyInClear`, `PacketsFit`, `CapabilitiesAreServers`, `SocketsAccounted`; `DialEnds` |
| `capi` | database, connection, one statement and stream, two options of which one is refused, 2 contexts, one `Cancel`, each access to a context a step; both versions | 1.4M | `HandlesMatch`, `OptionsApplied`; `CancelReaches`, `PoisonIsFinal` |
| `ingest` | all modes, 4 shapes of what is bound, 2 binds, slices of 2 rows, 2 faults | 0.38M | `RowsInOrder`, `IngestComplete`; `CommitsOnRequest` |
| `data` | the inputs of `MCData` | 1.07M | `SameNumberBack`, `QmarksAreBinds`, `SameValueBack`, `SameGeometryBack`, `TypesAreWhole`, `ExplicitWins`, `SameMessageBack`, `SameJsonBack` |
| `values_timestamps` | the same | | violated: `TimestampsSurvive` |

`statements` does not check for deadlock: a block with two results stops its
session (a finding below), and nothing moves after that; `data` ends when its input is done with.
The modules define a few invariants that no run lists, since a stronger property or a theorem
says more: `TypeOK` of every module, `Holder`, `UsableBetweenCalls`, `BatchesInOrder`. Adding their name to a cfg
checks them. The runs of statements are two because the faults they take differ:
a resent query is harmless to cursors and rows but never lets an operation end (below),
a failed bind and an abort leak cursors but do not keep anybody waiting.

**Bounds, and why they are enough.** Session: the interesting cases are a break
that is meant for one call and meets another, so two calls with a break each
and a third party's `Cancel`; three calls where the state space allows it; two packets, because
the first and the last packet of a message are treated differently and a middle
one like the first. Statements: two users, because cursors are
confused between two statements; three cursors, so that a closed id is
handed out again while another is open; two operations each, because state that
survives an execution is met by the next; two rows asked for one at a time, so
that there is a prefetch, a fetch and an end. RecordReader: a byte limit below
the batch size and rows of no, little and too much weight, so that slices of one
row, of several and with a remainder all occur; more rows than two batches.
Connect: two addresses for what one leaves to the next, one hop for what a
redirect does. SecureSession: a reset of one call met by the packets of another needs
two. Ingest: three rows in slices of two make a full slice and a rest, and an
empty batch lies between two others; two binds, for what the first leaves to the second; two faults, because the second
meets the state the first left behind. CApi: with two contexts a call
follows on another while a Cancel begun beside the first goes on, which is enough for every race of section 4; a second statement or stream would be a copy of the first, since
they share only the connection.
MCData: messages of one to three fields in packets of five bytes, with values of every length around the longest
short one and around one and two chunks, answers in up to three packets cut at every place; numbers of up to five digits at every parity and with the extreme exponents, where digits are cut
at four (an even number, as forty is); all texts of four characters over the ten that the scanners
tell apart, then longer ones made of the characters that open and close, and of words before binds; every value of types scaled to nine bits with the edges
of each conversion; geometries of up to three elements in two to four
dimensions; documents and objects of up to ten values, nested three deep, with leaves of every kind, names
of both tables, shared lists of ids and every size of what has sizes, integers of several bytes in base 16 (no length
or offset needs more), and some of them cut short at every byte; three user types with up to two attributes, so that cycles of one, two and
three arise, three lookups and one failing query, for a lookup after a failed one;
requests of up to two parameters and three options (four where none conflict). Each bound is a CONSTANT whose comment says *bound*; the
prefetch of `RecordReader` is no larger than its batches, a condition (not a
bound) without which a property fails, see below.

**Fairness.** In Session, weak fairness for each goroutine's own steps, for the
write of a break once swapped in, and for the server. In Statements the same per
user and for the server; beginning an operation is nobody's duty. In RecordReader
for the steps of `Next`, without its failures; `NextReturns` is stated for statements that ask for rows, because
the others loop with nothing but a failure to end it. SecureSession is as fair as Session. Ingest, CApi and the data modules have no liveness
property: each call is one goroutine's, and ends by its own steps. In Connect weak fairness for the steps of `Dial`
but those of a TLS handshake. It is justified by `ConnectTimeout` (20 s by default), which bounds the dialling and, set
in `ReadPacket` alone, every read of a packet, after which the read fails. The TLS handshake goes past
`ReadPacket` and has no deadline (`transport.go:99`): nothing is assumed of it, and `DialEnds` says that `Dial`
returns or is left in one for ever. Contexts, the application and the
network are never fair. No strong fairness is assumed: `sync.Mutex` is the one
lock, each call asks for it once, and the number of calls is finite. `DialEnds` rests on `MaxHops`: the code has
no limit on redirects and resends, and looks at `ctx` only while dialling, so that
a listener that redirects for ever keeps `Dial` for ever.

## 4. Findings

Two runs show a place where the code and what the repository says of it differ.

- `session_stale_break`: `watchContext` may take `ctx.Done()` after `stop()`,
  and `sendBreak` does not know which call it is for, so the usual `defer
  cancel()` can interrupt the *next* call (`conn.go:709`).
- `values_timestamps`: the appender takes milliseconds and microseconds from
  `Date.UnixNanos`, which wraps before 1677 and after 2262; a `TIMESTAMP(3)` of the year
  9999 comes back, without an error, as an instant of another century (`arrow_conv.go:411`).

More of the kind have no run of their own. The passing runs exclude what leads there
by a constant; each can be seen by taking the configuration named, changing the
constants as shown, and checking the property alone. **D** stands for `statements_end`
with `Queries = {u1, u2}`, `Lobs = {u2}`, `Blocks = {}`, `Rows = 2`, `Faults = {}`,
`MaxMade = 4`, `Ops = {"query", "update", "schema"}`, `MaxOps = 2`, `MaxResults = 0`.

| Configuration | Constants | Violated | Because |
|---|---|---|---|
| `session_inband` with `Replies = {"ok", "error"}`, `Abortable = {}`, `CanLose = FALSE` | `MaxCancels = 0` | `NextRequestStartsClean` | a break answered after an ordinary error is not waited for: `conn.go:738` reads the answer only if `err == nil` |
| the same | `Replies = {"ok", "flush"}` | `MarkersAreReset` | a marker in the flush round is returned as an error (`conn.go:803`) |
| the same | `Replies = {"ok", "flush"}`, `Abortable = {c1}` | `DataBelongsToHolder` | an aborted response of the flush round is not broken off (`conn.go:803`) |
| the same | `Deferrable = {c1}` | `WholeRequests` | packets of a request whose bind failed are already out (`conn.go:765`) |
| the same, `FairSpec` | `CtxCalls = {}`, `MaxCancels = 0`, `Replies = {"ok", "retry"}` | `CallsReturn` | `retry` is cleared before the resend, so a query is resent for ever (`conn.go:815`, `execute.go:418`) |
| `secure` | `Abortable = {c1}` | `InStep` | `reset()` restarts the client's keystream while packets the server wrapped with the old one are in flight (`conn.go:630`, `security.go:46`) |
| `session_oob` | `CtxCalls = {}`, `Deferrable = {}`, `Abortable = {}`, `RespPkts = 1`, `Replies = {"ok", "error"}`, `Spec` | `OneVictimPerBreak` | the call sends the interrupt marker as soon as it sees `breakSent` (`conn.go:736`), which is set before the urgent byte goes out (`conn.go:679`, `:683`): the two can hit two calls |
| `statements_end` | `Queries = {u2}`, `Lobs = {u2}`, `Blocks = {u1}`, `Faults = {}`, `MaxResults = 2`, `MaxOps = 1` | `OperationsEnd` | `processImplicitResult` closes the second result under `Conn.mu`, which `Statement.Close` takes again (`execute.go:527`; README.md:365 has only the first returned) |
| the same | `MaxResults = 1`, `MaxOps = 2` | `OperationsEnd` | a block executed again closes its old result under the lock (`execute.go:244`) |
| D | | `ExecuteRuns` | `Describe` leaves `requiresDefine` set, and the execution that follows defines a cursor that was never executed (`execute.go:810`) |
| D | `Faults = {"abort"}`, `LobRows = TRUE`, no `"schema"` in `Ops` | `ExecuteRuns` | the description of an answer that is then broken off leaves `requiresDefine` set without a cursor (`execute.go:606`, `:810`) |
| D | `Faults = {"deferred"}` | `OpenIsAccounted` | the list of cursors to close is emptied into a request that is dropped (`message.go:127`) |
| D | `Faults = {"abort"}` | `OpenIsAccounted` | the packet that names the cursor is discarded (`conn.go:784`) |
| D | `Faults = {"drop"}` | `OpenIsAccounted` | `Prepare` overwrites `prepared` unclosed (`driver.go:436`) |
| D | `Queries = {u2}`, `Blocks = {u1}`, `MaxResults = 1`, `MaxOps = 1` | `OpenIsAccounted` | an implicit result nobody reads is not closed (`execute.go:150`) |
| D | `LobRows = TRUE` | `EveryRowOnce` | discarded rows are counted, and the define pass is not made (`execute.go:401`, `:584`) |
| D | `Faults = {"retry"}` | `RowsAreDefined` | a define pass that is refused and resent executes without defining (`execute.go:260`) |
| D | `Faults = {"fetchRetry"}` | `OwnCursor` | a fetch is resent with cursor 0 (`execute.go:422`) |
| D | `Faults = {"error"}` | `PreparedIsOpen` | a failed `ExecuteQuery` leaves a closed statement prepared (`driver.go:513`) |
| `reader_slices` | `BatchSize = 2`, `PrefetchRows = 4`, `BatchBytes = 0` | `BatchWithinSize` | prefetched rows never pass the loop that keeps to `batch_size` (`record_reader.go:117`) |
| the same | as it is | `EveryNextReturns` | `Next` of an implicit result with LOB or JSON columns (README.md:364: "stream back exactly like a query") sends a define pass twice in every fetch and asks for no rows: `m.resend` is reset in between, so `requiresDefine` stays set (`execute.go:311`, `:828`, `:1028`), and the loop goes on until a fetch fails |
| `connect` | as it is | `EveryDialEnds` | the TLS handshake has neither a deadline nor `ctx` (`transport.go:99`, `conn.go:349`; README.md:491 has a "Dial timeout") |
| `connect` | as it is | `InitialFraming` | `protocolVersion` of a failed address frames the next CONNECT as an established session would (`conn.go:182`) |
| `connect` | as it is | `SocketsClosed` | a failed read marks the transport closed, after which "Close closes the socket" does nothing (`transport.go:122`, `:66`) |
| `capi` | `MaxCancels = 2` | `CancelReaches` | the end of one Cancel clears the cancel function of the call that began meanwhile, and a second Cancel finds none (`driver.go:286` of `pkg/oracle`; adbc.h:2128 allows Cancel at any time) |
| `capi` | as it is | `PoisonedCallsFail` | the functions of an exported stream do not look at the poison flag (`driver.go:391` against `:74`) |
| `ingest` | as it is | `SqlIsExecuted` | a SQL text set after a target table is not executed: the target wins (`driver.go:530`; adbc.h:2057 has the text executed) |

Met while modelling, and kept out of the inputs of the runs or allowed by the
property, each under a name of its own in the module:

- *Connect*: `conn.go:187` calls a refused service name definitive, but `refuseMessage` is
  never set, so each refusal goes on to the next address.
- *Ingest*: rows before a failing one of an array stay pending under autocommit, where
  `Commit` and `Rollback` refuse; a response that was not processed leaves `txnInProgress`
  as it was, so that enabling autocommit commits nothing and `Close` logs off over an open
  transaction (`conn.go:852`), which the server commits; DDL of an ingestion commits the user's transaction; only the first batch of a
  bound stream is used by a statement that is not an ingestion, and a batch is lost when its
  binds cannot be built; an empty batch makes `bindColumns` panic (`driver.go:646`).
- *CApi*: a failed Init leaves the connection open with some of the options, in the order of
  a map (`driver.go:1011`); `setErrWithDetails` overwrites an error nobody released; `Cancel`
  never answers INVALID_STATE (adbc.h:2142). `cancelContext` reads the cancel function once to look and once to
  call it (`driver.go:287`, `:288`), and `newContext` may set it to nil in between, or the reverse: the nil call panics, in
  `Cancel` or in the call, and poisons the driver, in the first case while the call goes on. The fields of a context are
  two words: a call that takes its context while a `Cancel` clears it may get none, so that no Cancel reaches it, or half
  of one, which panics.
- *Packets*: `SkipBytes` takes the NULL mark 255 for a length, which
  `ReadRawBytesAndLength` does not (`readbuf.go:466`, `:380`). A slice of the scratch array is
  held over `ReadSB4` (`execute.go:557`) and over the two integers behind a LONG
  (`execute.go:735`): it is safe because those are one byte, which is never split; an actual length of two bytes
  behind a short value, or a DATA packet without a payload, would overwrite it.
  `WriteSB4`, which nothing calls, has no minus for the least integer.
- *NumberCodec*: forty digits with an odd point encode to 22 bytes, one more than the
  decoder takes (`number.go:211`); `0e200` is refused.
- *SqlScan*: `rewriteQmark` does not know `q'[...]'` literals, and for it `/*/` is a whole comment
  (`driver.go:671`); a bind right behind a literal is not seen; `:name` and `?` mixed are
  renumbered into each other.
- *Values*: dates before 1970 are rounded toward zero (`arrow_conv.go:395`); a date64 that is not the whole days
  Arrow asks for loses its part of a day, toward zero, as arrow-go's `ToTime` divides (`arrow_conv.go:603`; `PartOfDay`); the hours of a
  month-day-nano interval wrap at a byte (`interval.go:53`), years beyond 15599 too (`date.go:79`), a duration times
  its unit in 64 bits (`:644`), and an interval fetched as one (`:429`); integers of an OUT bind go through a float (`:286`), intervals of one are cut to seconds
  (`:960`); README.md:620 promises decimals where the code takes a float for a negative scale or one larger
  than the precision (`:44`); a decimal without precision is cut to ten places.
- *Geometry*: point elements with too few ordinates panic (`objects.go:601`); oriented points
  become points; a measure is written as Z; compound lines are written empty; the elements
  behind the first of a single shape are ignored; a missing X or Y becomes 0.
- *JsonText*: an associative array without elements is written `[]`, one with elements as an object
  (`objects.go:192`); an object whose first attribute is an inline object that is NULL begins like an object
  that is NULL itself (`objimage.go:223`), so `MCData` packs none; dates in documents and objects go through `UnixNanos`
  too (`oson.go:412`, `objects.go:292`) and wrap like those of columns; fractions of a document's timestamp end at microseconds.
- *ObjectTypes*: the key of the cache joins schema and name with a dot, which quoted names may
  have; the cache never forgets (`objimage.go:126`).
- *Options*: an explicit SID is ignored when the URI names a service (`conn.go:302`, against options.go:198
  "Explicit options override URI components."), an explicit port when the URI is a
  descriptor without a host; `tls` off leaves a descriptor's `tcps` in force (`conn.go:340`) while the choice of
  native encryption goes by the option, the combination `MCRequests` leaves out; of an option given under two of its
  names the order of a map decides.

## 5. What is proved

TLAPS checks these for every value of the constants that satisfies the named
assumption of the module (`SessionAssumption`, `StatementsAssumption`, `RecordReaderAssumption`,
`ConnectAssumption`, `CApiAssumption`, `IngestAssumption`, `NumberAssumption`, `OptionsAssumption`,
`TypesAssumption`, `ValuesAssumption`, `JourneysAssumption`, `PacketsAssumption`, which TLC evaluates on every run). Every step is proved.

**SessionProofs.** `Invariance`: `IInv` is `TypeOK`, `Holder`,
`RequestUnfinished` and `ResponseUnfinished`. The types are not inductive alone:
that a request never has more packets than it should needs that
only the holder of the lock writes, hence `Holder`, and that a call that writes
has a packet left; that the server's count does not go below zero needs that it
has one left while it replies. Then `TypeCorrect` and `MutualExclusion`
(`Holder`): `Conn.mu` admits one call between `Lock` and `Unlock`, along every path
that leaves. There is one lemma per action that disturbs something.

In the same module, `ResetsAreExpected` (`ResetExpected`), without a condition: watchers,
`Cancel` and the call may write markers between any two steps of `reset()`, and still the server gets a
reset marker only while it discards up to one. `ResetExpected` speaks of the head of the stream
only; the invariant `ResetInv` says of a reset marker anywhere in the stream that it is the only one,
that its call is draining, and that the server is resetting or has a break before it (`ResetsFollow`);
the same of the server's answer (`AcksFollow`); that the server's own break marker came with a reset pending
(`BreaksPend`); and, what `ResetsFollow` needs when the marker is sent, that a call that is about to reset has
a reason the server will have seen first (`Prepared`).

`KeystreamsInStep` (`InStep` of SecureSession) is also there. Both ends restart their keystream at a reset, so a packet
wrapped before a reset and read after it, or the reverse, fails its checksum. The invariant says for every DATA packet
under way, and not only the next one, which epoch it is stamped with: the one its reader will be in when it gets
there (`Epochs`, `Written`, `Answered`, with `StampTypes`). That needs three more facts about resets (`BreakInv`): a call that is to
reset, or has, has the server discarding (`Resetting`); nothing is left then of the response that was broken off
(`Drained`); and behind a break marker the server sends no response before its reset marker (`BreaksLast`).
`SecureIsSession` carries the invariants of Session over. The assumption is `Abortable = {}`: the table in section 4 shows the run in which
an aborted response breaks `InStep`.

On top of both, still in SessionProofs, for any number of calls, breaks, resends and packets, with the connection
lost anywhere: `ResponsesAreOwn` (`OwnResponse`), `NothingLeftBehind` (`DataBelongsToHolder`),
`ReadableBetweenCalls` (`UsableBetweenCalls`) and `SessionServes` (`Implements`, CallService). All but the
third are properties of `session_inband`, where the instance is two calls. `PairInv` follows a request and its
response through the wire: requests under way are the holder's and end with the last packet (`Requests`), what
the server works on is the holder's (`Serving`), there is no response while the request is being written
(`Writing`) and none coming for a holder that expects none (`Quiet`), the last packet of a response ends it
(`LastEnds`), and the error that answers a break is right behind the reset marker
and is what the holder reads next (`Cancelled`, `Acked`, `Skipping`). `Reported`, inductive with it, is what
remains of this in a call that has ended. The theorems assume two things, and the findings say why they must: no
bind fails after packets of its request have gone out (`Deferrable = {}`: the row of `WholeRequests`), and no
response asks for FLUSH_OUT_BINDS (`"flush" \notin Replies`: the two rows at `conn.go:803`; with such
responses `DataBelongsToHolder` does not hold).

`OneCallPerBreak` (`OneVictimPerBreak`) assumes neither, only `OOB = FALSE`, which the row of `session_oob` in the table shows it
needs. It counts (`CountInv`): there are at least as many breaks as calls failed with ORA-01013, breakers about to send their
marker, interrupt markers under way and what the handshakes may still cost (`Charge`). That a handshake becomes one
failed call and not two is `VictimInv`: an error response is on its way only to a call that has reset (`Announced`),
behind the reset marker (`Acked`), and is what that call reads next (`Behind`, `Fresh`); a break marker is sent only by
a call whose processing failed (`OwnBreaks`), which drops its error response and is not charged.

**StatementsProofs.** For any number of users, statements, cursors and rows, and with every fault. `Invariance` is
`Base` and `CursorInv`. `Base` is what the code takes for granted of Go's ownership: `Holders` (who is in a round
trip holds `Conn.mu`, with a request or a response under way and never both), `Possession` (a user works on statements of its
own, and none that is closed is executed or fetched from) and `Shapes` (who may have implicit results, who may be due for a
define pass). `CursorInv` says who names each cursor: statements have distinct ones (`Distinct`), which the server has open for
them (`Owned`); those to be closed are open, listed once, and no statement's any more (`Listed`); a request under way
has taken the whole list along (`Sent`) and was made of the statement as it still is (`Current`); a response names the statement's cursor or
one opened for it just now (`Answered`). The last is what makes it inductive: between the server's
answer and `Process` a cursor is known to the response alone. With it `TypeCorrect` and `NothingClosedTwice`
(`ClosesAreDead`), neither with a condition.

**StatementsRowsProofs.** What else is said of Statements holds only as long as some things do not happen, each a row of
the table above. A theorem assumes that they do not, and no more: TLC violates each of the five properties
with any one of its conditions dropped.

| Theorem | Property | Assumes |
|---|---|---|
| `RequestsNameTheirCursor` | `OwnCursor` | no fetch answered by an error that resends it |
| `ReadersGetEveryRowOnce` | `EveryRowOnce` | no rows of LOB columns before their define pass |
| `ColumnsOfExecutedCursors` | `ExecuteRuns` | no resent fetch; no `Describe` of LOB queries; no answer broken off if LOB rows come unasked |
| `ReadersGetDefinedRows` | `RowsAreDefined` | no rows before the define pass, and neither it nor a fetch resent |
| `NoCursorIsLost` | `OpenIsAccounted` | no request dropped, no answer broken off, no prepared statement overwritten, no results of a block run by `ExecuteUpdate` |

All but the last go over kinds of steps instead of actions (`Steps`): one that leaves statements and requests
alone (`Steady`, `Rests`), one that begins a round trip or ends it (`Goes`, `Sends`, `Ends`), the server's answer (`Replied`) and
`Process`, which is one lemma for all four branches (`Handled`). `Trip` ties a response to the request it answers, and
each theorem adds what it counts. For rows, that those the reader has, those on their way and those the server has left add
up (`Counted`), that a statement that is prepared starts from none (`Fresh`), and that an execution brings all (`Sums`): the
rows that `processDescribeInfo` discards are where a row could be lost or come twice. For executed and defined cursors,
that whoever is due for a define pass, or is read, has a cursor that was executed (`RanInv`), and that the
cursor of a LOB query is defined or due for it, while a child with such columns gets no rows at all (`DefInv`). For leaks, that a statement with a cursor is in somebody's hands, `closed` only on
its way to `Close`'s second half (`Lives`), and that an open cursor is a statement's, listed, under way or in the response (`Traced`).

**RecordReaderProofs.** The heart is `Contiguous`: the rows sent and not handed out
are without a gap those of the pending slices, or else of the sink. `Filling`
says that `Next` fetches only when nothing is pending (otherwise rows would
overtake slices), `Counted` that an empty sink weighs nothing (otherwise a slice
would have no width), `Finished` that the end is reached only with everything
given. From that follow `InOrder` (`BatchesInOrder`), `Implementation` (the reader
implements `RowStream`, step by step with `Simulation`) and `RecordsBounded`:
records are within `batch_size` *provided* `prefetch_rows` is. The row of the table
above about `BatchWithinSize` is why the condition is needed. `SlicesFit` is arithmetic on
`SliceRows`: a quotient rounded down times the average weight stays under the
limit (`RoundedDown`, `Monotone`), whatever the rows weigh.

**ConnectProofs.** For any number of addresses, redirects and packet sizes, whatever TLS handshakes come to.
`Lives` ties the transport to the progress of `Dial`; `Secured` says that security
comes from the negotiation alone and excludes urgent bytes; `Fresh` that flags
of an ACCEPT are there only together with its protocol version, so that a CONNECT
that might carry stale flags to another server is not understood by it; `Logging`
follows end-of-response through the messages for which it is put off. With them:
`Protected` (`FailClosed`), `InBandIfProtected` (`UrgentOnlyInClear`), `Fitting`
(`PacketsFit`), `OwnCapabilities` (`CapabilitiesAreServers`), `NoOtherSocket`
(`SocketsAccounted`) and `TypeCorrect`. `OwnCapabilities` holds for a reason
nobody intended: only because failover after an ACCEPT does not work at all
(`InitialFraming` above) do the stale flags stay harmless.

**CApiProofs.** For any number of statements, streams, options and contexts. `HandlesMatch`
and `OptionsApplied` are inductive only together, and with what each step of a call leaves to the
next: that there is a context left to make (`RoomForContext`), that the context of a
call is a connection's or a statement's (`CallCancellable`), that what a struct keeps, or a thread has read of it, cancels
contexts that were made (`CancelsMade`) and that options are kept for an Init to come (`OptionsKept`).
From them `HandlesCorrect` (`HandlesMatch`), `InitAppliesOptions` (`OptionsApplied`), `TypeCorrect`, and
step by step `NothingAfterPanic` (`PoisonIsFinal`): after a panic no call begins. It does not say that none goes on, since a
Cancel that panics leaves the call beside it running. `FirstCancelReaches` (`CancelReaches`) assumes
`MaxCancels <= 1`, since a second Cancel may find its function cleared by the first (the `capi` row of the table, a real limit
of the code). Its invariant `ReachInv` says that until there is a Cancel the struct keeps the context and the cancel function of the call that
runs (`CancelKept`), that a Cancel aims at a context older than that of a call on its way to one (`Aimed`), and that what a
Cancel in progress met has its function where the Cancel finds it, or is cancelled (`Reached`).

**IngestProofs.** For every number of binds, batches of any number and size, slices of any size and any faults.
`Base` has the types, that nothing is pending in a session that is over (`Settled`), and that `txnInProgress` is what
the server has unless its last answer was not processed (`FlagKnown`): the flag is what enabling autocommit goes by.
`FlagIsServers` states the last two; `TypeCorrect` and, step by step, `NothingUnasked` (`CommitsOnRequest`) follow.

`RowsInOrder` is not inductive: what is in the table has to be seen with what is still to come. `Numbered` says
that the rows of the current batch, and then the batches not yet read, are without a gap those after the last row sent (`Run`,
`Continues`, whose witness cuts the rows into the batches), and that the rows sent are the last there are and no other row is of
the same Bind (`Latest`); `Ordered` adds that no row is of a later one. A call that goes wrong at any place leaves rows that
begin what it could have left (`Starts`: `AnswersSeen`, `InsertSeen`, `DefinitionSeen`), and what begins rows in order
is in order (`Shortened`); the next rows of a Bind may be added (`Lengthened`). That a row may be missing when the next ones come would
break it: a slice that fails must end the ingestion and let go of what is bound (`EndStep`). `Lasting` says that an ingestion
under way has lost nothing and, under autocommit, has all it sent committed. From them `RowsArriveInOrder` (`RowsInOrder`) and
`IngestionsAreComplete` (`IngestComplete`).

**DataProofs.** Five of the data modules, each a specification of its own (`TypesSpec`, `OptionsSpec`, `NumberSpec`, `ValuesSpec`,
`PacketsSpec`; `MCData` chooses one of them per behaviour).

`MetadataIsWhole` (`TypesAreWhole` of ObjectTypes), for every dictionary, every sequence of lookups and a query that
may fail any time. What a type is made of is the least set that is closed under attributes (`Within`, `Below`), so nothing is said
by recursion: whatever is closed and has the attributes has the rest (`WithinLeast`). The invariant
(`TypesInv`) says which entries are there: those being read are those of the calls on the stack, each once, the outermost the
type asked for (`Stacked`), each call for the next attribute of the one around it and so below all around it (`Nested`); an entry
being read begins what the dictionary says and has only complete types in it (`Begun`); a complete one is all of it, with all its
attributes complete, and is not below itself (`CacheWhole`). The last conjunct holds because the complete types were closed before it was one of them.
An error deletes exactly the entries of the stack, and that is why `Stacked` is an equivalence.

`WhatWasAskedFor` (`ExplicitWins` of Options), for every order in which the two maps are read. `OptionsInv` says of each
setting, at each step, that it is that of the option read, else of the parameter read, else of the rest
(`ReadSettings`), and that all that was read is valid (`ReadValid`). The assumption is what the property needs: two parameters
that mean the same, where the order decides, and TLS turned off for an address that asks for it are left out of the requests.

`NumbersComeBack` (`SameNumberBack` of NumberCodec), for numerals of any length, sign and exponent and any even limit of
digits. It is a lemma per stage: what is left of the digits begins and ends in no zero (`SignificantDigitsIs`); aligned,
there is at most one zero at either end (`AlignedIs`); the exponent byte (`ExponentByteIs`) and each pair (`ByteOfIs`)
can be undone, and no pair of a negative number is the byte 102 that `DecodeNumber` cuts off (`MantissaIs`); so the same digits are read
again (`DecodedIs`, `RoundTrip`), and too many bytes come of one shape only (`TooLong`). `Zeros` and `WithoutTrailing`
are the largest and the least of a set of lengths, which is there because numbers are well-ordered (`MinIs`, `MaxIs`).

`ValuesComeBack` (`SameValueBack` of Values), for values of any size, any options and any widths. `ValuesInv` keeps what each stage has
behind it: a journey that may be made (`JourneyOK`), bytes that are those of the value or of the server (`Prepared`), which
the column accepted (`Accepted`), the type it was described with (`Described`) and one of the values the appender may give, or
none (`Landed`). The property then is a matter of the two halves of the way: from Arrow to the server, where a date is cut in bytes (`EncodedDateIs`,
`SentInstant`), a span in hours, minutes, seconds and ticks (`SplitIntervalIs`, `SentSpan`) and the rest is as it was
(`SentOther`); and from there to Arrow (`InstantFetched`, `SpanFetched`, `NumberFetched`). Both rest on what Go's division
(`QuoIs`, `QuoBound`, `QuoExact`) and a wrapping integer (`FitsIs`) do, and each case of `Changed` is where one of the lemmas needs it.
That a fetch fails only for want of a precision or a scale is `OnlyNumbersFail`. Assumed are that journeys are of typed values
(`JourneysAssumption`; decimals with a scale of -1 to 2, as everywhere in Values), that the scaled widths stand to each other as the
real ones do, eighteen digits in an int64, nineteen not, and that the centuries and hours there are fit a byte (`ValuesAssumption`).

`MessagesComeBack` (`SameMessageBack` of Packets), for messages of any number of fields and any lengths, packets of four bytes or more, and
answers cut anywhere. `PacketsInv` has two halves. While the message is written, the packets sent, the buffer and the pieces still to write
are together the message (`Writing`). While the answer is read, what is ahead of the reader (`Ahead`), across whatever packets are left, is
what the server sent of what comes next: the fields not yet read (`AtField`), a value with two lengths (`AtValue`), the chunks of a long
value, with those already read (`AtChunk`) or skipped (`AtSkipped`), or the actual length of an OUT bind (`AtActual`), where
the slice held still is the value (`HoldsValue`). That it stays so while the actual length is read is the argument the code does not
write down: a slice lies in the scratch array only if the value was split, which one of at most 252 bytes can be, and the length of such a
value is one byte, which is never split (`ActualAt`). Below that is the reader: a read of n bytes takes the first n of what is ahead,
however many packets they are in (`GatheredIs`, `GetRawIs`, `SkipIs`), and an integer, a value or a chunk is read as it was written
(`IntegerIs`, `LengthRead`, `ChunkRead`). `FlattenSeq` and the recursive functions of the reader are defined by `CHOOSE` of a function;
that there is one, and what it is, comes from numbers being well-ordered (`AllNumbers`, `Recursion`, `FlattenIs`), in place of an induction theorem.
`PacketsAssumption` has the sizes stand to each other as the real ones do, and messages of fields whose numbers have four bytes.

**Only model-checked**: liveness (`CallsReturn`, `OperationsEnd`, `NextReturns`,
`DialEnds`), which is outside the prover's reach;
and `QmarksAreBinds`, `SameGeometryBack` and `SameJsonBack`, which say what two scanners, or a writer and a reader of
nested data, do with every input. Without an induction theorem the provers can instantiate, each would need its recursion
unfolded by hand, as Packets has it, and a relation between every state of the two; that has not been done.

## 6. What is not modelled

- Key derivation, ciphers, key exchange and TLS itself, the rest of `ano.go`, the grammar of connect strings and
  wallets: arithmetic and parsing without protocol state, which unit tests reach.
- What scalars inside documents and objects are converted to, and escapes in JSON strings; XMLTYPE columns outside an
  object; nested Arrow values sent as JSON text, INTERVAL YEAR TO MONTH, BINARY_FLOAT, LONG and ROWID columns.
- The catalogue queries (`metadata*.go`, `get_objects*.go`): they build SQL text and copy rows.
- Within the modules: the order of fields in messages; session state
  changes that clear `cursorsToClose`; batch errors; LOB reads except as calls of a session; packets
  saved for a retry and control packets; the copying of buffers and error texts of the C interface, its calls on two
  threads other than Cancel, which adbc.h forbids.
- The Python package: it loads the shared library and passes options.
- The server is what the code takes it to be. Nothing is shown about
  Oracle's server.

## 7. Plan

Done, in this order, because the session is what everything rests on: Session,
Statements, RecordReader, Connect; then the keystreams (SecureSession), CApi, Ingest, and the data modules.
What would come next:

1. `Conn.Close` against calls in progress, in Session instead of Ingest.
