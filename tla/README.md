# TLA+ models of eth-research

This directory holds TLA+ specifications of the programs of `silesiacoin/eth-research`:
the JSON-RPC package `simple_rpc/rpc` (a fork of go-ethereum's `rpc`) and the
orchestrator that serves it, the epoch extractor, the wallet with its BLS keys, and the
gRPC route guide. TLC checks them on small instances; TLAPS proves the safety properties
and the two refinements for every instance.

## Inventory

| part | state it keeps | operations | what is hard |
|---|---|---|---|
| `rpc/client.go` connection engine | `lastOp`, `reqInitLock`, `reading`, `writeConn`, one handler per connection | `Call`, `BatchCall`, `Notify`, `Subscribe`, `Close`, reconnect, read loop | callers, dispatch and read loops rendezvous on seven channels; a connection breaks between any two steps; deadlines race answers |
| `rpc/handler.go`, client half | `respWait`, `clientSubs` | `addRequestOp`, `removeRequestOp`, `handleResponse`, `cancelAllRequests` | `op.resp` must be closed once, never overfilled, never forgotten |
| `rpc/handler.go`, serving half; `Notifier` | `callWG`, `serverSubs`, per notifier `buffer`, `activated` | `handleMsg`, `handleBatch`, subscribe, unsubscribe, `Notify`, `activate`, `close` | publishers start before the answer is written; close races callbacks |
| `rpc/subscription.go`, `ClientSubscription` | `quit`, `err`, buffer of `forward` | `deliver`, `forward`, `Unsubscribe`, `quitWithError` | three kinds of goroutines end it; dispatch must not block |
| `rpc/json.go`, `rpc/types.go`, `rpc/errors.go` | encoder lock | classification of messages, batches, positional arguments, block numbers, error codes | a peer sends anything; a wrong argument list would panic in `reflect` |
| `rpc/service.go` | `services` under a mutex | `registerName`, `callback`, `subscription`, `call` | registration while a batch is looked up call by call |
| `rpc/server.go` | `run`, `codecs` | `ServeCodec`, `Stop`, `serveSingleRequest`, `RegisterName` | check of `run` and entry into `codecs` are two steps; iteration that ends early |
| `rpc/ipc*.go`, `endpoints.go`, `inproc.go`, orchestrator `main.go` | the socket file, the listener | `StartIPCEndpoint`, `ServeListener`, `DialIPC`, `DialInProc`, exit on interrupt | crash and restart around one file; two processes on one endpoint |
| `epoch-extractor/main.go` | `curEpoch`, `prevEpoch`, two pairs of proposer maps | `runner` | the beacon head moves between the calls of one round |
| `wallet/` | directory on disk, package-level key caches | `OpenWallet`, `NewKeymanager`, `Sign`, `VerifySignature` | global caches, partial failure, a directory that changes between listings |
| `bls/` | `pubkeyCache` of mutable keys | conversions, aggregation, four verifications | aliasing of cached objects |
| `route_guide/` | `routeNotes` under a mutex | `GetFeature`, `ListFeatures`, `RecordRoute`, `RouteChat`, and the client's four calls | copy under the lock, send after it; flow control in both directions |
| `bytesutil`, `fileutil`, `rand` | none | helpers | bit boundaries, permissions |

The parts interact as follows. A server wraps every accepted connection in a client
(`ServeCodec` calls `initClient`), so the same dispatch goroutine serves both ends of
a connection; it owns the handler, starts one goroutine per incoming call message and
delivers notifications to client subscriptions. Callers talk to dispatch through
channels only, but they write to the connection themselves, under a lock that consists
of a send on `reqInit` and a send on `reqSent`. The handler looks methods up in the
server's registry. Keymanagers sign with `bls` and read their keystore through the
wallet. The epoch extractor, the wallet and the route guide are separate programs.

`PROJECT.json` lists every component, the hazards of the code at their lines, and which
source lines each definition models.

## Modules

**RpcClient** (`client.go`, client half of `handler.go`). An operation (`requestOp`) is
an element of `Ops` and doubles as the goroutine of its caller. `pc[o]` says where the
caller is: waiting for the send lock (`init`), writing, handing a new connection over,
reporting on `reqSent`, waiting for responses, offering a timeout, returned. `dpc` says
where dispatch is: in its select, handling a message, or in `clientConn.close`
(`cancel`, `cancelSubs`, then `drain`), with `why` telling which of the three callers of
`close` it came from. An unbuffered channel is one action of both sides; `reqSent` has
its one slot. `op.resp` is `buf` (what is in it), `got` (what was taken), `closed`.
Messages are sets of the request IDs they answer and of reverse calls they carry; a
connection holds what its peer may still send in `srv`. One action per select case of
dispatch, per step of `send`, `write`, `reconnect`, `wait`, `Close`, `read`, and per
loop of `cancelAllRequests`. `Start` is the same for all callers; they differ in `Ids`.

**ClientSubscription** (`subscription.go`). One accepted subscription: dispatch in
`deliver`, `forward` with its bounded list, and any number of `Unsubscribe` calls, all
ending it through `quitWithError`, which is modelled step by step (`qpc`). The
unsubscribe call to the server (`await`) is taken by dispatch and then returns when the
peer answers, which it need not do, or when the client closes; RpcClient has its inside.
`ender` is history: the goroutine that won `quitOnce`. **NotificationFeed** is what all this promises the user: notifications in
order, none missing while the feed lasts, at most a bounded number behind, then one
reason at most. `Feed` in ClientSubscription is the refinement mapping.

**RpcHandler** (serving half of `handler.go`, `Notifier`). A goroutine per message runs
its calls in order (`idx`), registers the new subscriptions, writes the answer and
activates the notifiers. Publishers call `Notify` from the moment a callback created
their subscription. `handler.close` is `hpc`. Writes succeed, may time out (a slow peer:
`flaky`) or fail. Callbacks return by themselves, but for those of kind "waits", which
return when their context is cancelled. `wire[s]` is what was sent about a subscription.

**RpcRequest** (`json.go`, `service.go`, `types.go`, `errors.go`) has no state: it
defines JSON values by the tokens that the code tells apart, the Go types of arguments,
which methods of an object become callbacks, how a message is classified, how its
arguments are decoded against a callback (missing pointers become nil, missing values
and surplus arguments are errors) and which error code each failure gives.
**RpcService** puts it to work: one request or batch is served, a message per step,
each looking its method up under the registry's lock, while `RegisterName` and `Stop`
come in between. `NewServices` takes it that the services of a new server register
without error; `StartIPCEndpoint` returns the error otherwise and nothing is served.

**RpcServer** (`server.go`, `ipc.go`, `ipc_unix.go`, `endpoints.go`, `inproc.go`, the
orchestrator's `startServer`). A process removes the endpoint, listens, accepts, and
exits by an interrupt (the listener unlinks the path, whoever's file is there) or a
crash (the file stays). Each connection carries the goroutine of its `ServeCodec`:
`check` of `run`, `add` to `codecs`, `serve`, `close` (its client's `Close`, which may
never return), `done`. `overlap` is history: two
processes have used the endpoint at the same time.

**Bls** (`bls/herumi`, and what it uses of `bytesutil` and `rand`) defines keys and
signatures over an external group that is taken at its algebra: a point is named by its
discrete logarithm, so a public key is the number of its secret, and a signature gives
the factor of each message's point. **Wallet** (`wallet/`, `fileutil` as it uses it)
has `OpenWallet` with its separate looks at the directory, keymanagers that read the
keystore, a step for each file system call, and replace the package's caches, `Sign`, in-place aggregation of signatures
and public keys, and the public key cache with its objects (`objs`, `cached`), evicting
whenever it likes. Others change the directory and the file between any two steps.
`plain` says that `ExpandPath` leaves the configured path as it is; `steady` is history:
nobody has changed the directory, and no look at it failed, since `OpenWallet` began.

**RouteGuide** (`route_guide/server/server.go`, `client/client.go`, the stream code of
`route_guide_grpc.pb.go`). Each client runs the calls of `main` one after the other;
each stream has a handler of its own on the server. gRPC is external: streams keep
order, hold `Window` unread messages per direction, and may be cut at any moment.
**NoteBoard** is what `RouteChat` promises: posting a note owes its author all previous
notes of that place; whether the new note is among them is left open. `Board` in RouteGuide is the refinement mapping: what is owed is
what is in flight plus what the handler still holds of its copy.

**EpochExtractor** (`epoch-extractor/main.go`). `Tick`, `Poll` or `PollFail`, `FetchNext`
and `FetchCurrent` are one round of `runner`; between them the beacon node moves its head,
forward or back, and reshuffles the proposers of an epoch to come. A schedule is one
function that stands for a pair of maps. The variable `smooth` is history: it records
that no epoch was skipped and no round straddled an epoch boundary.

The `MC` modules give constants for TLC. The theorems about a module with state are in
the module of its name with `Proofs` appended; those of RpcRequest's operators are
lemmas of `RpcServiceProofs`, those of Bls lemmas of `WalletProofs`. The inductive
invariants end the modules they are about, unless they are used in one proof only.
Definitions whose comment begins with
"Mutant of" are wrong versions of the definition they precede; they are not part of any
specification and serve to show that the properties notice such an error. `TypeOK` of
RpcServer, RpcService and EpochExtractor documents the variables and is not among the
invariants of their runs.

## Runs

| run | result | what it shows |
|---|---|---|
| `client` | holds | a subscription, its unsubscribe and a batch called back from the peer, deadlines, failing writes, one reconnect, `Close`: the send lock, the single reader, the bookkeeping of `op.resp`; no op loses a registered ID in silence; dispatch never blocks on `op.resp`; `Close` and a caller with a deadline return unless dispatch is stuck for ever (`Stuck`) |
| `client_orphan` | violated | an op written just before the connection fails is forgotten; its caller hangs even after `Close` |
| `client_unsubscribe` | violated | `Unsubscribe` and dispatch wait for each other; `Close` never returns |
| `subscription` | holds | the subscription implements NotificationFeed; safety of `sub.err`, the reason reported is the one that ended it; termination, unless the unsubscribe call is never answered |
| `handler` | holds | ID before notifications, order, unsubscribe finds what was announced, `sub.err` closed once, no publisher left behind, close ends unless a method that waits for its context is running |
| `handler_close` | violated | such a method and `handler.close` wait for each other; nothing cancels the pending request |
| `service` | holds | requests and batches of every shape against a growing registry: callbacks get what their Go types allow, each message the answer it is due, nothing registered is lost |
| `server` | holds | a process alone at its endpoint is the one clients reach, also after crashes |
| `server_stop` | violated | `Stop` closes one codec of several and returns |
| `epochs` | holds | the maps are right after every smooth round; the check of the stored schedule; if the beacon node answers, an epoch the head stays in is handled unless a later one was handled before |
| `wallet` | holds | signatures verify whichever keymanager filled the shared caches; aggregates verify in all three ways; the public key cache is never poisoned; `OpenWallet` opens the one wallet of a directory that holds still, if its path needs no expansion |
| `route_guide` | holds | right answers over the streams; RouteChat implements NoteBoard; every client finishes without help from a deadline |

Each violated property states a sentence of the repository; `PROJECT.json` quotes it.
`CloseReturns` holds without `Unsubscribe` and reverse calls and fails with either;
`CloseReturnsUnlessStuck` says that these two are the only way for it to fail.

Deadlock checking is off where the system may rest: a client that is closed and whose
callers have returned, a handler that has closed, a wallet at its bounds.

Without an exception, `UnsubscribeReturns`, `EndIsReported`, `CloseEndsAll` and
`DeadlineReturns` would be false of the code. Each exception is a state that is never left
again (`[]Awaiting`, `[]Stuck`, `hpc = "wait"` with a waiting method), not a state that was
visited, so that an end which is merely delayed still has to come.

### What else the models show

These are facts about the code that follow from a changed constant or a property that
is not kept as a run:

* With `LateFail = TRUE` in `RpcClient.cfg`, `ClosedNotPending` fails: if a write reports
  an error although the peer got the request, an answered `Subscribe` is registered
  again on the new connection, and its channel would be closed twice (client.go:482).
* A subscribe request sent without an ID gets no answer, but its notifier is activated
  and notifies (handler.go:127), against the comment at subscription.go:159. `IdLeads`
  is therefore about subscriptions that were answered.
* A reverse call that is still running when the connection fails blocks `handler.close`
  as a method that waits for its context does, since the call needs dispatch
  (handler.go:154). This is the second disjunct of `Stuck`.
* `requestUnsubscribe` is a `Call` with a background context (subscription.go:327-330): a
  peer that does not answer keeps `Unsubscribe` from returning, and after an overflow the
  end of the subscription is not reported (the send at subscription.go:264 comes later)
  although `Err` "receives a value when the subscription has ended due to an error" (:235).
* An `Unsubscribe` that is inside `quitOnce`, waiting for its call to the server, and a
  dispatch that has lost the connection and comes to `quitOnce` for the same subscription
  wait for each other: the call needs dispatch. `UnsubscribeReturns` and `EndIsReported`
  except this too; the run `client_unsubscribe` shows the deadlock in full.
* A round of the epoch extractor that straddles an epoch boundary stores the wrong lists
  (the epoch is computed from the poll at main.go:125, the next epoch's duties are asked
  for later, at :133). `SmoothSchedules` excludes such rounds, and those after a skipped
  epoch, in which the list stored as next is taken for the current one.
* The runner only goes forward (main.go:130): an epoch that a reorg takes the head back to
  is not asked for if a later one was handled, even if the head stays there.
* `SlotInfo.Hash` is the hash of no input for every SlotInfo (types.go:59-65: the value
  passed to rlp has its encoder on the pointer, and `rlpHash` drops the error), so a
  signature verifies for every slot. `Hash` in Wallet is a constant for that reason. The
  comment at types.go:42-43 says "simply the keccak256 hash of its RLP encoding".
* `OpenWallet` looks for the directory at the expanded path (fileutil.go:91-96,
  wallet.go:186) and reads its kind at the path as given (wallet.go:144). A valid wallet at
  `~/...` or `$VAR/...` is found and then fails to open. `OpensTheWallet` therefore has
  `plain` in its condition.
* The comments at wallet.go:183 and :216 and the message at :165 name `imported` as a
  kind's directory; `ParseKind` (:227-236) accepts `direct` in its place, so that a directory
  with `imported` in it counts as none. It is the name "file" of the model.
* A directory that cannot be read has no match for `filepath.Glob`, which ignores I/O
  errors: `NewKeymanager` then succeeds without keys (wallet.go:95, keymanager.go:75-77).
* `RouteChat` sends the author's new note back to it as well (server.go:113-118), while
  the comment at server.go:99-100 says "all previous messages at each of those locations"
  and route_guide.proto:51 "while receiving other RouteNotes". NoteBoard allows both.
* A process that starts on the endpoint of a running one takes it away, and when either
  exits, the other becomes unreachable without noticing: `SoleServerReachable` needs
  `~overlap`.

### Bounds

* `MaxConns = 2` in RpcClient: one reconnect. Nothing distinguishes the second reconnect
  from the first but the index of the connection; the proofs are for any number.
* RpcClient has one subscribe, one unsubscribe and one batch of two IDs (the least that can
  be partly answered) made in a reverse call, and one `Close`. Ops interact only through
  the lock and `respWait`; a second `Close` waits for the same `didClose`. A notification
  is an op without IDs that returns once it is sent: the same properties hold of a
  notification beside a batch (65,841 states), and the proofs are for any ops.
* `MaxBuffer = 2`, `MaxNotif = 4`: the buffer fills, overflows and is overtaken.
* `MaxNotif = 2` per publisher in RpcHandler: one before and one after activation. The
  run `handler_close` needs one subscription and one waiting method.
* RpcService: one request at a time, since requests share nothing but the registry;
  batches of three messages, in which a later one sees what was registered after the
  first. `MaxBlock = 2` stands for the largest block number, so that 3 overflows.
* RpcServer: two processes and two connections, the least for a taken endpoint and for
  an iteration that stops early.
* `MaxEpoch = 2`, two slots per epoch, one slot forward or back at a time: any number of
  moves between two calls makes skipped epochs, straddled boundaries and returns over a
  boundary.
* Wallet: two keymanagers, a group of order 3, one change of the file system by others,
  three signatures (two and their aggregate). The keystores differ in one thing each: a
  zero secret, a public key of the wrong length, unequal counts, unreadable, a bad
  disabled key, none at all. Keymanagers and objects are symmetric.
* RouteGuide: two clients; `Window = 1`, the smallest and for flow control the hardest;
  a script that comes back to a place; corners of a rectangle given crosswise; a route
  with a leg in each direction.

### Fairness

Weak fairness on each step a goroutine of the library can take by itself: Go's scheduler
runs runnable goroutines. A select with several ready cases is covered by fairness on
each case separately, since Go chooses among ready cases at random. In RpcClient that is
`Proceed(o)`, what a caller's goroutine does on its own, each case of dispatch's select, the
read loops once their connection is closed, and the closers; deadlines of callers that
have one pass. Whether a user starts or ends anything, whether a write succeeds and
whether the peer answers is left open. In ClientSubscription the steps of `deliver`,
`forward` and `quitWithError` are fair, and `CallReturns`, the peer's answer to the
unsubscribe call, is not. In RpcHandler callbacks return, but for those that wait for
their context. In EpochExtractor the ticker ticks. That the beacon node answers is not part
of the specification but the antecedent of `EpochHandled` (`NodeAnswers`): polls that are
made again and again are not refused for ever, and a fetch ends, with an answer or an error.
RpcServer has no fairness: processes run, stop or crash as they like, and `Close` may hang.
In RouteGuide the goroutines of clients and handlers are fair, and neither deadlines nor
cuts are: `EverybodyFinishes` does not rely on them.

## Proofs

`RpcClientProofs` proves for all constants that satisfy the assumptions of RpcClient:

1. `ControlInvariant`: `ControlInv` is inductive. It adds to `TypeOK` and `SendLock`
   which value of `why` goes with which `dpc` (`Phases`), that the lock is held while a
   result is under way or a reconnect is in progress (`LockHeld`), which read loops live
   in each phase (`Readers`) and that connections are handed over in the order they were
   dialled (`HandoverOrder`). Without the last, `cur + 1` need not be the connection
   that `reconnected` carries, and `SingleReader` is not inductive. `TypeCorrect`,
   `SendLockSafe` and `SingleReaderSafe` follow.
2. `ChannelInvariant`: under `~LateFail`, `ChannelInv` is inductive relative to
   `ControlInv`. The core is a count: registered IDs, buffered and taken responses of an
   op never exceed its number of IDs (`Room`), and make it up exactly for the op in
   flight (`InflightCounted`). This needs that nothing is known of an op before
   `reqInit` (`Fresh`), that it is not answered before it is written (`Unsent`,
   `Solicited`) and that a reconnect carries over an unanswered op (`CarriedOver`).
   `ClosedOnce`, `RespNeverBlocks` and `InflightSafe` follow.

3. `DeregistrationAccounted` uses `HandoverInv`, which is inductive relative to
   `ControlInv`: `writeConn` is nil, dispatch's connection or the one just dialled
   (`WriteConnKnown`), and while no read loop lives only the op being sent is registered
   and it has failed or is bound to fail (`Detached`). The second is what makes the
   steps of `cancelAllRequests`, of a failed send and of a handover account for every ID
   they drop. `~LateFail` is not needed.

`ClientSubscriptionProofs` proves `ErrChannelCorrect` from `OnceInv`: one goroutine at a
time is inside `quitOnce`, and nothing is sent on `sub.err` or closes it before it is done.
`ErrTruthful` needs which arguments each goroutine can bring to `quitWithError`
(`Reasons`) and that `ender` is the goroutine inside `quitOnce` or the one that left it
(`EnderInv`), since `sub.err` only holds the value. `FeedImplemented` shows `Feed`: dispatch
taking a notification publishes it, `forward` handing one to the user is what the user
sees, and closing `quit` or leaving `forward` ends the feed. The invariant is that what the user has, what is
buffered and what dispatch holds are consecutive numbers until the end
(`Gapless`) and increasing afterwards (`Ordered`): a notification dispatch drops after
`quit` leaves a gap, and the feed allows it only because it has ended by then, which is
`QuitFirst`.

`RpcHandlerProofs` proves `ServerSubsInvariant`: `ServerSubsInv` is inductive, for any
messages and batches. Until `addSubscriptions` a subscription is in the hands of the one
message that creates it and its `sub.err` is open (`Owned`, `Registered`); afterwards it
is in `serverSubs` until that channel is closed. `Owned` is what rules out a second
`addSubscriptions` of a subscription that was already ended, and `Granted` what puts a
subscription into `serverSubs` before its ID goes out; `Quiet` says that `callWG.Wait`
leaves nobody to register another one. `HandlerTypeCorrect`, `SubErrClosedOnce`,
`AnsweredUnsubscribable` and `CloseLeavesNoOrphan` follow. They need that `idgen` hands
out every ID once (`IdgenAssumption`). `OrderInvariant` adds the traffic: a notifier that
a message holds is not activated and has sent nothing but perhaps its ID (`Installed`),
its buffer is exactly what was notified (`Numbered`), the wire carries increasing numbers
(`Ascending`) and, while no write failed, all of them (`Complete`). `IdFirst` and
`NotificationOrder` follow; the ID counts as number 0.

`EpochExtractorProofs` proves `SchedulesRight` and `AlarmExact` from `Rotation`, which
says for each point of a round of which epoch the four maps are: between the poll and
`FetchNext` the maps of the next epoch are already those of the epoch being handled.

`RpcServerProofs` proves `SoleServer` from `Alone` (without overlap one process at most is
not down) and `Listeners` (a listener is open exactly while its process is up).

`RpcServiceProofs` proves `RegistrationsStay`, and `CalledAsDeclared` and
`RequestsAnswered` from `ServiceInv`: the messages handled so far are answered, and every
registered callback is one `newCallback` accepts. Under it lie lemmas about the operators
of RpcRequest: what `Decode` yields fits the Go type (`DecodeFits`), a decoded argument
list has the length and the types of the declaration (`ArgumentsFit`), a lookup finds a
callback under its own name, one message yields one answer or none (`AnswerOne`).

`WalletProofs` proves `WalletInvariant`. `Loaded` says how far a keystore must have come
for its manager to reach the caches, `KeysMatch` that the secret key cache pairs keys
whoever filled it last, `Signed` what each signature is the sum of, `Unshared` that no
object is in the cache twice or is also the aggregate in use, `Looked` what `OpenWallet`
has learned of a directory that holds still; the kind is read only at a plain path. `Unshared` is what makes aggregation in place
harmless. The verification theorems add the algebra of sums modulo `Q`, for any `Q`
above 1 (`SigAlgebra`, `VerifyTwo`).

`RouteGuideProofs` proves `RouteInvariant`. For each client `RouteInv` says that client
and handler are in the same call and that `End` comes last (`Streaming`), and that what
was received, what is in flight and what the handler holds is together the right answer
to the rectangle or route that was sent (`Listing`, `Recording`). The proof goes client by
client: a step touches one of them (`UntouchedInv`), and `routeNotes` only by appending.
`AnswersCorrect` is a part of the invariant. `NoteBoardImplemented` shows `Board`: the
handler reading a note posts it, `Recv` hears a note, a fatal error or a failed send
breaks the author off, every other step leaves the board alone. It needs that `serialize`
is injective on points (`Keys`), and that append and copy are one step under the lock.

Loops that the models write as recursive functions or folds over a keystore, a route, the
features or the services of a new server are handled without induction: if a fact about
step k failed, there would be a least k for which it fails (`LeastNat`), and neither 0 nor
a successor can be it.

The assumptions are those of the modules. RpcClient: IDs of different ops are disjoint
(`nextID` counts, so until 2^32 requests), each subscribe has one ID, `NoOp` is not an op;
`~LateFail`, where stated, says that a failed write reaches nobody, and is needed (see
above). RpcService: objects have Go methods, a request has messages or is empty or not
JSON (`ApisAssumption`, `RequestsAssumption`). Wallet: keystores are records of two lists
of byte strings; `Paired` is a hypothesis of the signature properties, since nothing in
the code checks that the secret keys of a keystore belong to its public keys. RouteGuide:
points have integer coordinates, `NoPoint` and `End` are neither points nor messages.
TLC evaluates the assumptions in every run and has checked the inductive invariants.

Only model-checked is liveness, since fairness and `ENABLED` are beyond the prover:
`CloseReturnsUnlessStuck`, `DeadlineReturns`, `DeliverReturns`, `UnsubscribeReturns`,
`EndIsReported`, `CloseEndsAll`, `EpochHandled` and `EverybodyFinishes`. The four violated
properties are TLC's counterexamples.

## Not modelled

* Logging, metrics, wording of errors, decoding of results, the reply of `read` to a
  parse error. In RpcClient the delivery of notifications (dispatch may block in
  `deliver` for a while; ClientSubscription shows it comes back). IDs never wrap: that
  takes 2^32 requests with an old one pending. In RpcHandler panics of callbacks that
  misuse a Notifier.
* File permissions, decryption of a keystore (an outcome), `WriteFile`, `CopyDir`,
  `HashDir` and the byte and bit helpers that no program of the repository calls.
* Encodings of keys and signatures other than their lengths, `SignatureSet`, random keys.
* The distance formula of the route guide, which is floating point and a constant
  function in the model (for antipodal points rounding may yield NaN); the 32 bits of the
  counters of `RecordRoute`, which routes of at most 101 points do not reach; the message code
  generated into `route_guide.pb.go`; the feature file.
* In EpochExtractor the log output and dialling, cancellation of the context, which
  nothing calls, and `--slots-per-epoch 0`, which divides by zero.
* The command line of the orchestrator, whose API returns constants, and the stand-alone
  language exercises.

## Plan

Every safety property and both refinements are proved. What is left are hazards that
`PROJECT.json` lists without a property, each with the reason: mostly values that the
models leave out (IDs that wrap, floating point) or behaviour that the code leaves to its
user (a subscribe whose deadline passes, a notifier whose activation fails half way, rounds of
the epoch extractor that straddle a boundary).
