# A verification project for golang_coursera

The repository holds the solutions of a Go course: eight small, independent
programs. Some of them are sequential, some are concurrent in ways that are hard
to test. This directory models them in TLA+, checks the models with TLC and
proves what matters most with TLAPS. `PROJECT.json` lists, for each definition,
the lines it models; for each run, what it checks; for each property, a mutant of
the code that it catches.

## Inventory

| part | where | state | operations | what makes it hard |
|---|---|---|---|---|
| microservice, call log | `chapter2/hw3/service.go` 45-51, 103-118 | `ms.Events` (a channel of 1000 per logger), `EventsMutex` | `addEvent` from every RPC; `Logging` stream | blocking sends under a mutex, registration while calls are recorded, clients that leave |
| microservice, statistics | `service.go` 53-89, 120-137 | `ms.Stats` (a slot of capacity 1 per client), `StatsMutex` | `addByConsumer`, `addByMethod` from every RPC; `Statistics` stream with a ticker | check-then-act between `len` and receive; a receiver that takes no mutex; two critical sections for one call |
| microservice, interceptors and server | `service.go` 139-251 | ACL rules (never written after start), server | unary and stream interceptor, `Check`/`Add`/`Test`, `StartMyMicroservice`, stop on `ctx.Done` | order of record, count and access check; what is left running after Stop |
| signer pipeline | `chapter1/hw2/signer.go`, `common.go` | pipes of capacity 100, wait groups, `quotaCh`, `waitCh`, the overheat flag | `ExecutePipeline`, `SingleHash`, `MultiHash`, `CombineResults` | a goroutine per value and per checksum, completion in any order, closing a pipe others still write, data handed over without waiting |
| MyApi and its HTTP handlers | `chapter2/hw1/api.go`, `api_handlers.go` | user map, `nextID`, RWMutex | `Profile`, `Create`; handlers that check method, auth and parameters | concurrent `Create`; two decodings of one text; the order of checks decides the answer |
| handlers_gen | `chapter2/hw1/handlers_gen/codegen.go` | none | writes validators, handlers and `ServeHTTP` for the methods of a Go file | the generated code must do what tags and comments say |
| DB explorer | `chapter2/hw2/db_explorer.go` | the tables' columns read at start, perhaps in part; the database | GET, PUT, POST, DELETE over a table | failing statements, lost replies and connections, rows left open, one buffer for all rows, paths matched loosely, names sent as they came |
| search client | `chapter1/hw4/client.go` | none | `FindUsers` | paging by asking for one record more; answers by status |
| FastSearch, SlowSearch | `chapter1/hw3/fast.go`, `common.go` | one user record reused for all lines, set of browsers | a pass over a users file | must print what the slow one prints |
| i2s | `chapter2/hw4/i2s.go` | the struct being filled | recursive conversion of an `interface{}` | partial writes before an error, narrowing of numbers |
| dirTree | `chapter1/hw1/main.go` | none | recursive printing | last-entry marks, which entries count |

The parts do not call one another. Within the microservice every RPC runs, on a
goroutine of its own, through an interceptor: it is recorded in the log, counted
twice in the statistics, checked against the rules and handed to its handler.
The handlers of `Admin` then register a channel with the log or the statistics
and become their readers. Within the pipeline the jobs share nothing but the
pipes between neighbours, and the process-wide overheat flag.

The correctness questions, part by part:

* log: every logger gets every event recorded since it registered, once, in one
  order; recording ends; a client that leaves harms nobody;
* statistics: no count is lost or doubled on its way to a client; counting ends;
  each client is sent what it is owed; a Stat shows whole calls;
* server: nothing is served, denied or subscribed outside the order record,
  count, check; the two mutexes cannot wait on each other; Stop ends everything;
* pipeline: each value in gives one result out, with the content hw2.md defines;
  MD5 runs alone; a pipe is closed once and only when nobody writes it any more;
  the pipeline returns;
* MyApi: concurrent requests take effect one at a time, one login and one id per
  user; the store is reached only by requests that passed the checks; every
  request is answered;
* handlers_gen: the file kept as its output does what it generates;
* DB explorer: what is answered is what happened to the table; a request changes
  the one row it names; an error is told; a list ends with its connection given back;
* client, search, i2s, dirTree: the result is the one its task defines.

The full list of what is hard to test, line by line, is `hazards` in
`PROJECT.json`.

## Modules

| module | models | abstract specification / composition |
|---|---|---|
| `EventLog` | `addEvent`, `Logging` | implements `Broadcast` |
| `StatBoard` | `addByConsumer`, `addByMethod`, `Statistics` | – |
| `Microservice` | both interceptors, ACL check, handlers, start and Stop | instantiates `EventLog` and `StatBoard`, takes their actions as its own, and is shown to implement both |
| `EventLogProofs`, `StatBoardProofs`, `MicroserviceProofs`, `ExecutePipelineProofs`, `SignerProofs`, `UserApiProofs`, `DbExplorerProofs`, `AlgorithmsProofs` | the theorems | extend the module of that name (`UserApiProofs` also `HandlersGen`); the last one `FindUsers` and `Search` |
| `Pipe` | a Go channel between two jobs | – |
| `DataSigner` | CRC32 and MD5 as terms | – |
| `ExecutePipeline` | `ExecutePipeline` around jobs as the tests write them | – |
| `SingleHash`, `MultiHash`, `CombineResults` | the three jobs, each with the jobs around it as its environment | the first two implement `Stage` |
| `Signer` | the five jobs of `TestSigner` under `ExecutePipeline` | instantiates the three jobs, and is shown to keep the specification of each |
| `ApiHandlers` | the handlers and validators of `api_handlers.go`, as functions of a request | – |
| `UserApi` | requests that run at once through `ApiHandlers` and `Profile` or `Create` | implements `UserStore` |
| `HandlersGen` | `codegen.go`: what it writes for a list of declarations, and what that does | `ApiHandlers` is compared with it on `api.go`'s declarations |
| `DbExplorer` | `NewDbExplorer`, the routing, the five handlers and their statements | – |
| `FindUsers` | `FindUsers`, a caller that turns pages call by call, two servers | all users in order, as far as the server goes |
| `Search` | `SlowSearch`, `FastSearch`, the easyjson decoder | each other |
| `I2S` | `i2s`, for every order of a map | `Fits`, `Made`, `Spared` |
| `DirTree` | `dirTree` | lines computed from the places of the tree |
| `MC...` | instances for TLC; `MCAlgorithms` runs `UserApi`, feeds `Search`, `I2S`, `DirTree` and `HandlersGen` their inputs, and runs `FindUsers`, each in behaviours of its own | – |

**Call log.** A registered logger is an element of `events` (`ms.Events`), its
channel `chan[s]`, the event its handler has received and not sent yet
`lastEvent[s]`. `addEvent` is `AddEventLock`, one `AddEventSend` per registered
channel (enabled only if there is room: the code blocks) and `AddEventUnlock`. An event
is identified with the call that caused it. `Logging` is one registration step
(its critical section cannot block) and then receive, send, return. `log`,
`joined`, `delivered` are history variables. Nothing ever leaves `events`, as
in the code.

**Statistics.** A slot is a channel of capacity 1. `addByConsumer` and
`addByMethod` share their steps: `Lock`, and per slot the look (`PeekEmpty`,
`PeekFull`), the receive (`Take`, which blocks on an empty slot) and the send
(`Put`, which blocks on a full one), then `Unlock`. `Statistics` ticks, receives
(`Collect`, without the mutex) and sends. A `Stat` is one function over
consumers and methods. `due` and `sent` are history.

**Server.** `callPc` says where an RPC is: not issued, in the interceptor
(`auth`), turned away, or in its handler. The steps of the two components are
guarded by it: the log first, then the statistics, then `CheckACL`. The rules
come from a set `ACLs` of possible ACL contents, chosen by `Start`. `StreamClose`
is the end of a stream's transport: the client cancels, the network fails, or
Stop closes it. grpc is external: modelled is that each RPC has a goroutine,
that `Stop` closes transports and does not wait for handlers, and that `Send` on
a closed stream fails.

**Pipeline.** Every goroutine of the code has a control variable; workers are
numbered in the order their values come in. Waiting for a wait group, a channel
operation and a compare-and-swap are guards. `waitCh` and `quotaCh` count tokens,
as the code uses them. The parameterless goroutines that `MultiHash` starts in a loop only fill a slot
of their own and count down, so that starting them is one step. Checksums are
terms, so that equal means made in the same way; the joined string is the
sequence of its parts. The first and last job come from `TestSigner`, those of
`ExecutePipeline` from the tests as well.

**MyApi.** Each client is an HTTP request on its own goroutine. `Check` is the
handler from `ServeHTTP` to the call, a function of the request; then every
lock, map access, counter access and unlock of `Profile` and `Create` is a step
(`ProfileRLock` ... `CreateUnlock`), with `nextID++` as its read and its write.
A pointer to a user is its login: `ProfileReturn` reads the user behind it
after the unlock, as `json.Marshal` does. In `UserStore` a request takes effect
in one step; the outcome of a creation is settled when the user is in the map,
that of a profile when it is looked up. Texts are model values
with the length, number, decoding and "=" that the code asks of them.

**DB explorer.** `NewDbExplorer` reads how much of the schema it may (`Reads`): nobody
asks `rows.Err`, so a connection lost on the way leaves a part of it as the model that is
served, or it fails. `Receive`
takes a request up to its statement: `Route` is the two unanchored patterns in the order
of `ServeHTTP`, `TableName`, `EntryTable` and `EntryId` are how the handlers
take the path apart. Each statement is one action, which fails, or takes effect
at once and may lose its reply (`Returns`); `failed` remembers that the database failed a
request. Names of tables and, in a POST, of fields go into the statement as they were sent.
When they are names that were read (`Exact`), the action says what the statement does; of
others it says that MySQL refuses them or makes of the database one of the `Outcomes`
(`OtherStatement`, `OtherRows`), for they may mean another table, another column or
several rows. A list is selected at once (`ListQuery`), read row by row into
the one buffer `vals` (`ListScan`), and answered at its end or when its connection is lost
(`ListEnd`, `ListLost`); a row with more columns than the model has fields is a panic
(`ListScanPanics`). A record refers to the buffer
where the code keeps the pointer. `held` counts the connections whose rows are
open, `left` those that no handler will close any more.

**Algorithms.** A program without lasting state is one operator from its input to
its result, with the internal order kept where it decides the result: the record
reused by `FastSearch` is threaded through the lines, `i2s` is the set of results over
the orders of a map. `FindUsers` is the set of results a call can have: the server's
answer, or any failure that the client tells apart. Around it is a caller: `Choose` takes a first request,
`TurnPage` calls for what follows the users shown so far, as long as there is another
page. A server holds its users in a sequence;
`Ordered` is some permutation of them that sorts, since `sort.Slice` is not stable. The loops of
`Search` are recursive functions over the lines, the members of a line and the browsers of a user.

## Runs

| run | instance | question |
|---|---|---|
| `MCEventLog` | 2 loggers and 2 calls, capacity 2 | are streams exact, does the log implement `Broadcast`, does recording end and reach clients |
| `MCEventLogGone` | the same, capacity 1 | *violation*: both connected loggers get the log (hw7.md:19) |
| `MCStatBoard` | 2 statistics clients and 1 call | are counts conserved, is the lost race final and the only way to hang |
| `MCStatBoardWedged` | 2 clients, 1 call | *violation*: each connected client is sent the statistics (hw7.md:19) |
| `MCMicroservice` | a logger, a statistics client, a unary and an anonymous call; two ACLs | order of record, count and check; mutexes; subscriptions; both refinements |
| `MCMicroserviceFair` | a logger with a statistics client and a unary call, or with three unary calls; capacity 1 | do calls proceed, what stays after Stop |
| `MCMicroserviceLeak` | a statistics client, a unary call | *violation*: nothing is left running after Stop (service_test.go:83) |
| `MCExecutePipeline` | 4 jobs, 0 to 4 values, pipes of 2, all combinations of early returns | order, closing, flow, return, and when the pipeline blocks |
| `MCSigner` | inputs `<<2, 1>>`, 2 helpers per value, pipes of 1 | the result, all safety of the three jobs, refinement of each, flow and return |
| `MCDbExplorer` | 2 clients, any number of requests each; tables `items` and `itemsold`, 2 ids each; schema whole or cut; 2 lists read at once | does a statement of read names change one row, are answers true, what does a list show, which rows stay open |
| `MCDbExplorerExact` | the same, lists and deletions only | *violation*: an error is answered 500 (hw6.md:26), a list shows its rows as stored |
| `MCAlgorithms` | 3 clients, each with any of 11 requests over four logins; or one of about 75 000 inputs, 7 pages at most | does MyApi implement `UserStore`, is what was created found, is every request answered; generated handlers, pages, searches, conversion and tree against their references |

Why these bounds. In the log an event meets a logger that registers before,
during and after it; two loggers make the order of sends and a partly served
list possible, and capacity 1 or 2 with up to three events per
logger makes channels fill up: a larger one only postpones it. On the board one slot already has all of
its protocol; the second one makes a client depend on another's, and three calls
(the clients' own RPCs are counted too) make a slot go through empty, full,
collected and refilled. In the server one call of each kind meets each other
kind at each step. The first RPC of a stream is itself recorded and counted
before it subscribes, so that every call in the instance matters. In `MCMicroserviceFair`
three calls may come once the logger is in its handler. If its stream has closed, the handler takes one
event and returns, a second event fills the channel, and the send of the third waits for
good under the mutex: without the premise that no logger's stream closes `CallsProceed` is
violated there. Three calls and the statistics client do not meet in this run: `OneSide`
in `MCMicroservice` keeps some arrivals away (no call is ever forced to come), because
TLC cannot check liveness on all of them together in reasonable time.
In the pipeline four jobs have a first,
a last and two neighbours in the middle; capacity 2 and up to 4 values lie on both
sides of the border that `LeaverBlocks` draws. Two inputs, given in the order in
which sorting must change them, give two workers that compete for the quota and
finish in either order. The capacities 1000 and 100 of the code and the six
helpers of `MultiHash` are parameters. In `MCAlgorithms` three clients of `UserApi` let two requests of any kind
meet while a third holds or waits for the mutex; the requests hold two creations of one login,
one whose login is percent-encoded, one cut at a second "=", one that Create
refuses, one without X-Auth, and profiles by GET, POST and PUT. `MCDbExplorer`'s first table
has a column of every kind that the code tells apart (key, int, text, each NULL
or not) and rows with and without NULLs; the second one's name is the first one's with more
letters, so that `PUT /items/old` and a path in another order meet it. Its requests hold paths
that are no table's name but match (`/items%20`, `/x/items/1`), a body with the key in another
case, and bodies of null and of wrong types. One client writes while the other
reads a list; an id that was deleted can be given again, and `MaxHeld` 2 connections can have
open rows. The clients are symmetric, and the run uses that. The inputs of `MCAlgorithms` lie on both
sides of every comparison in the code: lengths 9 and 10, ages -1, 0, 128, 129, limits below, at and above the
maximum (2 instead of 25), up to five users (so that 7 pages are more than it takes, but for a limit of 0), files of up to three lines that lack a field or have one of a wrong type before, between or after the others, trees three levels deep. The server of MyApi is one initial state, the inputs are another.
`CHECK_DEADLOCK FALSE` is set in all runs: calls and inputs are finite there and
everything ends (in `MCDbExplorer`, when `NewDbExplorer` fails; a caller of `FindUsers` with its last page, a pool whose `MaxHeld` connections all have rows left open). `MCDbExplorer` says
nothing of progress, and so needs no fairness.

### What the properties say

*Log*: `StreamExact` (what a logger got, holds and has queued is exactly the log
since it joined), `RecordedForAll` (at Unlock, everybody registered has it),
`KeepsBroadcast`, `AddEventReturns` and `LogReachesClient` (both under the
condition that no logger's stream closes, since otherwise they are false:
`MCEventLogGone`).
*Statistics*: `Conservation`, `PutNeverBlocks`, `WedgedForever` (once Statistics
takes the Stat that a counting call has seen, the board hangs in every
continuation), `CountingReturns` and `StatReachesClient` (otherwise it never
hangs).
*Server*: `Audited`, `OneMutex`, `OnlyAllowedSubscribe`, `LogAndBoardAgree`,
`CallsProceed` (while no logger's stream closes and the race is not lost, from some time on
no call is in the interceptor), `OnlyReceiversStay`.
*Pipeline*: `InOrder`, `LeaverBlocks`, `FreeFlow`,
`PipelineReturns` for the runner; `NeverOverheats`, `JoinWaits`, `NoPanic`,
`KeepsJobs` and `ResultExact` for the signer. `KeepsJobs` is the specification
of all three jobs and of the abstract `Stage` for the first two.
*MyApi*: `KeepsUserStore` (concurrent requests are answered as if each took
effect at one instant), `CreatedIsFound` (a profile asked after the creation was
answered is shown, if both requests carry the login alike), `EveryRequestAnswered`.
*DB explorer*: `WritesNamed` (only a PUT, POST or DELETE being executed changes the
database, whatever it is answered, and if its names are names that were read it changes one
row, of it only the fields sent, never the key), `AnswersTrue` (for such names and unless
the database failed, the answer says what the statement did), `ListShown` (all rows of
one moment, unless the connection was lost, with their numbers and texts, but for NULLs and
empty texts), `RowsClosed` (a failed Scan and a panic leave rows open, nothing else). What
they leave out, a failed request, a cut list, NULL and the empty text, is what
`AnswersExact` asks of the code, which does not keep it: `MCDbExplorerExact`.
*Algorithms*: `HandlersAsGenerated`, `PagesComplete`, `SearchesAgree`,
`ConversionExact`, `TreeDrawn`. `SearchesAgree` speaks of complete lines, in which the three
fields that are printed are there and no field that the decoder knows has a wrong type; of
these `FastSearch` prints no user that `SlowSearch` does not, and it leaves out only those
whose every MSIE browser names Android too and is new.

`ResultExact` has a condition, `InTime`. Two races of the code can spoil a
result: `waitCh` does not wait for a helper that has not started when its worker
comes to it (signer.go:60), and `make([]string, len(in))` counts results that are
queued before `CombineResults` starts (signer.go:103). Both need a goroutine to
stay unscheduled for a second or more, and the model, which has no time, has them.
`ResultExact` says that nothing else can go wrong, and that even then there is
one part per input; `JoinWaits` says what the wait does guarantee.

Left without a property: a tick between `addByConsumer` and `addByMethod` sends a
`Stat` that counts a call in one map only (service.go:157).

What the properties of the other parts allow, because the code does it:

* a failed DELETE is answered 200 (db_explorer.go:497); a `Scan` that fails and a panic at
  line 139 keep their connection for good; a connection lost in the middle of a list ends it
  as if it were complete (130), one lost while the schema is read cuts the schema (46, 71);
* in a list, a text that is empty or NULL is shown as the bytes of that column in
  the last row (144), and a NULL number as 0, which a single record leaves out;
* `PUT /items/old` writes the table `itemsold` (257); a POST with the key in another case
  changes the key (364, 398); fields that the table lacks are dropped from a PUT but sent to
  SQL by a POST, which fails (397);
* a login sent in a POST body is not percent-decoded, one in a URL is
  (api_handlers.go:178), so that a profile asked for by URL may miss a user created by POST:
  `CreatedIsFound` leaves these logins out; any X-Auth header that is not empty passes, where
  hw5.md:37 names the value `100500`;
* `FastSearch` overlooks a user if its MSIE browsers are new and have both names
  (fast.go:200-207), and takes a field that is absent, or that comes after one of a wrong type
  (77-88), from an earlier line;
* `FindUsers` accepts a limit of 0, with which turning the pages never ends; the tests'
  `SearchServer` truncates before it sorts and skips, so that only the first page
  of it can be trusted;
* a failed `i2s` leaves behind the fields it had set, which depends on the order
  of the map.

### Findings

The four violation runs are disagreements between the code and what hw6.md, hw7.md or
the tests say, listed under `findings`: a logging client that stays connected
is starved by one that left; a statistics client by the lost race; Stop leaves
Statistics and Logging goroutines behind; and a failed DELETE is answered 200. TLC stops at
the first counterexample, so that of what `AnswersExact` forbids the trace shows one case;
the others (a cut list, NULL and the empty text), the open rows, the loosely matched paths
and names of the DB explorer, the two ways in which `FastSearch` differs from `SlowSearch`
and the X-Auth header are findings without a run of their own.

### Fairness

A goroutine that can run does run: weak fairness of each goroutine's steps.
Nothing is assumed of the callers: RPCs, cancellations, the end of the context
and the first job's next value may never come. That a client reads from an open
stream and that ticks come is assumed (a send on an open stream returns). Go's
mutexes and channels are fair to waiters; weak fairness is enough here because
each goroutine takes a mutex a bounded number of times, so that it is contended
only finitely often. In `Signer` every step brings some goroutine forward for
good, and one weak fairness condition on all steps but the first job's suffices.
In `UserApi` each goroutine is fair, and whether a request comes is open; a
request takes the mutex once, so that the others delay it finitely often.

## Proofs

TLAPS proves, for any number of calls, loggers, clients, jobs, values and helpers, any
rules, any requests and any capacity, from the modules' named assumptions alone: sets
of calls, disjoint names, at least two jobs, capacity at least 1; of `DbExplorer`
what is listed below; of MyApi that parameters are sequences of texts
(`RequestsAssumption`) and that "" and "bad_user" are as short as they are
(`TextsAssumption`), and of the generator what `strings.ToLower` makes of the fields' names
(`LowerAssumption`); of the search client that users and requests have their types
(`CasesAssumption`); of the signer that its results are ordered as texts are
(`OrderAssumption`).

* `EventLogProofs`: `TypeCorrect`, `MutexCorrect`, `RegistryCorrect`,
  `StreamCorrect`, `RecordedCorrect`, `BroadcastImplemented`. `StreamExact` is not
  inductive: it needs to know how far the mutex holder is in the list
  (`MutexInv`), that the list holds each logger once (`RegistryInv`), that no call
  is logged twice (`LogInv`), that a logger joins with the whole log published to
  it (`JoinedInv`) and that nothing reaches it before (`FreshInv`). `IInv` is
  their conjunction. The control part is proved action by action, then the
  stream part, with lemmas on subsequences (`SegmentStable`, `SegmentGrows`,
  `MoveHead`). The refinement follows from the same invariant: only `AddEventLock`
  publishes, only `LoggingSend` delivers, all other steps stutter.
* `StatBoardProofs`: `TypeCorrect`, `MutexCorrect`, `PutCorrect`,
  `CountsConserved`, `WedgeIsFinal`. `Conservation` splits what is owed into what
  was sent, is in the handler's hand, in the slot, in the mutex holder's hand and
  still to come; every action moves at most one unit between two of them. It needs
  `PutNeverBlocks` (a slot about to be filled is empty) and the control invariant.
* `MicroserviceProofs`: `EventLogKept`, `StatBoardKept`, `AuditHolds`,
  `OneMutexHolds`, `SubscriptionsAllowed`. First the composition refines each of
  its components (`ComponentStep`: every action of the service is a step of the
  log or a stutter, and likewise of the statistics; `OpenInv` is needed because
  the end of one stream's transport is a step of one component only). Then what is
  proved of the components holds in the service without another proof
  (`LogHolds`, `BoardHolds`). On top of it `Control` ties the place of each RPC
  to its state in the two components; it is shown once for a step of one call
  (`Moves`, `MoveControl`) and once per action. `LogAgrees` compares the sizes of two
  histories: its invariant `AgreeInv` bounds what a client is owed by the calls
  of the log that have entered `addByConsumer` (`Entered`, `Since`).
* `ExecutePipelineProofs`: `TypeCorrect`, `OrderCorrect`, `ClosingCorrect`,
  `LeaverCorrect`. The inductive invariant adds that `wg` counts the goroutines
  that have started and not called Done (`RunnerInv`), who can have taken and given
  how much (`CountInv`), and that a job that ranges behind jobs that range returns
  only with everything passed on (`DrainInv`). With `RunnerInv` the wait group's 0
  means that all jobs are done; `LeaverBlocks` follows from `DrainInv`, `CountInv`
  and the capacity.
* `SignerProofs`: `JobsTypeCorrect`, `QuotaAdmitsOne`, `LeftSideSettled`,
  `ClosedLast`, `JobsKept`, `ResultCorrect`. `SingleHash` and `MultiHash` have an
  invariant each (`SHInv`, `MHInv`), kept by every step of their own
  specification. `Glue` is what the composition adds: a job closes its pipe
  after it has returned, a reader stops at the end of a closed pipe, and what was
  sent is what was taken followed by what is queued. With it every step of the
  whole is for each job a step or a stutter (`JobsStep`), so that the three
  together are inductive. For the result, `CRInv` says what `CombineResults` has
  collected; once it has sent, everything has arrived, the workers' numbers are
  bijections, and their composition leads from each part to its input (`Origin`).
  `sort.Strings` is taken by its contract: some ascending arrangement of the
  parts, which exists (`SortedExists`).
* `UserApiProofs`: `Invariance`, `MutexCorrect`, `StoreImplemented`, `CreatedFound`, for any number of
  clients and any requests. `IInv` is the type invariant, what each place of a
  goroutine says of its request (`RequestInv`: the verdict is that of `Checked`, an
  answer is not given yet), the mutex (`MutexInv`: one writer, or readers, and who
  is where), and the store (`StoreInv`: every id is below `nextID`, and what a
  creator knows under the lock: its login is not in the map, its id is new).
  Each of them is shown for every action. For the refinement each action is a step of
  `UserStore` (`AskStep`, `CheckStep`, `LookupStep`, `ExistStep`, `InsertStep`)
  or changes nothing that `UserStore` sees (`HiddenStep`, which for
  `ProfileReturn` needs that users are never changed or removed). `CreatedFound`
  needs `KnownInv` (a creation that was answered is in the map, under the login that a
  profile asks for), and lemmas on the parameters of both requests, down to the
  first of several values of one name (`FirstPlace`, by the well-foundedness of
  the numbers). An earlier form of the property said something else than meant
  for a URL in which the name of the parameter is encoded or has no value; the proof
  brought that up, and the property now goes by what a handler reads (`SentLogin`).
  `HandlersGenerated` compares the kept handlers with the generated ones for any request.
  For each kind of field that `api.go` declares a lemma says what is read and which error
  is found (`RequiredField`, `LengthField`, `FreeField`, `ChoiceField`, `NumberField`). The
  generator stops at the first field that is wrong, the kept validators at the first check that
  fails: for fields in the same order the two are the same (`FourFields`, `CreationChecked`).
  Then come the guards of a handler (`PostHandled`, `AnyHandled`) and the switch over the
  URLs (`ServedOne`, `ServedNone`).
* `DbExplorerProofs`: `TypeCorrect`, `ConnectionsCorrect`, `WritesCorrect`,
  `AnswersCorrect`, `ListsCorrect`, for any schema, rows and requests, whatever part of the
  schema is read and whatever MySQL makes of names that were not read, and any finite number of
  clients. `IInv` says that the model holds the first columns of some tables
  (`ModelInv`), that a request with a statement passed the checks of its handler
  (`RequestInv`), that the database is one of the schema (`RowsInv`), and how many rows are
  open (`HeldInv`). `Inserts`, `Updates` and
  `Deletes` say what each statement of read names does to the tables and answers. From them
  follow both the invariance of `RowsInv` and the two action properties
  (`WriteStep`, `AnswerStep`). `ListsCorrect` needs `ListInv`: what is recorded of a
  list and what is left of it make up what it has selected (`Progress`), and the buffer
  holds the last row read; a record exists only where the table was read whole, for otherwise
  the first row was a panic. `NthFacts` counts the rows of a table in the
  order of their ids, `ShownCell` follows one cell through the buffer; a step of one client
  leaves the lists of the others alone (`OnlyOwn`, `SameClient`). `SchemaAssumption` is that a table has one
  auto_increment key and distinct column names, `RowsAssumption` that the database at
  the start is one of this schema (`IsDatabase`), `ReadsAssumption` that tables and columns
  are read in their order, `RequestsAssumption` that a path is cut at its slashes and limit and
  offset are numbers where they can be read, `ValuesAssumption` that the clients are finitely
  many and the bounds numbers.
* `AlgorithmsProofs`: of `FindUsers` `PagesCorrect`, `OrderedSorts`, `MatchingPicks` and `EveryUserShown`, for
  any users, request, limit and number of pages, and any failures. `Inv` adds to `PagesComplete` that what is shown is a sequence
  and that without a page nothing is shown. `ResultOf` and `CallOf` say what a call makes of
  an answer, `PageLengths`, `AnswerIsNext` and `PageAppended` how long the answer of a server that pages is,
  that it is what was wanted next, and that with it the pages are again a beginning of what
  is wanted. For the first page of the tests' server, `SortedEnough` says when sorting what
  it has found so far is the same as sorting all: if nothing is sorted (`AsIs`) or all fits.
  `PagesComplete` speaks of `Ordered` and `Matching`; that these are what their names say is shown
  apart (`SomeSorting`: a sorting exists), and then that whoever turns all pages sees each matching user once.
  Of `Search` `SearchesCorrect`, for any file: that its recursive functions exist is an
  induction (`LeastNumber`, `Climb`) for each of them; then what one browser, one member and one line do
  (`DecodeComplete`, `FastLineComplete`, `SlowLineComplete`), that what was found only grows, line by line
  (`ListingGrows`), and by induction over the lines that the two listings agree and that a user is left out only
  where no MSIE can be noticed (`TogetherAlways`, `HiddenInLine`), that a
  file of complete lines does not panic and that both count the same browsers.

Deadlock. ENABLED is out of the prover's reach, so these theorems spell out the
guards of the steps: in every reachable state with something left to do one of
them holds. `PipelineNeverStuck` takes the last running job that has something to read,
or else the first running one; `SignerNeverStuck` adds who holds the tokens and the flag.
`RequestsMove` (MyApi) follows from who holds the mutex. In the microservice something can
block for good, and the theorems say that nothing else can: `OnlyGoneLoggersBlock` (only a log
handler that has returned because its client has gone) and `CountingMoves` (only the lost
race on a slot).

Only model-checked: all liveness properties, including the progress that uses
fairness (the prover has no rule for liveness under fairness or for ENABLED), and
the conversion and the tree, which are recursive in nested data (RECURSIVE operators in
`I2S` and `DirTree`). The `TypeOK` of the log, the statistics, the pipeline, its two
hashing jobs and the DB explorer, and `ClosedByWriter` (a pipe is closed once, by
the job that writes it), are proved and in no run; that of the other modules only
documents their variables.

## Not modelled

* `time.NewTicker` panics for an interval that is not positive, and
  `regexp.MustCompile` for a rule that is no expression: both end the process.
* Checksums' bits and the time they take; the sleep between two attempts of
  `OverheatLock`.
* The generated gRPC code (`service.pb.go`): marshalling and dispatch tables; the
  course's example generator; vendored libraries. The easyjson encoder in
  `fast.go`, which nothing calls.
* MySQL beyond what the statements of `DbExplorer` do in it. Assumed are: the primary key of
  a table is an
  auto_increment int; an int column's type is reported as "int" (MySQL 8.0.19 and later);
  whatever a statement of other names does, the rows keep the columns of their table and its
  key. Of the rows that such a SELECT gives it matters only that there are some: the model has
  no fields for them, and the first one is a panic. A connection that is
  used is one of an unlimited pool: requests that wait for a free one are not modelled.
* The panic of `FindUsers` for a client whose URL cannot be parsed (client.go:99-100).
* net/http, but for: one goroutine per request, and a panic breaks the connection.
