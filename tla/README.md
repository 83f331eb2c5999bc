# A verified model of go-app

`go-app` is a Go application framework: an application is a list of plugins
(constructors given to [fx](https://github.com/uber-go/fx)), and each plugin
wraps a server, a queue consumer, a client or a cross-cutting concern and ties
it to the fx lifecycle. This directory holds TLA+ models of the parts that run
concurrently, the TLC configurations that check them on small instances, and
proofs, checked by TLAPS, of what matters most about them for instances of any
size.

Paths and line numbers below are relative to the repository's `src/`.

## 1. The system

### Components, their state and operations

| component | state | operations | interacts with |
|---|---|---|---|
| application core (`app.go`, `plugins/plugins.go`) | list of constructors, shared registry slice | `SetPlugins`, `AddModule`, `Run`, `Validate` | every plugin registers itself from `init`; fx builds them, then runs OnStart hooks in order of construction and OnStop hooks in the reverse order |
| SQS topic manager (`plugins/sqs/topic.go`) | region, map of topics (no lock) | `SetRegion`, `AddTopic`, `RemoveTopic`, `GetTopic`, `GetTopics` | application code, SQS worker |
| SQS worker (`plugins/sqs_worker`) | context, WaitGroup, flags `enabled` and `started`, one handler, a channel of batches | `Register`, `Serve`, `Shutdown`; goroutines `messageLoop`, handling loop, one per message | topic manager, SQS, the application's handler, fx |
| Pulsar client holder (`plugins/pulsar/pulsar.go`) | embedded client, nil until connected | `Connect`, `Shutdown` | managers below, fx |
| Pulsar consumer manager (`consumer.go`) | consumers by label, `IsStopped`, context, WaitGroup, mutex | `AddConsumer`, `Start`, `Shutdown`; one goroutine per consumer | client, broker, the application's handlers (which may call back), fx |
| Pulsar producer manager (`producer.go`) | producers by label, mutex | `AddProducer`, `Producer`, `Shutdown` | client, application, fx |
| Pulsar backoff (`backoff.go`) | current delay, bounds; one default object | `Next`, `IsMaxBackoffReached` | reconnecting goroutines of the Pulsar client |
| gRPC server and presets (`plugins/grpc`) | server, listener, global options | `Configure`, `Serve`, `Shutdown`, `SetListener` | fx, interceptors |
| gRPC interceptors | none; a goroutine per call | deadline, recovery, request log, reporting to New Relic and Sentry, trace id, locale | each other, in the order of the preset |
| Kitex server and middlewares (`plugins/kitex`) | exit channel, WaitGroup, middlewares | `Configure`, `Run`, OnStop with polling | kitex, fx |
| redactor (`common/redactor.go`) | filters | `AddFilters`, `Redact` | request log |
| Pyroscope agent | config, profiler | `Configure`, `Start`, `Stop` | fx |
| common helpers, env, logger, agents of external services, dead letter policy, fx event logger | little or none | pure or I/O | |

### What is hard in it

* The SQS worker and the Pulsar consumer manager each coordinate a shutdown
  with goroutines through a flag, a context, a WaitGroup and (Pulsar) a mutex,
  four mechanisms read at four different times.
* Handlers are application code: they return errors, panic, never return, and
  call back into the plugin that called them.
* Queues redeliver. A process may end between the verdict of a handler and the
  message's removal from the queue.
* The deadline interceptor of the gRPC server moves a call's handler to a
  goroutine of its own, abandons it when time is up, and so decides what the
  interceptors outside it see, what recovery protects and what a graceful stop
  waits for.
* Some state is shared without a lock: the topic map, the flags, the default
  backoff policy, and the array behind `plugins.Registry`, which the applications
  of a process append to.
* What runs when is fx's choice within the dependencies of the constructors:
  which hook comes first, and which hooks a failed start has already run.
* The redactor decides at every level of a value again, with three lists of
  filters and through pointers, interfaces and unexported fields.

### What makes the parts correct

* Queue consumers: a message leaves the queue only after an attempt that
  accepted it (`AtLeastOnce`); no duplicate is made inside the process; a
  shutdown that returns has left nothing behind; a shutdown returns; what was
  received is handled.
* Backoff: delays within the documented range.
* Servers: every call is answered, with what its handler did or with the fact
  that time was up; a panic does not end the process; log and reporters tell
  what the caller was told; after a graceful stop no handler is at work but those
  whose time was up, and none begins (`GracefulService`); stopping comes to an end.
* Applications: they keep the constructors they were given; a label has one
  producer; producers are closed before their client; a process that exits in
  good order leaves nothing open; stopping ends.
* Redactor: at every place in a value the filter that should decides what is
  seen; a filter more never shows more.

`PROJECT.json` lists the hazards behind these, each at its line, with the
properties that cover it or the reason none does.

## 2. The modules

| module | models | notes |
|---|---|---|
| `AtLeastOnce` | the promise of a queue consumer | abstract; implemented by both consumers |
| `GracefulService` | the promise of a stop: no job is at work after it but overdue ones, and none begins | abstract; implemented by `GrpcServer` and `PulsarConsumer`, and by `SqsWorker` under a condition |
| `SqsTopics` | `plugins/sqs/topic.go` | extended by `SqsWorker` |
| `SqsWorker` | `plugins/sqs_worker/worker.go` with a queue, the application and fx | |
| `SqsWorkerProofs` | theorems about it | |
| `PulsarServer` | `plugins/pulsar/pulsar.go` | extended by `PulsarConsumer` and `PulsarProducer` |
| `PulsarProducer` | `plugins/pulsar/producer.go` with callers and a broker | extends `PulsarServer` |
| `PulsarConsumer` | `plugins/pulsar/consumer.go` with a broker, handlers and fx | |
| `PulsarConsumerProofs` | theorems about it | |
| `Backoff` | `plugins/pulsar/backoff.go` and its sharing (`consumer.go:95-97`) | |
| `BackoffProofs` | theorem about it | |
| `GrpcCall` | a unary call through the interceptors of `plugins/grpc/presets`: `interceptors/*.go`, `error.go` | extended by `GrpcServer` |
| `GrpcServer` | `plugins/grpc/grpc.go` under the hooks of a preset, with calls and fx | |
| `GrpcServerProofs` | theorems about it | |
| `KitexServer` | `plugins/kitex/kitex.go`, its preset and `middlewares/*.go`, with kitex's Run and fx | |
| `KitexServerProofs` | theorems about it | |
| `AppRegistry` | `app.go` up to Run, `plugins/plugins.go` | |
| `Pyroscope` | `plugins/pyroscope/pyroscope.go` | |
| `Application` | `app.go`'s Run, fx's lifecycle | composes `AppRegistry`, `PulsarProducer`, `Pyroscope` |
| `ApplicationPartsProofs` | theorems about the registry and the producers | |
| `ApplicationProofs` | theorems about `Application` | uses those about its parts |
| `Redactor` | `common/redactor.go` | recursive functions over finite trees |
| `RedactorProofs` | theorems about it | |
| `MC...` | constants of the instances TLC checks | |

### SqsWorker

State: the fields of `AwsSqsWorker` (`enabled`, `started`, `cancelled` for the
context, `wg`, `handler`), the calls of `Register` that are past their checks
(`registering`), the topic `Serve` found (`served`), the program
counters of the two loops (`ml`, `hl`) and of the goroutine of each message
(`task`), the batch being sent, the channel, and, outside the code, the state
of each message in SQS. `main` is the goroutine in which fx calls `Serve` and
`Shutdown`. Two history variables: `accepted` (the latest verdict) and
`expired` (a receipt that timed out).

Actions: `Serve` and `Shutdown` are cut at every point where another goroutine
can see a difference: the spawning of the loops and `w.started = true`
(`MarkStarted`), lowering the flags, cancelling, waiting, waking up. The
increment of the WaitGroup is the first step of each loop, as in the code.
The panic of a WaitGroup that is reused while a waiter wakes up is
`WaitPanics`. `Crash` ends the process at any point; besides an outside kill it
stands for what the code cannot survive: a handler that panics with a value
that is no `error` (worker.go:114 panics again) and concurrent accesses to the
topic map. `Register`, `SetRegion`, `AddTopic` and `RemoveTopic` may come from
application code, in any goroutine, at any time. `Register` takes no lock and is two
steps: the check of `started` and of the region (`RegisterCheck`, worker.go:170-178),
and, whatever the worker has done meanwhile, the topic and the assignment of the
handler (`RegisterHandler`, 181-182). What others may do between these two statements
they may as well do next to them, because the application adds and removes the same
topics. A receive answers with any set of visible
messages, the empty one included, which is sent on like any other. The plain
booleans are read and written as if atomic: the loop that reads `enabled` makes
calls in every round, so it is read again in each.

Not told apart: bodies, receipts (a delete with an old receipt is accepted by
SQS), the topic's ARN, which topic object under a name.

### PulsarConsumer

State: the fields of the manager (`stopped`, `cancelled`, `wg`, `filed` for the
map by label), the subscription of each consumer, the client, the program
counter and the held message of each goroutine, and the broker's state of each
message. `late` counts the messages a goroutine was given after `IsStopped`.

The mutex is held by `Shutdown` across its wait, which is what makes it visible
(`MuHeld`); every other critical section is one action. Handlers return nil or
an error, panic, or call `AddConsumer`. `AddConsumer` files over a consumer of
the same label, whose goroutine and subscription live on. `ServerShutdown` is
the hook of the client holder, which is built first and stopped last.

### Backoff

Each access of the shared `b.backoff` is a step, so two calls interleave as the
Go memory model lets them on the supported platforms (a word is not torn).
Durations are small numbers. The minimum left at zero takes the default's.

### GrpcCall and GrpcServer

`Chain` is the list of interceptors of a preset; the presets differ in the
reporters between the request log and the deadline, which are the constant
`Reporters`. A call is at one position of the chain (`pos`), on its way down, in
the select of the deadline interceptor, or on its way up with a result. The
goroutine of the deadline interceptor (`task`) has a position of its own in the
rest of the chain. `sent` is what it has put into `resCh` or `errCh`, which have
room for one; `expired` is `innerCtx.Done()`. An error is an expected
`ApplicationError` or not, which is all the reporters look at; recovery makes an
unexpected one of a panic (recovery.go:44). A handler returns, panics, calls
`runtime.Goexit`, or stays where it is. History: `outcome` (what the handler
did) and `noticed` (what each observer wrote about the call).

`GrpcServer` adds the listener, the goroutine `Serve` starts and the lifecycle.
`Shutdown` and `Bye` are the two ends of `GracefulStop`, which waits for the
server's goroutine of each call and knows nothing of the one that the deadline
interceptor started. `Exit` in state stopping is fx giving up on a stop that
takes longer than its 15 seconds. grpc-go itself is external: it starts a
goroutine per call, recovers no panic, refuses `Serve` after a stop.

Not modelled: health checks (which the request log passes in silence), the
attributes and headers the interceptors attach, streams (the presets chain unary
interceptors only), and the package variable of options.

### KitexServer

State: `configured` (the fields `server` and `kitexExit` are set), the exit
channel (`kitexExit`, the number of signals in it), the WaitGroup, the goroutine
that OnStop starts (`poller`), and, outside the code, where kitex's `Run` is and
whether its private field `svr` is set. `Run` is taken from how the code uses it
and from the place in kitex that the comment at kitex.go:91 names: it sets `svr`
before it listens, waits for the exit signal, and clears `svr` when it stops; a
failure in between leaves the field as it was. `Poll` is the one round of the
loop that changes anything, the one that finds nil; it can come before `Run` has
set the field, so "Bye" (`Bye`) may precede the server. `OnStart` of a server
that was never configured ends the process (a nil interface, kitex.go:79).

`SetMiddlewares` may come before or after `Configure`, which copies the list
(`chain`) for kitex: fx decides when it builds the preset.

A call goes down the list (`pos`) to the deadline middleware, waits in its select,
and goes up again with the answer; every middleware returns what the next one
returned. `traced` says which of them found the trace id in the context, `noticed`
what the request log and New Relic wrote. The goroutine that runs the endpoint
(`endpoint`) writes the response object it shares with the caller (`written`) and
then puts one value into one of two channels (`sent`). The endpoint may return an
error before it has written, or never return. Its panic is an error, because kitex
recovers it inside the endpoint.

### AppRegistry

State: the arrays behind slices (`arrays`, the first of them the array of
`plugins.Registry`, with or without spare room) and the slice each application
holds, an array and a length. `NewApplication` copies the slice; `AddModule`
appends twice, each time into the array where it has room, and into a new array
with some room to spare where it has not. `given` is the history of what an
application was given, `appended` of who wrote into the registry's array. The
library that lays modules over each other here is Go's `append`.

### PulsarProducer

State: the map by label, the mutex, and where each caller is in `AddProducer`. The
mutex is a variable because it is held while the broker answers
(`BeginCreate`, `Created`, `CreateFails`); every other critical section is one
action. `open` are the producers the broker has open. The checks of topic and
label return errors and change nothing; they are in the choice of the label. The
client is read without the mutex, as in the code, and only once. `Shutdown`
closes what is filed, and leaves it filed. A second `Connect`, which would replace
an open client, is left out.

### Pyroscope and Application

`Pyroscope` is the agent's configuration and its one field for a profiler, which a
second `Start` overwrites. `Application` puts the registry, the producer manager,
its client holder and the agent under the lifecycle fx gives them: modules are
added, `Run` has fx provide the list and construct what is needed, dependencies
first and otherwise in any order, the functions given to Run are called, the
OnStart hooks run in the order of construction, and the OnStop hooks in the
reverse order after a signal or, for those that had started, after a failed
OnStart. `Needs` and `Demand` are the dependencies. fx is external: its behaviour is taken from how
`app.go` and the hooks use it. `Application` (the action) and `Caller` are the
application's own code: it connects the client, configures the agent or starts
it by hand, and asks for producers, before, while and after hooks run.

### Redactor

State: the filters `AddFilters` was given (`given`), the three lists it files them
in, and the latest value with what `Redact` made of it. A value is a tree of
structs, maps, lists, pointers, interfaces, nil pointers and leaves; a leaf is an
identity and a number of runes, a name is a word and the style it is spelled in
(camel, snake, kebab), so `strcase` and `EqualFold` are modelled by what they tell
apart. Of the value `Redact` returns, the model keeps what can be read in it
(`Outcome`): the leaves that are shown, those that are masked and how, and whether
anything was redacted, the boolean `redact` returns and rebuilds values by.

`redact` and `PartialRedact` are the code's recursion, written as recursive
functions over nodes and places; the body of each is an operator that takes the
function itself as `again`, so that its cases can be named in a proof. `Init` is the
package's `init`, which adds the default filters one by one, or an empty redactor.
The trees are finite (`Depth` bounds them): a value that leads back to itself the
code would follow until its stack overflows. Two leaves of a value never have the
same identity (`LeavesAssumption`): a value that two pointers share is in the tree
twice, as the walk meets it twice, and its leaves are told apart by where they are.

The properties are stated over the trails that lead to the places of a value
(`Trails`), in terms of the filters as given and not of the three lists
(`Wanted`), which makes them a definition independent of the walk.

`AddFilters` files three filters for a struct's field: the one it is given, and two
derived ones, in camel and in snake case. Only the one given ever matches.
`filterWithFields` hands the type of the given filter to `NewFilter` as data
(redactor.go:146-147), which takes the type of that (132), so that the derived filters
are of reflect's own `reflect.rtype` (`Rtype`, `TypeAsValue`). A general filter has no
type, and of it the derived ones are what they should be. A filter of a struct's field
therefore means the spelling it was given, a general one the camel and the snake
spelling of its name (`Means`). A `reflect.Type` may itself be in a value: it is a struct
whose fields are unexported (`ValuesAssumption`), so no place has it for an owner
(`Places`).

The reference says what the code does where documents say something else: a struct
found under a filtered name is not redacted by that name (redactor.go:216), while
`common/README.md` says "all field with fieldName in a map or any struct"; a pointer
to a pointer is passed as it is; a general filter never matches a hyphenated
name, not even the one it was given (redactor.go:155), a filter of a struct's field
does (162); `csrf`, `access_token`, `api_key` and `cvv` are listed as fully redacted,
and are partially redacted (redactor.go:22-25).

## 3. The runs

| run | instance | shows |
|---|---|---|
| `SqsSafety` | 1 topic, 2 messages, batches and channel of 2 | types, `WgCounts`, `OneCopyUnlessExpired`, `QuiescentAtCompletion`, implements `AtLeastOnce` |
| `SqsLive` | 2 topics, 1 message, batches and channel of 1, fair | `CompletesUnlessStuck`, `ReceivedIsHandled`, `HandlerKeptWhileServing` |
| `SqsShutdownTerminates` | batches of 1, fair | violated: Shutdown waits for a message loop blocked on the full channel |
| `SqsNoHandlingAfterShutdown` | batches of 1 | violated: Shutdown returns before the loops have counted themselves |
| `Pulsar` | 3 handlers, 2 sharing a label, 3 messages, fair | `WgCounts`, `NoWorkOnClosedConsumer`, `AtMostOneLateMessage`, implements `AtLeastOnce`, `CompletesUnlessHandlerAdds` |
| `BackoffSerial` | 2 callers | `SerialDelayInBounds` |
| `BackoffShared` | 2 callers | violated: overlapping calls leave the range |
| `Grpc` | 2 calls, both reporters, fair | `PanicsContained`, `AnswersFit`, `ObserversAgree`, implements `GracefulService`, `CallsAnswered`, `TasksEnd`, `StopCompletes` |
| `GrpcPanicsReported` | 1 call, both reporters | violated: nobody reports a panic after the deadline |
| `Kitex` | 2 calls, both lists of middlewares, fair | `StopAwaitsServer`, `AnswersFit`, `ObserversAgree`, `OnStopReturns`, `ServerStops`, `CallsAnswered` |
| `App` | 2 applications, 5 constructors, 2 callers, 1 label, fair | types, `KeepsUnlessRobbed`, `RegistryIntact`, `OneProducerPerLabel`, `NothingLeftBehind`, `AnsweredOpen`, `ManagerStopsFirst`, `StopEnds` |
| `Redactor` | up to 2 filters beside the default ones, values of depth up to 4 | types, `FirstFilterDecides`, `RebuiltIfHit`, `MasksHideMost`, `FiltersOnlyHide` |

The types of `PulsarConsumer`, `GrpcServer` and `KitexServer`, `MisfitHasReason` of
`Application` and that `PulsarConsumer` implements `GracefulService` are proved for
every instance and no run repeats them. `HandlersAwaited` of `GrpcServer` follows from
`StopsGracefully`, which is the property that `Grpc` checks.

The instances are as small as the interesting cases allow. Two messages make a
batch with a partial failure and a batch behind another one; a channel of one, as in
`SqsLive`, fills up with one message only, and so does one of two, because batches may be
empty. `SqsLive` has two topics, so that a handler can be replaced by another. Three handlers give a
displaced consumer, one that displaces it, and one of its own. Messages of one
queue are symmetric in `SqsSafety` (no symmetry where liveness is checked).
Two calls let `GracefulStop` wait for one while the other is abandoned; the calls
do not interact otherwise. Deadlock is not checked in the gRPC, Kitex and App runs, where
the process really ends. `BackoffSerial` stops at the first overlap of two calls (`UntilOverlap`),
beyond which nothing is claimed and the delay can double without end.
In `App` two applications and one spare place behind the registry's array are
what one needs to rob the other (`MaxSpare`), and `MaxArrays`, `MaxPlugins`,
`MaxCreated` and `MaxProfilers` bound the growth: two producers for a label or two
profilers of an agent are one more than there should be. One label is enough, since
labels meet only in the mutex, and callers compete for one. The exceptions in
`KeepsUnlessRobbed`, `AnsweredOpen`, `NothingLeftBehind`,
`StopEnds` and the conditions of `HandlerKeptWhileServing` all happen in these
instances: without any one of them TLC finds a violation. In
`Redactor` two filters make every conflict between two, in both orders, with or
without the default ones; the values have every kind inside every other that the
code treats differently.

### Fairness

`SqsWorker`: the lifecycle goroutine, both loops and the goroutine of each
message are weakly fair: Go runs every goroutine that can run, and the calls
they make (SQS, handlers) return. The select of the handling loop is not fair
between its branches. `PulsarConsumer`: the same for the lifecycle and each
goroutine, and strong fairness of a handler's return, so that one which calls
`AddConsumer` again and again returns in the end; it is not assumed to return
while it is blocked on the mutex. Nothing is assumed of the broker, of
redelivery, or of application calls.

`GrpcServer`: the server's goroutine of a call, the goroutine of the deadline
interceptor, the end of `GracefulStop` and the passing of time (`Expire`) are
weakly fair. Handlers are not: a call is answered, and a stop completes, whether
or not its handler ever returns. Nothing is assumed of clients or of the accept
loop.

`KitexServer`: the steps of OnStop, its poller, `Run` and the select of each call
are weakly fair, and time passes (`Expire`). Endpoints are not: a call is answered
whether or not its endpoint returns. Kitex's accept loop need not fail.

`Application`: the lifecycle is strongly fair, and the end of every creation
(`Created` or `CreateFails`) weakly: the broker answers or the client's operation
timeout does. Strong fairness is what Go's mutex gives: a goroutine that has waited
for a millisecond is handed the mutex next, so callers that take it again and
again do not starve a Shutdown that waits for it. Nothing is assumed of callers,
of signals or of the stop timeout.

## 4. The proofs

TLAPS proves, from the named assumptions on the constants only (`QueueAssumption`,
`BatchAssumption`, `NoTopicAssumption`; `ConsumersAssumption`, `SubAssumption`,
`NoMessageAssumption`; `DurationAssumption`, `RangeAssumption`;
`ReportersAssumption`; `RegistryAssumption`; `LabelAssumption`,
`ProducerAssumption`, `CallerAssumption`; `ProfilersAssumption`;
`DemandAssumption`, `ManagerAssumption`; `NamesAssumption`, `CandidatesAssumption`,
`ValuesAssumption`, `LeavesAssumption`, `DefaultsAssumption`):

* `SqsWorkerProofs`: `TypeCorrect`, `CounterCorrect`, `CompletionIsQuiescent`,
  `ImplementsContract`, `OneCopyCorrect`, `HandlerKeptCorrect`,
  `StopsGracefullyIfCounted`. The WaitGroup's counter is the number
  of loops under way; `TypeOK` alone is not inductive (a `Done` could take the
  counter below zero), so types and counter are proved together, `TypeOK /\
  WgCounts`. That a Shutdown that returns is quiescent follows from the counter:
  it returns only at zero, no loop is then counted, and outside `handleMessage`
  no goroutine of a message exists. The refinement of `AtLeastOnce` maps a
  message's goroutine to an attempt, and needs that a message in state delete
  was accepted in this attempt. `OneCopyUnlessExpired` is inductive with the
  types and the counter: only a receive makes a copy, and only of a visible
  message, which has none unless its receipt expired. That the handler is kept
  needs that `started` is up from the end of Serve to a Shutdown while a loop runs
  (`Serving`), so that no `Register` gets past its check. `StopsGracefullyIfCounted` has a hypothesis the code does not
  guarantee: whenever a Shutdown comes to wait, both loops have counted themselves
  (`CountedBeforeWait`; worker.go:59, 67 do so inside the goroutines). With it
  no loop begins while Shutdown sleeps or afterwards (`Quiet`), so the last Shutdown
  leaves no message at work, and none is taken up. Without it the run
  `SqsNoHandlingAfterShutdown` shows the contrary. The hypothesis is about every state
  of a behaviour, and behaviours that serve and stop keep it: all those in which
  the scheduler has run the two goroutines before OnStop lowers the flags.
* `PulsarConsumerProofs`: `TypeCorrect`, `CounterCorrect`, `ClosedAfterWork`,
  `LateBounded`, `ImplementsContract`, `StopsGracefullyCorrect`. The counter is the cardinality of the set
  of running goroutines, which needs `Consumers` finite. That nothing works on a
  closed consumer needs which states of the lifecycle come after the wait and
  that no goroutine starts later. A late message needs the relation between the
  check of `IsStopped` and the position in the loop: a goroutine past its check
  has been given none. That Shutdown is graceful follows from the counter and from
  the states after the wait, in which nothing runs; handlers that call `AddConsumer`
  make no difference, because a consumer filed after Start gets no goroutine.
* `BackoffProofs`: `SerialDelays`. While no two calls have overlapped at most
  one caller is inside, and what it finds in `b.backoff` between calls is 0 or
  within the bounds.

* `GrpcServerProofs`: `TypeCorrect`, `PanicsContainedCorrect`,
  `AnswersFitCorrect`, `ObserversAgreeCorrect`, `HandlersAwaitedCorrect`,
  `StopsGracefullyCorrect`, for any
  calls and any sequence of reporters. `ChainFacts` says where each interceptor is in a chain of any
  length. The inductive invariant has a part for the place of each goroutine
  (`CallPlace`, `TaskPlace`: the server's stays at or before the deadline
  interceptor, the other at or after it), one for what the second carries there
  (`TaskCarries`: past recovery, no panic), and one for the observers already
  passed on the way up (`Noticing`). No step of one call touches another
  (`Untouched`), so the actions are proved one call at a time. What GracefulStop has
  awaited rests on a second invariant over this one (`Awaited`): a call on its way
  up has a task that is gone, unless its time was up. That the server implements
  `GracefulService` needs besides that a handler gets its goroutine from a call on
  its way down the chain, which no call is after `Bye` (`AtRest`). `KitexServer` does not implement it: its
  poller may find no `svr` and report the stop before the server has come up.
* `KitexServerProofs`: `TypeCorrect`, `StopAwaitsServerCorrect`,
  `AnswersFitCorrect`, `ObserversAgreeCorrect`, for any calls. Neither the types nor `StopAwaitsServer` are
  inductive: the counter is bounded because the poller exists only after the
  signal and is counted while it polls, and the channel has room for the signal
  because nothing was sent before (`LifecycleInv`). `EndpointInv` ties what an
  endpoint has written and sent to how far it is. The observers' part is that of the
  gRPC chain, for two chains of fixed length.
* `ApplicationPartsProofs`, about `AppRegistry`: `RegistryTypeCorrect`,
  `KeepsUnlessRobbedCorrect`, `RegistryIntactCorrect`, for any applications, modules, registry and spare
  capacity. An application's contents change only under a write into its array
  beyond its own length, and only the registry's array has two owners; so the
  invariant says which slices share an array and how far each owner has written.
* `ApplicationPartsProofs`, about `PulsarProducer`: `ProducerTypeCorrect`,
  `OneProducerCorrect`, `AnsweredOpenCorrect`. At most one caller is in the creation, the one that holds the mutex (`CreatesAlone`), and
  its label is not filed (`AsksInside`); what is open or was answered is what is
  filed (`OpenIsFiled`, `AnswerIsFiled`). What is filed is open until a hook has run
  (`FiledIsOpen`), since neither the manager nor the client comes back.
* `ApplicationProofs`: `ImplementsRegistry` and `ImplementsProducer` show that the
  composition is a behaviour of either part, so the theorems about the parts hold
  of it (`ApplicationKeeps`, `ApplicationSharesProducers`, `ApplicationAnswersOpen`);
  `ApplicationTypeCorrect`;
  `MisfitCorrect`; `ManagerStopsFirstCorrect`, for any constructors and
  dependencies: the holder comes before the manager in the order of construction
  (`HolderFirst`), hooks are stopped from the end, so when the holder's turn comes
  the manager's hook has run, and a manager that saw an open client is down.
  `NothingLeftBehindCorrect` needs that a holder whose hook has run has closed its
  client (`StoppedHolder`) and with it every producer (`ClosedIsEmpty`, of the manager),
  that a process exits with no hook left (`ExitedStopped`), and that the profilers
  fx started are the one the agent holds while its hook is still to be stopped
  (`ProfilerHeld`; one constructor is called once, so no second is started).

* `RedactorProofs`: `TypeCorrect`, `FirstFilterDecidesCorrect`,
  `RebuiltIfHitCorrect`, `MasksHideMostCorrect`, `FiltersOnlyHideCorrect`, for any
  filters in any number and order and for values of any shape and depth. The
  inductive invariant `Inv` says that the latest output is what the walk makes of its
  value with the present filters, and that the three lists look up what the filters
  as given say (`Prepared`): for every place, the mode `filterStruct` and
  `filterField` find in the lists is the one `Wanted` finds among `given`
  (`Agrees`). `AgreesStep` shows that one round of AddFilters' loop keeps that, which
  where camel, snake and hyphenated spellings and the order within each list
  matter, and where the derived filters of a struct's field drop out: they are of
  `Rtype`, under which no field is looked up. `AddedAllAgrees` carries it through the
  loop and `DefaultsAgree` through `init`. `ModeWanted` then replaces the lists by `Wanted` at each place of the walk.
  What the walk makes of a value is proved by induction on the depth of the place:
  `RedactSound` (nothing is shown or masked that is not a leaf of the value),
  `HitIfOnTrail`, `HiddenIfHit`, `DecidedOnTrail` (the first place on a
  trail at which something is wanted decides) and `AddedHides` (with one more filter
  a place shows less, and is rebuilt if it was).

  The library's induction theorems take an operator as a parameter, which the
  provers cannot instantiate. The module derives a form that takes sets and
  functions instead: `RankInduction`, induction over a set ranked into Nat, from
  the library's `WFMin` and the well-founded order of Nat, and
  `RecursiveFunction`, that a function given by a body that looks at lower ranks only
  (`Descends`) exists and satisfies its equation (`Solves`). The equations of
  `Leaves`, `PartialRedact`, `redact`, `Trails` and of the loop of `AddedAll` follow.

Only model-checked: liveness (`CompletesUnlessStuck`, `ReceivedIsHandled`,
`CompletesUnlessHandlerAdds`, `CallsAnswered`, `TasksEnd`, `StopCompletes`,
`OnStopReturns`, `ServerStops`, `StopEnds`), which the prover does not reach, and all
counterexamples. Every safety property and every step property of a passing run
is proved.

## 5. Disagreements between code and documentation

Each has a run that finds it and a finding in `PROJECT.json` with both places
quoted: Shutdown of the SQS worker that does not return (worker.go:100) or
returns too early (59, 67); the shared backoff (backoff.go:37);
the panic after the deadline that nobody reports (timeout.go:51, recovery.go:42).

The models also show, without a run of their own: `Register` succeeds while the loops
run, in the window before `Serve` has raised `started` (worker.go:80) and in the one
after `Shutdown` has lowered it (163), and one that was past its check (170) before
Serve raised the flag replaces the handler (182) at any time later, in full service
too, though worker.go:171 says "not allow register
after Serve" (the conditions of `HandlerKeptWhileServing`, each of which TLC finds needed); a filter of a struct's field in
another spelling than the field's, camel case for snake case, hides nothing, though
`filterWithFields` derives both spellings for it (redactor.go:139-149, 163-165; see
section 2); a panicking handler leaves
its message neither acked nor nacked (consumer.go:120, `HandlerPanics`), though
`plugins/pulsar/README.md:62` says auto-ack/nack; of two applications with room behind
the registry's array the later one overwrites modules of the earlier (app.go:33,
`KeepsUnlessRobbed`), and the earlier may then fail to build; `AddProducer` after
Shutdown answers with a closed producer (producer.go:90, `AnsweredOpen`); a
profiler that was started by hand is lost when OnStart starts another
(pyroscope.go:77, `NothingLeftBehind`); a start that fails at an agent without a
configuration leaves the client open that the functions given to Run have
connected, when the agent was built first (pyroscope.go:69); the Pyroscope agent reads
`ENABLE_PYROSCOPE` (pyroscope.go:65), though its README says it "does not read environment
variables directly"; a Kitex preset built after `Configure` sets middlewares the server
never gets (kitex.go:57, 69); the redactor's differences from `common/README.md`
listed in section 2; Shutdown of the consumer
manager and a handler that calls `AddConsumer` wait for each other for ever
(consumer.go:65, 186; the second alternative of `CompletesUnlessHandlerAdds`);
OnStop of a Kitex server whose `Run` failed after it had set `svr` polls for ever
(kitex.go:93; the last alternative of `OnStopReturns`); "Bye" may be logged before
the Kitex server has come up (`Poll` before `RunSetsSvr`); stopping an application whose
Pulsar client never connected dereferences nil (`ServerShutdownPanics`,
pulsar.go:62); a gRPC server stopped before its goroutine reached `server.Serve`
ends the process through `Fatalf` (`AcceptStopped`, grpc.go:57-60); a failed
`net.Listen` ends it with a panic (`AcceptNil`, grpc.go:49-56); and `GracefulStop`
returns while the handlers of abandoned calls still run (`Bye`, timeout.go:51).

## 6. Plan

Done: the queue consumers, the backoff, the gRPC and the Kitex server with their
chains, the producer manager, the registry and the application, the Pyroscope
agent, the redactor, the abstract contracts; and the proofs of all their safety properties. What is
left, in this order:

1. `PulsarConsumer` beside `PulsarProducer` in `Application`: handlers that produce
   while both managers are stopped in an order fx chooses. The two managers are
   checked apart because their product is beyond the runs' five minutes; what
   `ManagerStopsFirst` says of producers holds of consumers for the same reason.
2. The package variable of gRPC options with several presets (grpc.go:30-34, 72).

## 7. Not modelled, and why

Dependency injection is fx's. `plugins/newrelic`, `opentelemetry`, `sentry` and
`mongodb` configure third-party clients and do I/O. `dlq.go` and `crypto.go` build
option values. `env`, `logger`, `fx.go` and the common helpers read, format and
write without behaviour over time. `markReqParams` and `maskValue` of the gRPC
request log (request_log.go:52-110) are called by a benchmark only. Cyclic values, on
which the redactor does not return, and what may happen when `AddFilters` and
`Redact` of the shared `DefaultRedactor` overlap, are left out. The Kitex example and its generated code are no
part of the framework. Timeouts have no length in these models: a deadline may
pass at any time and must in the end.
