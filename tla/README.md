# A TLA+ verification of knative/observability

knative/observability turns custom resources (LogSink, ClusterLogSink,
MetricSink, ClusterMetricSink) into the configuration of fluent-bit and
telegraf pods. Its controllers are small, and what is hard about them does not
show in their unit tests: two goroutines that publish one ConfigMap, watches
that miss events, processes that die between two API calls, a garbage collector
that works on the same objects, reviews that share a file. This project models
these parts in TLA+, checks them with TLC and proves the central results with
TLAPS.

## 1. The system

| part | source | state | operations | hard about it |
|---|---|---|---|---|
| sink-controller | `pkg/sink`, `cmd/sink-controller` | `Config` (two maps under a mutex); the fluent-bit ConfigMap and pods | OnAdd, OnUpdate, OnDelete of two handlers; patchConfig; SetClusterNameFilter | two goroutines render and patch without a lock over both; failed patches; missed deletions; restarts |
| metric-controller, MetricSink | `pkg/metric/controller.go` | a Role, RoleBinding, ConfigMap, Deployment per sink | OnAdd (4 creations), OnUpdate (update, restart), OnDelete (4 deletions) | not idempotent; gives up at the first error; races with the garbage collector; owner references |
| metric-controller, ClusterMetricSink | `pkg/metric/cluster_*.go` | `ClusterConfig`; the telegraf ConfigMap and pods | as in pkg/sink, one handler | refused patches; equality of whole objects; validated one by one, run together |
| validator | `pkg/webhook` | `/tmp/telegraf.conf` | /logsink and /metricsink reviews | requests run concurrently and share the file |
| event-controller | `pkg/event`, `cmd/event-controller`, the vendored fluent logger | counters; the logger's channel, sender and connection | OnAdd forwards, OnUpdate and OnDelete count; Close | bounded channel, asynchronous sending with retries, shutdown, re-delivery after a restart |
| flbconfig | `pkg/sink/flbconfig` | the lexer's position and tokens, the parser's flags | state functions, Parse | the lexer and the parser must agree on every text |
| informer factory, listers, deep copies | `pkg/client`, `pkg/apis` | `informers` and `startedInformers` under a mutex; the caches | InformerFor, Start, WaitForCacheSync, List, Get, DeepCopy | shared by goroutines with stop channels of their own; aliasing of cached objects |
| REST clients and fakes | `pkg/client/clientset` | none | one request each | nothing of their own |
| cert-generator | `cmd/cert-generator` | TLS secrets | a shell script of openssl and kubectl calls | outside the program |

The parts meet through the API server: users write sinks, which the validator
reviews; the informers deliver them to the handlers; the handlers write
ConfigMaps, Deployments and roles and delete pods; the DaemonSet's or
Deployment's new pods load the ConfigMap when they start.

What makes each part correct: the published configuration is that of the stored
sinks, in the pods too, in the end and after any failure that is repaired; no
namespace's logs reach another namespace's sink; nothing is sent in clear; a
metric sink's telegraf is complete, follows its spec, and disappears with it;
what is stored is what was allowed, and what is run is all that is stored; an
event is forwarded at most once by a process and accounted for; what the parser
accepts is what the format means; a type has one informer, and no caller can
change what it caches. The hazards, each at its line, are in `PROJECT.json`.

## 2. The modules

| module | models |
|---|---|
| `SinkConfig` | `pkg/sink/config.go`: specs, sections, `String()`; what fluent-bit does with a section (external) |
| `LogSinkController` | `pkg/sink/controller.go`, `cluster_controller.go`, `cluster_config.go`, `cmd/sink-controller`, as far as a handler sees them the informers, and the DaemonSet |
| `ConfigPublisher` | the abstract specification of a handler that publishes a Config alone; both publishing controllers implement it |
| `LogSinkControllerProofs` | the theorems about `LogSinkController` |
| `SinkAdmission` | the rules of `validateLogSinkConfigRequest` |
| `AdmittedLogSinks`, `AdmittedLogSinksProofs` | the composition of `LogSinkController` and `SinkAdmission`, and its theorem |
| `TelegrafConfig` | `pkg/metric/cluster_config.go`, `metric_sink_config.go`: rendering of telegraf configurations |
| `MetricSinkController` | `pkg/metric/controller.go`, its informer, the garbage collector and the telegraf pods |
| `MetricSinkControllerProofs` | the theorems about `MetricSinkController` |
| `ClusterMetricController` | `pkg/metric/cluster_controller.go` and `ClusterConfig`, its informer and the telegraf DaemonSet |
| `MetricAdmission` | the rules of `validateMetricSinkConfig` and of `telegraf --test` |
| `AdmittedMetricSinks`, `AdmittedMetricSinksProofs` | the composition of `ClusterMetricController` and `MetricAdmission`, and the theorems about both |
| `Validator`, `ValidatorProofs` | `pkg/webhook/server.go`: concurrent reviews and the API server around them; its theorems |
| `LossyForwarder` | the abstract specification of the event pipeline |
| `EventForwarder`, `EventForwarderProofs` | `pkg/event/controller.go`, `cmd/event-controller`, the fluent logger's channel, sender and retries (vendored), the network; its theorems |
| `FlbConfig`, `FlbConfigProofs` | `pkg/sink/flbconfig`: lexer and parser; their theorems, those about the grammar included |
| `FlbGrammar` | the reference grammar of the file format and the properties that compare the two |
| `InformerFactory` | `pkg/client/informers/externalversions/factory.go` and the goroutines it starts |
| `SinkCache`, `SinkCacheProofs` | the generated listers and deep copies over the factory's caches; the theorems about them and the factory |
| `MC*` | instances for TLC |

### LogSinkController

`api` is what the API server stores, `store` the informers' indexers, `pending`
the notification queue of each informer's listener, `config` the shared
`Config`, `cm` the fluent-bit ConfigMap (`outputs.conf` and the cluster name
filter), `pods` what each pod has loaded. `pc` and `value` are the program
counter and the rendered text of the goroutines `main`, `LogSink` and
`ClusterLogSink`. A handler runs in four atomic steps, cut where the code
releases the Config's mutex or calls the API server: OnAdd/OnUpdate/OnDelete
(`Upsert...`/`Delete...`), `Render` (`String()`), `Patch` and `RestartPods`.
The two controllers of pkg/sink have the same text, so one action stands for
both with the kind as its parameter; `map` names lines of one or of the other.
`Patch` and `RestartPods` have failing variants in which the code logs and goes
on. `RestartFails` deletes any subset of the pods, as DeleteCollection may.

The order of the sections of `outputs.conf` is left out (the syslog ones are
sorted, the webhook ones come in Go's map order; fluent-bit routes by Match),
and so is their wording; a section is the record of the settings that decide
where records go. A section is labelled with the sink it was printed for, which
the properties need and the code never sees.

### MetricSinkController

A handler is the list `todo` of API calls it has still to make for `job`, given
up at the first error. `owner[n][o]` is the UID in the owner reference of
object `o` of sink `n`, 0 if there is no such object. `CallSucceeds`,
`CallFails` (the API server's own answer: AlreadyExists, NotFound, or an invalid
owner reference), `CallRefused` (any other error) and `AnswerLost` (the change
is made, the handler sees an error) are one call each. `meta` records whether
the informer's object has its Kind and APIVersion: list items do, but the typed
client's codec clears them on watch events, and only OnAdd puts them back
(`setDefaultTypeMeta`).

### ClusterMetricController, AdmittedMetricSinks

One goroutine uses the `ClusterConfig`, so `String()` is evaluated where the
patch is made, and a handler is three steps: the change, `Patch`, `RestartPods`.
OnUpdate compares whole objects: a notification carries `same`, true only for a
resync, and `Touch` is an update that changes labels, annotations or the status.
`faults` records the kinds of fault met, each once, `MaxFaults` of them in one
behaviour; `tried` is how the last patch of this process ended.

The composition assumes of the validator only what no interleaving of reviews
can undo: the type rules, which are checked on the object under review itself
(`TypesAlwaysChecked` in `ValidatorProofs` proves that they are). The telegraf
test is left open: reviews that overlap test each other's text (run
`validator_race`), and a sink without outputs is rendered to the empty
configuration when it is tested alone, so telegraf never sees its inputs.
`RunsWhatIsStored` compares what the pods run with `Asked`, a statement of what
the stored sinks ask for that does not use the conversion.

### EventForwarder

`hand` is the event between OnAdd's type assertion and Post, `buffer` the
logger's channel, `sending` and `tries` the sender's message and attempts, `wire`
what was written and not read. A full channel is an error and never a wait. A
message that was written is done: no acknowledgement is asked for. Close drops
the pending notifications, waits for the handler, closes the channel and lets
the sender finish. `Restart` is a new process after an exit or a crash; it lists
every event again, so `got`, `lost` and the counters are of one process. The
promise is therefore at most once per process, not over all of them.

### FlbConfig, FlbGrammar

A text is a sequence of seven classes of runes. Each state function of the lexer
is an action, with the loop it may hold as one jump (`Past`); Parse is one
action per type of token. `FlbGrammar` says line by line which texts are well
formed and what they mean, without the lexer or the parser and without recursion:
a line belongs to the section whose number is that of the headers up to it, and
a pair has the place of its line among the pairs of that section. `Lossless`
compares by rank: the n-th rune in the tokens is the n-th of the text, blanks
aside.

### InformerFactory, SinkCache

`pc` and `todo` are a client's operation of the factory: the creation of an
informer, Start and WaitForCacheSync, each a loop over the types under `lock`
as in the code. WaitForCacheSync copies the started informers under the lock and
polls outside of it. The factory's informers are numbered by their creation,
which tells whether two clients share one. One action stands for the same text
generated for four types. A struct in a cache has fields that an assignment
copies and places that refer to cells of `heap`; a deep copy gives each place of
`NewMemory` a cell of its own, and a client writes only to its copies.
`MetricSinkMap.DeepCopy` keeps strings and ints and drops other values, so a copy
need not equal its original; `CacheUntouched` is about the original.

### Validator

`review` is what each request carries, `file` is `/tmp/telegraf.conf`.
`ioutil.WriteFile` is two steps, the truncation at open and the write. When two
handlers have truncated, the second to write leaves either its own text or that
text with the end of the other's (`Mixed`), depending on lengths the model does
not have. Which configurations telegraf accepts is the constant `BadOpts`. The
API server stores an object only if it is the one it asked about (optimistic
concurrency), refuses on any error (`failurePolicy: Fail`), and may time out, in
which case the handler goes on unaware. logSinkHandler does not return after it
has written an error; the status that was written first decides, so the second
body has no effect on the model.

### AdmittedLogSinks

The steps of `LogSinkController` in which users store only what the validator
allows. It is the place where two parts must agree: the validator looks at the
text of a URL, `config.go` at what `url.Parse` makes of it. That a URL that
starts with `https://` and parses has the scheme `https` is an assumption on
the specs (`SpecsAssumption`), and so is that a host and a decoded path are
texts of one line (`OneLine`): `String()` prints them as they are.

## 3. The runs

Faults are taken from the constant `AllowedFaults`; the variable `faults`
records which kinds have happened, so a property can say under which it holds.

| run | instance | checks |
|---|---|---|
| `logsink_pair` | one sink of each kind behind the validator, one admissible spec and several refused ones, 1 pod, refused patches, missed deletions, crashes | `TypeOK`; `PodsFollowConfigMap`: a pod that is out of date is about to be deleted; `ConfigFollowsStore`: with nothing pending the Config is the indexer's; `LastWriterPublished`: what survives the unsynchronised patches; `SentSafely`: TLS and a real port for everything a pod sends |
| `logsink_recovery` | two LogSinks of one name in two namespaces, a spec that may render to nothing, failed restarts and crashes, fairness | `OutputsRecovered`, `NoCrosstalk`, `EventuallyLoaded`, `PublishesEverything` (`ConfigPublisher`) |
| `logsink_race` | as `logsink_pair`, no faults | **violates** `OutputsMatchApi` |
| `metricsink_faults` | one name used twice, a spec that encodes and one that does not, all faults, fairness | `TypeOK`, `TelegrafComplete`, `PodFollowsConfigMap`, `ProvisionedFirst`, `NothingLeft` |
| `metricsink_update` | no faults | **violates** `ServesSpec` |
| `metricsink_recreate` | a name used twice, no faults | **violates** `Provisioned` |
| `validator_reviews` | two requests, one log sink, one metric sink, timeouts and failed writes | `TypeOK`, `SinksSafe`, `TypeFixed`, `RunnableAlone` |
| `validator_race` | two requests, two metric sinks | **violates** `MetricSinksRunnable` |
| `clustermetric` | two ClusterMetricSinks behind the validator, 1 pod, two of four kinds of fault in a behaviour, fairness | `TypeOK`; `PodsFollowConfigMap`; `Published`: when all is quiet the file is that of the stored sinks; `RunsWhatIsStored`: each pod then runs every stored entry and nothing else, and never a kubelet input but the default; `TouchRepairs`: touching a sink repairs what failed; `PublishesEverything` (`ConfigPublisher`) |
| `event_forwarder` | two events, a channel of one place, two attempts, two processes, every fault, fairness | `TypeOK`; `NoPostAfterClose`; `Accounted`: an event is in one place only and the counters agree; `StopEnds`: a shutdown ends; `EventuallyForwarded`; `DeliveredOrLost` (`LossyForwarder`) |
| `flbconfig` | all texts of up to 5 runes, and generated files of two sections | `TypeOK`; `NeverUnexpected`: no token is out of place; `ParsesTheFormat`: Parse accepts and returns what the grammar says; `Lossless`: no rune is lost or emitted twice; `Returns` |
| `sinkcache` | two clients with a stop channel each, one of which reads, two types (with and without a namespace), two changes of the API, fairness | `SharedInformer`: one informer per type, run once; `WaitAnswers`; `CacheUntouched`; `WaitReturns`; `ListerCatchesUp` |

What the violations show (details and quotations in `PROJECT.json`, findings):

- `logsink_race`: both handlers render, the one that rendered first patches
  last; the other's sink is missing from `outputs.conf` until some sink changes.
- `metricsink_update`: OnUpdate builds an owner reference without a Kind; the
  ConfigMap keeps the old spec.
- `metricsink_recreate`: OnDelete gave up because the collector was faster, and
  OnAdd gives up at the old Role. A crash inside OnAdd ends the same way, with
  `AllowedFaults = {"crash"}` and `MaxUid = 1`.
- `validator_race`: telegraf tests another review's configuration.

Each of the four has a theorem that says what would exclude it, and so that
nothing else in the code is in the way: a lock from String() to the patch
(`SendingAloneRecovers`), the defaults of OnAdd in OnUpdate (`DefaultsSuffice`),
users who wait for the collector (`PatientProvisioned`), a mutex round the
validator's file (`MutexSuffices`); section 4 has the exact hypotheses.

What the passing properties have to except, because the code behaves so:

- A deletion that a broken watch missed arrives as `DeletedFinalStateUnknown`,
  fails OnDelete's type assertion, and the sink stays configured, in pkg/sink
  and in pkg/metric (`ConfigFollowsStore` and `Published` exclude "missed").
- The last sink is deleted while the process is down: the first list is empty
  and nothing is published. `OutputsRecovered` asks for a sink that is left, and
  `Published` has this case as its last disjunct.
- A refused patch is only made good by the next one; resyncs do not help, since
  OnUpdate takes them for no change. `TouchRepairs` says what does help.
- Two ClusterMetricSinks, one without outputs and with inputs telegraf or the
  encoder refuses, the other with outputs: each is admitted, the file of both is
  refused or empty, and a race of reviews may admit such inputs with outputs.
  No property says that telegraf accepts the file of all ClusterMetricSinks;
  `RunsWhatIsStored` says what is in it, `Asked` being empty in the second case.
- `config.go` prints the host, and the decoded path of a URL, as they are into a
  file of lines (lines 197-204 and 264-271), and neither the CRDs nor the
  validator refuse a line break in them. `NoCrosstalk`, `SentSafely` and
  `SinksSafe` are about the settings of a section as a record, which is what the
  file says only for texts of one line (`SpecsAssumption`).
- An event the sender gave up, or the network lost, has been counted as sent.
- An informer stays in `startedInformers` when its channel is closed: later
  Starts do not run it again, and WaitForCacheSync of another client waits for
  it as long as that client's own channel is open (`Halted` in `WaitReturns`
  and `ListerCatchesUp`).
- The generated lister's Get of a cluster-wide kind looks for `namespace/name`,
  a key no such object has; it finds nothing. The controllers do not call it.

**Bounds.** `MaxPending` 1 or 2 caps a queue that is unbounded in the code; with
a notification in the handler's hands and one queued, every order of change,
resync, re-list and handler step occurs, and the theorems hold for every value.
Two sinks are enough for an interference between kinds, between namespaces, or
in one file; one pod for staleness. `MaxUid` 2 is a name used twice, the least
for leftovers of an older sink. Two requests are the least for a race.
`MaxFaults` 2 lets any two kinds of fault meet, in any order. A channel of one
place (`BufferLimit`) is full after one event, with one more in the sender and
one at the handler; `MaxRetry` 2 has a first, a last and a failed attempt;
`MaxLives` 2 is a process and its successor. Five runes are a bracket, a name, a
bracket, a newline and one more, or a key, a blank, a value, a newline and one
more; longer files are generated from lines. Two clients and two types are the
least for a shared and an unshared informer, for a stop channel that is not the
waiter's, and for a WaitForCacheSync that waits for one of two types; `MaxChanges`
2 is an object and its deletion. With one reader, no two clients hold
objects at a time; what a second one could do to the cache is what the first can.

Deadlock is checked except where the system may rest: the two violating metric
runs, where users run out of creations (`MaxUid`), `event_forwarder`, where
events and processes run out, and `flbconfig`, where Parse has returned.

**Fairness.** Weak fairness of the handlers (Go runs every goroutine and client
calls return), of the API calls without faults, of the DaemonSet, the
Deployment and the garbage collector, of the sender (connections and writes have
timeouts), of the clients of the factory inside their operations, and of an
informer until its channel is closed (it retries for ever). Parse is called and
runs. Strong fairness of `Watch`, which in the model may find its queue full
again and again and in the code never does. Nothing is assumed of users,
resyncs, losses or faults: `NothingLeft` holds with every fault allowed for
ever. `TouchRepairs` has as a hypothesis that sinks are touched again and again.

## 4. The proofs

Every invariant a passing run checks is proved for all values of the constants.
A theorem's proof extends the invariant to one that is inductive; below is what
has to be added, and why. Five theorems have the form
`Spec /\ [][A]_vars => []P` (or `[]A`): A is a restriction on the steps that the
code does not impose, and P a property that is false without it (a run shows
the counterexample). Their hypotheses and invariants were checked with TLC
first, and the behaviours they leave reach the states P is about.

### LogSinkController, AdmittedLogSinks

For every set of sinks, specs and pods, every `MaxPending` and every set of
faults, from `SinksAssumption` (a cluster resource has no namespace, a
namespaced one has), `SpecsAssumption` (hosts and paths of one line, and
`https://` parses as `https`), `NoSinkAssumption` and `ControllerAssumption`:

- `TypeCorrect`: `Spec => []TypeOK`. TypeOK is inductive by itself.
- `PodsFollow`: `Spec => []PodsFollowConfigMap`. Inductive with TypeOK: a patch
  leaves its handler at "restart", and a restart that succeeds leaves no pod.
- `LastWriter`: `Spec => []LastWriterPublished`. Needs `ValueOwn`: what a
  handler is about to send shows its own kind's sinks as the Config has them,
  because only it changes them; the lemma `SectionsOfLocal` says that the
  sections of a kind depend on that kind's sinks only.
- `Isolation`: `Spec => []NoCrosstalk`. Follows from TypeOK and `OutputIsolated`,
  that a section printed for a sink matches only what that sink may see.
- `ConfigFollows`: `Spec => []ConfigFollowsStore`. The property is about sinks
  with nothing pending and says nothing of the others, so it is not inductive.
  `ChainInv` says what the queue means: the notifications about a sink form a
  chain from the Config's value to the indexer's, broken only where a deletion
  was missed.
- `SoleHandlerRecovers`: if all sinks are of one kind, either of the two,
  `Spec => []OutputsRecovered`. Without the hypothesis it is false (run
  `logsink_race`). `SoleInv`: the other handler stays idle, so what is about to
  be sent is the present Config, and what the ConfigMap holds is the Config's
  text unless a crash has emptied the Config since. `ConfigFollows` does the rest.
- `SendingAloneRecovers`: with sinks of both kinds,
  `Spec /\ [][SendsAlone]_vars => []OutputsRecovered`, where `SendsAlone` says that
  no handler renders while another has a text to send, as a lock held from
  String() to the patch would have it. Everything else may interleave. `AloneInv`:
  one text at most is about to be sent, and it is outdated only while another
  handler is about to render.
- `ImplementsPublisher`: with LogSinks only, `Spec => Publisher!Safety`, from the
  same invariant, action by action.
- `AlwaysSentSafely`: `AdmittedSpec => []SentSafely`. `ClearInv` follows a spec
  from the API server to a pod: wherever a spec is kept it is one the validator
  allows (`SpecsKnown`), wherever text is kept it is sealed (`TextSealed`);
  `SoundSafe` is the agreement between the validator and the rendering, for
  TLS and for the port's range.

### ClusterMetricController, AdmittedMetricSinks

From `NamesAssumption` and `ClusterMetricAssumption`:
`TypeCorrect` and `PodsFollow` as above.

- `AllPublished`: `Spec => []Published`. `QueueInv`: the pending notifications,
  applied in order, lead from the Config to the indexer (`Replays` names the
  Configs in between), and one that OnUpdate drops as a resync changes nothing.
  `PublishInv`: what the ConfigMap holds when no patch is due, by how the last
  patch ended.
- `ImplementsPublisher`: `Spec => Publisher!Safety`.
- `StoredIsRun`: `AdmittedSpec => []RunsWhatIsStored`. `TypedInv` says of every
  copy of a spec on its way from the API server to the pods that it passed the
  type rules, and of every text that only the default input scrapes the kubelet;
  for such specs `String` leaves nothing out (`TypedAsked`). `AllPublished` and
  `PodsFollow` carry the text to the pods.

### MetricSinkController

From `NamesAssumption` and `MetricAssumption` (one conjunct of which says that a
configuration is not the absence of one):

- `TypeCorrect`: needs `CallsInv`, that the calls a handler has left are the end
  of one of its lists, by the type of its notification.
- `TelegrafsComplete`: `Spec => []TelegrafComplete`. `OrderInv` is about UIDs:
  they reach the API server, the indexer, the queue, the handler and the objects
  in this order, so nothing that is about an older sink of a name can come after
  something of a younger one; hence OnDelete and the leftovers of an older sink
  never touch a live one. `ProgressInv`: what OnAdd has behind it is made.
- `PodsFollow`: `Spec => []PodFollowsConfigMap`, with `PodInv`, that the pod of a
  live sink belongs to the present Deployment.
- `FirstProvisioned`: `Spec => []ProvisionedFirst`. `First(n, u)` follows the
  creation of UID u of a name through the queue and the handler to the four
  objects; it holds of the first sink of a name because nothing came before it.
- `PatientProvisioned`: `Spec /\ [][Patient]_vars => [](~failed => Provisioned)`.
  `Patient`: users create a name again only when the informer has forgotten the
  old sink, no notification about it is queued or being handled, and its objects
  are gone. Then `First(n, u)` holds of every sink (`PatientInv`).
- `ServedWithoutUpdates`: `Spec /\ [][SpecsFixed]_vars => []ServesSpec`, through
  every fault and re-creation, if no spec of a live sink changes. `KnownInv`: what
  the indexer, the queue, the handler and the ConfigMap know of the UID that lives
  is its spec; only a new UID comes with a new one.
- `DefaultsSuffice`: `Spec /\ []Defaulted => [](~failed => ServesSpec)`. `Defaulted`:
  the object OnUpdate works on has its Kind and APIVersion. `LinkInv`: each
  notification about a name starts where the one before it ends, and the last ends
  at the indexer's object; `GapInv`: a sink the informer does not know has no
  object yet; `ServedInv`: the ConfigMap shows the spec at one point of that chain,
  the one the handler has reached.

### Validator

From `ValidatorAssumption` (which tells a configuration from the three states
of a file that are none) and the assumptions on the specs, for any number of
requests at once: `TypeCorrect` (`ReviewInv`: what is known of a review by the
step its handler has reached), `LogSinksSafe` (`LogsSound`: what is stored passed
the rules, because the API server stores what it asked about),
`TypesNeverChange` (an action property; the sink a review read as old is the
one that is replaced), `TypesAlwaysChecked` (an action property: whatever became
of the shared file, only specs that passed the type rules are stored, which is
all `AdmittedMetricSinks` assumes), `MetricSinksRunAlone` (`FileInv`: without an overlap one
review at a time is between write and test, and the file is its own).
`MutexSuffices`: `Spec /\ [][LockTaken]_vars => []MetricSinksRunnable`, where
`LockTaken` lets a handler open the file only while no other is between its write
and its test; then there is never an overlap.

### EventForwarder

From `ForwarderAssumption` (finitely many events, at least one place in the
channel, one attempt and one process): `TypeCorrect`, `NothingPostedAfterClose`;
`AllAccounted`, which needs `FreshInv`: an event that was not announced to this
process, or was announced and not taken, is nowhere in the pipeline, and is
announced at most once; without it OnAdd could take an event that is already in
the channel. The counters are sums over the places, so the lemmas count how an
event moves (`AtAppend`, `AtTail`, `Conserved`). `ImplementsForwarder`:
`Spec => Abstract!Safety`.

### FlbConfig

From `InputsAssumption`, for texts of any length: `TypeCorrect`,
`TokensInPlace`, `FormatParsed`, `NothingLost`. `TokensInv` is the grammar of tokens both sides keep to: the
lexer's state determines what Parse will be doing when it has seen all tokens so
far, each token is one Parse accepts there, and exactly the last one is EOF or
an error. `RuneInv`: a state that consumes a rune is entered only when there is
one. That a loop over runes stops (`PastStops`) is the least-number principle.

`FormatParsed` (`Spec => []ParsesTheFormat`) and `NothingLost`
(`Spec => []Lossless`) follow from one invariant, `FullInv`. `Placed` gives each
token the interval of the text it was made from: the intervals are in order, only
blanks are between them, and what comes before a token of each type is what the
format has there. `Read` is the parser's side: the lines up to some newline are
good and mean the file built from them (`MeansUpTo`), and the tokens since are
the part of a line that Parse has seen. `Verdict`: when Parse returns, the text
deserves it; an error comes from a line that is none of the three forms, and the
rest of the text cannot mend it. That a line adds a header or a pair to the file
is a fact about cardinalities, since the grammar counts. `Lossless` follows from
`Placed` by an order-preserving one-to-one map from runes in tokens to runes of
the text. `OnlyMeaningReturned` (`Spec => []ReturnsTheMeaning`): what Parse
returns is the only meaning of the text, by the lemma `Unambiguous` that a text
has at most one, so `ParsesTheFormat` leaves no other result open.

### InformerFactory, SinkCache

From `ClientsAssumption` (finitely many goroutines), `ScopeAssumption` and
`ContentsAssumption` (an object has its places, None and Nil are no object and no
cell): `InformersShared` and `AnswersTrue` from `FactoryInv`: the mutex is held by
the one client that creates or starts (`LockInv`), so what it has seen of the
maps is still so (`TodoInv`), and only a type's first informer is ever run
(`LaunchInv`). `CachesUntouched` from `CacheInv`: every reference leads to a cell
in use (`MemoryInv`), and a deep copy shares no cell with any cache (`OwnInv`);
that an allocation is new is a counting argument (`FreshIsNew`).

### Model-checked only

Liveness under fairness (`EventuallyLoaded`, `NothingLeft`, `TouchRepairs`,
`StopEnds`, `EventuallyForwarded`, `Returns`, `WaitReturns`, `ListerCatchesUp`)
and the fairness part of the refinements `PublishesEverything` and
`DeliveredOrLost`, which the prover does not do. The four violated properties are
false; what is proved of them is under which hypotheses they would hold.

## 5. Not modelled

- The cert-generator: a shell script that calls openssl and kubectl; nothing
  else of the repository keeps state with it.
- The generated REST clients and their fakes: each method builds one request
  and returns its answer. What the API server does with the requests is in the
  controllers' modules.
- Of the informer factory, ForResource's dispatch, the namespace, tweak and
  resync options; of the deep copies, those of list types.
- The start and Close of the validator's server (main runs it until the process
  ends), logging, flag parsing, the counters of event updates and deletions,
  which nothing reads, and the text of an event's record.
- The clients' connection handling and the DeltaFIFO's inner queue: a delay
  there is a delay before `Watch`. Status fields are never written by the code.
- The deployment manifests are data; the initial `outputs.conf` is taken from
  them. The validator is assumed to be installed before the first sink.

## 6. Plan

The model is complete as far as section 5 allows, and so are the proofs of the
invariants. What is left:

1. `AlwaysSentSafely` and `SinksSafe` rest on the same rules in two modules
   (`SinkAdmission`); one lemma could serve both.
2. If a lock, a default or a mutex named in section 3 is added to the code, its
   guard belongs into the action, the run becomes a passing one, and the theorem
   loses its hypothesis.
