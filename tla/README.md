# OtterAgent in TLA+

OtterAgent is a TypeScript monorepo for building agents: a *session* drives the agent of
`pi-agent-core`, persists what it says, lets *extensions* take part, and gives the agent *tools* in
an environment; an *RPC mode* exposes one session over JSON lines.  This directory holds
specifications of the parts whose behaviour depends on what overlaps with what, TLC
configurations that check them on small instances, and TLAPS proofs of the main invariants.

The parts meet in one process: `RpcProcess` composes its start (`CliStartup`), the commands it reads
(`JsonlTransport`) and the events it sends (`EventForwarding`); the other modules look at one part each.

All of it is single-threaded JavaScript: code runs without interruption between two `await`s, so
**an action is the code between two awaits**, and everything that may be called while an `await` is
pending is an action of its own.

## 1. Inventory

Paths are below `src/packages/`.

| Component | State | Operations | Interacts with | What is hard | What makes it correct |
|---|---|---|---|---|---|
| **AgentSession** `core/src/session/agent-session.ts` | tool maps, active tools, subscription, the agent | `createAgentSession`, `prompt`, `steer`, `followUp`, `abort`, `setModel`, `setThinkingLevel`, tools, `compact`, `dispose`, `loadExtensions`, `reload`, runner actions | session manager, agent, extension runner, registry | every call may be made while another awaits handlers, credentials, the store or the run | log and agent agree on model, level and dialogue; a prompt settles; the prompt of a run lists the active tools |
| **In-memory session manager** `session-manager-registry/.../in-memory/index.ts` | append-only entries | `append*`, `compact`, `buildSessionContext` | session | which entries a compaction keeps | a context is what the session would have had |
| **Extension runner** `core/src/extension-core/extension-runner.ts` | handler lists, commands, event bus | `loadExtensions`, `clear`, `emit*`, `registerCommand`, `executeCommand` | session, extensions | emissions iterate live lists across awaits, loads overlap | each handler is registered and heard as often as loaded, extensions win names |
| **Model registry** `core/src/session/model-registry.ts` | models, provider configurations | `find`, `getApiKey`, `hasAuth`, `registerProvider`, `unregisterProvider` | auth storage, session | overriding, then restoring, built-in providers | unregistering restores what registering replaced |
| **File mutation queue**, edit and write tools `environment-registry/.../just-bash/` | a map from path to promise | `withFileMutationQueue`, `execute` | file system, abort signal | chained promises, clean-up, aborts | calls on one path take effect one at a time, in order |
| **Extension event bus** `core/src/extension-core/event-bus-impl.ts` | a map from channel to set of handlers | `on`, `emit`, `clear`, unsubscribe functions | extensions, the runner's `clear` | functions that outlive the set they were made for, handlers that use the bus while they are called | a handler is heard until its own unsubscribe |
| **Just-bash environment**, read and bash tools, truncation, edit matching | files, skills | `getTools`, `addSkill`, `execute` | tools | limits and boundaries | no line lost or repeated, no ambiguous edit |
| **RPC handler**, UI provider, RPC mode `rpc/src/` | pending dialogs, shutdown promise and timers | commands, `requestShutdown`, `stop`, dialogs | client, session, process | two timers, microtasks, signals, calls that never answer | each command is answered once; a shutdown ends and answers |
| **Event forwarding** `agent-session.ts:534-559`, `rpc-handler.ts:61-73, 354-387` | the last state sent | `_handleAgentEvent`, `_checkStateChange` | agent, store, client | appends overlap what the agent does next, state changes without events | the client is told of what the log has, and of the state as it is |
| **RPC transport** `rpc/src/{stdio-transport,jsonl}.ts` | a decoder, a line buffer, the console | `send`, `onMessage`, `close` | client | chunk boundaries | a message is one line |
| **CLI** `cli/src/`, `core/src/utils/deep-merge.ts`, `validate-component-config.ts` | none after start | parse, load configuration and components, start RPC mode | registries | order, error exits, nested settings | each component is built of its defaults under its settings; an extension that fails does not keep the others away |
| **Registries, auth storage, interfaces, formatting helpers** | maps filled at load | look-ups, text | all | nothing overlaps | - |

The session calls the session manager and the agent directly; the agent calls the session back
through its subscription and its tool hooks; extensions call the session through the runner's
actions while the session awaits their handlers; the RPC handler is one more caller of the session.

## 2. Modules

| Module | Models | Checked by |
|---|---|---|
| `SessionLog` | the session manager's entries and `buildSessionContext` | (used by `AgentSession`) |
| `AgentSession` | one session with its log and its agent | `MCAgentSession` (adds the symmetry of calls), `session_*.cfg` |
| `ExtensionRunner` | loads, reloads, registrations, emissions, skill commands | `extension_reloads.cfg` |
| `EventBus` | the bus of extensions | `event_bus.cfg` |
| `ModelRegistry` | models and credentials by provider | `MCModelRegistry`, `model_registry.cfg` |
| `FileMutationQueue` | the queue, the edit and write tools, aborts, bash | `queue_*.cfg` |
| `FileStore` | what these tools promise: serial effects in call order | refined by `FileMutationQueue` |
| `Truncation`, `EditDiff` | the tools' algorithms on texts | (used by `FileTools`) |
| `FileTools` | read page by page, edit, diff rows, bash output | `MCFileTools`, `file_tools.cfg` |
| `RpcHandler` | commands, dialogs, graceful shutdown, timers, process exit | `rpc_shutdown.cfg` |
| `CliStartup` | the start of the process up to the session | (used by `RpcProcess`) |
| `JsonlTransport` | stdin to messages | (used by `RpcProcess`) |
| `EventForwarding` | the agent's events to log and client | (used by `RpcProcess`) |
| `RpcProcess` | the process, from its arguments to its exit | `MCRpcProcess`, `rpc_process.cfg`, `rpc_extensions.cfg` |
| `AgentSessionProofs`, `ExtensionRunnerProofs`, `FileMutationQueueProofs`, `ModelRegistryProofs`, `RpcHandlerProofs`, `RpcProcessProofs`, `FileToolsProofs` | theorems | `tlapm` |
| `NatLemmas` | lemmas of all of these: least elements, induction up to a bound and over sequences, the library's folds and `FlattenSeq`, that a sequence can be sorted | `tlapm` |

`AgentSession` extends `SessionLog`: a session over a log that survives it.  `FileMutationQueue`
instantiates `FileStore`, `FileTools` extends `Truncation` and instantiates `EditDiff`, `RpcProcess` extends
its three parts.  `FileMutationQueue` and `FileTools` describe the same tools: the one which calls
overlap, the other what a call makes of a text.  So do `RpcHandler` and `RpcProcess`: the one has
every response, dialog and timer of the handler, the other what a command does to the agent and what
the client is told.  `ExtensionRunner` and `AgentSession` describe one class from two sides and
meet in what the other leaves open: for `AgentSession` a handler answers whenever it likes and may call
whatever it likes; `ExtensionRunner` adds when it is registered and called.

### AgentSession

`entries` is the log; entry ids are positions.  `session` follows `createAgentSession` through its two
appends: `CreateSession` (read the context, resolve model and level), `PersistModel`,
`PersistLevelAndConstruct`.  `prompts`, `compactions` and `modelCalls` hold the calls that await: a prompt
(`PromptCall`) has called its handlers and later sets the prompt and starts a run (`PromptSend`), or, if its
text begins with `/`, awaits an extension's command first (`CommandAnswers`), which ends the call, or goes
on as a prompt when there is no command of that name; a skill's command calls `prompt()` in the same block;
a compaction awaits handlers, records its entry (`CompactRecord`), builds the context (`CompactRebuild`) and
installs it one microtask later (`CompactInstall`, in the order the contexts were built); `setModel` awaits
credentials (`SetModelAnswer`).  `run` and the `Run*` actions are the agent's loop as far as the session
observes it.  Any call of the host, the user or an extension is enabled whenever the session is up, from
inside handlers included; `MaxCalls` bounds their number.  What a handler or a command throws is told to the
runner's error listeners; one that throws in turn ends the call it is part of (`PromptFails`,
`DisposeFails`; a compaction just ends).  `Crash` loses the session at any point and keeps the log, over
which a session may be created again.

A message is its role and a number, a model or a tool a name, a system prompt the tools it lists and
whether a handler changed it.

Left out: the agent's loop is external and modelled by what the session sees of it (its error path
is a reply that fails); the constructor called without `createAgentSession` persists nothing and
is not modelled; two `setModel` calls in flight are for different models; a store that fails or is
slow is in `EventForwarding`.  A model option or a saved model that the registry does not
know, or has no credentials for, is the choice `usable` in `CreateSession`.

### ExtensionRunner

`lists[g]` is the handler list of the map after `g` calls of `clear()`: an emission, or a load's
`session_start`, iterates the list it took, which grows while it is current and is dropped, not
emptied, by a reload.  One list stands for the lists of all events, as every extension registers one
handler for each.  `loads` holds each `loadExtensions`/`reload` at its awaits: `FactoryRuns` (a factory
returned or threw), `BeginStart` and `StartHandler` (`session_start`), `FinishLoad` (skill commands; the
`_applyToolChanges` before it is `AgentSession`'s `SetActiveTools(active)`).  `RegisterLate` is an
extension that kept its `api` beyond its load.  An emission's `kind` is what it makes of answers: none
(`emit`; a "first" emission nobody answers is the same), the first (`tool_call`, `input`,
`session_before_compact`), the last (`tool_result`), or a chain (`before_agent_start`, `context`,
`before_provider_request`), where a handler makes its answer of the event as those before it left it;
an event or an answer is the handlers that made it.  An answer to `before_agent_start` has two parts: system
prompts chain, of messages the last stands, so an answer with a message alone changes no event (`Silent`).
An error listener that throws what it is told ends the load (`LoadFails`) or the emission (`EmitFails`).

Left out: a factory that awaits between two registrations (it registers all at once, when it
returns) or registers some and throws; the order of two names in the command map.

### EventBus

`sets` are the `Set`s made so far, by number, each with its handlers in their order; `map` is the
channels' current ones.  `unsubscribes` are the functions that `on` returned, each with the set it closes
over.  `emissions` is the stack of calls of `emit`: iteration is live, so a handler put in meanwhile is
called and one taken out is not.

### ModelRegistry

`models` and `registered` are the two maps; `calls` is the history the properties speak of.  A key is
the provider's and the id's parts with a colon between, that is their concatenation.  The names of
providers and models must not make the same key (`KeysDistinct`), which the code does not enforce: a
provider `a:b` with a model `c` shares its key with a provider `a` and a model `b:c`.  An API key stands for
an environment variable when it looks like a name (`Names`: `/^[A-Z_]+$/`) and the variable is set and not empty
(`Env`); the instance has one that is set and whose name holds a digit, which is not looked up.

### FileTools, Truncation, EditDiff

The agent calls one tool on one text: `Read` and then `ReadOn`, along the offsets the pages name, any of
which may be aborted or find no readable file (`ReadFails`), after which the agent asks for the same page
again; `Edit` (whose aborts are in `FileMutationQueue`); `Bash`, whose output is the text; `TellChange`, the
rows of a diff.  A text is a sequence of characters, each with its width in UTF-8 and its plain form.  What
the `diff` package returns is any sequence of parts, of runs of lines.

Left out: characters whose normal form (NFKC) is several characters; limits below 1; the combination
of stdout and stderr; sizes as text.

### CliStartup, JsonlTransport, EventForwarding, RpcProcess

`start` is a call: arguments, configuration file and what comes on stdin.  `at` is where `main` is; each
step builds one component, resolves one extension, or exits.  A configuration is a tree of objects and
leaves, a reference an object, an array or something else; a template is its defaults, the set of the
configurations its schema accepts, and whether `build` throws.

stdin is bytes, read in chunks of any size; a byte knows its character and its place in it, which is
what `StringDecoder` finds out.  `Feed` is the loop that cuts lines off the buffer, `Handle` what drops blank and
malformed ones.  Which lines are JSON is a set.  After the transport's `onMessage` the
handler is given `handled`.

The agent (external; `pi-agent-core` 0.64) changes its state and tells its listeners, but does not wait
for them, so `_handleAgentEvent` awaits the append of one message while others end (`appending`); an
append succeeds or fails (`Appended`).  `view` is the state the client knows.  The session itself tells of a
compaction's start and end (`CompactStarts`, `CompactEnds`); between them the store's answer replaces the agent's
messages, of which no event tells (`CompactReplaces`), or the store fails and the end is never told (`CompactFails`).
Likewise `ChangeSilently`, what commands do to model, level and queue.  The message that a
`before_agent_start` handler adds (`agent-session.ts:370`), a summary, and a compaction that is cancelled need an
extension, and none is loaded in this mode (`rpc_extensions`).

`RpcProcess` runs commands by their effect on the agent, in any order (a command's handler awaits), and
has the shutdown's order without its timers: it is requested, disposes of the session, stops and exits,
or is forced.

### FileMutationQueue

`tail[path]` is the promise the map holds, as the number of the call it belongs to; a call keeps the
one it chained to in `prev` and is let in when that call is over.  `ApplyEdit` works on what
`BeginEdit` read, so a change in between would be lost.  `Abort` is the run's signal, seen by all calls
made so far.  A file's content is the sequence of the calls that shaped it.  `BashChange` does not
queue.  A path is the key the queue uses: two spellings of one file are two paths, a simplification
the header of `file-mutation-queue.ts` documents.

### RpcHandler

`jobs` is the queue of promise jobs, which the event loop empties before it takes a message, a
timer or an answer; the handler's order of responses, `stop` and exit depends on it.  `timers` holds
the two timers in the order they fire (they have one delay).  `shutdown` is where
`_performGracefulShutdown` is.  Runs, handlers and dialogs may never answer.  `Hosts` tells
`runRpcMode`, which exits the process, from a library's host that embeds the handler and lives on.

A prompt whose handlers have answered starts a run, throws, or does neither when its text was an
extension's command (`PromptStarts`); a skill's command, sent by its name, awaits a run of its own
(`SkillStarts`).

After each command the code calls `_checkShutdown`; a request sets in-progress in the block that
makes it, so that call never starts anything and is not an action.  Transports whose `close`, and
hosts whose `onShutdown`, throw are left out.

## 3. Runs

All of them turn deadlock checking off: with every allowed call made and answered a session, a
tool or a handler waits for the next one.

| Run | Instance | Shows |
|---|---|---|
| `session_safety` | 2 models (one reasons), 2 levels, 1 tool, 2 prompts, 2 compactions, 3 calls | the log's metadata is the agent's (`MetadataSync`); creation's reads stay valid (`CreationSync`); nothing logged twice (`DialogueLoggedOnce`); the agent's dialogue is the log's (`DialogueFromLog`) |
| `session_liveness` | 2 prompts, 1 compaction, 3 calls | a prompt settles, a command's or not, while another one's run is on included (`PromptSettles`) |
| `extension_reloads` | 2 extensions, 1 skill, 2 loads, 1 late registration, 1 emission | names (`ExtensionsWin`), what a reload restores (`ReloadRestores`, `StartHeard`, `OnceUnlessOverlapped`), emissions (`AnswersCompose`, `NoHandlerSkipped`) |
| `queue_calls` | 2 paths, 3 calls, 1 bash change | exclusion, order, clean-up, no lost edit, `EveryCallEnds` |
| `queue_refinement` | 2 paths, 4 calls | `FileMutationQueue` implements `FileStore` |
| `rpc_shutdown` | 3 commands, 1 dialog, both hosts | one answer a command, one notification, response before close; `ShutdownCompletes`, `DialogsEnd`, `ShutdownAnswered` |
| `model_registry` | 2 providers, 2 ids, 6 configurations, 3 registrations of a provider in a row | a look-up answers what the calls for its provider promise (`LookupExplained`), a credential is the last registration's or the storage's (`KeyExplained`) |
| `file_tools` | texts of up to 5 characters, pages of 2 lines and 3 bytes, 1 or 2 edits, diffs of up to 4 parts | pages join without gap or repetition and are as long as the limits let them be (`PagesExact`); so is the tail of an output (`TailMaximal`); edits apply to the original at once (`EditsSimultaneous`), none whose old text is at two places that do not overlap (`AmbiguousRefused`), in any order (`EditOrderIrrelevant`), and keep line endings and mark (`LineEndingsKept`); rows are numbered as the files are, with their context (`RowsTrue`) |
| `rpc_process` | calls with one mistake each; 6 streams, every way to cut them; 1 run, 2 messages, 2 models | components are built as configured, extensions that fail are skipped (`StartedAsConfigured`); messages are lines (`MessagesAreLines`); the client is told of what the log has or could not take, once (`ClientSeesLog`), and knows the state with every event (`ClientKnowsState`) |

Bounds.  Every session property relates at most three overlapping calls (a prompt, a compaction and a
message; two answers of `setModel` and a level change; a crash between two appends), so three calls reach
each combination, with a second compaction where two must overlap.  Three calls of the queue are one that
leaves, one that waits and one that arrives, the case the map's clean-up distinguishes; a second path shows
independence; the refinement has a fourth.  Three commands give two shutdown commands and one other.  A load
and a reload are the smallest overlap, two extensions the smallest chain of answers.  With pages of two
lines and three bytes, texts of five characters have first lines that are too long, lines and bytes that
reach their limits together, empty lines, and a character of two bytes at the cut; two edits are the fewest
whose places move each other, and an interval of three unchanged lines is the shortest with a gap in it
(`ContextLines` is 1).  Three registrations reach a list of models under a base URL under a key; every text
on stdin has a line end, a CR, a blank line, text that is not JSON, or a character of two bytes at one of
the cuts; the trees of its configurations are at most `MaxDepth` (4) deep, enough for an object in an
object, a leaf below it, and a level to spare.  The models of `rpc_process` are interchangeable
(`SYMMETRY`), and so are the calls of a kind in `session_safety`.

Runs that end in a counterexample state what the repository's text says and the code does not do:

| Run | Text | What the code does |
|---|---|---|
| `session_compaction_race` | "Rebuild agent messages from session context to sync state." (`agent-session.ts:506`) | a message that ends between building and installing the context is lost to the agent |
| `event_bus` | "multiple handlers on the same channel each get their own unsubscribe" (`event-bus-impl.test.ts:67`) | an unsubscribe function called again, or after `clear()`, deletes the channel's new set: those subscribed since hear nothing |
| `rpc_extensions` | "Extensions to load after session creation." (`create-rpc-session.ts:53`) | nothing calls `loadExtensions`: in RPC mode no extension, and no tool or skill of an environment, is ever loaded |

Divergences read in the code while modelling it, which the models contain and no run is about:

- `sendUserMessage` "Always triggers a turn." (`extensions-api.ts:176`): while the agent is idle the
  message stays in the steering or follow-up queue (`AgentSession`'s `QueueUserMessage`; only
  `PromptSend` starts a run).
- `setThinkingLevel` "(clamped to model capabilities)" (`extensions-api.ts:149`): any level is set and
  persisted (`SetThinkingLevel`).
- `shutdown` "Gracefully shut down the agent." (`context.ts:69`): the session is disposed of, its agent
  runs on and can be prompted (`DisposeCall`); `DialogueFromLog` excepts such a session.
- `onShutdown` "after abort -> idle -> dispose -> stop" (`rpc-handler.ts:33`): the forced clean-up of
  `SafetyTimer` does not dispose, and in `runRpcMode` the process exits before the `shutdown` command
  has its response (`rpc-handler.test.ts:445` expects one "after shutdown completes").
- "Rejects all pending extension UI requests (used during shutdown)" (`rpc-handler.ts:31`): one asked
  after `stop()`, by a run or a handler that outlives the shutdown in a host that does not exit, stays
  pending; `DialogsEnd` is about requests made before the shutdown is over.
- `skill:<name>` "always available" (`agent-session.ts:743`): not between a reload's `clear()` and its end.
- "the base prompt is always restored before the next turn" (`agent-session.ts:324`): it is computed before the
  `before_agent_start` handlers are awaited and set after; a tool activated meanwhile is missing from
  the run's prompt (`PromptCall`, `PromptSend`).
- "Persist an extension message that IS included in LLM context." (`session-manager.ts:137`): a custom message
  queued during a run is persisted when queued and again when delivered (`SendMessage`, `MessageEnd`), so
  that a restored context has it twice.
- "Reload extensions: clears all handlers, reloads, fires session_start." (`agent-session.ts:302`): a load
  that still awaits a factory registers into the cleared map too, and its extension is called twice
  for one event; `OnceUnlessOverlapped` excepts that.
- "This should not normally happen since _performGracefulShutdown has its own per-step timeout"
  (`rpc-handler.ts:272`): the safety timer is armed first with the same delay, so it always fires first.
- "Wait for the agent to settle" (`rpc-handler.ts:299`): a prompt whose `before_agent_start` handlers answer
  after the wait, or that is received during `dispose`, starts a run that the exit cuts off
  (`PromptStarts`).
- `load-extensions.ts:13` "Errors are **non-fatal**": a reference that is not an object passes
  `validateComponentReference`, whose answer the callers ignore.  An array fails later and is skipped; what is no
  array either (a string, `null`) throws outside of the `try` (`load-extensions.ts:28`), and the process
  ends (`HasKeys`, `LoadExtensions`).  A `name` that is empty, or not a
  string, beside a `filepath` is valid, and is then looked up in the registry.
- A line on stdin that is JSON but no object (`null`) throws in the handler's listener; the model has
  lines that are commands only.  `pendingMessageCount` is sent in `state_change` but never compared
  (`SnapshotChanged`), and `set_model` and the like tell of nothing until the next event.  What a component
  module prints before the transport is constructed goes to stdout.  A shutdown does not wait for
  appends under way.
- The edit tool's "must match a unique, non-overlapping region" (`edit.ts:72`): occurrences are counted
  without overlap, so a text that is there twice, overlapping itself (`aa` in `aaa`), is accepted and
  replaced at its first place (`CountOccurrences`; `AmbiguousRefused` is about those that do not overlap); a
  text of blanks has an empty normal form; a text found exactly once is refused when its normal form occurs
  twice; and one fuzzy match rewrites the whole file in the normal form.
- A failed append is only warned about (`agent-session.ts:545-551`): the log then misses a message that the
  agent goes on from, and a session restored from it does too; the client is told of the message all the same
  (`Appended`, `ClientSeesLog`).
- Only `message_end` awaits the store (`agent-session.ts:544`): extensions and clients hear of it after events
  that followed it, `agent_end` included (`Appended` after `AgentEnds`).  Nothing in the repository promises the
  agent's order, and a client must not rely on it.
- "Errors are handled by extension runner error listeners" (`agent-session.ts:554`): one that throws ends the
  emission or the load it was told of an error by, handlers and extensions after it are skipped (`EmitFails`,
  `LoadFails`), and a `dispose()` leaves the session subscribed (`DisposeFails`).  A compaction that fails
  after its `compaction_start` sends no `compaction_end` (`CompactFails`).
- An output of `bash` whose last line is empty and whose line before is over the byte limit is shown as
  "(no output)" (`Bash`).  A continuation offset of `read` is stale when the file has changed since.
- Registering a provider again with only a base URL drops its API key and keeps its models
  (`KeyExplained`).  The agent's current model is not touched by registrations.  `createAgentSession` resolves
  models in a registry of its own.
- "completes well before the agent can issue a read tool call" (`just-bash-agent-environment.ts:148`): the
  file of a skill is written without waiting, and the prompt names it even if the write fails.

## 4. Fairness

- `AgentSession!Fairness`: the event loop resumes what has been answered, extension handlers and commands, credential
  look-ups and the provider answer, the agent's loop goes on.  No fairness on calls, crashes, or on
  which of its outcomes a step takes.  A tool-using run is bounded by `MaxCalls`.
- `FileMutationQueue!FairSpec`: the file system answers.  None on aborts, submissions and bash.
- `ExtensionRunner` has safety properties only: a factory or handler may never answer, so nothing is
  owed.
- `RpcProcess!FairSpec`, used by `rpc_extensions` only: `main` goes on through its start.  Nothing is assumed of the
  client, the agent or the store; the properties of `rpc_process` are safety.
- `ModelRegistry`, `FileTools` and `EventBus` are synchronous, or one call at a time: nothing to be fair to.
- `RpcHandler!FairSpec`: only the event loop's jobs and timers.  The client, extensions and the run
  may never answer: that is what the timers are for.

## 5. Proofs

Each theorem is about the specification for all values of its constants.

- **`AgentSessionProofs`** proves the five properties of `session_safety`.  `MetadataSync` is not inductive
  alone: the agent gets its model and level from `session` at the end of creation, so the invariant includes
  `CreationSync`, which ties `session` to the log at each stage of creation, and the types.
  `DialogueLoggedOnce` is not either: a message waits in a queue, or as the input of a run about to start,
  before it is logged.  `OnePlace` says that it is in one place at a time, once, and that its number is one
  given out; of a custom message, logged when it is sent and again when it is delivered, that each of the
  two is logged at most once (`Sent`).  `DialogueFromLog` speaks of moments with no compaction pending, and
  `compact()` calls overlap: `FromLog` says that the context that will be installed last, or, with none
  waiting, the agent's, is embedded in the log's as soon as no recorded compaction has yet to read the log;
  `WaitingContexts` that each waiting context is that of a call of its own.  Its first part says what one
  more entry does to the context's model, level and messages.
- **`ExtensionRunnerProofs`** proves all properties of `extension_reloads`.  `OnceUnlessOverlapped` needs to
  know that without overlap only the load begun last can be under way (`Sequential`), that what loads put in
  the current list is its, from factories it is through with, and that the lists of generations to come are
  empty (`ToCome`).  `ReloadRestores` speaks of the end of all loads, `StartHeard` of the end of one;
  `Restoring` and `Hearing` follow the load begun last, and every handler of the current list, up to it: a
  handler has been called, or its load has yet to come to it.  `AnswersCompose` needs what an emission has
  called so far (`Called`), and that the chain's event is composed of the answers so far (`Composes`).
- **`FileMutationQueueProofs`** proves exclusion, order, clean-up, that an edit loses nothing, and that the
  tools implement `FileStore`.  The inductive invariant says that a path's tail is its latest call that is not
  over, if there is one (`TailIsLatest`), and that every call chained to the latest call of its path that was not
  over then (`ChainLinks`); order follows, and exclusion from order.  For the refinement, what an edit
  has read is still the file's content (`ReadIsCurrent`); with bash commands, which do not queue,
  only what other calls did is still all there (`ReadKeeps`), which is what `EditKeepsOthers` needs.
- **`ModelRegistryProofs`** proves the type invariant, `LookupExplained` and `KeyExplained`, assuming that
  the built-in models are under their own keys (`BuiltInAssumption`) and that no two names make one key
  (`KeysDistinct`).  `KeyExplained` follows from `LastKept`: what is registered is what the last of a
  provider's calls gave; `LookupExplained` needs that each model is kept under its own provider and id,
  without which `model.provider === name` would not select the provider's models.
- **`RpcHandlerProofs`** proves the safety properties of `rpc_shutdown`.  That a command is answered once
  depends on where it waits: a shutdown command is either in the list of those the sequence will
  resolve or has a job to respond, once (`Waiting`), and each kind of command goes through its own stages
  (`Stages`).  That `onShutdown` is called once, and that the transport closes last, depend on where the
  sequence is: which timers may be armed and how far the disposal is at each stage (`Sequence`), and
  that the sequence's jobs come alone, so that nothing is queued behind its end (`Turn`).  `Counted` is
  `NotifiedOnce` made inductive: one call for the safety net, one for the sequence.
- **`RpcProcessProofs`** proves `ClientSeesLog`, `ClientKnowsState`, `MessagesAreLines` and
  `StartedAsConfigured`.  The client's knowledge needs that what it was last sent is what the handler
  compares with (`ViewIsLast`), and that it is told of a message once that a message's number is given out
  once and its append is awaited or over, not both (`Numbered`).  `MessagesAreLines` is proved for any
  bytes, any chunks and any set of JSON lines.  The invariant, `LinesInv`, says that between two chunks
  `decoder` is what the bytes read so far leave undecoded, and `buffer` what their text has after its last
  line end.  A chunk keeps it because no character has bytes on both sides of a place where one ends
  (`LastsCut`), so that decoding starts anew there (`DecodedCut`, `ChunkDecoded`), and because a text is cut
  as its characters come (`LinesAppend`, `FeedText`).  It assumes that stdin is UTF-8, possibly cut off in
  the middle of a character (`StdinAssumption`), that the empty line is not JSON (`BlankAssumption`), and
  that the line end and U+FFFD are two characters (`CharactersAssumption`).  `StartedAsConfigured` is proved
  of configurations of any depth, any registry and any modules.  `MergedHolds` walks down a path in the two
  trees and in their merge at once: as long as both have objects the result is the merge of what they have
  there, and from the first place where they do not it is one of the two, to the path's end.  That
  `deepMerge` ends, and so has the values its recursion says, is an induction on how deep a tree is
  (`MergedRun`).  `StartInv` adds that what is loaded is what the references tried so far give.  It assumes
  that a configuration is nested at most `MaxDepth` deep, whatever that is (`DepthAssumption` wants one
  level), that "absent" is no value in it, and that the extensions of a valid one are a list
  (`ConfigurationAssumption`).
- **`FileToolsProofs`** proves six of the seven properties of `file_tools`, for any text, any limits and
  offsets, any edits and any diff.  `PagesExact` needs that the pages so far have shown what lies between
  the first line asked for and the next one, and, about one page, that cutting the joined lines at a limit
  gives back lines (`Join` undoes `Split` and, but for the empty sequence, the other way round).
  `TailMaximal` is the same from the end, and for a single line about bytes: the cut is moved to where a
  character begins.  `LineEndingsKept` needs that a text without CR takes its endings from the first line
  alone, and that no part of an edit brings a CR (`CharsAssumption`: no other character becomes one when
  made plain).  `EditsSimultaneous` follows the splices from the back: a step leaves what is before it as it
  was and what it put behind it in place, so that the result is the pieces between the matches and the new
  texts in turn, which is also what replacing all at once gives.  That the sorted order of the matches
  exists is a lemma of `NatLemmas` (`SortingExists`).  For `EditOrderIrrelevant` the two orders are shown to
  have the same pieces: an old text that is not only blanks is matched at a place of its own, else one of
  the calls fails and so does the other.  `RowsTrue` goes along the parts of a diff.  A line is near a
  change iff it is one or is near an end of its part beside one (`NearCases`, which needs that of two
  neighbouring parts one is a change).  The rows of a part tile its lines: each row is a line near a change,
  under its number, or stands for a stretch of lines that are not, up to one that is (`PartTiled`), and rows
  that tile stretches next to each other, joined, tile both (`TiledConcat`).  From a tiling of all lines the
  property follows (`TiledRight`).  `CallsAssumption` and `WidthAssumption` say that the inputs are texts
  and that a character has at least one byte, `DiffsAssumption` that a diff's parts have lines and that no
  two unchanged parts follow one another (the diff package joins them).

A sequence that code builds by a loop (the messages of a context, the characters of a chunk, its lines) is a
recursive function over the naturals up to its length: that it exists, and that the loop computes it step by
step, is proved each time by `BoundedInduction` (`ExtractExists`, `DecodesExists`, `FeedsExists`), which a
`RECURSIVE` operator would not allow.

Only model-checked:

- liveness (fairness and `ENABLED` are out of the prover's reach): `PromptSettles`, `EveryCallEnds`,
  `ShutdownCompletes`, `DialogsEnd`, `ShutdownAnswered`;
- `AmbiguousRefused`;
- the three runs that end in a counterexample.

## 6. Plan

1. The skills of the just-bash environment beside the loads of `ExtensionRunner`.
2. A context over the bounds of one process: a session restored by a second process from a store that
   lost the appends under way.

## 7. Not modelled

- `convertToLlm`, system prompts and skill texts: one message or text at a time into another, with no state.
- Type declarations (`interfaces/`, `events.ts`, `extensions-api.ts`, `rpc/src/types.ts`): no behaviour.
- The no-op environment and the in-memory auth storage: a constant and a map.
- Which templates the registries hold, the CLI's texts, and the schemas' meaning: constants here.
- `pi-agent-core`, `pi-ai`, `just-bash` and `diff` beyond what `src/` uses of them: external.
- Skills in `just-bash-agent-environment.ts`, the construction of its file system and its prompt: planned or
  formatting.
