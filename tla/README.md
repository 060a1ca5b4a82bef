# simpanan.nvim, specified

TLA+ specifications of the concurrent and the persistent parts of
simpanan.nvim: a Neovim plugin and a web UI that run chains of database queries
kept in `.simp` files. TLC checks the modules on small instances, and TLAPS
proves each of the safety properties that the passing runs check, and both
refinements, for every instance.

Paths below are relative to `simpanan/internal/` unless they start elsewhere.

## The system

Two programs are built from one Go module. `simpanan/main.go` is a Neovim
remote plugin; `simpanan/cmd/simpanan-webui` is an HTTP server for browsers.
They share the packages below, and they share files in the user's home
directory: the connection registry and the schema caches.

| Component | State | Operations | Talks to |
| --- | --- | --- | --- |
| Buffer store, `webui/openfile.go` | the open files (disk contents, buffer, status), the active path | Open, Close, Edit, Save, SwitchActive, reads | `.simp` files on disk; called by the request handlers and by recovery |
| Lifecycle and recovery, `webui/server.go`, `webui/recovery.go` | server status, recovery file | Start, restore, shutdown with flush | the buffer store, signals |
| Event broker and streams, `webui/eventbus.go`, `webui/sse.go` | a set of channels of 16 events under a `sync.RWMutex` | Subscribe, unsubscribe, Publish, handleEvents | request handlers publish, browsers drain |
| File requests, `webui/files_api.go` | none of its own | list, open, close, save, edit, switch | store first, then broker, then the answer |
| Browser page, `webui/static/app.js` | mirror of the open files, focus, editor document, debounce timer | user actions, event and answer handlers | the two above, over separate connections |
| Connection registry, `add_connection.go`, `delete_connection.go`, `get_connections.go` | `simpanan_connections.json` | add, delete, list | every process rewrites the file in place, without a lock |
| Schema caches, `schema_cache_lifecycle.go`, `schema_cache_store.go`, `refresh_schemas.go` | a JSON file for each label, replaced by a rename | ensure, populate, drop, refresh | the registry, the databases |
| Introspection, `schema_cache.go` | none | reads a database's catalogue, samples collections | the databases |
| Pipeline, `run_query.go`, `execute.go`, `common/pipe_utils.go`, `common/config.go` | one global configuration | parse, check, run stages, substitute results | adapters, registry |
| Query classification and adapters, `adapters/` | none | classify a query as read or write, run it | the databases |
| Stage parsing, `run_query.go`, `autocomplete_probe.go`, `autocomplete_classify.go` | none | split a text into stages for a run, for a probe, up to the cursor | registry |
| Completion probe, `autocomplete_probe.go` | a cache file for each prefix of a pipeline, valid for 30 s | run the prefix under a timeout | `execute`, registry, every process on the machine |
| Completion, `autocomplete_classify.go`, `autocomplete_suggest.go`, `autocomplete_catalog.go`, `suggest.go` | none | classify the cursor's place, suggest | registry, caches, probe |
| Neovim plugin, `lua/simpanan/` | popups | user commands | remote calls |

### What is hard here

- **Goroutines.** Each HTTP request is a goroutine. A handler changes the store
  under its lock, lets go of it, and then publishes and answers with a pointer
  to the live record, which is marshalled later without a lock. Event streams
  close channels that publishers send on.
- **Two routes to a page.** A page receives its own answers and everybody's
  events over different connections, in no fixed order, and types meanwhile.
- **Files without locks.** The registry is read, changed and rewritten in place
  by goroutines and by processes. A cache is introspected for seconds between
  the decision to populate it and the save.
- **Crashes.** The session is saved at shutdown only, in several reads, while
  requests are still served; saves truncate before they write.
- **One configuration for all.** `max_row_limit` and `debug_mode` of a run are
  global variables which a concurrent run overwrites; a row loop reads them anew
  for every row.
- **Checked once, classified twice.** Stages are checked to be reads as they are
  written, and classified again after `{{...}}` has been replaced by data.
- **Many readers of one text.** A run and a completion split the same text
  independently, a third scan finds the cursor's stage, a fourth its placeholder,
  and the classifier then searches the raw text, line ends and comments included,
  for words.
- **Databases that half answer.** A collection that cannot be read, a database
  that cannot be listed, two tables of one name.
- **Time.** A debounced push, an idle cache, a probe timeout, a shutdown timeout.

`PROJECT.json` lists each hazard at its line, with the properties that watch it.

### What makes each component correct

- *Broker*: no send on a closed channel; each event reaches a subscriber at most
  once and in an order compatible with the publications; a stalled browser
  stalls nobody; a stream whose browser is gone unsubscribes.
- *Buffer store*: the active file is open; the status tells whether the buffer
  diverged; a clean file can be closed without loss.
- *Recovery*: a session that is flushed comes back.
- *Files and pages*: once all is quiet, pages show what the server holds.
- *Registry*: labels are unique; a connection that was added is there.
- *Caches*: a cache belongs to a registered connection and to its database; it is
  not replaced by an older one; a refresh leaves nothing from before it.
- *Pipeline*: only the last stage writes; a stage runs on the results of the
  earlier ones; an error ends the run with nothing else executed; the row limit
  and the debug mode are those the call came with.
- *Parsing*: stages are the segments of the text between headers; a completion
  sees the stages a run would run.
- *Completion*: what is offered in a stage belongs to that stage: to its type,
  its database, the tables it names, the result it gets; SQL is understood
  across lines; a partial failure costs only its part.
- *Probe*: runs no write; answers with a recent result of its own prefix; returns
  in time and leaves no goroutine behind.

## The modules

```
Fanout  <-- refinement --  EventBus  <-- EventBusProofs
                              ^
                              '-- MCEventBus

BufferStore  <-- Workspace   <-- WorkspaceProofs, MCWorkspace
     ^
     '---------- WebuiSync   <-- WebuiSyncProofs, MCWebuiSync

Connections  <-- MCConnections
     ^
     '---------- ConnectionsProofs

Introspection  <-- Completion  <-- BufferText  <-- BufferTextProofs, MCBufferText
                       |
                       v
Queries      <--   StageParse  <-- StageParseProofs
                       ^                  ^  ^
                 .-----'                  |  '--  BufferTextProofs
                 |                        |
                 |---------- Pipeline    <-- PipelineProofs
                 |              ^  |      |
                 |              |  '-- refinement -->  Chain
                 |              '-- MCPipeline
                 |                        |
                 '---------- Probe       <-- ProbeProofs
                                ^
                                '-- MCProbe
```

**Fanout** is the abstract broadcast: an event goes to a member's inbox between
the beginning and the end of its publication, at most once, and inboxes only
grow at their end. It does not promise delivery, because the code does not.

**EventBus** is the broker with its `RWMutex` and the life of `handleEvents`.
`RLock`, `Send`, `RUnlock` are Publish; `Announce`, `Subscribe`, `Unsubscribe`
are the writers' side; `Connect`, `Receive`, `Write`, `Return` are the handler.
The lock is Go's: an announced writer holds back new readers, and readers that
waited are let in before the next writer. A channel is named after its stream,
which subscribes once. The refinement maps a channel's history plus its buffer
to an inbox, so a dropped event is a publication that posted nothing.

**BufferStore** has one action for each operation, since each holds the store's
lock throughout, disk access included; a refused operation changes nothing, so
its guard is the negation of the errors. Two other modules extend it.

**Workspace** adds the process: launch, restore, serve, signal, the flush in
its separate reads (`FlushActive`, `FlushList`, `FlushRename`), exit, a crash at
any point, other programs writing `.simp` files, and damage to the recovery
file. Requests are served until the exit, as in the code. `session` and `synced`
are ghosts. `session` says what the flush that a signal has set off must save:
the texts each open file has had since the signal, without the files that were
opened or closed meanwhile, and the active file while it cannot have moved;
requests change it (`Follow`) until the flush has listed the files. `synced` are
the files nobody else has touched since the store last read or completely wrote
them.

**Connections** gives each client one call at a time, a sequence of steps with
one file or database access each. The registry write is `Truncate` and `Fill`;
when two writers overlap, the longer text may leave its tail behind (`Overlay`).
`Cut` ends a call anywhere. The ghosts say which labels two calls met on
(`crossed`), whether registry writers overlapped or were cut (`torn`), what was
added and not deleted (`expected`), and which introspections began before a
refresh (the field `old`).

**WebuiSync** puts the pages, the handlers and the events together. A handler
is `Serve`, for a save `Copy`, then `Publish`, `Send` to each subscriber,
`Answer`. `Live` is the pointer that `handleOpen` and `handleEdit` hand on; what
it is marshalled to is decided in `Forward` and `Answer`, field by field over
the values a racing handler may be writing (`Racing`, `Marshalled`). A page's
`Type` and `Push` are the debounced edit. The ghosts `missed` and `overlap` say
which pages may have lost an event and what kind of work has overlapped.

**Queries** says what a stage is, how it is classified, and what substitution
does to it. A query is the sequence of its words: the classification looks at
the first, so the lists of write commands are the code's, word for word. A
MongoDB query `db.<collection>.<method>(...)` is the collection, the method and
the arguments. The code looks for its method behind the second dot of the raw
text, so a dot in the collection (`Dotted`), as in the path of a placeholder
`{{.[0].coll}}`, hides it, and the query has no class (`Method`,
`QueryTypeMongo`). `PipeData` is the set of lines that may come out: data
decides what replaces a placeholder, and a placeholder that fails leaves itself
and all that follow unreplaced, since `execute` ignores the error. A collection
that comes from data may then show the method that its placeholder hid.

**StageParse** has both parsers as recursive functions over the lines of a text:
`ParseQueries` for a run, `ParseBufferStages` and `ExtractPriorStages` for a
completion. They differ in what they trim (`indented`) and in whether the label
and the query are checked.

**Introspection** says what a schema cache holds of a database: SQL rows grouped
by database and table (`BuildSqlDatabases`), MongoDB's databases with their
collections and sampled fields, and when there is nothing at all.

**Completion** is the classifier and the suggestions, as operators on a text, a
place of the cursor and a registry. `ClassifyContext` has every context of the
code but the branch for a cursor before the `>` of its header, which no text can
reach: the text before such a cursor has no header on its line. `StageContent` is the raw text from the last header to the
cursor, as words and line ends. What the code finds by searching letters is
given by constants about words: the parts of a dotted path (`Parts`), the
keywords inside a name (`Inside`), the names that end in `db` (`DbWords`), the
beginnings of names (`Begins`).
`PlaceOf` is `strings.LastIndex` with the test of the word's boundaries,
`ExtractSqlAliases` the matches of a regular expression from left to right,
`ComputeSuggestions` all kinds of suggestion but paths. `JqPathsFor` adds the
paths mined from the result of the stages before.

**BufferText** puts a text under an editor, which may insert, remove and move, and
compares its readers in every state: the parser of a run, that of a completion,
the classifier and what it offers.

**Pipeline** is `RunPipeline` called by concurrent requests. `Start` and `Refuse`
set the configuration, parse and check; then one action for each step that
another request can come between: a request to a database answered at once
(`Exec`), one answered row by row (`Query`, `NextRow`, `EndOfRows`, `RowFails`),
failures before and after the database has heard of a stage (`StageFails`,
`RequestFails`), jq (`Transform`), a panic (`Abort`), the choice of what to show
(`Finish`). `Completed` is the loop's tail, part of each action that ends a
stage. The ghost `asked` records what databases were asked, `alone` whether
another call has changed the configuration since the call set it.

**Chain** is the life of an execution as the rules of `specs/simpanan.allium` have
it: one stage after the other, an end with the last stage's result, or a failure.

**Probe** gives each completion request its goroutine: `Ask` and `Load` look into
the cache, `RunStage`, `RunEnds`, `RunFails`, `Send` are the goroutine, `Receive`,
`Save`, `Timeout` the request. Time passes in ticks for every request and file at
once. Ghosts: which pipeline a result is of, when it was read, whether a write
was executed.

## The runs

| Run | Question | Instance |
| --- | --- | --- |
| `event_bus` | Is the broker safe, does it implement Fanout, does everybody get on? | 2 requests, 2 streams, channels of 1 event |
| `workspace` | Do the open files stay consistent, and does a session survive although requests race its flush? | 2 paths, 2 texts, unbounded crashes and restarts |
| `connections` | What survives unlocked calls? | 2 clients, 2 labels, 2 URIs (one without a schema), 2 ticks |
| `webui_sync` | Do pages converge? | 2 pages, 2 paths, 2 texts, channels of 1 event, 3 user actions |
| `pipeline` | Does a run do what its stages and options say, with another one beside it? | 2 requests, 13 texts of up to 3 stages on all 5 connection types, 4 option lists, results of up to 2 rows |
| `stage_parse` | Do the parsers and the classifier agree, and does a completion offer what belongs to its stage? | every text of up to 4 lines out of 8 kinds of line and of up to 3 out of 25, every cursor; 5 connections |
| `probe` | Are answers right, recent and in time? | 2 requests, 3 stages, 2 registries, time to live of 2 ticks, timeout of 1 |
| `closed_buffer` | A promise about buffers that the code does not keep | as `workspace` |
| `lost_connection` | A promise that overlapping calls break | as `connections`, no crash |
| `hidden_write` | A promise about stages before the last | as `pipeline` |
| `probe_write` | A promise about probes | as `probe`, 1 request |
| `divergent_tabs` | A promise about pages | as `webui_sync`, 1 user action, no constraint |

**event_bus** checks `NoSendOnClosed`, `EveryEventAccountedFor` (an exact count
of copies and drops), the refinement, `PublishCompletes` and `StreamsEnd`. Two
publishers overlap and overflow a channel of one; both streams come and go. A
larger channel only delays the overflow. Two streams are enough for an announced
writer to meet a second one; all but the two liveness properties is proved for any
number.

**workspace** checks `ActiveFileIsOpen`, `ModifiedReflectsDivergence`,
`CleanIsOnDisk` and `SessionSurvivesRestart`. Two paths let a closed active file
hand on the focus; with two texts, one of them empty, a buffer is clean or
modified and a vanished or truncated file is seen as it is. No step is bounded;
the constraint `QuietOverFiles` applies to a flush that replaces a recovery file
with files in it. It leaves out what is served after the signal and changes what
the flush must save, which is followed when the old recovery file has no files.
The proofs do without the constraint. No property of the four sees a file that a
failed save has truncated: `CleanIsOnDisk` gives up on such files, as it does on
those that others write. A flush that has read
the active path may see it closed, and a file opened or edited, before it lists
the files: `SessionSurvivesRestart` says what must come back all the same.
Paths are symmetric. All four properties and the types are proved for any sets.

**connections** checks that labels are unique under *every* overlap. The other
properties hold only as far as calls stay out of each other's way, and say so:
`RegistryComplete` while the registry's writers take turns and finish,
`CacheBelongs`, `RefreshSticks` and `CacheNeverGoesBack` for labels on which no
two calls met (calls on other labels and registry writes of the other kind go on
in between). With two labels a registry has an entry to lose and one to keep; a
label can be deleted and added again with another URI; a cache is stale after
one tick, and the second tick lets one go stale that was populated after the first. The clock's last tick (`MaxTime`) is the only bound. Clients and labels
are symmetric. All of it is proved for any number of them and any clock.

**webui_sync** checks that edits converge however they overlap
(`EditsConverge`: pushes, events that overtake one another, answers, the data race
of `json.Marshal`), and that mirrors are exact when operations take turns
(`MirrorsAgree`). `MaxActs` bounds keystrokes and clicks. The constraint
`Orderly` does not explore states beyond those the two properties speak of: pages
that missed an event, overlaps with work that is not an edit, and overlapping
edits after the second action. Pages and paths are symmetric. Three actions in
turn suffice to open a file, edit it elsewhere and close it; two suffice for two
edits to overlap. A page has at most one push and one click in flight, and is
reloaded when it has none; that `app.js` may have more pushes on the way is left
out, and so is a page whose first list request fails, which stays empty. Both properties are proved for any number of pages, paths,
texts and actions, without the constraint.

**pipeline** checks `EarlierStagesAreReads`: what databases are asked before the
last stage is a read, second classification included, as long as the words that
decide on the class (the first; of MongoDB the collection and the method) are
written out. Where one of them is a placeholder the promise is broken, which
`hidden_write` shows. `RowLimitHolds` and `DebugShowsEveryStage` hold for calls during
which nobody else changes the configuration (`alone`); without that condition
TLC breaks both. `ImplementsChain` is the refinement. The texts are chosen, since
`stage_parse` enumerates texts: each connection type, each class of query, a
placeholder first and elsewhere, as a collection with a method behind it too, a
command that is not classified, and one text for each way of being refused. A limit of 1 is met by results of 2 rows, the
default of 20 is not.

**stage_parse** checks the parser of a run against a declarative definition
(`StagesAreSegments`: headers, and the texts up to the next one), and the parser
of a completion against that of a run (`ProbesWhatARunWouldRun`,
`ProbeStopsBeforeCursor`) for texts whose headers begin their lines. An indented
header is a header to a run and text to a completion, so for other texts they
do not agree. Parsing keeps no state between lines but the open stage, and four
lines (of `Frame`, the 8 kinds that parsers tell apart) hold two stages with
something between and behind them.

The classifier is measured against the run as well. `Sent` is the text that a
run would send of the stage, were the text to end at the cursor: a completion
must know its last keyword (`ContextIsOfTheLastKeyword`) and its aliases
(`AliasesAreKept`), however they are spread over lines and whatever names contain
keywords. What is offered must exist somewhere on the server, or be built in for
the type, that a run would send the stage to, and jq operators may come only
where a placeholder has been opened in the same stage (`OffersAreOfTheStage`;
it names a first stage with a placeholder as an exception, and does not tell the
fields of one collection from those of another: both are weaknesses of the code,
listed below). Behind an alias the offers must be the columns of one table (`ColumnsAreOfOneTable`; two databases have a table
`users`), behind a database its collections and all of them
(`EveryCollectionIsOffered`; one of them cannot be read, and one server cannot
list a database), and in a placeholder be paths of the result of the stage before
(`PathsAreOfTheStageBefore`). Three lines are what these need: a header, a line
that defines, one that uses; or two stages and a placeholder. Each exception a
property makes is a weakness of the code, and named: a keyword
inside a later name (`Hidden`), a first stage with a placeholder
(`FirstPlaceholder`), comments, a definition within three words behind
another `from` or `join`, which may be taken for a part of it (`clear`), the cursor at the
first character of a header (`OnBrink`). All ten invariants are proved for any
lines, words, servers and results, without the bounds.

**probe** checks `AnswersAreOfThePipeline` while a label is registered with one
database and then another, `AnswersAreRecent` while requests replace each other's
files between a look at the age and the read, and two liveness properties. An
age is bounded where it makes no difference any more. The safety properties are proved.

The five *violation* runs each check one sentence of the repository's documents
or comments that the code does not keep; `PROJECT.json` quotes the sentence:

- `closed_buffer`: the buffer of a modified file that is closed is nowhere; the
  comment says it stays in the recovery file.
- `lost_connection`: two overlapping `AddConnection` calls both succeed and one
  connection is gone.
- `hidden_write`: of `db.{{.[0].coll}}.insertOne({...})` in a middle stage the check
  finds no method, since the dot inside the placeholder is in front of it, and
  lets it pass; with a collection in the place of the placeholder it is a write,
  and is run.
- `probe_write`: a completion runs the writes of earlier stages.
- `divergent_tabs`: an edit that is published between a page's list request and its
  subscription (or while its EventSource reconnects) never reaches that page, and
  it shows an old text until it is reloaded.

The models have more of this kind, which no run asks about:

- an edit served after the flush has listed the files is in no recovery file
  (`Workspace`);
- an introspection that outlives its connection saves a cache without one
  (`Connections`);
- a save's copy that is published after a later edit's event puts old text into
  every page, and the echo of a push, or a switch within the debounce, replaces
  what was typed since (`WebuiSync`);
- `GEOADD` changes its database and is not in the list of Redis writes, so it may
  run before the last stage (`Queries`);
- behind `order by created_by` the completion no longer knows of the `by`, since it
  looks at the last `by` only and finds it inside `created_by`; the comment in
  `autocomplete_classify.go`, line 322, says that the most recent keyword decides
  (`Hidden` in `BufferText`);
- `{{` opens a jq context in the first stage as well, where nothing will replace
  it; the comment in `autocomplete_classify.go`, line 125, says in any other
  (`FirstPlaceholder` in `BufferText`);
- inside `db.app.logs.aggregate([{$match: {` the fields of every collection of
  every database are offered; `specs/simpanan.allium`, line 664, says those of the
  collection the cursor is inside (`FromSchema` in `Completion`);
- the completion of MongoDB offers databases, collections and methods for
  `db.<database>.<collection>.<method>`, but a run takes the first of these for
  the collection and finds no method it knows (`Completion`, `Queries`);
- a save of a clean file that fails after truncating it leaves the file marked
  clean, with nothing on disk (`BufferStore`, `Workspace`);
- a result that comes after a probe's timeout is dropped, although the comment in
  `probeWithCache` says that it fills the cache (`Probe`);
- without an alias in scope, or when none of the tables in scope has columns, the
  columns of every table are offered (`Completion`).

### Fairness

`EventBus` and `Probe` state liveness. In `EventBus` a Publish call that has begun takes its steps
(`Send`, `RUnlock`), the lock operations do, and a handler whose client is gone
returns: each is a runnable goroutine or a Go lock that starves nobody. Browsers
need not read and requests need not arrive: `Receive`, `Write`, `Connect`,
`Disconnect` and the beginning of a Publish are not fair. So a stalled tab is a
behaviour of the model, and `PublishCompletes` holds in spite of it.

In `Probe` the steps a request takes by itself are weakly fair: file accesses, a
send into a channel with room, a receive, a timer that fires. Time is strongly
fair (`Tick`): it is enabled whenever no such step is due, and requests that
are answered from files over and over do not stop the clock. Those steps take no
time, so a tick waits for them. The stages are not fair, because a database need
not answer; `RequestsReturn` holds in spite of it.

## The proofs

`EventBusProofs`, for any finite sets of requests and streams and any capacity:

- `TypeCorrect`: the types, with no channel over its capacity.
- `SendSafety`: `NoSendOnClosed`. It is not inductive: that a loop holds no
  closed channel depends on the loop being inside the map and on the map holding
  only open channels. `SendInv` adds both (`LoopInsideMap`, `MapIsOpen`). A writer
  enters only when no reader is left, which is where `LoopInsideMap` would break.
- `EventAccounting`: `EveryEventAccountedFor`. The property counts copies of an
  event; `AccountInv` gets the count down to whether a channel was given the
  event: it holds none twice (`GivenOnce`), and those of an event's audience that
  its loop has passed were given it or lost it, never both, and nobody else was
  (`GivenOrLost`). Subscribers come and go meanwhile, but a loop visits only the
  audience it began with (`LoopInsideAudience`).
- `Broadcasts`: the refinement `ImplementsFanout`. A channel's history with its
  buffer is an inbox; a send is a posting, a drop, a receive and all that the
  lock does are stutters. `SendInv` is what makes a posting one to a member.

`WorkspaceProofs`, for any paths and texts:

- `WorkspaceInv` is the conjunction of the types, `ActiveFileIsOpen`,
  `ModifiedReflectsDivergence` and `MemoryMatchesDisk`: for a synced file the
  store's disk contents are the disk's. `CleanIsOnDisk` is not inductive, since a
  file can become clean by an edit that restores the text the store read from
  disk; the last conjunct says that this is still the text on disk. A restore
  needs nothing of the saved session but its types, because it computes the
  status anew and checks the active file. `TypeCorrect`, `ActiveOpen`,
  `StatusTruthful` and `CleanOnDisk` follow. One lemma for each kind of step
  (`OperationKeeps`, `RestoreKeeps`, `ForgetKeeps`) rests on lemmas about file
  maps and records.
- `SessionSurvives` needs a second invariant, `SessionKept`: while the ghost
  says what must be saved, the store has it until the flush lists the files, then
  the list has it, then the recovery file (`Bears`, `HasFocus`). A request before
  the listing changes store and ghost alike (`RequestListing`), one after it
  neither list nor file; the lemmas before it say what each kind of request does
  to the ghost.

`StageParseProofs`, for any text and registry: `ParseQueriesType`, that the parser
returns stages. The parser is a recursive function over the lines, and the proof
takes the first line after which it would not hold (`LeastNumber`, from the
library's well-foundedness of the naturals). That the function exists is proved in
the same way (`ParseDefined`). `BufferRun` and `PriorStagesType` are their like for the
parser of a completion. `ReadersAgree` says that both parsers have found the same
stages after each line, as long as a run accepts the text and headers begin their
lines, and `PriorOfRun` that what a completion resolves are then the first stages of
the run.

`BufferTextProofs`, for texts of any length and any registry, words, servers and
results. `TextOK` says what the editor keeps: a text that is not empty, of lines
that may be typed, with the cursor in it. The other invariants are about what
operators compute from such a text, so each follows from `TextOK`, and their
substance is in the lemmas on the operators:

- `SegmentsOfRun` (`StagesAreSegments`) is an induction over the lines. What holds
  after line n (`Segmented`) is the property for the first n lines, with the
  last segment still growing.
- `ProbesPrefixOfRun` (`ProbesWhatARunWouldRun`) is `PriorOfRun`. `ProbeStops`
  (`ProbeStopsBeforeCursor`) compares what two scans have counted, the one for the
  prior stages and the classifier's `HeadersBefore`.
- `OffersFit` (`OffersAreOfTheStage`) rests on `StageOfCursor`, that the classifier's
  label is the one of the run's stage, on a lemma for each kind of server that a
  schema has only what is on it (`SqlSchema`, `MongoServed`), and on the context
  never being one that belongs to another type (`StageClass`); that an open
  placeholder the classifier sees stands in the stage is `PlaceholderInText`.
- `CollectionsListed` (`EveryCollectionIsOffered`) and `TablesKeptApart`
  (`ColumnsAreOfOneTable`) need the other direction as well: the schema of MongoDB
  has all collections of a server that could be listed (`CollectionTables`), and
  a name's first table has all the columns that its database has of it
  (`ColumnsOfTable`).
- `PathsOfPrior` (`PathsAreOfTheStageBefore`) puts `ProbeStops` and
  `ProbesPrefixOfRun` together with what is kept of a sampled array: its first
  element is always in it (`FirstElement`).
- `ContextByKeyword` (`ContextIsOfTheLastKeyword`) and `AliasesKnown`
  (`AliasesAreKept`) are about raw text and sent text. `BreaksOfContent` says that the
  raw text without ends of lines is what a run would send, by induction over the
  lines; `BreakPlace` takes a word of the one to its place in the other. From
  there `LastKeywordFound` compares the places of nine keywords, each the last
  occurrence of its letters; and `AliasStays` follows an alias through the
  scan for definitions, whose steps may overlap: `DefinitionsMatch` and `NextFacts`
  say that no match swallows the beginning of one that is clear of others.

`PipelineProofs`, for any requests, texts, registries and options:

- `TypeCorrect`. `SetConfigType` and `PipeDataType` say what the two helpers
  return; the first is again an induction, over the options.
- `EarlierReads`: `EarlierStagesAreReads`. `ReadsInv` adds that the check of the start
  still holds for the stages of a call (`ChecksHold`) and that an idle call has
  asked for nothing. The class is looked up a second time, on another text, and
  comes out the same because substitution keeps every word that is not a
  placeholder (`PipeDataType`), and the class depends only on the deciding words:
  of MongoDB on whether the collection has a dot and on the method (`Decided`,
  `SameClass`).
- `StepsOfACall` sums up the actions as what one call may become. From it follow
  `RowLimit` (`RowLimitHolds` is inductive: comparing by equality suffices as
  long as the limit does not move below the rows already read) and `DebugShows`,
  whose invariant `Noted` says which stages have been noted down on the way.

- `Chained`, the refinement. `Places` says where a call is when the
  Chain's status changes (a call that is to finish holds the result of its last
  stage); `ChainStep` maps each step to one of the Chain or to a stutter. A call
  without stages, or one that is refused, is invisible to the Chain.

`ConnectionsProofs`, for any clients, labels, URIs and any clock:

- `TypeCorrect`, with `Placed`: the locals of a call are those of its place.
  `WithoutFacts` says what is left when a label is deleted from a list, by
  induction over the list.
- `LabelsUnique`: `UniqueConnectionLabels`, with no condition on the overlap of
  calls or on crashes. `UniqueInv` adds that what a call holds in its hands and is
  going to write names each label once. A file that two writers have mixed is
  one of the two texts or no JSON at all, and the latter is refused by every reader.
- `RegistryWhole`: `RegistryComplete`. `RegistryInv` says of the one writer there
  is, as long as none overlap, that it is in tune (`InTune`): the list it will write
  differs from what is expected by its own label alone.

On the caches, each step is, to one label, one of six things
(`Moves`): nothing, the end of an interest in it, the beginning of a call on it, a step of
that call, its end, or a refresh. `AloneInv` says that a label on which no two
calls met has one call at most. From there:

- `RefreshesStick`: `RefreshSticks`. What is old is in the file only while a sweep
  has the label before it, and never in a call's hands (`OldInv`).
- `CachesBelong`: `CacheBelongs`. `BelongInv` follows a connection from the fill
  of the registry, when there can be no cache of its label, to the save, and from
  the deletion to the drop, the one place where a cache may be without a
  connection.
- `CachesMoveForward`: `CacheNeverGoesBack`, an action property. What a call has
  in its hands is as recent as the file (`RecentInv`), as no stamp is ahead of
  the clock (`PastInv`).

`ProbeProofs`, for any requests, texts, registries and times:

- `TypeCorrect`. That the stages before the cursor are stages is an induction
  over the lines of the text (`BufferStagesType`), as for the parser of a run.
- `AnswersOwnPipeline` (`AnswersAreOfThePipeline`) and `AnswersRecent`
  (`AnswersAreRecent`). `ProbeInv` says of a file that the hash in its name is
  that of the pipeline it is of, and that its result is older than the file by
  a timeout at most; and of a request that is between its look at a file and the
  read, that the file can only have become newer.

`WebuiSyncProofs`, for any tabs, paths, texts and capacity of a channel:

- `TypeCorrect`. `FormInv` adds what calls and events carry: a pointer (`Live`)
  always points to a file that is open, since a close replaces those that are
  under way by the record they point to.
- `MirrorsStay`: `MirrorsAgree`. As long as nothing overlaps there is one piece of
  work at a time: a typing that waits, or a request, or the events of one request
  (`OneAtATime`). What it carries is what the store has (`TrueInv`), and a mirror
  differs from the store at most in the path that an event under way, or one to be
  sent, will mend (`MirrorOf`); each way in which it comes, answer or event, is
  shown to mend it.
- `EditsMeet`: `EditsConverge`. Edits of any number of tabs overlap, their records
  are read while they are written, and answers overtake events, so no event need
  say what the store has. The invariant `Texts` is therefore about the last one:
  for each tab and path, if no further edit is to come (`Later`), the last event
  under way has the server's text (`LastIsTrue`), and if there is none the editor
  shows it or has typing of its own to push (`Shows`). A torn read can only bring a wrong
  text while a writer has the file, and that writer is an edit yet to come. An
  operation that is no edit had the server to itself (`Sole`), but its event may
  still be in front of those of edits (`EditsLast`); while it can still move the
  focus, the mirror it will be shown from must be right as well (`Knows`), which
  holds because the answer to an edit follows the edit's event, or finds it still
  on its way.

Assumptions: the distinguished constants (`NoPath`, `Missing`, `NoDoc`, `Live`,
`NoCache`, ...) are not elements of the sets they stand beside (null is no file,
a pointer neither, an editor that shows nothing shows no text); the capacity, the refresh interval and the cache's
time to live are positive; requests and streams are finite; texts are sequences of
lines, registries map labels to URIs, options have a value of their kind or one
that does not parse, and the default limit is 20; a word that begins with a
backslash is no SQL command. Of a completion's constants: the end
of a line is no word and inside none, the parts of a path are strings, `as` is a
name like others, `db` ends in `db`, a blank line has no text, the catalogue has
every type, what a server lists is a
sequence, an array that has an element has those before it, and at least one
is sampled. TLC evaluates all of them in the runs.

Only model-checked: what is promised to happen (`PublishCompletes` and
`StreamsEnd` of EventBus, `RequestsReturn` and `GoroutinesEnd` of Probe), since the
prover handles neither fairness nor ENABLED.

## Abstractions

- A text is a member of a small set, a path or a label a model value. Inputs
  that a call refuses before it reads any state (a bad path, an empty label) are
  left out. The cursor offset is left out, and so is what is only for display.
- The order of the page's `Map` is left out: when the focused file is closed
  the next focus is any other file.
- A torn read of a record is a mix of its fields, each of them whole.
- The failures of a save are in Workspace and not in WebuiSync, where the
  server does not stop and nobody else writes `.simp` files.
- Of a query's text, its words are kept, without the blanks between them. A
  placeholder stands for one word, so it never brings in parentheses, dots or a
  whole query; a MongoDB text that has not this shape is not in the model. Neovim joins lines with `::` before a
  run and splits them again, which tears a line that contains it (a PostgreSQL
  cast); the web UI sends lines as they are, and so does the model.
- A result is the number of the stage it is of, and while it is read a number of
  rows. `\d`, which asks three queries, asks one. No adapter returns an empty
  result (no rows are `[]`), so the loop's test for one is never true.
- A panic (a MongoDB method without an argument that its handler indexes) ends a
  request. No arguments means blanks between the parentheses: if there is nothing
  at all, the handlers return an error, like any other failure. In a probe it would end
  the process, which `Probe` leaves out.
- Time is a counter in Connections and Probe and an arbitrary delay elsewhere, as are the
  100 ms of the debounce and the five seconds of the shutdown.
- `last_refresh_attempt`, which nothing reads, is left out. In Connections a
  cache is the database it describes; what it holds of it is Introspection's.
- In Completion words are in lower case and separated by single blanks; the cursor is at the
  beginning of a line or at the end of its last word; a half-typed header is a
  single bar; the ranking of the offers is left out, and so is what the probe's
  cache does to them, which is Probe's subject. A completion finds a schema that
  was introspected just now.
- In Completion a pipeline's result is chosen by the database of its last stage, and
  a JSON value is the set of places in it.

## Not modelled, and the plan

Built so far, in this order: the broker with its abstraction, the store and the
server's life, the registry and caches, the pages, the pipeline with its
parsers and its abstraction, the probe, the completion with introspection; then the
proofs. What is left is **TabEditor**, the debounce of one page across a switch of
files, with the text the user loses, which WebuiSync has but does not examine.

Left out for good: database drivers (I/O; their success or failure is modelled
where it matters), the conversion of results, the cutting of queries into
tokens, the connection, execution and suggestion endpoints (stateless shims),
the contents of the built-in catalogue, static assets, and the Neovim plugin's
popups and highlighting.
