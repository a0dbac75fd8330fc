# Specifications of devscode

TLA+ models of the stateful core of this repository (the `core`, `gui` and
`extensions/vscode` packages of the devscode coding assistant), model-checked
with TLC and, where a property matters for any number of files, branches, lines
or calls, proved with TLAPS. `PROJECT.json` lists the runs, the mutants each
property is tried against, the source lines each definition models, the
disagreement found between code and documentation, and the hazards.

Everything here is written from the source. One peculiarity of this tree shapes
several models: in 38 places where a loop should go on, the source holds the
statement `devscode;`, which is an undeclared identifier and throws a
`ReferenceError` when it is reached. The models do what the source does.

## 1. The system

The program is an editor extension in three processes: an IDE side (VS Code
extension in TypeScript, JetBrains plugin in Kotlin), the core (Node, in process
in VS Code, as a binary over a pipe for JetBrains) and a web view (React and
Redux). They exchange typed messages (`core/protocol`).

| Component | State it keeps | Operations | Hard behaviour | What makes it correct | Model |
|---|---|---|---|---|---|
| Index catalog (`core/indexing/refreshIndex.ts`, `CodebaseIndexer.ts`) | SQLite tables `tag_catalog`, `global_cache`; per refresh: file list, mtimes, time stamp, five lists, batches | `refreshDirs`, `refreshFile`, `markComplete` | two refreshes at once, file changes and checkouts during one, crash between two writes, unsaved editors | a row that makes a file be skipped is right; undisturbed refreshes converge to the workspace | `RefreshIndex`, `RefreshConvergence` |
| Chunk index (`ChunkCodebaseIndex.ts`) | tables `chunks`, `chunk_tags` | `update`: compute, addTag, removeTag, del | one artifact shared by branches, operations outside a transaction | what a branch lists is what a search in it finds | `ChunkIndex` |
| Vector index (`LanceDbIndex.ts`) | one LanceDB table for each branch, one cache of rows in SQLite | the same four operations | three stores written one after the other, cut off in between | as above, whatever was cut off | `VectorIndex` |
| Snippet index (`CodeSnippetsIndex.ts`) | tables `code_snippets`, `code_snippets_tags` | the same, in another order | `REPLACE` under new ids, ids used again, `markComplete` not awaited | as above, however late the marks | `SnippetIndex` |
| Full text index (`FullTextSearchCodebaseIndex.ts`) | tables `fts`, `fts_metadata` | the same | reads the chunks of another artifact; order of compute and del | as above | - |
| Indexing control (`core/core.ts`) | one cancellation controller, one pause token, calls in flight | `index/forceReIndex`, `index/forceReIndexFiles`, `index/setPaused`, start-up | calls that overlap, state re-read after an await | cancelled and paused calls stop working; every call ends | `IndexingControl` |
| Inline diff (`extensions/vscode/src/diff/vertical`) | line queue and lock, deletion buffer, line counters, decoration ranges, code lenses | stream of diff lines, accept, reject, typing, change of editor | asynchronous edits, editor closed or left in the middle, edits outdated by others | the document holds what the user chose; lenses and decorations cover the lines they were made for | `VerticalDiff` |
| Line diff of a stream (`core/diff/streamDiff.ts`, `util.ts`) | what is left of both files | `streamDiff`, `matchLine` | approximate matches, indentation mistakes, lines found removed later | both files can be read back from the diff | `StreamDiff` |
| Docs service (`core/indexing/docs/DocsService.ts`) | config and its last version, queue of sites, statuses, SQLite metadata, LanceDB rows, last embeddings provider | add, reindex, remove, abort, config update, command, restart | queue read before an await and filled after it, early returns, circular config updates, deletions in two halves | a site known as indexed has rows; the spinner belongs to a run; everything comes to rest | `DocsIndex` |
| Configuration (`core/config/ConfigHandler.ts`, `ProfileLifecycleManager.ts`) | profiles, selected profile, saved, serialized and pending config of each | load, load for the GUI, select, reload | a load in flight during a reload, a rejected load, a loader that throws | a config delivered is not older than a finished reload | `ProfileConfig`, `ConfigSource` |
| Autocomplete (`core/autocomplete`) | debounce timer and last request, running generator, LRU cache in SQLite | request, cancel, cache get and put | overlapping requests, reuse of a stream, cancellation of a generator | a completion continues what is typed; every request is answered | `Autocomplete` |
| Chat session (`gui/src/redux`) | history, streaming flag, tool call state | send, edit and resend, stream, cancel, tool call, accept, reject, delete, new session | new message or session while a stream or a tool is under way | the input is never blocked with nothing under way; a tool's output belongs to its call | `ChatSession` |
| Prompt compilation (`core/llm/countTokens.ts`) | messages, count of tokens | `compileChatMessages`, `pruneChatHistory` | six phases that each change the count, rounded and partly wrong | the prompt fits, the youngest messages survive | `CompileChat` |
| Streaming requests (`gui/src/context/IdeMessenger.ts`, `webviewProtocol.ts`, `core/core.ts`) | buffer and position of each stream, one abort signal, ids of aborted messages | stream, abort, error | answers, chunks and aborts of several streams over one channel, ids that share an answer | a consumer gets its own chunks in order and a true end; an abort stops the model | `MessageStreams` |
| Framing (`binary/src/IpcMessenger.ts`, `TcpMessenger.ts`) | unfinished line | receive data, send | buffers cut after any byte | every message is handled once, in order | `IpcFraming` |
| Files of the user (`core/util`) | `sessions.json`, session files, global context | list, load, save, delete | several windows write one file | no session is lost | - |
| Lazy edits, other language model code, context providers, slash commands, tools, directory walk, authentication, JetBrains side, packages, `sync` | mostly none | | network and file I/O | | - |

How they interact: the core starts and cancels refreshes (`IndexingControl`); a
refresh plans with the catalog (`RefreshIndex`) and hands the plan to each index
(`ChunkIndex`, `VectorIndex`, `SnippetIndex`), which call back `markComplete`; searches for
context read the index tables; the docs service and the indexes are told about
new configs by the config handler (`ProfileConfig`), and the docs service edits
the config file that makes the handler reload; the chat session asks the core
for streams of tokens and tool results (`ChatSession`), for which the core
compiles a prompt (`CompileChat`); an accepted code block becomes a stream of
diff lines (`StreamDiff`) that the inline diff writes into the editor
(`VerticalDiff`), reporting back to the session.

## 2. Plan

Modules in order, what each composes, and the state of the plan.

1. `RefreshIndex` - catalog and cache, the plan of a refresh and its writes. **done**
2. `RefreshConvergence` - extends 1 with a history of undisturbed refreshes. **done**
3. `ChunkIndex`, `VectorIndex`, `SnippetIndex` - extend 1, by way of `TagIndex`, with the
   tables of three indexes; `TagIndexes` - the three side by side. **done**
4. `IndexingControl` - calls, abort, pause. **done**
5. `VerticalDiff` - the inline diff. **done**
6. `DocsIndex` - the docs service over its three stores, with restarts. **done**
7. `ProfileConfig`, refining `ConfigSource`. **done**
8. `ChatSession` - session reducers and streaming thunks, with tool calls. **done**
9. `StreamDiff`, `Autocomplete`, `CompileChat`. **done**
10. `MessageStreams`, `IpcFraming`. **done**

Proofs: `RefreshIndex`, `RefreshConvergence`, `IndexingControl`, `StreamDiff`,
`ChatSession`, `MessageStreams`, `ProfileConfig` with its refinement, `DocsIndex`,
`Autocomplete`, `CompileChat` and `TagIndexes` - every safety property their runs
check. **done**

Left, in this order: proofs for `VerticalDiff` (`LensesShowHunks`); the full text index,
which needs the catalogs of two artifacts at once; the session files.

The project keeps to at most twelve runs: where a run of a known divergence gave
way to one of a new component, the divergence stays in the text (section 5).

## 3. Modules and their correspondence to the code

### RefreshIndex

One directory and one artifact, so a tag is a branch. A text stands for its hash.
`catalog[b]` and `gcache` are the two tables; `disk`, `buffer`, `branch`, `clock`
are what `getLastModified`, `readFile` and `getBranch` see; everything a refresh
keeps between two awaits is a function of the run and is lost when the run stops.

| Action | Code |
|---|---|
| `Start`, `GetBranch`, `Stat` | `refreshDirs`: files listed, branch read, all mtimes |
| `StartFile` | `refreshFile` for one path |
| `Plan`, `ReadNew`, `SkipFresh`, `ReadSame`, `ReadChanged` | `getAddRemoveForTag`: time stamp, then one row or file at a time, in any order, each read after an await |
| `SplitFull`, `SplitFile` | `getComputeDeleteAddRemove`; `refreshFile` keeps compute only |
| `NextBatch` | `batchRefreshIndexResults` |
| `MarkCatalog`, `MarkGlobal` | the two statements of `markComplete`, interruptible in between |
| `Touch`, `TouchFails` | `UPDATE` of the rows of a path; with two rows the unique index makes it fail |
| `NothingToCompute` | the undeclared identifier of `CodebaseIndexer.ts:135` |
| `Stop`, `StatFails`, `Finish` | end of a run at any await |
| `WriteFile`, `DeleteFile`, `Checkout`, `Edit`, `Save` | the user |

Assumed of the environment: a write gets a modification time later than every
`Date.now()` already returned (same-millisecond writes and moves that keep an old
mtime are outside the model); a checkout touches only files it changes; the
order of the saved rows is arbitrary; a document with unsaved edits is saved in
the end (section 5 says what happens otherwise). The remote cache is not modelled.

### RefreshConvergence

`calm` counts full refreshes that ran to `Finish` alone, one after the other, with
no change of the workspace and no failure; `whole` names the runs still
undisturbed. They constrain nothing.

### TagIndex

Extends `RefreshIndex` with what the three indexes below share: `Parts`, the number of
parts (chunks, snippets) of a text; the steps of a refresh before, between and after
the calls of `update`; and the conditions of a workspace that changes between runs
only. Each index is an artifact with a catalog of its own, so none of them meets
another.

### ChunkIndex

Extends `TagIndex` with `chunks`, `chunk_tags` and the steps of
`ChunkCodebaseIndex.update`: `PackToChunks`, `InsertChunks` (one transaction),
`AddTag`, `RemoveTag`, `DeleteChunk` and `DeleteTags` (two statements, `del` takes
*one* chunk by key), each followed by `Mark` and `Cache`. `spared` is history: the chunks
with which `del` left a branch when it took another chunk of the file. `SteadySpec` lets
the workspace change between runs only.

### VectorIndex

`vectors` is the LanceDB table of each branch, `made` the branches that have one,
`cache` the SQLite table all branches share. `phase` says where `update` is:
`CollectChunks` (one file) and `InsertRows` (one transaction) up to "insert",
`AddComputed`, then `AddTagRows` and `DeleteFromTable` (or `NoTable`) in "tags",
`MarkRemoved`, `DeleteFromCache`, `MarkDeleted`; `MarkVectors` and `CacheMark` are the
halves of `markComplete`. `CutOff` ends a run anywhere in `update`, by a crash or an
exception, and `cut` records the file versions it was about. Not followed: the
remote cache of embeddings, embeddings a provider leaves out.

### SnippetIndex

`update` takes the lists in the order compute, del, addTag, removeTag (`Sooner`).
`Parse` reads the file, `ReplaceSnippet` and `ReplaceTag` write one snippet,
`DeleteSnippets` and `DeleteSnippetTags` are the two statements of del,
`RemoveSnippetTag` takes the one row of `db.get`. `CallMark` starts a `markComplete`
that goes on by itself (`MarkRowLate`, `MarkCacheLate`); several may be under way.
`taken` records the versions whose rows another branch has replaced. Assumed: marks
write in the order in which they were called, and none outlasts the pause between
two runs.

### TagIndexes

The three are artifacts of one table `tag_catalog`, each with rows and refreshes of
its own (`getIndexesToBuild`); `artifact` says whose a behaviour is, and the tables of
the other two stay as they are.

### IndexingControl

`controller` names the call whose `AbortController` is current; `signal[r]` is the
signal a full refresh holds, taken *after* the await of the indexer
(`Resume`); `Work` is a stretch from one test of the abort and the pause to the next
(the first yields of `refreshDirs` have none after them), `Check` the tests, `Wake` the
poll of the pause token. `WorkThrows` ends a run by an error outside of the `try`, which
leaves its controller. `extra`
and `late` count segments begun after an abort or a pause.

### VerticalDiff

A diff line is its kind and its place in the stream. `doc` is the document;
`pending` holds the edits requested and not yet answered: an edit is rejected
when its editor has been closed meanwhile (`gone`) and dropped when the document
has changed meanwhile (`stale`). `Receive` and `QueueEmpty`/`Take...` are
`run()` and the loop of `queueDiffLine`; `SameDone`, `OldDone`, `NewDone` are the
parts of `_handleDiffLine` after its await; `LineFails` its catch,
which puts the line at the *end* of the queue; `EndAtOnce`, `EndWithEdit`,
`FlushDone`, `FlushThrows` are the end of `run()`; `ClearAll` to `ClearFails` are
`clear`; `Resolve` is `acceptRejectVerticalDiffBlock`; `TypeLine` is
`handleDocumentChange` for a line break outside the blocks; `SwitchAway` and
`SwitchBack` are the user and the listener. The loop runs without interruption
between awaits (`Idle` excludes other actions).

`choice` and `calm` are history: what the user chose for each hunk, and whether
the stream has been written without an exception, a clear in the middle or lines
left in the queue. One handler, one stream; the edit of a click is answered
before the next click; the arithmetic of a click that would move a range above
the document (an exception of the editor) is not followed.

### StreamDiff

A line is a text and an indentation; `Similar` is the edit distance test of
`linesMatch`, an arbitrary relation. `MatchLine` is `matchLine` (brackets only
within `Reach`, `Strict` texts only as themselves, indentation corrected in
`permissive` mode or for `Long` texts). Every step yields one line of the diff or
looks for a match: `Compare` is the top of the loop, `Skip` the old lines before a
match, `Same`, `Remove`, `Replace` and `Replacement` its three branches, `RestOfOld`
and `RestOfNew` the end. `fromOld` and `fromNew` are history: the lines of the diff
that stand for lines of the file and of the model. A generator cannot be
interfered with between two yields, so nothing else acts.

### DocsIndex

Three stores on disk (`file` is config.json, `sqlite` the metadata, `lance` the
rows), the service's fields in memory. A *run* is a call of `indexAndAdd` past the
test of the queue, a *sync* a call of `syncOrReindexAllDocs`; both are slots used
again.

| Action | Code |
|---|---|
| `Launch` | the test of `docsIndexingQueue`, then one run for each call that passes |
| `GetProvider`, `Lookup`, `AlreadyIndexed`, `ClearRows`, `ClearMeta` | `indexAndAdd` up to its `try`; the early return leaves the site in the queue |
| `Progress`, `Crawled`, `Embedded`, `NothingEmbedded`, `GotFavicon`, `AddRows`, `AddMetadata` | the `try`, each status update behind `isAborted` (`Checked`) |
| `Rejects`, `Throws` | an error before and inside the `try`; only the second passes the `finally` |
| `Reload`, `ReloadUnheard` | the config update, heard only after `init()` has awaited its first sync |
| `ReembedAll`, `SyncDocs`, `Reembedded`, `Synced`, `SyncDeletes...`, `SyncThrows` | `syncOrReindexAllDocs` and what it awaits |
| `AddDocs`, `ReindexDoc`, `Abort`, `RemoveDocs` (with `RemoveRows`, `RemoveMetadata`), `EditFile`, `IndexDocs`, `InitStatuses`, `RetrieveChunks`, `Restart` | messages of the GUI, the editor, the end of the process |

`AddRows` uses the table of the provider configured *then* for vectors of the
provider at the start; deletions reach only tables opened since the start
(`opened`). `torn` is history: sites whose rows a deletion took while their
metadata could stay. Left out: pre-indexed sites, the pause message (nobody sends
it), the provider JetBrains does not support.

### ConfigSource and ProfileConfig

`ConfigSource` is what callers may rely on: versions of each profile's source, a
*floor* for each profile that rises with each reload, up to what calls under way have
read before and still cache, and calls answered with a version between their floor and the newest, or failed, or
lost. `ProfileConfig` is `ProfileLifecycleManager` for each profile under
`ConfigHandler`: `UseBrowserConfig`, `UseSavedConfig`, `UsePending` and `StartLoad`
are the branches of `loadConfig` and `getSerializedConfig`; `ReadSource`, `Resolve`,
`Reject` and `LoaderThrows` the promise; `Deliver`, `DeliverError`, `WaitForEver` what
the callers do with it (the maker of a promise writes the cache once more);
`Reload`, `ReloadReads`, `ReloadEnds`, `ReloadFails` are `reloadConfig`. A rejected
promise stays until a reload; a loader that throws inside the executor leaves a
promise that never settles. Left out: that listeners are told, the record of the
selection, the profiles fetched from the control plane.

### ChatSession

Reducers of the session slice are operators on the history (`SetStatus`,
`ClearLastEmptyResponse`, `StreamText`, `StreamCall`, `SetMessageAtIndex`); a *run* is
a thunk with those it awaits, one action between two awaits. `Send` and `Resubmit`
are `streamResponseThunk` up to the gathering of context, `Gathered` what follows;
`TextUpdate` and `CallUpdate` are `streamUpdate`; `Finish` is what follows the loop
(`StreamEnds`) or its `break` (`StreamStopped`, which aborts whatever stream is
current); `Accept`, `ToolReturns`, `ToolFails` are `callTool`, `Reject` is
`cancelTool`, `AfterToolCall` is `streamResponseAfterToolCall`. `End` is the `finally`
of the wrapper of errors. Updates and outputs of tools may have no content; after an
abort any number of updates may still come, since `streamRequest` yields what it has
buffered. `acts`, `called` and `MaxItems` bound the session; `orderly` is history: no two
runs overlapped, none was disturbed, and no message of a tool was cleared together with an
empty answer to it (`SparesTools`).

### Autocomplete

A text is a sequence of characters. `Ask`, `DebounceTimeout` and `Debounced` are the
debouncer, whose timer only a later call looks at; `Lookup` is
`AutocompleteLruCache.get`: `Like` is SQLite's `LIKE` (`Wild` is `_`, `Percent` is `%`,
`Letters` pairs the cases of a letter), and `Sliced` the `slice` of the value, which for a
key longer than the prefix takes its last characters. `Save` is `put`; `Start` is
`GeneratorReuseManager`, `Read` one turn of `tee` and of the loop over chunks,
`TakeChunk` that loop's body (`typed` is `typedSinceLastGenerator`); `FilterStops` and
`FilterThrows` stand for the filters on the stream; `Yields` and `Ends` are
`ListenableGenerator._start`. Prompts, post-processing and logging are left out.

### MessageStreams

A stream stands for the message id of its request; `toIde` and `toGui` are the
channel between web view and extension, in order. `gui` holds the locals of each
`streamRequest`, `signalled` the streams that listen to `streamAborter.signal`:
`AbortStream` posts an abort for each of them, ended or not. `Take`, `Return` and
`Leave` are the consumer, `Handled` the listener of messages. On the other side
`Receive` calls the handler and `Acknowledge` answers an abort, with the id of the
stream and `done`; `Begin`, `ModelYields`, `AbortFound`, `ModelEnds` and `Fails` are the
generators of `llm/streamChat` and `command/run` as the loop over `response.next()`
drives them, `CheckActive` is `checkActiveInterval`. `cancelled` and `late` are
history. Left out: single requests, requests of the extension to the GUI and
their retries, a web view that takes the place of another.

### IpcFraming

The bytes of the messages one after the other, handed to `HandleData` in
buffers of any length. `Decode` is `toString()` of one buffer, `Lines` the split and the
filter, `HandleBlank`, `HandleFinished` and `HandleUnfinished` the three ways through
`_handleData`, `TextOf` and `IsMessage` what `JSON.parse` accepts. `Frame` is what is written
for a message, `Stream` all of it. Where a part of a sequence is taken (`filter`, the split), the
members stand `At` a set of places put `InOrder`: the prover cannot use the operators of
the community modules for this, which sort and filter by recursive functions. A text is
one character of two bytes, a space and a character of one byte, so that a message has six
bytes with its terminator; the space stands for any run of white space within a message,
which is thrown away when it fills a buffer. Nothing of a message but its text is modelled.

### CompileChat

A message is its role and the tokens of its content: a text, or, for a user's message to
a model with images, an array of parts, of which `size` is what is counted (the last part)
and `more` what the others have. Totals are in thirds of a token,
because a phase works with a third of the context. `Compile` is the first half
of `compileChatMessages`, the actions from `Trim` to `Truncate` are the phases of
`pruneChatHistory` as the source has them (phase 1 summarizes the first message
each time; phase 5 takes the buffer off twice), `Finish` is the rest with
`flattenMessages`, which adds "[object Object]" (`Object` tokens) for an array. A model
without images has its arrays rendered to texts first (`Content`). Assumed: an array has
some text in it, the end of a content has the tokens that are left, "..." and an empty
line are one token, messages over a third are cut in any order.

## 4. Runs that pass

| Run | Question | Bounds and why they are enough |
|---|---|---|
| `refresh` | Do two refreshes repair anything? Does one remove all stale rows? Can refreshes in flight write a row that claims too much? | either two files, two branches, one run at a time (full or single-file), any checkouts, a crash at every await; or two runs over one file that may be open unsaved, without `Stop` (to the other run a stopped run is one that takes no further step). Two texts, one write after the start; two rows of a path need one crash or one `refreshFile`, sharing needs two branches, and rows of different files do not meet in any statement |
| `tag_indexes` | Does what a branch lists agree with what it finds, in the chunk, the vector and the snippet index? | one file, two branches, three texts (an empty one, one of one part and one of two), one index in each behaviour; four changes for the chunks, three for vectors and snippets: enough for every one of compute, addTag, removeTag, del to follow each other. Two changes and one update cut off for the vectors: before the cut, between the cut and the repair, and after. An empty file only with two changes and no cut: it has no rows, as a file that is gone |
| `control` | Do cancelled and paused refreshes rest, does every call end? | start-up and one more call, three segments: a segment before, at and after an abort or pause |
| `diff` | Does the document follow the choices, do lenses and decorations stay on their lines, does `run()` end? | all streams of up to three lines of all kinds, and pairs of two-line hunks; zero or one line around the range; one change of editor, one typed line |
| `stream_diff` | Can both files be read back from the diff? Is a repeated file left alone? | all pairs of files of up to three lines over four texts and two indentations: a bracket, an empty line, two texts that match approximately; proved for any size |
| `docs` | Does the spinner belong to a run, does a site known as indexed have rows, does everything come to rest? | one site (the queue, statuses and rows of two sites do not meet), two entries for it, two runs and two syncs at once, two things the user does, restart among them; one provider |
| `config` | Is every config returned as new as a finished reload promises? Is every call answered? | two profiles, two callers that call again and again, one change of a source: a stale value is one version behind |
| `chat` | Is the input ever blocked for nothing? Does each output go to its call? Does a response end? | two runs at once, two tool calls, two messages sent, deleted or sessions opened, histories of five messages that responses add to |
| `autocomplete` | Does a completion continue what is typed, whole, from its own stream, another's or the cache? Is every request answered? | two requests over three texts, one of which continues another and one of which is longer, has another case, `_` and `%`, and is no beginning of it but `LIKE` it; responses of two chunks with empty ones and line breaks, a cache of one row |
| `messaging` | Does a stream give what its model made, and end? Does an abort stop the model? What does the framing lose? | a chat of two chunks and a slash command of one, aborts and new sessions at any time: one stream too many to abort and one chunk too many; or three messages of six bytes in all ways to cut them, the middle one with a neighbour on either side. Nothing joins the two, so that one run checks both |
| `compile_chat` | Does the prompt fit, is nothing cut for nothing, who survives? | conversations of up to five messages with lengths 0, around a third and far above it, user's messages also as arrays whose last part is short, long or an image; a context not divisible by three; two messages spared (five in the code), so that all phases are reached |

What they show, in words:

- `FreshRowsTruthful`: a row not older than the file's mtime has the key of its text,
  however refreshes, writes and checkouts interleave. It rests on the time stamp
  being taken before the first read; a stamp taken at write time breaks it.
- `TwoRefreshesConverge`, `OneRefreshLeavesNoStaleRow`: the repair that the
  algorithm achieves in one and in two undisturbed refreshes from any state a
  crash, an error or `refreshFile` can leave.
- `ListedChunksFound`, `OnlyListedChunksFound`: both halves of agreement
  (`IndexedFilesHaveChunks`, `NoLeftoverChunks`), for files of any number of chunks. The
  second excuses one thing, which `spared` names: of a file of several chunks `del` takes one,
  and the branch that gave the file up finds the others until a removeTag of the file.
- `ListedVectorsFound`: the same of the vector index; a cut-off update, which leaves
  rows in one store and not in another, is never carried over to other versions.
- `ListedSnippetsShown`: neither late marks nor ids used again hide a listed file;
  only another branch that writes the same file does (section 5).
- `CancelledRunStops`, `PausedRunRests`: at most one more segment; `CallsEnd`: every call ends.
- `DocumentFollowsChoices`, `LensesShowHunks`, `RunEnds`: see the comments in the module.
- `OldLinesKept`, `NewLinesKept`, `NoChangeForSameLines`: the diff loses, repeats and
  moves no line of either file, whatever matches; only indentation is corrected.
- `SpinnerHasARun`, `IndexedSitesHaveRows`, `ComesToRest`: two runs of one site do meet
  (the queue does not exclude them), and still a failure or abort of one leaves
  no status behind that nobody will change; a site of the metadata table has
  rows unless a deletion took them (`torn` names exactly those deletions); the
  circle of config edits and syncs stops.
- `CachesReachFloor`, `ImplementsSource`, `CallsEnd`: the only way an old config comes
  back after a reload is a call that was under way at the reload, had read it before and
  caches it.
- `ActiveHasARun`, `ToolAnswersItsCall`, `ClosedCallsStayClosed`, `ResponseEnds`: the
  middle two hold as long as runs do not overlap and are not disturbed; section 5
  says what happens otherwise.
- `PendingIsOfCurrent`, `CompletionContinues`, `EndedIsComplete`, `RequestsEnd`: a
  reader that reaches the end of its stream has all of it, also when the stream
  was started for another prefix; readers of a cancelled generator are woken. What comes
  from a stream goes on exactly where the prefix ends. What comes from a row of the
  cache was written after a text that the prefix is `LIKE`, and no more can be said
  (section 5).
- `FitsContext`, `FittingIsKept`, `LatestAreKept`, `SystemComesFirst`: although the
  phases add up wrongly on the way, what comes out fits as `countTokens` counts it, which
  for a model without images is what it has; and the order in which messages are given
  up is the one the comments promise. For a model with images `countTokens` sees the last
  part of an array only, and the prompt may be longer than the context (section 5).

- `DeliveredInOrder`, `ReturnIsTrue`, `AbortStopsModel`, `StreamsReturn`: polling every
  50 ms loses nothing; a stream that was not aborted never takes the answer to
  an abort for its end; aborted ids that nobody reads do no harm.
- `UncutMessagesAreHandled`: says what may be lost: a message beside a terminator that was
  cut, a character that was cut, and white space that came as a buffer of its own (section 5).

Type invariants of `RefreshIndex`, `IndexingControl`, `ChatSession` and `StreamDiff`
are proved (section 6) and not checked again.

Refinement. `config` checks that every behaviour of `ProfileConfig` is one of
`ConfigSource` (`Source!Spec`), with the source's versions for `newest` and for
`asking` the profile each call waits for, or `Lost` when it waits for a promise
that never settles; `floor`, `since` and `answer` are shared history. The floor is
what makes the statement true and still say something. Each reload raises it to the
version of the source then, or, if calls under way have read an older one and will
still write it into a cache (`Held`), to the oldest of those. A load that was begun and
has not read yet, or a caller that has its answer and caches nothing, does not hold it
down.

Fairness. Each run with a liveness property assumes weak fairness of the
program's own steps - Node's event loop runs what is ready, and what is awaited is
answered or fails - and none of the user:

| Run | Fair | Not assumed |
|---|---|---|
| `control` | the start-up promise and each call's own steps | calls, aborts, pauses; every pause on the way to `CallsEnd` ends or is aborted |
| `diff` | the handler as a whole: the editor answers or rejects an edit, the generator goes on or ends | that the user comes back to the editor |
| `docs` | steps of each run and each sync, config reloads, deletions begun | progress of a crawl (it ends, by `Crawled`), anything the user does |
| `config` | steps of each call once made: a source is read or reading it fails | callers and changes |
| `chat` | steps of each run, and that a stream ends (`StreamEnds`): a server sends no endless response | everything the user does |
| `messaging` | the arrival of messages, the consumer's timer, the generators: a model answers, fails or ends | aborts, new requests, new sessions; the interval of a command |
| `autocomplete` | the steps of requests as a whole, and that generators end | chunks, new requests, aborts |

Deadlock is not checked: users may stop acting, and in every model time stamps,
calls, lines or acts are bounded.

## 5. Disagreements

`chunk_same_text` shows one by a run: `core/indexing/README.md:15` says that an
artifact that already exists only needs a tag; a file copied under another path
gets its row in the catalog and no chunks, so that it is listed as indexed and
never found.

Further divergences met while modelling, which no run shows. Indexes:

- one refresh does not always bring a file in line: with two rows of its path it
  is added and then removed by the same refresh (`refreshIndex.ts:155`, `177`); and
  when the removal falls into an earlier batch than the addition, which more than
  `filesPerBatch` additions bring about, an addTag of an artifact just deleted leaves
  the file listed without chunks;
- unsaved text is indexed under the mtime of the file (`VsCodeIde.ts:466`); when it is
  discarded its key stays and the file is skipped;
- `del` removes one chunk of an artifact of several (`ChunkCodebaseIndex.ts:121`), so that
  the others are still found in a branch that gave the file up, and leaves tags without chunk after a crash in between (`:127`); it is planned
  although another path of the same branch still uses the key (`refreshIndex.ts:374`);
- full text rows of a path are deleted after the new ones are written
  (`FullTextSearchCodebaseIndex.ts:105`);
- the snippet index does not await `markComplete` (`CodeSnippetsIndex.ts:257`): a
  refresh planned before a mark has come sees an old catalog; adding a tag
  replaces the row under a new id (`:297`), so that the branch it came from shows
  the file no more, and `removeTag` takes one snippet of the file only (`:322`);
- `core/indexing/README.md:17` promises no false progress when the extension is
  closed in the middle: closed after a row has gone from the vector table
  (`LanceDbIndex.ts:368`) and before the mark, with the file then put back as it
  was, the catalog lists a file without vectors, whose key the next refresh finds
  unchanged;
- the words `devscode;` in place of a `continue` (`LanceDbIndex.ts:129`, `:262`) throw
  where they are reached, which the nearest `catch` makes much the same;
- the pause token is set before the setting that pauses at the start is read
  (`core.ts:158`); a refresh of files sets the controller and never clears it, after
  which "Codebase indexing already in progress" (`core.ts:870`) holds for good; the
  end of an older refresh clears the controller of a newer one (`core.ts:860`).

Diffs:

- deleted lines among those received while the editor was closed are put back once
  only, with whatever was queued (`handler.ts:358`); a line whose edit fails goes to
  the end of the queue (`handler.ts:316`);
- `streamDiff.ts:12` says old lines of a hunk come before the new ones; old lines found
  unmatched later are yielded after a new line.

Docs: reindexing on a new provider calls `indexAndAdd` without `reIndex`, finds the
sites indexed, and records the provider (`DocsService.ts:1050`); chunks are collected
before the embedding that may throw (`:504`); `initStatuses` shows indexed sites
as pending and others as complete.

Chat:

- after Cancel the old stream is still read: a message sent at once takes chunks
  of the old answer, and the old stream's `break` aborts the new one;
- Cancel or an error during a tool call clears two messages; rejecting a call
  streams on with a tool message whose call may be gone; a call that is still
  "generated" when the next message is sent stays unanswered;
- an answer without content is a message all the same, after one of a tool
  (`sessionSlice.ts:266`); a Cancel or a failure clears it together with the message of
  the tool (`:118`), and a call that was done is the last message again, which the end of
  a stream takes for one just generated and offers, or calls, once more
  (`streamNormalInput.ts:76`). The message of a tool that returns no items has no content
  either and is cleared together with its call;
- `sessionSlice.ts:170` deletes the message before the answer, which may be a tool's.

Messages:

- a buffer that ends before or within `\r\n` makes the messages on both sides of
  it one line that cannot be parsed, and both are lost (`IpcMessenger.ts:76` tests the
  buffer, not the line it has joined); a character cut in two is garbled (`:66`); a buffer
  of white space alone has no lines and is thrown away (`:68`), also in the middle of a
  message, which then parses with its text changed;
- `checkActiveInterval` (`core.ts:551`) takes the id of an aborted command away, so
  that the loop does not find it and the command runs to its end;
- the ids of streams that have ended are added on every abort and never taken out.

Autocomplete: a generator that was cancelled or failed is reused, so its partial
text is shown and cached as a completion; a request whose filter stops cancels the
generator of a newer one; `LIKE` (`AutocompleteLruCache.ts:43`) takes `_` in a key for any
character and `%` for any run of them and does not tell cases apart, so that a prefix
gets the completion of another; when that key is the longer one (`%` stands for nothing)
the slice is negative and the end of the completion is shown; "the key with shortest
length" is the longest; a completion is cached under the compiled prefix and looked
up under the pruned one; the timestamp refreshed is that of the prefix asked for.

Prompts: for a message of several parts only the last is counted
(`countTokens.ts:108`), and `constructMessages.ts:97` makes an array of every message of the
user: with a model that takes images the context that comes before what the user wrote is
not counted, and the prompt may exceed the context; a long last part makes such a message a
text that is cut although all fits; two arrays in a row are joined as "[object Object]"; a system message of the request, unlike one of the options,
is not moved to the top (`:452`); phase 1 summarizes the first message again and
again; two outputs of tools are joined into one message.

## 6. What is proved

`RefreshIndexProofs` (any paths, texts, branches, runs, batch size):

- `TypeCorrect`: `Spec => []TypeOK`.
- `FreshRowsStayTruthful`: `Spec => []FreshRowsTruthful`. The property alone is
  not inductive: a run writes what it read long ago. `FreshInv` adds
  `PlansTruthful` (every planned write is true as of the run's stamp),
  `StampsPast` (no stamp and no row is ahead of the clock, so the next change of
  a file is later than all of them) and `NothingPlannedYet`. Writes of the world
  keep it because they get a later mtime; reads establish it because the
  modification time compared is that of the text read; marks move a planned item
  into the catalog.
- `RefreshClearsStaleRows`: `ConvSpec => []OneRefreshLeavesNoStaleRow`, and
  `SecondRefreshConverges`: `ConvSpec => []TwoRefreshesConverge`. `ConvInv` follows a
  refresh that nothing has disturbed. It is the only one (`WholeAlone`) and works with
  the files and the catalog as they are (`PlanRight`); every row that is wrong is
  looked at, planned for removal or still to be removed (`StaleGoes`), which is why
  one refresh is enough for stale rows; and once there are none nothing is removed, so
  that a row the second refresh adds stays (`FilesStay`), which fails in the first
  one: with two rows of a path it adds the file and then removes it. What must be
  left when a run is over follows from what is left to do being empty. Both speak of
  states without unsaved edits, as the properties do; an edit, saved or not, disturbs
  the runs under way.

The same module, on `TagIndexes` (any files, texts, branches, parts, batch size; the
workspace changes between runs, which come one by one and may stop anywhere):

- `ChunksFollowCatalog` (`ListedChunksFound`), `NoOtherChunksFound`
  (`OnlyListedChunksFound`), `VectorsFollowListings` (`ListedVectorsFound`) and
  `SnippetsFollowListings` (`ListedSnippetsShown`). They speak of
  behaviours in which some conditions hold all along, each of which the code needs:
  - `TextsOwned(owner)`, for all: no text is ever that of two files. A refresh plans by the key
    alone and looks rows up by path and key, which `chunk_same_text` shows to fail;
  - `AddsFit`, for the chunks and the vectors: a refresh that adds and removes the same version of a file does both in
    one batch (the second divergence of section 5);
  In the run both hold of every state, since it has one file.
- The argument goes through three layers. `ScanInv`: what a run has read of the
  workspace and of the catalog is still so, and what is planned is an addition of a file
  as it is or a removal of a row that is listed. `MarkInv`: catalog and global cache
  agree up to what is between the halves of a mark and, in the vector index, what
  was cut off; so what is planned to be deleted is listed by no other branch, and
  what is planned to be tagged only is there. Then the tables: `ChunkInv` (a version
  the catalog lists has its chunks tagged unless it is being removed, the source of a
  tag to be added is there, what has been written is shown until it is marked),
  `LeftoverInv` (a chunk is found in a branch because the branch lists it, it has just been
  computed or `del` has spared it; of a file of one chunk, which del takes away whole, what
  was deleted has not come back) and `VectorInv` (the same through the
  three stores and the phases of `update`, excusing the versions of an update cut
  off: `CutOff` puts all the batch was about in `cut`). Each conjunct is preserved by a
  lemma for each step; steps of other runs are excluded because runs are alone.
- The snippet index writes its rows anew for a tag it adds, so nothing must be there
  before and `AddsFit` is not needed; but marks come late, and `MarkInv` does not hold.
  `SnippetInv` takes its place. The calls of `markComplete` under way are a sequence in which the
  first ones have written the catalog (`MarkCalls`). A listed version is in the global
  cache or a call will put it there, and a call that will take it out is followed by one
  that puts it back (`RowsCachedLate`), which is why `del` is planned only for what no
  other branch lists, once all marks have come. A listed version, or one that a call will
  list, is shown, is being written or removed, has been replaced by another branch, or
  a later call takes it off the list (`RowsShown`, `MarksShown`). Ids are unique and a new
  one is the largest (`SnippetIds`, `NewIdIsNew`), so that no row comes under a tag of another.
- TLC checked these invariants on instances with two files and two parts before
  they were proved.
- `PartsAssumption` says that there are finitely many branches: without it the
  number of tags of a key, which decides between del and removeTag, means nothing.

The same module, on `IndexingControl` (any set of calls, any number of segments):

- `ControlTypeCorrect`.
- `CancelledRunsStop`, from `CancelInv`: from its one late segment a full refresh
  goes to the check and from there to the end. The order of the two checks
  matters: with the pause looked at first, it could wait and work again.
- `PausedRunsRest`, from `PauseInv`, in the same way.

`StreamDiffProofs` (any texts, any relation of similar lines, files of any length):

- `DiffTypes`, `DiffKeepsOldLines`, `DiffKeepsNewLines`, `DiffOfSameLines`. `Inv` adds
  `MatchInv` (the old line of a pending perfect match has the text of the new line it
  was looked up for) and `SameLinesInv` (equal files stay
  equal: what is left of both is the same, and no match lies ahead). `matchLine`
  takes the first match, a minimum of a set of numbers, which exists by
  well-founded induction (`HasMinimum`); `MatchLineResult` says what it returns, and
  `MatchLineFindsSame` that a line is matched with itself when it comes first.

`DocsIndexProofs` (any sites, revisions, providers, runs and syncs):

- `SpinnersEnd`: `Spec => []SpinnerHasARun`. A status is "indexing" only between the
  start of the `try` and its `finally`; `CheckedKeepsSpinner`, `CheckedEndsSpinner` and
  `EnterTrySpins` say what the three kinds of steps do to it, and `LaunchGoesOn` that a
  call that enters takes a free slot and leaves the runs under way alone.
- `IndexedSitesAreSearchable`: `Spec => []IndexedSitesHaveRows`. A run adds rows and
  then, after an await, metadata: `AddMetaInv` says that in between the site has rows or
  stands in `torn`. Deletions come in two halves, made by runs, by syncs and by calls
  of the GUI; the lemmas `HalfButRun`, `HalfButSync` and `HalfButCall` say that the half
  one of them has done stays known whatever the others do.

`ProfileConfigProofs` (any profiles, calls, versions):

- `TypeCorrect`.
- `CachesAreFresh`: `Spec => []CachesReachFloor`. `FreshInv` says that what is cached,
  what a load has read and what a call has got and will cache is between the floor and
  the newest version, and that what a call has got or waits for is at least as new as the
  floor was when it was made. `PromiseInv` ties each waiter to a load of the same profile
  that is under way. `RaisedFloors` says that a reload raises a floor no higher than what
  a call brings (`Brings`), so that a promise settled later keeps above it; that there is
  an oldest version among those (`LeastExists`) comes from the library's theorem that the
  order of the naturals is well founded.
- `ProfilesImplementSource`: `Spec => ImplementsSource`, the refinement of
  `ConfigSource`. Each action of `ProfileConfig` is an `Ask`, a `Reply`, a change of the
  source, or a stutter (`CallRefines`, `ChangeRefines`, `SilentStep`); that a reply lies
  between the floor at the time of the call and the newest version is `FreshInv`, and
  `FloorsRise` that floors never fall.

`AutocompleteProofs` (any texts, chunks, requests, responses of any length, any capacity):

- `TypesCorrect`, `PendingOfCurrent`, `CompletionsContinue`, `EndedComplete`: all safety
  properties of the run, from one invariant (`Invariance`). None is inductive alone. `Reads`
  says where a reader is: what it has read of its generator, and what the user had
  typed ahead, make up its prefix and its completion, and while anything typed is left
  there is no completion. `GeneratorsInv` says that only the last generator has not ended,
  so that `pendingCompletion`, to which every chunk of every generator is added, is about
  this one. `RowsInv` says of a row of the cache what is to be shown of a
  completion (`Continued`). That a request may join a stream midway rests on two
  conditions of `ShouldReuseExistingGenerator`: they make the prefix the beginning of what the
  generator has given, and not shorter than the generator's own, without which
  what is skipped would not be what has been typed. `EndedComplete` is then a matter
  of length: a reader at the end with something typed left would have a prefix longer
  than the text that it begins.
- The first part is about sequences. `FlattenSeq` of the community modules joins chunks
  by a recursive function; that it exists, gives a text, and grows with a chunk at the
  end (`FlatteningExists`, `FlattenType`, `FlattenAppend`) is shown by least
  counterexample (`HasMinimum`). `PrefixIsLongest`, `ChunkAndTyped` and `ChunkRead` say what
  becomes of a chunk of which a part has been typed; `FromRow` that what `get` returns of a row goes on
  after its key (`AfterKey`), whether the slice is positive (`PartGoesOn`) or not; `SelectInSeq` and `RemoveAt` are what `WhereIs` and
  `RemoveAtIs` say.

`ChatSessionProofs` (any number of thunks, tool calls and messages):

- `ChatTypeCorrect`. The invariant `ActiveInv` contains, beside types,
  `ToolRunsHaveACall`: a thunk that executes a tool or answers with its output has a
  call, without which the message it adds would not be one of a tool.
- `ActiveSessionHasARun`: `Spec => []ActiveHasARun`. It is inductive over the types.
  The two lemmas on a thunk that begins (`BeginInv`) and goes on (`GotoInv`) say which
  steps may leave the session active: those after which the same thunk keeps it so, or
  that are not made by the thunk that does.
- `ToolOutputsAttributed`: `Spec => []ToolAnswersItsCall`. A thunk reads the end of
  the history again after an await, so the property needs to know where its message
  is: `OrderInv` says, for histories not disturbed, that at most one thunk is under way,
  that a message with the state of a call is one of the assistant and holds no output
  but its own, and (`Placed`) that the call a thunk executes or answers is the last
  message and that a thunk gathering context finds the two messages it put there, or, when
  cancelled, neither of them.
- `ClosedCalls`: `Spec => ClosedCallsStayClosed`, an action property. Two things change
  the status of a call: a thunk sets that of the last message, and messages without
  content are cleared in pairs from the end, after which the last message is another.
  `ClosedInv` says for the first that a call done or rejected is followed by the message
  of its tool (`Settled`), or its thunk is about to add it, and that the last message is no
  such call when a thunk streams (`Open`); and for the second that what is cleared does not
  come right after a call that is closed, since it would be the message of its tool, which
  orderly sessions do not clear (`SparesTools`).

`MessageStreamsProofs` (any number of streams and commands, models of any length):

- `StreamsTypeCorrect`, `ChunksDeliveredInOrder`, `ReturnsTrue`. Neither property is
  inductive, since both depend on what is under way. `StreamInv` says of each stream:
  the chunks under way are in order and, while it listens, those its buffer still
  lacks (`ChannelInv`); nothing is known of a stream not opened (`NewInv`); a generator is
  started once (`RequestInv`); and, unless the stream was aborted, the message that
  is done is that of its generator and comes after all chunks (`EndInv`). One lemma
  per action says that it keeps `StreamInv` of every stream; `DoneInv` serves all
  that send a message that is done. The answer to an abort is one too, with the id of
  the stream, so `EndInv` must know that no abort is under way for a stream not aborted.
- `AbortsStopModels`: `Spec => []AbortStopsModel`. `StopsInv`: from when an abort has
  been received its id is in `abortedMessageIds` or the generator has ended, since only the
  generator of a chat takes the id out, and it ends by that; the one chunk it drops
  is the only one that comes late. Commands are excepted, because
  `checkActiveInterval` takes their ids away (section 5).

The same module, on `IpcFraming` (any number of messages, any cuts of their bytes):

- `UncutHandled`: `FrameSpec => []UncutMessagesAreHandled`. The inductive invariant is
  `FrameInv`; TLC checked it with three messages before it was proved. It adds to the
  property what is unfinished: the text of the messages from some `a` on, where the one
  before `a` ended uncut and every terminator that has arrived since was cut
  (`JoiningFrom`). A buffer, as it is decoded, is a part of the stream as all cuts so
  far let it be seen (`DecodeIs`), and a later cut changes nothing of what was seen
  before (`ViewStays`). Of that, the places are kept that are not a space between two cuts
  (`IsKept`): a later cut takes none of them away (`SpacesStay`), and a buffer without lines
  has none (`NothingKept`). `SplitIs` and `LinesAre` say which lines the split and the filter
  make of a buffer: the text up to the end of message `lo`, the messages after it to `hi`,
  and the rest. `BlankKeeps`, `FinishedKeeps` and `UnfinishedKeeps` are the three ways through
  `_handleData`. The first line, joined to what was unfinished, is a message if `a = lo` and
  otherwise several that run together, which `RunIsNoMessage` shows no parser takes;
  `SafeGrows` that these are the messages that become safe.
- Before it come the lemmas about sequences at places: a set of numbers has one order
  (`InOrderIs`), and what stands at two sets of places, one after the other
  (`AtConcat`), or at the same places further on (`AtMoved`).

`CompileChatProofs` (conversations of any length, messages of any size, any context):

- `PruningKeepsCount`: `Spec => []PruneInv`, the inductive invariant of the six phases;
  TLC checked it on the instance of the run before it was proved. The total is
  counted in thirds of a token, and `Missed` is what it leaves out: the difference to
  a fresh count of the history. `MissedIsCovered` bounds it by what the phases can have
  lost. Cutting a message to a third of the context loses at most two thirds of a
  token, and the message keeps at least a third of the context: if what is left fits, at
  most two such messages stand behind the first one (`SumOfMarks`), which is at most six
  thirds, within `Buffer >= 2`; if it does not, at most `Recent` messages are left, within
  `2 * Recent <= 3 * Buffer`. Summaries are counted exactly, and a message dropped gives
  back its `PerMessage` too much on the safe side. The last phase cuts to `Room`, and
  joining neighbours costs one token and saves `PerMessage`. `OnesOfTrim`, `OnesOfFirst` and
  `OnesOfRest` follow the messages over a third through cuts at the beginning.
  `PruneInv` is about sizes as they are counted; a message that is cut or summarized
  becomes a text, whose size is true.
- `PromptsFit` (`FitsContext`; of the whole prompt for models without images, of the pruned
  history as it is counted for others), `FittingPromptsAreKept` (`FittingIsKept`),
  `LatestMessagesAreKept` (`LatestAreKept`) and `SystemMessageComesFirst`
  (`SystemComesFirst`) follow: all the properties of the run. `EndIsKept` says that what
  is left is an end of what was arranged, `FittingIsNotTooLong` that no phase is
  entered without need, `SystemIsSecondToLast` where the system message waits.
- The first part is about sums over sequences, `FlattenSeq` and folds, which
  the community modules define by recursive functions: each is given an equation for
  a sequence with one more element, from which the rest follows by least counterexample.

The assumptions are those of the modules: sentinels differ from texts, calls and
statuses, `EmptyText` is a text, the texts of `Autocomplete` are sequences, bounds are
natural numbers. Two carry weight in `CompileChat`: `PerMessage` is at least one token and
at most the buffer (4 and 350 in the code), and `MarginAssumption`, which relates the buffer to the five
messages that are spared. `TagIndex` adds that branches are finitely many,
`SnippetIndex` that its bound on ids is a number. TLC evaluates them in the runs.

Only model-checked:

- `VerticalDiff`: its properties speak of the document as a sequence the handler
  and the user edit by positions, and no proof has been attempted;
- all liveness properties (`RunEnds`, `CallsEnd`, `ComesToRest`, `ResponseEnds`,
  `RequestsEnd`, `StreamsReturn`): temporal reasoning under fairness is beyond the
  prover used here.

## 7. What is not modelled

See `PROJECT.json` for the whole list with reasons. In short: single requests
and the session files (small); the full text index (the same four operations as the
chunk index, over the chunks of another artifact); lazy edits (they rest on a parser); clients of network services; rendering
and forms of the GUI; prompts and text filters; the Kotlin plugin; the Rust crate
`sync`. These are most of the lines of the repository and keep little state
between calls.

## 8. Running

`tlc -config <run>.cfg <module>` with the module and configuration of a run in
`PROJECT.json`; `tlapm <module>.tla` for the proofs, with the modules
`RefreshIndexProofs`, `StreamDiffProofs`, `DocsIndexProofs`, `ProfileConfigProofs`,
`AutocompleteProofs`, `ChatSessionProofs`, `MessageStreamsProofs` and `CompileChatProofs`.
