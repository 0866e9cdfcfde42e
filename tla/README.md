# Agience Core in TLA+

TLA+ models of the core of Agience: the artifact store of Mantle with the queue, the
encrypted index and the light cone behind its search; live streams and the capabilities of
MCP servers; the event stream that browsers follow and the chat turns told on it; uploads,
the order of a workspace's list and the details panel that saves by itself; the accounts,
sign-ins and grants of Origin; and the desktop relay and the billing webhooks of Chorus. Small instances are checked
with TLC. Every invariant, every property of single steps and every refinement that holds is also proved with TLAPS, for every value of the constants;
liveness is model-checked only. One run finds a counterexample to what a comment says of the code, and section 5 lists the other disagreements. Paths are relative to `src/` of the repository's source tree
(`mantle/...`, `origin/...`, `chorus/...`, `kernel/...`, `facet/...`); `docs/...` is the
repository's documentation.

## 1. The system

Agience keeps *artifacts*: versioned documents with a JSON context and a content.
A workspace is a collection and a collection is an artifact, so artifacts hold
artifacts. Four services and a web client:

| part | keeps | operations | talks to |
|---|---|---|---|
| **Mantle** (`mantle/`) | ArangoDB: `artifacts` (versions), `collection_artifacts` (edges with order keys), `grants`, commits, entitlement rows; S3: content objects (edge bucket, durable bucket), posting lists, manifests, statistics, cells; in memory: index queue, event subscribers, live stream sessions | create, link, patch, archive, commit, revert, delete, remove, move, reorder, upload, search, subscribe, invoke | Origin (identity), Chorus (tools), S3, ArangoDB |
| **Origin** (`origin/`) | Postgres: persons, grants and invites, API keys, one-time passwords, passkeys, settings; in memory: requests and codes of the OAuth flow, a cache of the settings | sign-in, token issue, invite, claim, revoke, set up | OIDC providers, mail |
| **Chorus** (`chorus/`) | in memory: relay sessions and pending requests, processed Stripe events; persona servers | MCP gateway, relay to desktops, chat turns of Aria, webhooks of Ophan, tools of Astra, Iris, Sage, Seraph, Verso | Mantle, desktops, Stripe, language models, external MCP servers |
| **kernel** (`kernel/`) | key files, an event bus, embeddings cache | signing, publish and subscribe | used by all |
| **Facet** (`facet/`) | the browser's lists of artifacts, its WebSocket and subscriptions | user interface, uploads | Mantle, Origin |

`PROJECT.json` lists every component with its sources and status.

How they interact where it is hard:

- **Store.** An endpoint (`artifacts_router.py`) checks access, finds the document and
  calls the workspace service, which makes several ArangoDB and S3 writes with no
  transaction around them. Most failures of a single write are logged and ignored, so
  the writes behind it happen all the same.
- **Store to index.** A handler puts a snapshot of the document on the index queue.
  Worker threads write the posting lists, a manifest and corpus statistics as S3
  objects, by reading and writing back with no lock.
- **Index to query.** Index entries are encrypted under the *search principal*, the origin
  root of the collection. The task resolves it when it runs, a query resolves it again
  from the light cone of the user. Both must come to the same answer.
- **Grants to search and endpoints.** `check_access` walks the edges up from a document,
  `LightConeResolver` walks them down from the grants.
- **Events to browsers.** Every subscription of a `/events` WebSocket has a task of its own
  that takes events off the bus, asks whether the user may read them and shares the
  connection with the others through a lock, while the client subscribes, unsubscribes,
  loses the connection and opens another. Chat turns post their progress to the bus with
  one request per chunk, each by a task of its own.
- **Uploads.** A browser announces a file, which makes its artifact and gives it a place,
  sends it to the content store and tells Mantle, which joins the parts, copies the object
  to the durable bucket, evicts it and rewrites the document. Reports of progress and
  patches of the whole context are sent without being awaited.
- **Typing.** The details panel of an artifact saves when nothing was typed for a while. The
  tab's copy changes before the request, with the answer, with events and when a list is fetched after
  a failure, and every change of the copy changes what the panel shows.
- **Streams.** A streaming server reports starts and stops of a key; a session outlives a short gap,
  so that its end is left to a task that sleeps through the gap and looks again.
- **Capabilities.** Listing what an MCP server offers makes, rewrites and archives one artifact per
  tool, resource and prompt, on a thread, with no transaction and with ids that every call computes anew.
- **Chorus relay.** A request waits for the answer of a desktop on a WebSocket, with a
  timeout and disconnects in between.
- **Billing.** Stripe delivers an event until it is answered; the handler makes several
  requests to Mantle, and a top-up reads the limits and writes them back.
- **Sign-in and grants.** Codes and requests live in two bounded caches that a restart
  empties, settings in a cache over a table, and one internal upsert of grants on a thread.

What makes each correct, in short:

| component | correct when |
|---|---|
| artifact store | the document of a committed version does not change, and its object only as that of all versions of its key; a version follows its life cycle; two artifacts never write one content object; no lost write breaks any of this |
| index queue | an accepted task runs exactly once, in order; counters are exact; `stop()` returns and leaves nothing running |
| lexical index | what one artifact's tasks leave undisturbed is exact, whatever the others do: the statistics, the posting lists its manifest names, what a query finds; a later task repairs what an earlier one left half done |
| light cone | who may read finds what is indexed; adding edges and grants never hides anything |
| event stream and client | a subscription gets each event it may see once, in order, between its ack and its unack; no pump waits for ever on a lock; what is subscribed is issued again on a new connection |
| chat turn | what a turn tells is told stage by stage and to the end |
| order keys and list | a key between two keys lies between them; what was put behind something is behind it, whatever others do |
| uploads | what is shown as complete is there to be fetched, and ends as complete |
| details panel | what it shows when nothing is on its way is what is stored |
| live streams | what is listed as live has not ended, unless a stop was told late; what went down ends |
| capabilities | what was last listed is what is found; nothing is archived because a list failed |
| relay | every request ends, once, with its own answer |
| billing | an event acts once; no credit that was not paid for; no limits without the cards that account for them |
| sign-in | one session for one code; one operator for one platform |
| grants and invites | never more claims than allowed; what is revoked stays revoked |
| workspace commit | what is reported as committed is; a preview token is checked |
| cells | no lost chunk, no chunk of an earlier text |

## 2. Plan

Most important first; the store is what everything else projects from.

| | modules | abstract specification | checks | proofs |
|---|---|---|---|---|
| 1 done | `ArtifactStore` | `PublishedLog` | life cycle, content keys, refinement, lost writes | types, all three properties, `OnlyDraftsChange` |
| 2 done | `IndexQueue` | `TaskPool` | once, in order, counters, stop; liveness | types, `PendingExact`, `RunsOnce`, `StoppedPoolIdle`, the refinement |
| 3 done | `SearchIndex` (fed in the order `TaskPool` gives) | the store's text | statistics, manifests, repair after failure, with several threads | types; all four, for any number of threads and collections |
| 4 done | `LightCone` | | found where readable, adding hides nothing | both |
| 5 done | `Relay` | `RemoteCall` | answers, timeouts, disconnects; every request ends | registry, waiting, answers, refinement |
| 6 done | `SignIn`, `Grants` on top of it | | codes, operator, claims, revocation | codes, operator, claims, revocation |
| 7 done | `EventStream`, `EventsClient`, `ChatTurn`, composed by `ChatStream` | | order, visibility, chat stages; rest and re-issue | all but liveness |
| 8 done | `OrderKeys`, `Listing`, `Upload`, `Editor`, composed by `Workspace` | | places as the database collates them, completion, what the panel shows | all four; `OrderKeys` for keys of any length |
| 9 done | `Billing` | a ledger of events | replay, credit | replay, credit, cards, serial deliveries |
| 10 done | `StreamSessions` | | nothing ended is listed unless a stop was late; what went down ends | the first |
| 11 done | `Capabilities` | the listing | the last listing holds, archived for a reason | both |
| 12 | the answer of a workspace commit as opposed to what was written; cells as a second index of `SearchIndex`'s tasks; passkeys; the title in the header, which saves through the same hook as the panel | | | |

The project has eleven passing runs with thirty-nine properties and one run that shows a sentence of the repository to be false. A new question
joins a run or replaces a weaker one; a property that is proved for every value of the constants is the first to make room.

## 3. The modules

Every component has a `MC` module that gives TLC small instances, and one configuration
for each run. Mutants (`...NewOnly`, `...Unnoted` and so on) stand before the
definition they damage; nothing refers to them. They are plausible bugs, and each
property of a passing run is violated when one of them takes the definition's place.

What counts as one step is the same question everywhere. Mantle, Origin and Chorus each
run one process with one event loop: a handler that awaits nothing is one step, one that
awaits is one step from each await to the next. Threads (the index queue, its workers, the
upsert of grants) are one step per critical section, queue operation or request. The
browser is one step per callback.

### ArtifactStore

| state | code |
|---|---|
| `docs` | the `artifacts` collection: version id to root, collection, state, `content_key`, inline content |
| `edges` | `collection_artifacts`, as pairs of container and root |
| `blobs` | S3 objects by the version id their name is derived from |
| `next` | ids are allocated in order, so that id order is `created_time` order |
| `lossy` | whether writes may be lost; it never changes |

Actions are the handlers: `Create` (`create_workspace_artifact`), `Link`
(`_link_source_artifact`), `Archive`, `Restore`, `CommitOne`, `Edit` (the branches of
`update_artifact`), `Delete`, `Remove`, `Revert`, `Move`, `CommitWorkspace`
(`batch_commit_drafts`). `FindArtifact`, `ResolveIn` and `PatchTargets` are the queries that
turn an id in a request into the version that is written.

A handler is one step. What can still go wrong inside it is a write that is lost: in
a lossy store each write whose exception the code swallows may be skipped, independently
of the others, which also covers a crash between two writes of one handler.

Abstracted: contexts other than `content_key`; texts are two values, one of them above
the 128 KB that are kept inline; the newest `modified_time` that `_find_artifact` looks for is any of
the candidates; a client may leave `content_key` out of the context it sends but not
invent one. All containers exist. Not modelled here: order keys and uploads (see `Workspace`),
workspace bindings other than target collections, and the preview and provenance of a commit.

`PublishedLog` is what the store promises of committed versions: a log that grows by publishing and shrinks by withdrawing one
record. The mapping takes the committed documents with root, key, inline text and the content object that the key names, which is all of the
content above 128 KB. Root, key and text of a record never change. The object does: one step may write it anew (`Rewrite`), or remove
it with a version (`WithdrawWithObject`), for all the records of its key together and for no other. The documents promise more (section 5): that a committed version never
changes, which is `PublishedLog` without these two steps, and which the store does not implement.

### IndexQueue and TaskPool

`IndexQueue` models `search/ingest/index_queue.py` thread by thread. One action is one
critical section of `_lock` or one operation on the `queue.Queue`, the `Event` or the
executor. `phase` says how far a task has come (`Accept`, `Tally`, `Count`, `Put` are the four
steps of `enqueue`); `coord` is the program counter of each coordinator; `work` and `running` are
each executor's queue and threads; `stopper` is the program counter of
`stop()`. `start()` makes an executor and
a coordinator together and `stop()` takes both, so a *generation* names the pair.

Neither a guard nor a phase forces the good order: what moves a task (`queue`, `batch`, `work`,
`running`) is independent of `phase`, which `Mark` only writes.

Abstracted: `flush` ends at any time, because it has a timeout; the index action itself
returns; its success and failure are one `finished`. `start()` may run on another thread in the
middle of `stop()`. `stop(drain=False)` skips the flush, which any `stop()` may seem to do, and takes what is submitted from the executor
(`StopCancel`, the `cancel_futures` of `shutdown`): these tasks are "dropped". `get_status()` only
reads and is left out (see section 5 for what it does).

`MCIndexQueue` adds a `plan`: how many tasks, starts and stops there are.

`TaskPool` is what one generation promises: tasks begin in the order they were put, each
once, never more than `Workers` at a time, none dropped while it is open. `ImplementsTaskPool` maps the queue, the coordinator's batch and
the executor's own queue to one sequence. It is promised up to the moment a second pool is made (`Alone`): from then on two
coordinators take tasks from one queue, and the order of tasks is nobody's.

### SearchIndex

One search principal's lexical index: `postings` (blind token to entries of artifact and
collection), `manifest`, `stats`, each an S3 object, and `job`, the program counter and local
variables of each thread in `SseIndexer.index_artifact` or `remove_artifact`. One action is one
S3 request, so that threads interleave at every request. `Threads` are the queue's workers and, among them, `Bulk` the
threads of `reindex_all_artifacts`, which has an executor of its own (`init_search.py:95`). `Save` is a save of the store with its
task; `versions` is what the store holds and the last version is what a query ought to find; `Withdraw` is
archiving, deleting or emptying, which reach the index with nothing; `Reindex` puts every version that there is among the tasks of
the `Bulk` threads (`bulk`), which begin them in any order; `Fail` is an exception, after which the pipeline logs and forgets the task.
`GetStats` may find statistics that cannot be decrypted, and begins anew from empty ones.
`Found` is the part of `score_query` that decides whether an entry is returned at all.
`scenario` bounds a behaviour: its collections, texts and jobs, and which kinds of `Trouble` there are.

No lock keeps two tasks apart, and without a condition hardly anything is true of this index (section 5). So three history
variables record how the tasks fell together. `past` is what befell each artifact (`Mishaps`): two of its tasks overlapped, one broke off, another artifact's
task overwrote its entries, it was indexed in a second collection, a reindexing began an older text, it was withdrawn. `crossed`
are the artifacts whose entries were disturbed by another task since a task of theirs last began alone; `miscounted` says that
statistics were written over a change. No action reads them. The properties are about each artifact that was spared, whatever the
tasks of all others do at the same time. `last` is the last task begun of each artifact, once it ran to its end.

Abstracted: a text is the set of its tokens; one field stands for the four; `dl` is the number
of tokens; HMAC and encryption are the identity of a token and of an object. The queue's tasks begin in
the order they were put, which `ImplementsTaskPool` shows of the queue.

### LightCone

`coll` (a document's `collection_id`, or that there is none), `through` (the actions an edge
lets through; `{}` is no edge, which also says that an edge is unique to its pair, as `_edge_key`
makes it), `grants`, `waiting` and `entries` (index tasks and entries, with their principals).
`Reach` is both walks: from the grants along edges that let the action through, bounded by the
depth of `check_access` (10) or of the resolver (4); a walk is a sequence of nodes, none of them twice (`Walks`). `Roots` is `get_origin_root`: since `get_origin_parent`
takes the first of several parents without sorting, the answer is a set, bounded by `RootDepth`. `Contexts` is
`resolve_authorized_contexts`, and what a user `Finds` is found under whichever root that comes to. Actions: `CreateTop`, `Create`, `Save`, `Link`, `Move`, `Remove`, `Delete`, `Import`
(MCP capabilities, with a mask), `Grant`, `Revoke`, `Reindex`, `Index`. Actions of users are guarded by
`Allowed`; seeds and the platform's operator grant and revoke.

`rearranged` is a history variable, read by the invariant only: it is TRUE from the moment
something the index depends on was rearranged until a reindexing.

Abstracted: every action but read is one, "write", since the masks of the code let them
through together; deny grants are left out because no code creates one, and grant expiry,
typed relationships, API keys, scopes and versions of a node too. A removal from a container also
deletes the document when its only version is a draft of that container: the model leaves
open whether it is. `Import` of a capability takes the server itself for the sub-collection
the importer puts in between.

### StreamSessions

`entry` is `_ACTIVE_SESSIONS` of `mantle/routers/stream_router.py`, `status` what the artifact of each session says, and
`sleeping` the `_defer_finalize` tasks of each key. The handlers and the task hold one lock and await nothing, so `OnPublish`,
`OnUnpublish` and `Finalize` are one step each. `Delete` is somebody deleting the artifact of a session, `Restart` a restart of Mantle,
`Tick` the time. Failing writes are in `OnPublish` (an artifact that nobody refers to stays) and `Finalize` (the session stays
"live", and is noted in the history variable `unended`).

Nothing is assumed of the streaming server: a hook may be lost, told late or told twice. As in the code, `OnUnpublish` asks only whether
the key has an entry, and no entry is ever removed. `late` is a history variable of the keys whose session was told a stop when it was
over already; `ListedHasNotEnded` is about the others; it is not true of all of them.
Abstracted: the checks of the stream key, and the list of sessions in the source's context. Times are ticks, of which the
window has `Window`; what is older than the window is one tick older.

### Capabilities

`materialize_server_capabilities` of `mantle/services/mcp_resource_importer.py`, which the dispatcher runs on threads of
the executor. `offered` is what the server offers; `sub`, `docs` and `links` are the kind's collection, the capability artifacts
and their edges; `job` is each thread's program counter and local variables. One action is one request: `Materialize` lists,
`FindSub`, `CreateSub`, `LinkSub` are `_ensure_subcollection`, `FindItem`, `Insert`, `Rewrite`, `Link` deal with one item, `ListStale` and
`Archive` with what was not listed, `KindDone` and `Return` go on. `Swallowed` is a write whose failure is logged and ignored,
`Raise` an insert that finds the id taken, `Fail` an exception or a stop anywhere. `told` and `kept` are histories of what the calls
that ran since nothing ran have listed, and of those that ran to their end: when all of them listed the same items of a kind and one
ended with nothing failing, these items and no others are found, whatever the others are still doing (`LastListingHolds`).

`LastListingHolds` speaks of what is found in a kind's collection, whether or not the collection is linked to the server.

Abstracted: the lists of one session are taken at one moment, and whole: the code asks once for each list and passes no cursor
(`chorus_client.py:147`), so that for a server that answers in pages `offered` is its first page; the items of a kind come in any order; a new
artifact is linked twice in a row, which is one step; an item is its name and what its context says. Two items of one name,
and items without one, are left out.

### Relay and RemoteCall

`Relay` is `chorus/_shared/relay_manager.py` with the gateway that calls it and the desktop that
answers. `sessions`, `byUser` and `pending` are the manager's dictionaries; `future`, `pc`, `via` and
`expired` are each request's future and task. The code awaits at two places and so the request
is cut there: `Forward` chooses a session and begins to send, `Sent` or `SendFails` ends the
send, `Expire`, `Receive` (the answer) and `Disconnect` finish the future, and `Resume` is
the task going on later, when anything else may have happened to it. `link` tells a connection
that was *lost* from one that the server has noticed to be closed. `DesktopRuns`, `DesktopAnswers` and
`DesktopGivesUp` are the desktop's serial loop: what the tool does there is one run of it.

Abstracted: a message is the id of its request; heartbeats are counted and bounded
(`MaxPings`); the older `invoke_tool` envelope, which nothing sends, is left out.

`RemoteCall` is what a caller may count on: a tool runs at most once for each call, an answer
is given only after it ran, a refused call never runs; a failed one may.

### SignIn and Grants

`SignIn` holds Origin's accounts (`persons`), the two caches of the code flow (`requests`,
`codes`, sets of records, pruned by age and by `CacheMax` as `_prune_auth_cache` does), the callbacks that
await the provider, the rows of one-time passwords and the settings, in memory and `stored`.
`Authorize`, `CallbackBegins`, `CallbackEnds`, `Token`, `Link` and `Unlink` are the OAuth handlers,
`OtpRequest` and `OtpVerify` the one-time passwords, `SetupOperator` and `SetupWithout` the setup with its
commit for each setting, any of which may fail or be the last before a `Restart`. The wizard's other settings are committed before
`setup_complete`, and the first of them takes the operator's account along: `SettingFails` is a setup that ends there, and leaves the
account. Time is a
`Tick` of five or ten minutes, after which what is ten minutes old has expired.

`Grants` extends it with the grants of one resource: `CreateInvite`, `CreateGrant`, `Claim`, `Revoke`,
`Accept`, `BootstrapClaim`, and the upsert that Mantle calls, in two steps (`UpsertReads`,
`UpsertWrites`) because it runs on a thread. The role presets are the roles, and what they
allow is `Shares` and `Admins`.

Abstracted: an authorization code is its number; passwords are right or wrong; the allow-list
and other refusals that change nothing are left out, and so is what an administrator may write over the settings later (`PATCH /platform/settings` takes
any key). Grants have no expiry in the model
because no code of Origin reads `expires_at`.

### EventStream, EventsClient, ChatTurn, ChatStream

`EventStream` is `kernel/event_bus.py` and `mantle/routers/events_router.py`. `bus` is the list of
subscribers, `queue` each one's queue, `pump` what each subscription's task does, `lock` the
frames of those that wait for the connection's `send_lock` with the holder at the head, `known`
the containers a pump has found readable, `wire` what was sent; `Line` is what was and will be sent on a connection. `Take` is the pump from its
queue to the lock, asking for a grant it does not know; `Send` and `SendFails` are the holder's
send; a send may raise because the connection is cut, or, on a live connection, because its payload cannot be encoded: the pump returns, and its
queue stays on the bus until the connection closes. A subscription is `Served` as long as that has not happened to its pump.
`Subscribe`, `SubscribeAgain`, `Unsubscribe`, `Cancel`, `Disconnect` and `CloseAll` are the handler. `since` is
a history variable of the containers that were readable; `WasReadable` is about each step that sends, `OwnEventsInOrder` about what is on the
line of each subscription.

`EventsClient` is `facet/src/api/events.ts`: `state`, `ws`, `wanted` (`subs`), `timer`, and
one action for each callback. The callbacks do not ask whether their socket is still the
current one, and neither do the actions.

`ChatTurn` is the streaming path of `_run_chat_turn_impl` in `chorus/aria/server.py`: `posts` are the
requests on their way, which may be answered, fail, or be given up after five seconds and
arrive later all the same (`Answered`, `PostFails`, `GiveUp`); the gather at the end of a round
is `Drained`. `ChatStream` lets the posts arrive at the bus (`Arrive` is `emit_event`) and lets Mantle's
services announce other users' changes (`Announce`).

Abstracted: users are people who sign in: the branch of `_event_visible_to` for API keys, which bring their grants along (`events_router.py:189`), is
left out of `Visible`. A payload is the number of its event; a filter is a container and a set of names;
the client numbers its subscriptions as the code does. `Scenarios` bound which turns run, how
many of the iterations have gone by and how much `trouble` (losses, failures, changes of grants, other
users' events) there may be.

### OrderKeys, Listing, Upload, Editor, Workspace

`OrderKeys` is `after_key` and `mid_key` of `mantle/db/arango.py` and their twins in
`facet/src/utils/fractional-index.ts`: a key is a sequence of digits, with any number of digits in
place of 62 and any padding digit in place of "U". `FirstGap` is the loop of `mid_key` written as the place
it stops at. There are two orders. `Below` is the order of the codes, in which keys are made. `Less` is the order of words, in which ArangoDB
(`SORT e.order_key`) and the tab (`localeCompare`) put them: case counts only between words that are otherwise the same, and
which case comes first is the locale's choice (`MantleCaps`, `TabCaps`; any theorem is for both). They differ where a capital meets a small
letter (`Crossing`).

`Listing` is the workspace's list twice: `docs` and `order` (the keys on the edges) on Mantle, `shown` in
the browser's tab. `AddAtEnd`, `Unlink`, `PlaceUpload` and `ReorderChildren` are Mantle's handlers, the latter with
its early stop (`Given` are the places it reaches); `OrderArtifacts` is a drag in the tab, which numbers its list anew and
sends all of it; `DropKey` the key the tab computes for a dropped file; `HearNews` an event.
`promised` is a history variable: which artifact the last request put before which. `LastKey` is the last key as the database sorts, as in
`get_last_order_key`. `PlacedAsAsked` says that what was put behind something is listed behind it, unless the two keys cross or the
second is what `after_key` makes of "Z" (`Misplaced`); without this exception it does not hold.

`Upload` is the batch the tab works through (`uploadFilesAt` of `Browser.tsx`), Mantle's handlers
(`InitiateUpload`, `ReportStatus`, `CompleteUpload`, `PatchContext`, `ContentUrl`, `DeleteUpload`) and the two
buckets of `content_service.py`. `calls` are requests on their way, which come in order or,
in some setups, overtake each other or get lost; `answer` is the awaited answer, `mail` documents
that come back; `cache` is the tab's copy of the context, sent back as a whole by every
patch. `CompleteUpload` may fail at the copy or at the write of the document, with what it did
until then left as it is.

`Editor` is the details panel: `ContextPanel` of `FloatingCardWindow.tsx` with the hook `useDebouncedSave` and
`updateArtifact`. `text` is what the fields hold, `known` the tab's copy, `lastValue` and `timer` the hook's references, `save`
the call under way, `stored` what Mantle has and `echoes` the events on their way. `Synced` is the effect that follows every
change of the copy: it shows the new text, takes it for saved and stops the timer. `Fire` begins a save, or does
nothing during another one; `Saved`, `SaveFailed`, `SaveForgotten` are its ends; `Stores` is Mantle, which writes the context of a
type with a schema in another form (`json.dumps`), so that the answer is a different string. `astray` is a history variable of the
cases in which panel and Mantle may stay apart until the next save.

`Workspace` composes the three: the announcement of a file makes its artifact, gives it a place and
puts it into the list; fetching the list also fetches the contexts, the one in the panel included.

Abstracted: the answer and the event of one write are one item of `mail`; created and deleted
artifacts and changed documents reach the tab as two streams; fetching the list is one step and
counts as trouble; equal keys are sorted by position; a context is its upload section, its
processing status and whether it records a durable copy. Small texts, which are created like
any artifact, are not dropped here. In the panel, rendering and its effects belong to the callback that causes them; the
artifact is a draft that stays in the workspace; events come in order; the fields are one text, and a save that is cut off
is carried out or not, but not later.

### Billing

`limits` is the person's row in Mantle's entitlement cache (`mantle/services/gate_service.py`), `made` the
cards in the inbox, `processed` the set that `chorus/ophan/server.py` keeps and clears when it is full. A delivery
is a task; `MakeCard`, `Sync`, `ReadLimits` and `WriteLimits` are its requests to Mantle, each of which may fail before or
after it was carried out; `Crash` is a restart of Chorus. `ledger` is a history variable: the limits the
events amount to in the order they came, `bought` what was paid for on top of a plan, `clean` that nothing went wrong so far.

Abstracted: one person; a plan is its VU; the other limits of a plan go with it. Verification of the
signature and usage counters are left out: nothing in Mantle enforces the limits.

## 4. Runs

Bounds are named constants of each configuration. Deadlock is not checked: clients may
stop calling, connections and files are used up, and every model has a bound on what is called.

| run | shows | bounds, and why they are enough |
|---|---|---|
| `store` | `KeysStayInLineage`, `LegalLifecycle`, `ImplementsPublishedLog` | without losses one root and three versions (a committed version, its draft, a second draft after a move), with losses two versions of one root or two; two containers, one linked to the other; one large text and none |
| `queue` | `PendingExact`, `StoppedPoolIdle`, `RunsOnce`, `AcceptedIsProcessed`, `StopReturns`, `ImplementsTaskPool` | three tasks (two of one tenant, one of none) with one generation, or two tasks with two generations and two stops, with and without drain: an old coordinator with a new one on one queue; two workers |
| `search` | `StatsExact`, `ManifestNamesPostings`, `IndexFollowsStore`, `LastIndexPosted` | two artifacts, two tokens, two workers and a thread that reindexes; on one collection three jobs with any text or four with two of them, removals among them (first index, re-index, empty, remove, each beside another); or three jobs on two collections with every kind of trouble |
| `lightcone_search` | `FoundWhereReadable`, `AddingHidesNothing` | four nodes, two users, five operations (create two, link one into the other, create in it, reindex), depths 2 and 3 so that four nodes are deeper than the search |
| `relay` | `AnswerIsOwn`, `RequestEnds`, `ImplementsRemoteCall` | two users, one of them with two connections (a desktop that comes back), two requests: one may be late on a desktop while the other is answered |
| `origin` | `OneSessionPerCode`, `OneOperator`, `ClaimsExact`, `RevokedIsFinal` | five operations from two accounts (one without an address), two codes with room for one in the caches, four grants, two upserts at once |
| `billing` | `ReplayNeedsForgetting`, `CreditIsPaidFor` | a checkout, a top-up and a cancellation, each delivered twice; a set of two processed events; one restart |
| `chat_stream` | `BetweenAckAndUnack`, `OwnEventsInOrder`, `WasReadable`, `ToldInStages`, `ToldInFull`, `StreamComesToRest`, `ReissuedUnlessStranded` | two subscriptions without a turn, with two connections and three troubles, or with four connections and two troubles (losses, attempts that fail), where no behaviour dials the last one: there the client is never without a connection because of the bound, and `ReissuedUnlessStranded` has its say after every loss; or two connections and a turn of two iterations with one chunk each, and one trouble when one iteration is left |
| `events_reconnect` | *violation* of `AutoReconnects` | three connections, two losses |
| `workspace_uploads` | `ShownIsStored`, `PlacedAsAsked`, `ServedOnceComplete`, `SettledInOrder` | one file with everything that may go wrong with it, sent whole or in parts, with and without durable bucket, in order or not; two files one after the other; the list by itself with four changes; keys of five digits, two of them capitals and two small letters, with padding 1, so that keys run out of capitals and of digits and grow; the panel with four edits and one trouble or three and two (a failed request, another's edit, a fetched list) |
| `streams` | `ListedHasNotEnded`, `EndsWhenIdle` | two keys, a window of one tick, three sessions, three stops and one restart: a session may be taken up again, replaced and ended by the task of an earlier stop, or told a stop when it is over |
| `capabilities` | `LastListingHolds`, `ArchivedForAReason` | two kinds, two names of which one has two descriptions, two threads, three calls, one change of what is offered and one failure: two calls at once and a third that repairs |

Symmetry is used in `search` and `lightcone_search`, which check no liveness, over sets of
model values that no other constant tells apart.

**Fairness** is assumed where the scheduler gives it, and nowhere else.

- Queue (`queue`): the threads that exist are scheduled, `queue.get` times out, an index
  action returns, and a call of `stop()` that began goes on. Each is weak fairness on one thread's
  next step. No one has to call anything.
- Relay (`relay`): a send ends one way or the other, because the server's ping timeout breaks a
  connection that takes no data; the timer of `wait_for` fires; a task whose future is done resumes; a lost
  connection is noticed. Nothing is assumed of the desktop or the network.
- Stream (`chat_stream`, `events_reconnect`): the event loop runs every task that can run, and an
  `asyncio.Lock` is handed on in order of arrival, which the model has as a queue. In the browser a
  socket that opens or closes calls back, and a timer fires. Nothing is assumed of who subscribes.
- Live streams (`streams`): time passes, and a deferred task whose sleep is over runs, which the event loop sees to.
  Nobody has to publish or stop.

## 5. What does not hold

The run `events_reconnect` finds a counterexample to "Auto-reconnects on disconnect and re-issues all active subscriptions" (`events.ts:6`), which
`PROJECT.json` quotes under "findings": `onclose` schedules a retry only if the connection was open, so that one failed attempt to come back ends it.
`ReissuedUnlessStranded` is what does hold.
The client is stranded, too, when something is subscribed while the last socket closes, or when the late `onclose` of an old
socket takes the new one's place.

The other disagreements between the code and its documents, or itself, were met while modelling. They are in
the models as the code has them, and the properties are stated so that they hold of the code. Of six of them a property
states the condition under which the sentence is true, or the part of it that is; without that condition TLC finds the counterexample in the run of that property:

| says the repository | the code | what does hold |
|---|---|---|
| "Artifacts are immutable once committed" (`platform-overview.md:109`); an edit leaves "the committed version untouched" (`workspace_service.py:830`) | the draft inherits the `content_key` of the committed version and overwrites its object (lines 933 and 669), or removes it when it is deleted | `ImplementsPublishedLog` with `Rewrite` and `WithdrawWithObject`; `OnlyDraftsChange` |
| statistics are "collision- and drift-free" (`stats.py:103`) | two tasks that overlap count an artifact twice, or lose an update, and counters are clamped at 0 (line 254) | `StatsExact`, while they may be trusted (`Trusted`) |
| "dropped tokens get the artifact's entry removed" (`sse/indexer.py:22`) | only the entry of the collection it is indexed in now | `ManifestNamesPostings` of what was not `rehomed`; `LastIndexPosted` |
| the index is "a derived projection" (`overview.md:46`) | what is archived, deleted or emptied is still found: every caller of `delete_artifact_from_index` leaves `principal_id` out, and without it nothing is removed (`pipeline_unified.py:466`) | `IndexFollowsStore`, of what nothing has befallen (`past`) |
| `after_key` returns "a key strictly greater", and reordering assigns increasing keys (`db/arango.py:60`, 1143) | keys are made in the order of the codes and sorted as words: after "Z" comes "a", which is listed first, and every later artifact is given "a" again | `PlacedAsAsked`, unless keys are `Misplaced` |
| what is listed is active (`stream_router.py:406`) | entries are never removed: a stop that is told late or twice puts an ended session on air again (line 381), and a start within the window goes on with it | `ListedHasNotEnded`, of keys that are not `late` |

Store and index:

- "The one draft per (root_id, collection_id)" (`initialize.py:144`, `db/arango.py:472`) is not: edit a committed version, archive it and restore
  it (`workspace_service.py:890`), or move a draft to where there is one, and there are two, of which edits and commits pick either.
- A draft that was moved away with its root's edge is still committed with the workspace it names. `Remove` and `Delete` delete the
  document of a root while edges still point at it, against `entities/artifact.py:54`; deleting the last committed version drops all
  edges while drafts in other containers remain.
- `quickstart.md:216` says commits without a valid token are rejected; `validate_commit_token` is called by tests only.
  The provenance record of a commit is built with a field the entity does not have and is never stored
  (`workspace_service.py:1264`).
- A workspace commit whose batch update fails writes nothing, and reports, indexes and announces its drafts as committed (`db/arango.py:702`).
- Text edits of an uploaded artifact write the edge bucket only.
- `get_status()` takes a lock twice that is not reentrant (`index_queue.py:106`) and stops the queue for good. No
  production code calls it.
- The tasks that `stop()` drops, those of a batch without an executor and those cancelled by `stop(drain=False)`, never give their
  tenant's count back, so that it says pending for ever; `PendingExact` counts them for what they are. A task that is put on the queue
  after a stop waits there until somebody starts it again.
- Nothing locks the index. Two tasks that overlap, which is what up to 16 workers (`config.py:200`) and the four threads of a reindexing do, lose one
  update of the statistics, of a posting list or of a cell, for ever (`sse/indexer.py:463`). So the properties speak of the artifacts that were
  spared, by name of the mishap.
- A reindexing indexes every version of an artifact under one id and in any order, so that an older text may be what is found.
- Linking a collection changes its origin root, so that what was indexed under the old one is not where
  queries look (`db/arango.py:817`, against the docstring at 1020), and so do a removal, a deletion and a move, which puts nothing in the
  queue: what was rearranged is found in the old place, or not at all. `FoundWhereReadable` asks for a reindexing.
- Materializing capabilities is not quite "Idempotent — safe to call repeatedly" (`mcp_resource_importer.py:280`): a kind's collection whose
  edge was not written is never linked later, because `_ensure_subcollection` returns when there is a document; a server that
  withdraws its last item of a kind keeps it (line 314), since a list that failed looks the same; of two calls at once one may end
  with an error, or archive what the other, which was offered more, has just written; of a server that answers in pages all but the first page
  counts as not offered and is archived. `LastListingHolds` speaks of what is found in the collection after a call that ran to its end.
- Search follows 4 edges down (`lightcone.py:31`) and `check_access` 10 edges up: what lies deeper than 4 is readable and not found.
- Re-indexing replaces vector chunks by number and cell, so that those of a longer earlier text stay (`search/mantle/indexer.py:115`).

Live streams:

- A start after the window, but before the deferred task looks, takes the entry over; so does a restart take it away. The
  artifact of the old session stays "live" for ever. So does one whose publication fails after the artifact was made.
- The session's artifact is made without an edge, so that no listing shows it; it and the source's artifact are rewritten in
  place, whatever their state.
- Astra's own copy of this (`chorus/astra/stream_routes.py:341`) hands `httpx` a coroutine that nobody awaited as its headers, and so never makes
  a session.

Events and chat:

- A turn that raises sends no `completed`, and the chat shows "streaming" for ever (`aria/server.py:1067`). Deltas of one
  round may overtake each other; `ToldInStages` compares rounds and stages only. `_push_chat_status`'s docstring speaks of
  "started" where the code sends "streaming".
- What a pump knows of grants is kept for the subscription, where `events_router.py` says "per WebSocket session". A container that was readable
  goes on being delivered after the grant is revoked.
- A pump whose send raises on a live connection returns without a word: its subscription stays in the handler's dictionary and its queue on the
  bus, filling, but nothing is sent for it any more until the client unsubscribes or the connection closes. `OwnEventsInOrder` speaks of subscriptions that are `Served`.

Relay, Origin, billing:

- The desktop never gets the `server_hello` of `docs/features/desktop-host-relay.md:193`. In-flight requests fail at
  once when the desktop disconnects, where `relay_manager.py:53` says that they time out; `NobodyWaitsOnAClosedSession`, which is proved, is
  what the code does.
- The setup token of an installation without an operator is stored as a secret and looked for among the
  plain settings, so that the first sign-in never becomes the operator. `expires_at` of a grant is never checked in Origin.
- A setup whose wizard settings fail after the first of them was committed leaves the operator's account behind, and refuses to make it again: the
  same address cannot be set up any more.
- A Stripe event is noted as processed before it is handled and answered 200 whatever happened: one that failed or was interrupted is never tried
  again, and stays carried out in part.
- A top-up writes back all of the limits that it read: of two at once, or of one beside a plan change, one is lost. `CreditIsPaidFor` is a bound from above.

Uploads and the list:

- A multipart upload is completed twice by the tab; the second is refused, and the upload shown as failed, when
  the event of the first completion, or the eviction, comes first. `SettledInOrder` speaks of what the tab saw complete.
- A report of progress or a patch that the network delivers after the completion brings the upload section back, and leaves the artifact
  "uploading" for ever. `SettledInOrder` speaks of requests that keep their order.
- An exception while files are announced abandons those already announced.
- The second file of a drop is placed after the item that was next to the first, because the tab appends without
  a key (against the comment in `Browser.tsx` that artifacts are "inserted at correct position").
- `mid_key(None, "U")` is "j" and `mid_key("U", "UV")` is "Uj", whose codes are greater than those of the right neighbour, against "Return a key
  strictly between (a, b)" (`db/arango.py:70`); sorted as words they come where they belong, by chance. `mid_key(None, "A")` is "j" as well, which
  comes after "A" in either order. `PlacedAsAsked` promises a place after the left neighbour only. Section 6 has the theorems on when a key does come before `b`.
- `POST /artifacts` ignores the order key a client
  sends; the documents in answers and events carry none, so that what the tab hears of sorts first until it fetches
  the list again. Reordering stops at the first artifact that is gone, leaves those behind it where they were, and gives the same answer. Removing a draft leaves its object behind.

The details panel:

- A debounce timer that fires while a save is under way does nothing (`useDebouncedSave.ts:93`), and nothing starts it again:
  what was typed last is neither saved nor shown as unsaved until the next key.
- `updateArtifact` swallows the failure of its request, so that the hook never says "Failed to auto-save changes" and shows the text as
  saved. The list it then fetches puts the old text back.
- For a type with a context schema every answer is a different string than the one sent, and resets the panel: what was typed during
  the save is lost and its timer stopped. So does an event that comes late. `ShownIsStored` says that panel and
  Mantle agree in the end, not that nothing typed is lost.
- An answer that comes after the event of another user's later write puts the older text back into the tab.

## 6. Proofs

All proofs are checked by TLAPS to the last leaf. What they assume of the constants are the named
assumptions of the modules, which the runs evaluate; no theorem on a specification has another hypothesis. `RegistryExact`,
`NobodyWaitsOnAClosedSession`, `SerialExact`, `CardsBeforeLimits` and `OnlyDraftsChange` are no longer properties of a run, since
they are proved. Every invariant and every action property that a passing run checks, and the three refinements, are proved.
The bounds on steps, which keep TLC's instances finite, are constants like the others: the theorems hold for all their values.

**ArtifactStoreProofs** (`ConstantsAssumption`): for any containers, target collections, texts and number
of versions, with or without lost writes, `StoreTypeOK` and `StoreKeysStayInLineage`: no two artifacts ever
share a content object. `KeysStayInLineage` is not inductive: a new version gets the next id, and nothing in
the property says that no document names that id's object already. The invariant is

    IInv == TypeOK /\ KeysAllocated /\ KeysStayInLineage

where `KeysAllocated` says that every key is below `next`. Most handlers create no document and
change no root and no key: they satisfy `Trims`, and one lemma (`TrimsKeepsIInv`) deals with all of them. `Create` and the
three cases of `Edit` are proved on their own, the latter from one lemma on `WriteDraft`, whose key is either the one it
found in the copied context or the id of the version it writes.

The other properties are of one step each, and nearly all handlers change the documents in a few ways. `DocsStep` lists eight:
no change, dropping a version, one of the four changes of its state, moving it, writing a draft, copying a committed
version into a new draft, committing a set of drafts, and starting a new root. Every step is one of
them, and `StoreLegalLifecycle` and `StoreOnlyDraftsChange` are proved of these. For `StoreImplementsPublishedLog` the content objects
count as well: an edit is a `Rewrite` of the records of its key, a deletion a `Withdraw` or, with the object, a `WithdrawWithObject`
(`WritingRewrites`, `DeletingWithdraws`), and `IInv` is needed for a new id to be no key of a committed version; every other step publishes, withdraws or stutters.

**IndexQueueProofs**, the queue (`QueueAssumption`): for any finite set of tasks, any tenants, and any number of workers, pools
and calls of `stop()`, `QueueTypeOK`, `QueueStoppedPoolIdle` (what `stop()` has shut down runs nothing more), `QueuePendingExact` (the tenants' counters are exact) and `QueueRunsOnce` (a task is
never queued, submitted or run a second time). `RunsOnce` needs to know how far the task at the head of the
queue, a batch or an executor has come, and that the same task is not waiting elsewhere as well. The invariant is

    IInv == TypeOK /\ Located /\ PendingExact

where `Located` says that the tasks in the queue are at "queued", those in the coordinators' batches at "taken", those
of the executors at "submitted", that none of these sequences repeats a task and that no two pools hold the same one.
Four lemmas say what becomes of such sequences when one task moves: it was in none of them, it leaves the head of one,
it joins one, or a whole batch is dropped; each action is one or two of them. `PendingExact` follows because every
phase between `Tally` and `Release` is counted, so only those two change the set, by one task. In particular the
`max(0, ...)` of `_execute_task` never hides a decrement that was one too many. `StoppedPoolIdle` is inductive with the types
alone: an executor that was shut refuses what a late coordinator submits, and `stop()` waits for what it holds and has not cancelled.

`QueueImplementsTaskPool` maps the executor's queue, the coordinator's batch and the queue, in this order, to the one line of
`TaskPool`. Moving a task on from one to the next leaves that line alone, unless something is between them: `PoolInv` says that a pool that nothing was
started for holds nothing, that a batch is empty but while it is filled or submitted, and that the pool that `enqueue` uses
is none that `stop()` took. One lemma per action shows its step of `TaskPool`, or that it stutters.

**IndexQueueProofs**, the light cone (`LightConeAssumption`): for any nodes, users and edges, and any depth of the walks down no greater than that up,
`ReadableIsFound` and `ConeAddingHidesNothing`. The first needs

    ConeInv == ConeTypes /\ UnbornHoldNothing /\ (~rearranged => \A n : Indexed(n))

where `Indexed` says that an artifact's collection has one origin root, and that the artifact is waiting to be indexed or has its entry under
that root. So the work is to show that `Roots` does not change: a walk up from a collection never meets a node
that holds nothing (`RootsStay`), which is why creating is harmless and linking, moving or deleting what holds others is not, the latter being what
`rearranged` records. `UnbornHoldNothing` makes a new node one of those. The second is about each step: whichever walk led somewhere before
leads there after an edge or a grant was added or overwritten (`ScopeGrows`), since what overwrites lets at least as much through to read. The
depth of the walks plays no part in either: a walk is a sequence, and what is said of it is said of each of its places.

**SearchIndexProofs** (`IndexAssumption`, `NoJobAssumption`, `NoTaskAssumption`): for any artifacts, collections, tokens, failures, withdrawals, reindexings and any
number of threads, `IndexTypeOK`, `IndexLastIndexPosted`, `IndexStatsExact`, `IndexManifestNamesPostings` and `IndexIsAProjection` (`IndexFollowsStore`). As nothing
keeps tasks apart, every invariant is about one artifact and holds for as long as the history variables say that it was spared. One lemma (`Frame`) says what a
step may do to the artifact `a`: it leaves its threads, its manifest and its entries alone or has that on record (`Apart`), or begins a task of `a`, or
is a step of one. The other tasks are all dealt with by the first case, and `AloneInv` says that more than one thread works on `a` only if that is on
record, too (`CrossInv`: whatever is crossed was befallen by it). On top of these:

- `PostInv` says what the posting lists hold of an artifact at every point of a task (`Working`) and between tasks (`Posted`).
- `ManInv` says that a task knows the manifest that is there until it writes its own (`Knows`), and `StatInv` that the statistics are those of some assignment of
  manifests to artifacts (`Counted`) that differs from what is stored only by what tasks between their two writes still owe (`Owed`). `UpdateCounts` is the
  arithmetic: the cardinalities that a task adds and subtracts are those by which the sets of artifacts change, so that no counter would go below 0
  as long as the statistics may be trusted.
- `NameInv` says that the manifest of a resting artifact agrees with the posting lists, and, of one a task works on, which tokens are still to be stripped and which
  are written (`Stripping`), in which collection (`Home`).
- `FollowInv` says that the last task that waits for an artifact, or else the one under way, or else the one that ran last, is about the
  store's last version (`LastWaits`, `LastRuns`, `Settled`); together with the other three, which say what a finished task leaves, what is found of the artifact is
  a function of the store.

**RelayProofs**, the relay (`RelayAssumption`): for any users, connections and requests, `RelayRegistryExact`, `RelayNobodyWaits`,
`RelayAnswerIsOwn` and `RelayImplementsRemoteCall`. The invariant is

    IInv == TypeOK /\ RegistryInv /\ WireInv

`RegistryInv` adds to `RegistryExact` and `NobodyWaitsOnAClosedSession` that a request under way has chosen
a session of its own user (`Chosen`) and how the timer, the future and the program counter agree (`Cancelled`). `WireInv` follows a
request over the wire: `Wired` says what has become of the requests of the messages on their way to a desktop, in its hands and on
their way back (in particular that no message comes twice), and `Traced` how the program counter, the answer and what ran belong together. The two parts are
proved separately, the second from the first. For the refinement every action is shown to be one
step of `RemoteCall` or a stutter: two lemmas, for the steps of sessions and of requests, on top of the invariant.

**RelayProofs**, the capabilities (`CapabilitiesAssumption`): for any kinds, names, descriptions, threads and failing writes, `CapabilitiesLastListingHolds` and
`CapabilitiesArchivedForAReason`. The invariant `CapInv` says of each call what it has put in place of its list so far (`CallInv`): all but
what is still to do of the kind it is at, everything of the kinds behind it, and nothing else visible there but what it is about to
archive (`Achieved`). This is claimed only where all calls since nothing ran have listed the same, and then every step of every call is `HarmlessToAll`: it
takes nothing of that list away and shows nothing else, so that the other calls, and those that have returned, lose nothing of what they achieved.

**GrantsProofs** (`SignInAssumption`, that the two bounds are numbers): for any accounts, bounds and numbers of restarts, `OriginOneOperator`, `OriginOneSessionPerCode`, `GrantsRevokedIsFinal` and
`GrantsClaimsExact`. For the operator the invariant `SetupInv` says that as long as either the settings in memory or the stored ones
are incomplete there never was an operator, and that neither names one as long as it is incomplete itself: the order of the two commits is what makes it inductive, and a setup that
ends before them leaves an account only. For sessions, `CodeInv` says that a code in
the cache was made and used for nothing yet, and that no two share an id, whatever pruning drops; `OtpInv` that a one-time password has signed in
only if it is used up, and that wrong guesses are among its attempts. For the rows,
every step of the module is one of five (`RowStep`: it adds a row that is no claim, claims an invite, changes a state, changes a role, or
leaves the rows alone), and both properties are proved of those five.

**BillingProofs** (`BillingAssumption`): for any finite set of events, plans, deliveries and restarts, `BillingReplayNeedsForgetting`,
`BillingCardsBeforeLimits`, `BillingCreditIsPaidFor` and `BillingSerialExact`. The invariant is

    IInv == TypeOK /\ WithinBudget /\ CardsFirst /\ Serial /\ Paid

`WithinBudget` counts, for each event and each of its writes, what was done and the tasks that are still to do it against the times the
event was let through; `CardsFirst` the same for a card against the limits behind it; `Serial` says what the row and the ledger are
while one task runs undisturbed. The counting rests on four lemmas about the set of deliveries that wait at given steps. `Paid` says that the row,
and every row that a delivery has read and will write back, holds no more than its plan and `bought`: adding a pack to a stale row can lose
credit and never make any.

**StreamProofs**, sessions (`SessionAssumption`): for any keys, window and numbers of sessions, stops and restarts, `StreamListedHasNotEnded`, with no assumption on the order in which the streaming server calls. The
invariant `SessionInv`, on entries and artifacts as arguments, says that every entry names a session that was made (`Made`), that no
two keys name the same (`Apart`) and that what an active entry names has not ended, unless its key was told a stop when its session was over (`OnAir`). All steps but a new session leave the entries'
sessions alone (`Follows`), and one lemma deals with them.

**StreamProofs**, chat turns (`TurnAssumption`, `ChatAssumption`): for any number of turns, rounds and chunks, and any posts that are lost, late or out of
order, `TurnToldInStages` and `TurnToldInFull`. In `TurnInv` nothing told or on its way is ahead of the stage the turn has
reached, and what the turn waits for is of that very stage (`NotAhead`): so what comes late is from behind. Of a turn that lost nothing every
chunk was told or is on its way, and so is "completed" once it is about to return (`InFull`).

**StreamProofs**, the event stream (`StreamAssumption`): for any connections, subscriptions, events and grants, `StreamBetweenAckAndUnack`, `StreamOwnEventsInOrder` and
`StreamWasReadable`. `StreamInv` is about the line of each connection, what was sent on it and then what waits for its lock: every event
comes after an "ack" of its subscription with no "unack" between (`Proper`); of a subscription in the dictionary
and served what was sent since its "ack" and then what is in its queue are matching events in the order of the log, with all of the user's own among them (`Stands`); and
what waits for the lock is an event its pump has found readable, one for each pump at most (`Queued`). Cancelling a pump, and a send that fails on a live connection (`TailIsGivenUp`: then it is the first that waits), take its event out of
the line, and everything said of places in the line has to be carried over that gap (`GivenUp`). A connection that is cut keeps
`Proper` for what was sent only.

**WorkspaceProofs**, order keys (`KeysAssumption`: at least two digits above the padding): for keys of any length over any number of digits,
in the order of the codes, `AfterKeyComesAfter` and `MidKeyComesAfter` (a new key comes after its left neighbour), `MidKeyComesBefore` (and before
its right neighbour, if the two differ at a place that both have) and `MidKeyMissesTheGap` (without that condition it does
not, nor as a word). `AfterKeyIsListedAfter` is about the order of words: what `after_key` gives is listed after the key it was given, unless that one ends
in the last capital, which becomes the first small letter. The loop of `mid_key` ends because past both keys the digits are the padding and the last one, with room between
(`FirstGapExists`, from the least element of a set of places).

**WorkspaceProofs**, the list (`ListingAssumption`, `WorkspaceAssumption`): for any artifacts, files, drags and requests, `WorkspacePlacedAsAsked`: Mantle's keys are, as the database
sorts them, in the order that the last request asked for, unless they are `Misplaced`. Keys that are in order by their codes
fit (`BelowFits`), since the two orders differ only where keys cross (`LessUnlessCrossing`). The invariant

    ListInv == Placed /\ Shown /\ \A f \in Files : Unplaced(f)

says also that the tab's list names no artifact twice, which `OrderArtifacts` needs to ask for an order at all, and that an announced file
whose artifact is yet to be made has no place, while the key it will get is after its left neighbour's. The n-th key handed out comes after the earlier
ones (`LaterKeysComeAfter`), and what `AddAtEnd` gives is listed after the last one there is (`LastKeyIsLast`), or ends in the first small letter. That sorting a list gives a list, with each entry in one place,
rests on `Ranks`: in a finite set with a strict total order every number of predecessors occurs, because ranks are distinct and no larger than the set. `Less` is shown to be such an order, whichever case comes first.

**WorkspaceProofs**, uploads and the panel (`UploadAssumption`): for any files, put or multipart, in any batches and setups, `UploadServedOnceComplete`, `UploadSettledInOrder` and
`PanelShownIsStored`. `UploadInv` has four parts for each file: one request is awaited at a time (`Protocol`); until Mantle has made the
artifact nothing is known or said of it (`Beginning`); every copy of the document, stored, in the tab, in an answer, in the mail or in a patch on its way,
speaks of objects that are there (`Documents`); and when requests keep their order, nothing comes after the last answer that unsettles it
(`InSequence`). `EditorInv` says that the panel shows what it takes for saved unless the timer runs, that it takes for saved what the tab's copy
says, and that the last event on its way is of the last write.

Only model-checked: liveness, which needs fairness and ENABLED (`AcceptedIsProcessed`, `StopReturns`, `RequestEnds`, `StreamComesToRest`, `ReissuedUnlessStranded`,
`EndsWhenIdle`), and `AutoReconnects`, which does not hold. Induction over data is out of the prover's reach. Where a proof would need it, a least counterexample serves
(`LeastElement`, `LeastOf`: a set of numbers that is not empty has a least one), or a counting argument on finite sets, or an invariant
that says of every place of a sequence what an induction would carry along it.

## 7. Not modelled

Cryptography, scoring, embeddings and rank fusion: numeric or pure. Persona tools but for the chat turn and the
webhooks, the operation dispatcher, handlers of events, downloads, beacon: they keep no state. Passkeys, API
keys, e-mail, secrets, platform settings but for the setup, seeds: rows with create, read, update and delete, or
idempotent loading. OIDC providers, Stripe, the object store, ArangoDB and language models are external: they appear as
the choices their answers leave. Installers, type declarations, licensing documents and the views of the web client have no
protocol of their own.

Partly modelled: a workspace commit flips its drafts in `ArtifactStore`, but its answer, which reports what a swallowed
failure left undone, is not part of the state. The vector cells have the shape of the posting lists and are not a module of
their own; chunks of an earlier, longer text stay there. In the code but called by no route, and so left out:
`rotate_artifact_key`, `move_workspace_artifact`, `add_artifact_to_workspace`. `PROJECT.json` has the status of every component and a
note on every hazard that no property covers.
