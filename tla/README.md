# Verification of askl: queries, caches, layers and uploads

TLA+ specifications of the core of askl, model-checked with TLC and, in their
central parts, proved with TLAPS. Source paths are relative to the
repository; `PROJECT.json` maps every definition that models code to its lines.

askl answers queries over code graphs. Indexers write a project's symbols,
objects and references; `askld index upload` sends them in chunks to the server
`askld`, which stores them in PostgreSQL; queries in the askl language
(`"main" { search("x") }`, `loc(..)`, `layer { .. }`) select symbols, refs and
containment edges, and may materialise *ephemeral layers* of derived rows that
are cached in the same tables.

## 1. Inventory

| Component | State | Operations | Used by / uses | Hard part |
|---|---|---|---|---|
| SQL result cache (`index/src/db_diesel/sql_cache.rs`) | LRU map, used bytes, epoch, mutex | `get`, `put_if_epoch`, `epoch`, `clear`, `ClearOnDrop` | filled by `Index::cached_load`, cleared by every mutation of `IndexStore` | loads race clears; handlers are dropped in the middle; a panic poisons the mutex |
| Cached reads (`index_impl.rs`) | none of its own | `cached_load`, `cached_load_partitioned`, find_* queries | cache, database | key, epoch and rows are taken at three different moments |
| Ephemeral layers (`index_impl.rs`, `selection.rs`, `statement/*`) | `index.layers` rows, the chain of layers of each query | `with_partitioned_layers`, `with_eph_layer`, `create_eph_layer`, `purge_eph_cache`, `purge_old_eph_layers` | queries, mutations, collector | several transactions and PostgreSQL locks; cancelled queries; cascades |
| Layer-creating verbs (`verb/generic/{search,loc,ephemeral}.rs`) | `OnceCell`s that live as long as the statement | what a populate reads and writes | layers | what is memoised across roots |
| IndexStore mutations (`askld/src/index_store/*`) | `projects`, chunk records, persistent rows | `upload_index`, `upload_symbol_chunk`, `upload_object_chunk`, `upload_contents`, `finalize_project`, `delete_project`, `clear_caches` | HTTP API; purges layers, clears the result cache | duplicates, zombies, two-transaction deletion |
| Upload client (`bin/askld/cli/index.rs`, `bin/askld/api/index.rs`) | phase, acknowledged chunks | ensure project, symbol phase, object phase, finalize, `--force` | IndexStore over HTTP | timeouts, retries, resume after a crash, two clients |
| Layer collector (`bin/askld/server.rs`) | none | periodic `purge_old_eph_layers` | layers | snapshot of the closure against later commits |
| Parser (`parser_context.rs`, `statement/parse.rs`, verbs' `update_context` and `add_verb`) | a context per statement: verbs handed down, relationship, default types | build verbs, open scopes, preamble | gives the executor its statements | flags that are set, reset and copied at different moments |
| Query executor (`askld/src/statement/*`, `execution_*.rs`, `command.rs`) | per-selector selections, dependency graph, worklist, diagnostics | `compute_roots`, `run_worklist`, `notify`, weak marking, edge collection | verbs, Index, layers | reaching a fixpoint and the right one; what a queued statement captured; labels narrowed after they were read |
| Selections and composition (`selection.rs`, `mixins.rs`, `cte.rs`) | values | visibility, joins, scopes, direct and innermost filters, the two branches of a load | executor | a split load must equal the whole one |
| Verbs, labels, modifiers (`askld/src/verb/*`) | forced selectors keep a selection | select, derive, constrain, hand down | executor | order of label resolution |
| Query API and rendering | none | timeout, result cap, JSON | executor | a cut graph must hold together |
| Authentication (`auth.rs`) | API keys | create, revoke, expire, verify | API | expiry at the boundary |
| Text parsing, names, line index | none | text to tree, encodings | API, executor | pure computations |
| MCP front end, clang indexer, migrations | none / schema | input and output | | the schema's foreign keys and unique indexes are the locks and cascades modelled here |

What makes each modelled part correct:

- result cache: a result that misses a mutation does not outlive that mutation's
  clear, an acknowledged mutation is seen by every later read, the byte budget
  is accounted exactly;
- layers: a purge is final, one hash is populated once, nothing dangles, the
  collector takes whole layers only, everybody who waits for a lock gets it;
- queries: propagation ends, only removes nodes, and ends with exactly the nodes
  that match; every statement sees the layers before it; edges are complete;
  modifiers and filters reach the scopes they enclose; an emptied statement is
  reported; a capped graph is closed;
- uploads: every chunk lands exactly once, a complete project is whole and
  frozen, symbols precede the objects that refer to them, and the name always
  recovers.

The hazards, each with its line and the properties aimed at it, are listed in
`PROJECT.json`.

## 2. Modules

| Module | Models |
|---|---|
| `IndexReads` | abstract: reads of a versioned index without any cache |
| `SqlCache` | the result cache, `cached_load`, the guarded mutation handlers; refines `IndexReads` |
| `SqlCacheProofs`, `EphLayersProofs`, `ProjectUploadProofs`, `CodeGraphProofs`, `ExecutorProofs`, `AnswerProofs`, `QueryProofs` | the TLAPS theorems about those modules |
| `OrderLemmas` | lemmas on least elements that the proofs cite |
| `EphLayers` | queries creating layers, purging and non-purging mutations, the collector, the locks |
| `ProjectUpload` | upload clients, chunk handlers, `finalize_project`, `delete_project` for one name |
| `CodeGraph` | the rows of the index and the read queries over them: visibility, joins, scopes, partitioned loads |
| `QueryParser` | verbs, `ParserContext` and `build_statement`: from a syntax tree to statements |
| `Executor` | `compute_roots`, the worklist, labels, edges and diagnostics over `CodeGraph` |
| `Query` | the composition of parser, executor and `build_result_graph`, and the properties that compare an answer with its source |
| `MCSqlCache`, `MCEphLayers`, `MCProjectUpload`, `MCExecutor` | finite instances |

### SqlCache

The rows a query can see have a version `db`, and every effective commit makes
the next one, as if each mutation touched every query. `map`, `used`, `epoch`
and `mutex` are `Inner` and its mutex: an entry is its version, its weight and
its LRU rank. A load goes `StartLoad`, `Lookup` (key and `get`),
`SnapEpoch`, `ReadRows`, `PutRows` (`put_if_epoch`), `EndLoad`: one action per
critical section or await of `cached_load`. `PanicInPut` is a panic while the
mutex is held; the next holder recovers as `lock()` does (`LockedMap`,
`LockedUsed`, `LockedEpoch`). A mutation handler arms its guard (`ArmGuard`),
sends a commit (`SendCommit`), which the server applies (`Commit`) or not
(`CommitWithoutEffect`), and returns (`FinishMutation`) or is dropped
(`CancelMutation`, or `CancelInFlight` while a commit is under way).
`upload_contents` is the "batches" kind, with several commits under one guard.
`late` is a history variable: versions that became visible after their guard
had fired, the window documented on `ClearOnDrop`. `acked` is another: versions
whose handler has returned to its client.

### EphLayers

`rows[p]` is the version of project p's persistent rows; a layer remembers the
version it was computed from (`ver`), its parent and base, the layer its rows
point at (`to`) and whether a cascade took rows out of it. One query is one
`req` record with a chain of layers per root, and one future `fut[r][p]` per
root, as in `with_partitioned_layers`: base first, then, if the chain is not
empty, the supplement, each in its own transaction
(`LockTable`, `Upsert`, `Scan`, `Fill`, `CommitLayer` or `CommitHit`,
`FailLayer`). `FinishStatement` is the join and `push_round`. `Cancel` drops the futures:
their transactions stay open in the pool, with their locks, until `Recycle`.
Mutations are `ClaimChunk`, `InsertChunk`, `CommitChunk`; `LockForFinalize`;
`MarkDeleting`, `DeleteRows`, `DeleteRoot`; `DeleteZombie` (the cleanup inside
`upload_index`); `ClearCaches`; those that purge go on with `RequestExclusive`,
`TakeExclusive`, `PurgeAndCommit`. The collector is `ScanDoomed` (the DELETE's
snapshot and its recursive closure), `DeleteDoomed` (rows and foreign-key
cascades) and `FailGc`; `Age` is the clock.

PostgreSQL is external and modelled from how the code uses it: ROW EXCLUSIVE
and EXCLUSIVE table locks with a queue, the unique index on `hash` that makes
the loser of an upsert wait, KEY SHARE locks of foreign-key checks, cascades.
`WaitsFor` is the waits-for graph those rules give.

Abstractions: the `eph_content_layers_grouped` atoms are left out because no
ephemeral layer carries content today (index_impl.rs:2332); the fan-out limit
of four roots exceeds the roots of any instance; `touch_eph_layers` repeats the
touch of the upsert; the list of roots that `load_root_layers` read may be
outdated when a statement starts, which is the gap between `Begin` and
`StartStatement`; a project uploaded again after a delete is another root.

### ProjectUpload

`proj` is the projects table for one name, with the totals and status of a row,
its chunk records (`claims`) and, per chunk, the clients whose rows were
inserted (`data`). A client runs ensure-project (`Run`, `LookUp`,
`InsertProject`, `FetchDetails`), sends chunks within its window (`SendChunk`,
`Timeout`, `EndPhase`) and finalizes (`Finalize`); `RunForced`, `MarkDeleting`
and `Erase` are `--force`. A chunk handler claims (`ClaimChunk`, the INSERT .. ON
CONFLICT DO NOTHING of the record), then commits, is refused for missing
symbols, or aborts. A timed-out request stays in `calls` under its attempt number, so its handler may run
long after the retry. `Crash` kills a client, which is then run again. The
content phase is content-addressed and idempotent and is left out.

### CodeGraph

`db` holds symbols, instances (ranges of an object) and references, each with
the layer it belongs to. A result row is the tuple of ids it joins, and a query
is a set of such rows: `RefRows` is the join behind `build_parents_query` and
`build_children_query`, `HasRows` the containment join. `CachedLoad` is
`cached_load_partitioned`: one load over all visible layers when the filter is
chain-dependent, otherwise the roots' load and the guarded load of whatever an
ephemeral row takes part in. A filter is the pair of name and type sets it
accepts. The loads are functions of the rows: that the SQL cache in between
does not change them is what `SqlCache` shows; that the roots' shard and the
chain's shard may be read at different versions is documented at
`cached_load_partitioned` and left out, since a query's rows do not change here.

### QueryParser

A query is a forest of statements, each a sequence of verbs. `BuildVerb` is one
verb (`update_context`, then `add_verb` with `Displaced`), `Derive` what a
context hands to the next, `OpenScope` what a scope changes, `Command` the
default type filter and the unit verb, `BuildQuery` the whole tree. `IsForest` (in
`Query`) is what it takes. A name pattern is the set of names it matches.

### Executor

Phase one: `Push` queues a statement with its captures (layers, scopes, resolved
labels); `Materialise` and `Drain` are the two phases of the batch's
`compute_selected` and `drain_pending`. The futures of a batch read only their
captures and their own layer, so a batch is two steps whatever their order.
Phase two: `Seed`, `PopNext` (priority, `update_state`), then one notification
per step: `NotifyParent` (the union of the children, deferred until all of them
speak), `NotifyOther` (`accept_notification`: constrain or derive),
`UseUnresolved` (the "circular" error). Phase three: `Finish`, or
`FinishWithoutImplicit` when the query for implicit edges fails. `Abort` is a
database error or the deadline at any await. `PushPanics` and `BorrowsTwice`
are the two panics described under Observations.

The worklist is deterministic in the code, and so in the model; what varies is
the query, the index, the failures and the cap. Where the code depends on the
row order of the database (the target of an edge among several definitions,
the first of two equally tight containers), the result holds the set of
outcomes.

### Query

`Query` puts parser, executor and `build_result_graph` together: `Respond` cuts
the graph to one of `Limits` symbols (0 is unlimited) or reports the error.

## 3. Runs

| Run | Checks | Shows |
|---|---|---|
| `sql_cache` | `TypeOK`, `Coherent`, `ReadYourWrites`, `Accounting` | the epoch check and the guards together keep every stale result short-lived and every acknowledged write visible; the accounting survives eviction, replacement and poisoning |
| `sql_cache_live` | `StaleIsTransient`, `CacheIsTransparent` | a stale entry goes away although clients disconnect; the cached system implements `IndexReads` |
| `layers` | `TypeOK`, `PurgeIsFinal`, `NoOrphan`, `OneLayerPerHash` | two queries and one mutation of any kind in every interleaving |
| `layer_blocks` | `ClosureSparesSeen` | layers that point across roots, and the collector |
| `layer_progress` | `PurgeIsServed`, `LoserIsServed` | nobody waits for a lock forever, abandoned transactions included |
| `layer_deadlock` | violates `NoDeadlockCycle` | finding 1 |
| `layer_loc` | violates `PurgeIsFinal` | finding 2 |
| `layer_hollow` | violates `NeverHollow` | finding 3 |
| `upload` | `TypeOK`, `CompleteIsWhole`, `ExactlyOnce`, `SymbolsFirst`, `AcknowledgedIsThere`, `CompleteIsFrozen`, `UploadCompletes` | three clients, timeouts, crashes, aborts, `--force`; what a client was told is stored stays; in the end the name has a complete project |
| `upload_totals` | violates `ResumeMatchesTotals` | finding 4 |
| `executor` | see below | 40 queries over every small index, from verbs to answer |
| `query_union` | violates `SelectorsUnite` | finding 5 |

The properties of `executor`:

- of the schedule: `SnapshotComplete` (a queued statement has every layer of the
  top-level statements before it), `Terminates`, `OnlyShrinks`;
- of the fixpoint: `TreeIsExact` (a tree of names answers with exactly the nodes
  that take part in a match, against a definition by recursion over the tree),
  `EveryNodeIsRelated` (the same relation locally, for unit and type statements
  too), `UseWithinProvider`;
- of the reads: `PartitionIsExact` (a split load equals the whole),
  `OneEdgePerReference` (both `DISTINCT ON`s together choose one target);
- of the answer: `EdgesComplete`, `NearestContainer`, `EmptyIsExplained`,
  `GraphIsClosed`;
- of the language: `RelationshipScope`, `FiltersHold`, stated over the source
  text's verbs and not over the contexts that carry them. `RelationshipScope`
  leaves open whether containment counts in a scope for which no modifier
  speaks, because the code and the documents disagree (see Findings).

Every property of a passing run has a mutant in `PROJECT.json`: a definition of
the model changed as a plausible bug would change the code, under which TLC
finds the property violated.

### Bounds

- `sql_cache`: two keys with weights 1 and 2 against a budget of 2, so that
  replacement, eviction of one and of two entries and a result that fits
  exactly all happen; two loads and two handlers, because every argument about
  the cache is about one load and the handlers around it, and a second load
  changes what is cached meanwhile; three clearing events (handlers, admin
  clears, panics) and two versions. The liveness run keeps one key and one load
  and allows three versions, for a batched handler between two others.
- `layers`: one root, two queries of two statements, one search verb, three
  layer ids and one mutation at a time: enough for a hash race, a base with a
  supplement, a purge at every point of both, and the re-creation after it.
- `layer_blocks`: two roots, one query of two statements, no mutations, three
  layers: a layer of the second root that points at one of the first while the
  collector runs. In this run and in `layers` symmetry permutes queries and
  roots, which the specification never tells apart.
- `layer_progress`: one statement per query; no symmetry, as the properties are
  temporal.
- `upload`: three clients, two of them with the same totals (they share the
  project row and race for its chunks), one with two symbol chunks (reordering
  inside a phase, and the refusal of other totals), a window of two, two faults
  of any kind and three project rows: one fault lets a handler outlive its
  request, and two make a deletion that dies half-way or a retry that is lost
  too. The number of project rows only bounds `--force`.
- `executor`: one index with two functions of one name, a function with a
  second definition nested in the first, a third function and the file around
  them, under each of the 32 subsets of five references. The queries are a
  corpus, not all queries: eleven trees (two and three levels, siblings,
  cycles, bare scopes above, below and between, two selectors, isolated and
  forced ones), fourteen with modifiers, types, filters and preambles, seven
  with labels (before, after, forced, chained, inherited, in their own scope,
  without a selection of its own), eight with layers (one, two, in a scope, two in
  one scope, one after the other and nested, around other rows, with a label
  before and after). Each phase, each verb and each error path of the executor is
  taken by some of them. The caps are none and two, below, at and above the
  number of symbols of the answers.

`ClearOnDrop`-style counters (`MaxClears`, `MaxVersion`, `MaxRows`, `MaxId`,
`MaxPid`, `MaxFaults`, `MaxStatements`) are guards of the actions they bound.
Deadlock checking is on in every run; `Ended` in `ProjectUpload` is the
stuttering of finished clients.

### Fairness

- `SqlCache`: a commit in flight is answered or its handler dropped (weak), and
  a handler returns or is dropped (strong, since an `upload_contents` handler
  leaves and re-enters the state between its finitely many batches). The
  handlers are futures on a running executor, and every query to the database
  ends in an answer or an error. Loads need no fairness.
- `EphLayers`: a statement that can run does run (weak). `Upsert` and `Fill`
  wait for row locks, whose queue is first come, first served, so a waiter
  cannot be overtaken forever by others that take the lock again and again
  (strong). `Recycle` is certain because the pool rolls back a connection when
  it hands it out again and the server ends a transaction that is idle for
  60 s. `BreakDeadlock` is PostgreSQL's deadlock detector. A query need not
  start, and a collector pass may fail.
- `Query`: the executor's steps up to the empty worklist (weak): it is one
  future that the runtime polls until it is ready, and every query to the
  database ends in an answer or an error, which is `Abort`. Nothing is assumed
  about `Abort`, the response or the failing of the query for implicit edges.
- `ProjectUpload`: clients and handlers go on (weak); timeouts, crashes and
  aborts are optional and bounded.

### Findings

1. *Lock order.* `purge_eph_cache` says layer transactions never lock
   `projects`. The foreign key of the symbols that a populate inserts does, and
   `finalize_project` holds that row while it waits for the table: a circle,
   which PostgreSQL resolves by failing one side. `PurgeIsServed` still holds.
2. *loc across roots.* `loc` resolves once per statement and shares the result
   among the transactions of all roots. A purge between two of them is not
   final for the later one.
3. *Hollow layers.* A supplement of another root that commits after the
   collector's snapshot loses its rows to the cascade of a doomed layer and
   stays as a populated, empty layer.
4. *Totals on resume.* `create_project` compares the number of symbol chunks
   only, although the documentation of `upload_index` says the totals match.
5. *Typed selectors do not unite.* The language reference says that
   `func("a") func("b")` selects either; `TypeSelector::add_verb`, meant to
   replace an inherited type, also drops the first selector of the same
   statement.

Two more disagreements have no run of their own.

*The default relationship.* `build_statement` gives a scope without a modifier
references and containment ("No explicit has/refs — default to both so
parent-child works regardless of whether the edge is containment or reference",
statement/parse.rs:41-46), whatever its selectors are, and the model does the same
(`OpenScope`).

- Against the code, references are the default in the language reference
  ("references are the default", "containment (by source byte-range) instead of
  references" for `has { }`, and refs and has together for the container selectors
  `mod`, `file` and `dir` only; api/mcp/resources/syntax.md:29, 32-33), in comments
  ("Set by @has verb, default is Refs", parser_context.rs:50; "This is the default"
  of `RefsModifier`, verb/generic/modifiers.rs:136; "For {} without has, the parent
  context already reset to Refs", parse.rs:116) and in tests
  (`refs_is_default_relationship`, "Bare {} should use refs (the default)",
  all_tests.rs:1410-1425; "default REFS", 2728; "still uses REFS only", 2251). These
  tests pass because in their data the two relationships give the same result, or
  because they do not ask for the contained nodes.
- With the code are two other tests, `double_parent_query` and `weak_grandparent`
  ("With REFS|HAS default, {} also picks up file/dir containers",
  all_tests.rs:170, 1127).
- Type selectors are said to take part: "Container types (dir, file, mod)
  implicitly set refs+has with inherit. func explicitly sets REFS to override any
  inherited refs+has" (verb/generic/selectors.rs:561-562, all_tests.rs:2198-2199).
  `TypeSelector::update_context` sets default types only; the test at
  all_tests.rs:2291 says so ("does NOT override the inherited relationship type").

By the code `"f" { "p" }` also answers with a `p` that `f` contains and does not
call, and `"f" refs { "p" }` does not: an explicit `refs` is no restatement of the
default. Neither side is made a property. `RelationshipScope`, and `ScopesRelate`
with it, claims of a scope for which no modifier speaks that references count,
which all of these agree on and which a modifier leaking in from elsewhere would
break; of modifiers it claims that they reach the scopes of typed selectors too, as
the last test does. The fixpoint properties and `EdgesComplete` are about the
relationship that a scope has in the code.

*Equal totals.* They do not identify the data
(upload.rs:327 speaks of not silently resuming a stale upload), so a client can
resume an upload of different data with as many chunks. The passing uploads
run with equal totals for this reason; with the different totals of finding 4,
`CompleteIsWhole` and `CompleteIsFrozen` are not claimed, and counts that never
match can make `finalize_project` refuse until a `--force`. `AcknowledgedIsThere`,
`ExactlyOnce` and `SymbolsFirst` do not depend on the totals.

### Observations

Behaviour met while modelling about which no document promises otherwise; the
model has it, no property claims its opposite.

- A layer block that refers to a label of a later statement panics in
  `compute_roots` (the registry has no entry yet), and a statement that uses a
  label it carries itself, as inside the scope of an inherited label, panics in
  `build_dependency_graph` (its state is borrowed twice). The client gets no
  answer.
- Whether a `use` inside a scope succeeds or fails as circular depends on which
  of its parent and its provider has fewer nodes, since that orders the
  worklist.
- `"p" { "c"; {} }` shows fewer callees than `"p" { {} }`: the bare scope's
  statement is derived from a parent that `"c"` has already narrowed.
- In `mod("f", filter="true", inherit="false") { "p"; {} }` the bare scope never
  gets a selection, so `notify` defers what `"p"` has to say forever
  (`all_children_resolved`), the namespace selects nothing, and `"p"` is not
  constrained: the query answers with every `p`.
- A use whose labelled statement never gets a selection takes one from its own
  child, as any statement without a selection does; `UseWithinProvider` is about
  labelled statements that have one.
- Layer blocks in one scope may be computed in one batch, each under its own layer
  only ("a nested `loc(...) ; loc(...)` pair does NOT get a Sibling edge",
  statement/mod.rs). Implicit edges make up for the references between them that
  neither loaded; nothing does for containment, so an instance of one layer that
  lies inside an instance of the other is shown under a wider container.
  `NearestContainer` is claimed for queries whose layers come in sequence
  (`LayersInSequence`), and the corpus has both kinds of query.
- Filters have no effect on what a `use` copies: they act through queries only
  (`filter_impl` is implemented by no verb).
- When a target has several definitions in the answer, the one an edge of
  `parents` rows leads to depends on the row order of the database.
- Chunk uploads commit persistent rows on a root that queries already see and
  purge nothing (index_impl.rs:473 asks for a purge "any time" rows change): a
  layer cached in between is served without the later rows until
  `finalize_project` purges.

## 4. Proofs

`SqlCacheProofs` proves, for every set of keys, loads and handlers, every
weight and budget and every bound that satisfy `CacheAssumption` (the "no key"
marker is not a key; sizes and bounds are naturals):

- `TypeCorrect`: `Spec => []TypeOK`
- `CacheCoherent`: `Spec => []Coherent`
- `ReadsYourWrites`: `Spec => []ReadYourWrites`
- `AccountBalances`: `Spec => []Accounting`
- `CacheRefinesReads`: `Spec => CacheIsTransparent`, step simulation of
  `IndexReads` under the mapping `AbstractRead`.

The inductive invariant is

    IInv == TypeOK /\ Versions /\ Coherent /\ Floors

`ReadYourWrites` is not inductive alone: a hit is right only because what is
cached is `Covered`, that is, every commit it misses either still has an armed
guard or fell into the documented window. `Versions` says that what an armed
guard owes is neither acknowledged nor late, so that a covered result reflects
every acknowledged version (`CoveredIsFresh`); `Floors` carries "at least as new
as what was acknowledged at the start" through a miss, where it follows from
reading the current rows. `Coherent` needs its second conjunct, about results
on their way in: a put under an unchanged epoch inserts exactly those, and
every clear changes the epoch. There is one lemma per action; lemmas on `Touch`,
`Insert` and `Keep` describe the LRU operators once, and `LoadStep` gathers
what all steps of a load have in common.

`AccountBalances` has an invariant of its own, `Ledger`: unless the mutex is
poisoned, `used` is what the map weighs and the ages are the ranks of its
entries. Recursion over a set is unfolded once: the table that `BytesOf` fills
exists (`TallyExists`), and by taking a smallest set for which it would fail, any
entry may be taken first (`BytesOfRemove`) and parts add up (`BytesOfSplit`). What
the loop of `put_if_epoch` pops is then closed under what is older, so the ranks
of the rest have no gap, and it is exactly what is older than the oldest survivor,
so the rest is within the budget (`Eviction`).

`ProjectUploadProofs` proves, for every number of clients and chunks, every
window and every bound:

- `TypeCorrect`: `Spec => []TypeOK`
- `ChunksLandOnce`: `Spec => []ExactlyOnce`
- `SymbolsPrecedeObjects`: `Spec => []SymbolsFirst`
- `AcknowledgementsHold`: `Spec => []AcknowledgedIsThere`

with `IInv == Types /\ Claims /\ ExactlyOnce /\ Barrier`. `Claims` is what the
unique key of a chunk record gives: an uncommitted claim is alone and its chunk
is not recorded yet, so that a commit inserts rows exactly once. `Barrier` ties
what a client believes to be committed (`ok`) to the records of its project, and
says that past the symbol phase this is every symbol chunk it has.
`AcknowledgementsHold` adds `Told`: a client that has not sent anything relies on
nothing and waits for nothing, so that what it is told later is about the project
it works on; a phase ends with all of its chunks acknowledged, up to a client that
is done; and what was acknowledged is recorded. Records of a project only grow,
and a new project has a new id (`RowsOnlyGrow`), so an acknowledgement, once
right, stays right (`StaysHonest`); `ExactlyOnce` turns records into rows.

The two properties of a complete project depend on what uploads resume one another. They hold
under the hypothesis `TotalsAgree` (uploads with equally many symbol chunks have
equally many object chunks), which a team that uploads one build under one name
satisfies, the `upload` run has and the `upload_totals` run lacks:

- `FinalizedIsWhole`: `TotalsAgree` gives `Spec => []CompleteIsWhole`
- `FinalizedIsFrozen`: `TotalsAgree` gives `Spec => CompleteIsFrozen`

from `Fit`: records and requests under way lie within the row's totals, so that
`finalize_project`, which compares two counts, finds all chunks
(`CountingIsEnough`), and a handler that runs later finds its record there.

`EphLayersProofs` proves, for every number of roots, queries, mutations, layers
and statements (`LayersAssumption`: the markers are no values of what they mark,
mutations are finitely many and are not named like transactions):

- `TypeCorrect`: `Spec => []TypeOK`
- `LayersAreUnique`: `Spec => []OneLayerPerHash`
- `LayersAreAnchored`: `Spec => []NoOrphan`
- `SearchesFinal`: `Spec => []SearchesAreFinal`, that is `PurgeIsFinal` for the
  layers of searches, in the presence of locations and layer blocks
- `PurgesAreFinal`: `Locs = {}` gives `Spec => []PurgeIsFinal`; finding 2 is
  that it does not hold with locations
- `CollectorSparesSeen`: `Spec => ClosureSparesSeen`

The inductive invariant combines the locks with what they protect.
`Exclusive`: whoever has the table exclusively is alone. `Recent`: rows a
search has read in an open transaction are not older than the last purge, since
a purge needs the table exclusively. `Anchored`: what an open transaction hangs
its layer on stays, because a cascade waits for its KEY SHARE locks. `Grounded`
and `Snapshot` describe the closure: it was closed under what points at it when
the collector saw it, and only layers it had not seen can have joined since.
TLC checked `IInv` on the three instances of the module before it was proved.

The proof of `NoOrphan` found a mistake in an earlier version of the model: the
collector waited only for the locks on the layers it deletes itself, and not for
those on the layers their cascade reaches, so that it could take the parent of
an uncommitted layer away. PostgreSQL's cascade runs into the same row lock and
waits, and `DeleteDoomed` now does (`Pins(Cascade(gc.doomed))`).

`CodeGraphProofs` proves what the reads of the index return, for every index
and every set of roots and layers. `PartitionIsWhole` is the argument behind
`cached_load_partitioned`: a row whose layers are all positive is visible
without the chain, so the roots' branch and the guarded branch together are the
whole load; it is applied to each query (`FindChildrenIsWhole`,
`EdgesAreWhole`). `LeastEdges` is about the two `DISTINCT ON`s.

`ExecutorProofs` proves, for every finite index and every set of well-formed
queries (`CasesAssumption`: statements in pre-order, finite tables with integer
ids, the kinds of selectors there are). What `CasesAssumption` says of the rows
is what the schema enforces: ids are keys, an instance belongs to a symbol, and
what a layer inserts are rows of its own with new ids, of symbols that are there
or inserted by it or before it. That the statements of one scope have one
relationship to the statement around it is how contexts are derived
(`ParserContext::derive`; "all siblings share it", statement/mod.rs).

- `TypeCorrect`: `Spec => []TypeOK`
- `SnapshotsComplete`: `Spec => []SnapshotComplete`
- `PropagationShrinks`: `Spec => OnlyShrinks`
- `EmptyExplained`: `Spec => []EmptyIsExplained`
- `UsesWithinProviders`: `Spec => []UseWithinProvider`
- `LoadsAreWhole`: `Spec => []PartitionIsExact`
- `EdgesAreDistinct`: `Spec => []OneEdgePerReference`
- `EveryReferenceDrawn`: `Spec => []EdgesComplete`

All rest on `Typing`, the full types: a selector has no selection or one over
rows of the index, queued and computed statements split those before `nxt`,
the layers of the chain are those of the computed creators, the dependents left
are some of the current statement's. On top of it:

- `LayersFirst`, for `SnapshotComplete`: when `nxt` does not drain, every
  top-level creator before it has been computed, because a statement after a
  creator drains before it is queued.
- `Reports`, for `EmptyIsExplained`, has two halves that need each other: what
  was reported empty is empty (it can only shrink), and what is empty and
  computed was reported.
- `UsesFollow`, for `UseWithinProvider`: a use is within the statement of its
  label, or that statement is still on the worklist, or it is the current one
  and the use is among the dependents it has yet to notify. A statement whose
  selection changes is put on the worklist, which restores the second case;
  `NoBorrow` (a statement does not use its own label, or the query has panicked)
  keeps a use from being its own provider.
- `EdgesComplete` looks at the last step only: edges of one reference and one
  source have the same key, the implicit edges are the last source of edges,
  and every key that is offered is drawn from the first source that offers it.

`AnswerProofs` proves what the answer is, for the same queries and indexes:

- `FixpointReached`: `Spec => []EveryNodeIsRelated`
- `TreesAreExact`: `Spec => []TreeIsExact`
- `ContainersAreNearest`: `Spec => []NearestContainer`

`FixpointReached` is the argument that no notification is lost. Its invariant
`Followed` goes through every pair of a statement and one of its scope, both
ways: `ChildrenFollow` says that a scope's statement is within what the
enclosing one supports, or that the latter is still on the worklist, or is the
current one and has yet to notify it; `ParentsFollow` says the same of the
enclosing statement and the union of its scope, which only counts once all of
the scope has a selection. Popping a statement moves its pairs from the second
case to the third, a notification moves one pair from the third to the first
(`ToldByParent`, `HeardFromChildren`), and a change puts what changed on the
worklist. `RowsLoaded` adds that constraints work on rows of the index.

`TreesAreExact` adds `Complete` to `Followed`: take any set of nodes that
support one another, a match of the tree. Every statement that has a selection
has the nodes of the match and the rows that join them to the rest of it, a
scope captured while computing a statement covers them, and so does every
constraint. Hence no node of a match is ever lost; at the fixpoint, conversely,
what is left supports itself. That the selections equal the two functions that
define a match, `Supported` from below and `Reached` from above, is shown by the
last and the first statement where they would differ, in place of induction over
the tree.

`ContainersAreNearest` is about loaded rows. A node's containment rows were
loaded by some statement, under the layers it had captured, and an edge is drawn
to the tightest container among them. `Stored` says that the index is what it
was plus the rows of the layers filled so far; `Batched`, that the statements of a
batch have captured every layer before it and that none of its own layers is
visible to another; `LayersFirst`, from `ExecutorProofs`, that captures are chains.
The layers that two nodes were found under are therefore nested, and whichever
node was found under more layers carries all containments around it that the
other could have (`AllContained`): of the rows between two nodes of the answer none
is missing, and the tightest of them is the tightest of the index
(`EdgesAreTightest`). The hypothesis `LayersInSequence` is the one the property
has; see Observations for what happens without it.

The proofs changed what is stated. `EveryNodeIsRelated` had
said that a scope's statements have nodes related to the statement around them
even if that one never gets a selection (see the namespace query under
Observations, which the corpus now has). Both fixpoint proofs need siblings to
share one relationship, and `ContainersAreNearest` needs the keys of the rows;
these became part of `CasesAssumption`, which TLC evaluates on the corpus.

`QueryProofs` carries them over to whole queries: `QueryRunsExecutor`
(`QuerySpec => Spec`) holds because `Respond` leaves the executor's variables
alone. On top of it, `GraphCloses` proves `QuerySpec => []GraphIsClosed` for every
cap (`LimitsAssumption`: a `usize`). `RankOrder` and `KeptIsFirst` are about
`select_kept`: symbols are ranked in a strict total order by the first of
their instances (`FirstOfIs`), a symbol before another has fewer before it, and
the last of them has all the others before it, so a cap below their number cuts
at least one. `Answered` says what the result is once it is there: an edge
starts at a node of the answer and ends at nodes of the symbol it is named for,
which is why cutting by symbol leaves no loose end. `AnsweredOnce` is the rest of
the invariant: a graph has been answered only if the executor is done, and then
nothing moves any more (`DoneStays`).

The rest of `QueryProofs` is about the language:

- `ScopesRelate`: `QuerySpec => []RelationshipScope`
- `FiltersAreObeyed`: `QuerySpec => []FiltersHold`

Both compare what a source says, verb by verb and scope around scope, with what
the contexts of the parser carry, for every forest of statements. They assume
`ParsedAssumption`: a query is `BuildQuery` of a forest in pre-order
(`ParsedInvariance`: no step changes it), and its preamble is of the kind the model
has, see section 5. TLC evaluates it on the corpus.

The parser's loops are folds, and a fold is unfolded once: the table of its
intermediate values exists (`BuildTable`, `FoldTable`, by taking the least place
where it would fail), so that there is a context after each verb (`BuildSteps`) and
a list after each step of `Retain` and of `add_verb` (`RetainSteps`, `AddSteps`).
The same argument over the statements of the forest gives their contexts
(`ExitsTable`, `ExitOf`) and what encloses each (`UpTable`, `Encloses`). What is
left is an invariant of the contexts, from the preamble down:

- for `ScopesRelate`, `Carries`: a context has the relationship of the nearest
  verb that names one if that verb is inherited or of the statement itself, and
  `modified` says which of the two defaults holds otherwise. A verb keeps it
  (`FoldRelates`, the last one wins), and so does entering a scope (`EntryOfScope`)
  and the top level (`EntryOfTop`).
- for `FiltersAreObeyed`, `Keeps`: the command of a context has every `ignore`
  said so far and the type verb that rules, if it is handed down. `add_verb` passes
  the whole list through itself again for every verb it adds, so an earlier verb
  could lose to a later one twice; `Settled` (no verb of the list displaces an
  earlier one) is kept by every operation and makes that second pass remove only
  what the new verb displaces (`AddIs`). `BuildKeeps` and `DeriveKeeps` are its
  steps, `CommandKeeps` adds the default types and the unit at the end.
- `AllPassed` takes it to the answer: in a query of plain selectors, which
  `FiltersHold` is about, every node that a statement holds at any point, whether
  it was loaded or taken over from a notification, was accepted by the statement's
  own filters.

Only model-checked:

- liveness (`StaleIsTransient`, `PurgeIsServed`, `LoserIsServed`,
  `UploadCompletes`, `Terminates`), which TLAPS does not prove.

## 5. Not modelled, and the plan

Not modelled:

- text: the pest grammar, spans, name patterns (a pattern is the set of names it
  matches), rendering, the suggestions of a NoMatch, the MCP front end;
- verbs: `project`, the direct-only filter, and a written-out `_`, whose
  registry entry is shared by a statement and its scope; argument checks;
- a preamble anywhere but as the first verb of the first statement, and one with
  a scope (`IsForest`). In the code a later top-level statement may be one and
  speaks to those after it, and the verbs of a preamble's scope go to the global
  context like those of its statement;
- `gather_warnings` merges diagnostics whose places in the source overlap; in
  the model two diagnostics are about the same place only if they are about
  the same selector;
- authentication (a request reads one row, verifies it and stamps it), the
  clang indexer, the migrations (the schema is the external database), data
  types and encodings (`symbols.rs`, `line_index.rs`): pure functions of one
  value or plain input and output;
- hit, miss and eviction counters, progress reporting.

Further modelling could take up per-layer content atoms, once some verb uses
them, name patterns as trees, and the preambles that `IsForest` leaves out.
