# A TLA+ development for edgar

edgar acquires SEC filings, keeps them as immutable bundles on disk, extracts
their XBRL into PostgreSQL, cuts their text into sections, maps reported
concepts to canonical metrics and builds observations from them. This directory
holds a model of those parts, the model-checking runs, and machine-checked
proofs about the ledger, the store, the catalog, the batch, the fetcher, the
closure, acquisition, sections and financials. Paths below are relative to
`src/src/edgar/`.

## The system

| Part | State | Operations | What is hard |
| --- | --- | --- | --- |
| Mapping ledger (`registry/service.py`, `db/registry.py`) | `registry.mapping_assertion`, an append-only table of revision chains; `registry.canonical_metric`, a mirror of `metrics.yml` | propose, accept, reject, sync, read views | several curators, checks in one statement and inserts in a later one, sync deleting what others refer to |
| Object store and bundles (`storage/`) | `objects/`, `bundles/{cik}/{accession}/{id}/`, one file lock per accession | put, publish, list, load | death between any two system calls, unlocked readers, what an fsync covers |
| Source catalog (`db/source.py`, `ingestion/source_extract.py`) | issuers, filings, documents, concepts, and per filing the current extraction snapshot | catalog, extract, replace snapshot, load | two transactions with a long extraction in between, concurrent replacement, deadlocks on shared concepts |
| Batch extraction (`ingestion/batch_extract.py`) | a process pool, `reports/p2-extract.json` | run a batch | worker failure against worker death, commit whose answer is lost |
| Acquisition (`ingestion/acquisition.py`, `report_input.py`, `sec/accession.py`, `sec/submissions.py`) | attempt directory, payload budget | acquire | one step of many failing, three inventories that may disagree, the attempt record in every case |
| SEC client (`sec/client.py`) | rate limiter, traces | fetch with retries and redirects | budgets per hop, size limits, one trace per fetch |
| XBRL workers (`xbrl/closure.py`, `xbrl/worker.py`, `xbrl/replay.py`) | pipe to a child process, fetched documents, byte budget | online closure, offline replay, extraction | timeout against late answer, no fetch after a fatal safeguard, replay equal to closure |
| XBRL extraction (`xbrl/extract.py`, `_source_build.py`, `upstream_inventory.py`, ...) | the tables and issues of the report in work | inventory, passes, assembly, acceptance | what a pass skips, what Arelle leaves out, chains and ids across documents |
| Text (`parsing/`) | none; pure over HTML | blocks, sections | a start in doubt, a section that runs over the next heading, nested inline text |
| Financials (`financials/`) | the output directory; the facts it loads | build, gold check, quality report | rows in any order, duplicates of different precision, a filing extracted again meanwhile |
| Command line and reports (`cli.py`, `corpus_acceptance.py`, ...) | none | | |

How they meet: acquisition fetches through the client, runs closure and replay
in workers, puts objects and publishes a bundle; `extract` lists published
bundles without the publishing lock, catalogs one, extracts its records and
replaces its snapshot; a batch runs many extracts in processes; the ledger's
assertions refer to the concepts that snapshots insert; `financials` loads a
snapshot with several statements. An accept's FOR UPDATE on a concept makes a
snapshot replacement wait at its foreign keys; since an accept locks one concept
and afterwards waits for nothing a replacement holds, that adds no cycle, and
the two are modelled apart.

## Modules

**MappingScope** has the interval and scope operators of `registry/interval.py`
and the shape of a claim. A date is an integer; NULL is `None`. A definition of
a metric is an opaque value with a hash, `definition_hash`, that may agree for
two definitions, since the real hash leaves the name out.

**LedgerContract** is the abstract ledger: proposals, decisions and mirror
updates happen one at a time. A decision extends a *current* row, copies its
claim, follows candidate -> accepted -> rejected or candidate -> rejected, and
an exact acceptance needs a free scope.

**MappingLedger** is the service as PostgreSQL transactions at READ COMMITTED.
`pc[t]` is the next statement of curator `t`, `job[t]` its Python locals; `spc`
and `sjob` are the same for a metric sync. One action is one statement, so
others may commit in between. Locks (FOR UPDATE and KEY SHARE on the concept,
KEY SHARE on the metric, the pending entry of the unique index on
`supersedes_id`, the rows a sync wrote) are functions of the `pc`s. An exception
or a violated constraint is a rollback. `SyncWrite` groups the inserts and
updates of a sync, which lock one row each in the order of the YAML file.
`EditYaml` changes the file at any time.

**BundleStore** is the store at the grain of system calls. Publishers put the
objects of a bundle and publish it under the lock; readers list without it.
`faults` is what may fail: process death, I/O errors, power loss, rotting
bytes. A bundle is a value up to `bundles_equivalent`; a digest stands for its
bytes. Power loss may undo any directory entry that no fsync has covered.

**SourceCatalog** has the two transactions of an extraction and the reader
`load_filing`. A row of a snapshot records who inserted it, from which bundle
and in which run, so that a mixture would show. The concept upsert inserts its
rows one by one, in the order of the extraction, and waits for an uncommitted
equal key as PostgreSQL does. The reports of a filing are one row `report`:
`load_filing` refuses a filing with several. `UNIQUE(filing_id, report_key)` is
left out, because its inserter holds the filing and has deleted the others.

**BatchExtract** is the parent and its pool. An exception in a worker is a
record; the death of a worker ends the pool.

**Fetcher** is `fetch_to_store`: `current` and `attempt` are the loops over
redirects and retries, `hops` the trace builder, `traces` what the sink got
from this fetch. Every answer of the network, the resolver and the store is a
free choice at every attempt. The `else` of the retry loop is not an action: the
last attempt always returns, raises or breaks.

**DtsClosure** extends Fetcher to online closure and offline replay: the
parent's loop (`run_worker_process`), its fetch handler (`handle_fetch`), the
worker at the other end of the pipes, and the gates of `_acquire_body` between
the two workers. While the parent serves a fetch it takes Fetcher's steps, hop
by hop, and the handler goes on with how that fetch ended. `parent` and `worker`
are the steps of the two processes, `toParent` and `toWorker` the pipes,
`resolved` and `unresolved` the worker's `DocumentResolver`. Arelle is external:
it wants the entry document and what the loaded contents refer to, asks in any
order, and may ask again. A reference is a URI of `Uris`, one of `Irregular`, which
`normalize_uri` refuses (`RejectIrregular`: a diagnostic and nothing else), or one of
`Local`, a file out of the workspace (`DenyLocal`). A URI and a content are opaque; the web may answer a
URI with any of several contents, or fail. The worker may die anywhere, or stop
moving. Aliases are left out, since an acquired bundle has none, and so are
documents that Arelle loads without resolving them, since every lookup goes
through `guarded_getfilename`. The sizes of documents count towards the budget
that the accession has left.

**Acquisition** is one call of `acquire` after another for one accession. `site`
is what SEC serves, `step` and `position` where `_acquire_body` is, `payload` the
budget's members with their sizes, `records` the attempt records on disk and
`outcomes` how each call ended. A name counts by what its pattern says of the
file and by its place in byte order. Closure and replay appear by their outcome
and publication by whether it raises, before or after the rename.

**Inventory** is the parent's own scan of the raw documents: counts per target,
id collisions, continuation chains. **Extraction** follows one filing through it
and then, report by report, through the passes of `extract_report_extraction`
(one action each: concepts, contexts, units, facts, relationships, retained
concepts, diagnostics), the assembly and the parent's acceptance. A document is
what it files; flags say what Arelle could not resolve, and of an item whether its value is
exact, inexact, invalid, unresolved or not there, and its raw text a string or not. Arelle may know a
document by an alias or by the surrogate of its set, and may leave items out.

**Blocks** is the walk of `_BlockBuilder` over a page, whose texts are opaque. A data
table is told by all its rows, nested ones too (`.//tr`); of a list only the items are.
**Sections** is `extract_filing_sections` in the order of its steps: marks, the
parts of items, the choice of starts, the sections. A block is what the regular
expressions and signals say of it; scores, penalties and the gap are the code's
numbers. The two neighbourhoods of the table of contents, 30 and 15 blocks, are
constants.

**Financials** is a build and the quality report after it. A `world` is what they
meet: decision files, filings with facts, gold assertions, cached points. A
namespace is a family and a release, an amount a whole number, an interval counts
half units, since decimals are at most 0. The query for facts has no order, so
the order of rows is a free choice; a group of facts is the set of their places in
it. `stored` is what the tables hold of each filing and `loaded` what the build has read.
`Reextract` replaces the stored facts of a filing, `OtherBuild` claims the output directory, `BuildDies` ends the build at any step.

**MC\*** modules and `.cfg` files give small instances; **MCReading** puts
parsing, extraction and financials side by side, one of them active at a time, as
**MCSourceCatalog** does the catalog and the batch; **MCLedgerCrews** runs the ledger
with one of two crews.
In the component modules a definition `Op_Slip` (or another suffix) is `Op` with a plausible slip;
nothing uses it, and `PROJECT.json` names the property that notices it.

The proofs about a component `M` are in `MProofs`: **MappingLedgerProofs**,
**BundleStoreProofs**, **SourceCatalogProofs** (which has those about `BatchExtract`
too), **DtsClosureProofs** (those about `Fetcher` too), **AcquisitionProofs**,
**SectionsProofs** and **ReadingProofs** (those about `Inventory`, `Extraction` and
`Financials`). **SumProofs** has what is known of sums over finite sets, of greatest and least elements, and of folds over sequences.

## Runs

| Run | Question | Properties | Instance |
| --- | --- | --- | --- |
| ledger_decisions | Are decisions unambiguous, chains sound, does no referenced metric vanish, and does the ledger implement its serial contract? | `NoAmbiguity`, `ChainsAreSound`, `MetricsStayDefined`, `RefinesContract` | 2 curators at once and 1 syncer, 4 ledger rows, two exact scopes that meet on one day and a non-exact one; or 1 curator, 2 syncers at once, 2 rows and 2 definitions of the metric |
| ledger_progress | Does every command end? | `EveryCommandEnds` | 2 curators, 1 syncer |
| bundle | Are bundles published once and completely, do readers never trip, is what publish returns complete, does every publish end? | `NoDuplicateBundle`, `DirectoriesAreSound`, `ReadersNeverTrip`, `ReturnsPublishedBundle`, `EveryPublishEnds` | 2 publishers, 1 reader, 2 filings, a bundle that changes between runs, one restart each; deaths with I/O errors, with power loss, or with rotting objects |
| source | Is a snapshot one extraction's, from the catalogued inventory, loaded consistently, and does every extraction end? Does the report of a batch never claim what is not committed, and does every batch end? | `SnapshotsAreSound`, `EvidenceMatchesCatalog`, `LoadIsConsistent`, `EveryExtractEnds`, `ReportIsFaithful`, `EveryBatchEnds` | 2 extractors, 3 extractions, 1 reader, bundles with equal and with other inventories, concepts in opposite orders; or 2 workers, 3 accessions, 3 batches |
| batch_always | Is a report always written? (violated) | `ReportAlwaysWritten` | 2 workers, 3 accessions, 3 batches |
| dts | One faithful trace per fetch, nothing after a safeguard; is what is bound closed, within budget and replayable, and do closure and replay end? | `OneTrace`, `HopsAreAWalk`, `SafeguardIsLast`, `BoundedRequests`, `ClosureIsSound`, `ReplayAgrees`, `ExternalsFit`, `SafeguardIsFinal`, `EveryClosureEnds` | 2 documents of the accession, 2 on the web in several versions, a validation resource, a reference without a canonical URI and one to a local file; a budget that one closure fits exactly and another exceeds; 1 redirect, 1 retry |
| dts_unresolved | Is every reference that no binding satisfies reported as unresolved? (violated) | `AnythingElseIsUnresolved` | the same |
| acquisition | Is what is published all of the filing and within its limits, its report input the inline set, and every attempt recorded for what it was? | `AttemptsAreRecorded`, `SafeguardsStayTyped`, `PublishedIsSound`, `InputIsTheInlineSet` | a filing that fits its budget to the byte and about ninety that differ from it in metadata, sizes, directory, index or SGML; 2 attempts |
| independent_inline | Is an inline document beside a primary document that is not inline unsupported? (violated) | `NoIndependentInline` | the same |
| reading | Is nothing lost, doubled or guessed when a filing is read? | `BlocksAreThePage`, `StartsAreBeyondDoubt`, `SectionsAreOfOneItem`, `EverySectionIsAccountedFor`, `NothingFiledIsLost`, `NothingIsDroppedInSilence`, `AcceptedIsCoherent`, `ObservationsAreRight`, `IdentitiesAreSound`, `OracleFollowsTheFact`, `OutputIsFinal` | pages of four nodes, of three with one hidden, and a table of one row and two cells with one or three more elements anywhere; documents of three blocks, or of four and the signature; a filing and what differs from it in one or two of about ninety ways; about 700 worlds with rows in every order |
| lexical | Is the loss of a raw lexical value fatal? (violated) | `LostLexicalValueIsFatal` | the filings of reading |
| quality | Does the quality report accept what selection selects? (violated) | `ApplicableAsSelected` | the worlds of reading |

A property that a run states as one formula may be a conjunction: for instance
`DirectoriesAreSound` is the type invariant of the store and what it says of
descriptors, objects and staging directories, each part named and explained in
the module.

Several properties compare the code with a definition of another kind. The
dynamic programme of `Sections` is compared with all sets of starts in ascending
order (`NearBest`): a start is chosen exactly if every nearly best set has it.
`SelectionIsRight` and `IdentitiesAreSound` compare reductions step by step with
a quantification over all facts, `ContinuationsAreChains` the walk of a chain
with reachability, `BlocksAreThePage` the walk of a page with its document order.

Why the bounds are enough: every ledger property relates at most two commands of
one kind and one of the other, a chain has at most three rows, so four rows hold
a full chain beside a competitor; a publisher's interference needs two publishers
and the remains of an earlier run; a snapshot mixture needs two extractors and
a previous snapshot; a stale report needs a good batch before a broken one.
In the bundle run two acquisitions of one filing differ by a changed page, and a
restart makes them equal; two filings have locks of their own and meet only in
an object they share, so a second filing takes part where objects rot. When the disk itself
fails, readers stay idle: nothing is claimed of them, and they write nothing.
`ReturnsPublishedBundle` is about the fault models without rotting objects.
The closure instance has a version of a taxonomy that leads to a cycle, one that
does not and one that is refused, so closures differ with the answers. One
redirect and one retry suffice there, since a fetch is seen by the closure only
by its end, and the theorems about the fetcher hold for all limits.
An acquisition differs from a good one in one place, or in one place and a
document that the index or the directory alone names; a filing has at most one
cause of failure per step, and two attempts show what the first leaves behind. Extraction
differs in one place, or in a filed value and in what surrounds it, so that one
document may hide what another has. Documents of five blocks hold two competing
starts, their successor, an entry of the table of contents and the signature;
with neighbourhoods of 2 and 1 both ends of each are inside. Four
nodes hold text before, inside and after a nested block within a list item or an
inline element. Three facts of one concept hold all ways in which duplicates
agree in pairs and not together. Opaque ids suffice for every draw. Runs end at
these bounds, so only the ledger runs check deadlock.

**Fairness.** Clients execute their next statement or system call, the deadlock
detector runs, lock waiters are served in turn (PostgreSQL queues them, so the
ledger has strong fairness), and a connection is not lost at every commit.
`FileLock` polls; restarts are bounded, so weak fairness is enough there. The
operating system frees the lock of a dead process. Nobody is assumed to start a
command, restart, or edit the file. An extraction has a timeout. Of a worker
nothing is assumed at all: the parent runs, a fetch ends (its timeouts and
retries are bounded), time passes, and a killed process dies.

**What does not hold.**

- The docstring of `ingestion/batch_extract.py` says that the parent process
  always writes the report. With several jobs, a worker that dies makes
  `pool.map` raise `BrokenProcessPool`; no report is written and that of an
  earlier batch stays. `batch_always` shows it.
- `xbrl/diagnostics.py` says that the loss of raw lexical content still produces
  a separate fatal issue. `UNAVAILABLE_FACT_LEXICAL_VALUE` is one of
  `NONFATAL_ISSUE_CODES`, so a fact whose transformation failed and whose text
  cannot be read is accepted with a warning. `lexical` shows it.
- `xbrl/worker.py:14` says that offline only the supplied bindings can satisfy a
  reference and that anything else is reported as unresolved. `resolve_remote` of a
  reference that `normalize_uri` refuses (with credentials, an IPv6 or non-ASCII host,
  or white space) returns nothing and leaves a line in the diagnostics;
  `_collect_documents` skips it too, online and offline, so the gate accepts a
  closure whose contents refer to a document that is not bound, and the replay
  agrees. `dts_unresolved` shows it; `ClosureIsClosed` and its theorem say what is
  true: nothing else is left unbound.
- ADR 0009 (`docs/adr/0009-filesystem-filing-bundle.md:121`) says that an independent
  non-primary inline instance is `UNSUPPORTED_REPORT_INPUT`. If the primary document is
  not inline, `identify_report_input` looks for an EX-101.INS only, so a filing with
  one of these and an inline exhibit is published. `independent_inline` shows it.
- `docs/development.md` says that `n_decision_applicable` uses the same match as
  selection. `slot_decision_applicable` considers only us-gaap decisions, so a
  value selected by a dei, srt or issuer decision makes the quality report
  refuse the build. `quality` shows it.

**Worth knowing, and allowed by the properties.**

- A load that overlaps a replacement may find the report and then no facts; a
  build then fails for want of a period.
- Two first catalogings of a filing by a known issuer race, and the loser ends
  with a database error and not with a reuse.
- After power loss a published bundle may lack objects: it fails closed on
  listing until the objects are put again by an acquisition.
- A publish may raise after the rename, so a failed attempt does not mean that
  nothing was published.
- A file of no bytes is refused when the budget is exactly used up. In
  `_acquire_body` the fallback to `-index.htm` and the branch
  `not ok and required` cannot be reached.
- An inline document that only the SGML submission names, without a type, is not in
  the report input.
- The blocks of a page are not simply its visible text. `_table_text` takes `.//tr`, so
  the text of a table nested in a data table is told again for each cell around it;
  a caption is left out; the rows of a data table that are hidden are told, since only
  cells are looked at. Of a list, children that are not items, and text outside of them,
  are left out, and so is text directly in a layout table. `TimesTold` states how often
  a text is told, for every place in a page.
- A fact may have no value without an issue: one that Arelle calls invalid or unresolved
  has the status to say so, but a valid one with no value has nothing
  (`_exact_numeric` and `_resolved_non_numeric` of None). A raw value that is no string
  is lost without an issue. These are the exceptions in `IsAccountedFor`.
- A balance sheet with one side filed twice and differently fails as "inconsistent
  duplicate facts", even if the intervals meet and balance.
- `SectionsAreOfOneItem` is about starts that some nearly best reading has. That a
  section does not run over two items collapsed into one block, or over an item of an
  unresolved part, is only in the model (`Doubtful`); no property states it.
- A block that opens two items removes both keys from the whole document. The
  signature heading is resolved after ambiguous starts are cleared. Part markers
  of a 10-K only confirm the defaults; `min_window` of `_is_toc_cluster` has no
  effect.
- A numeric fact without a unit keeps its resolved value with the status
  `unresolved`. `_role_declarations` and `_arcrole_declarations` are not called.
- The fiscal year of an observation depends on the order of rows when a filing
  reports two. One statement of the period with a text that differs from its
  context is accepted, while a duplicate of it makes the build fail.
- The output directory is in place before the quality report is written: a
  report that fails leaves it, and the next build is refused for it.

## Proofs

Every safety property of the ledger, the store, the catalog, the batch, the
fetcher, the closure, acquisition, extraction, sections and financials that a run is
expected to pass is also a theorem, for all values of the constants that satisfy the
modules' named assumptions.

| Module | Theorems, and the property each states |
| --- | --- |
| MappingLedgerProofs | `TypeCorrect`, `LedgerIsUnambiguous` (`NoAmbiguity`), `ChainsStaySound` (`ChainsAreSound`), `MetricsNeverVanish` (`MetricsStayDefined`), `LedgerRefinesContract` (`RefinesContract`) |
| BundleStoreProofs | `OneDirectoryPerBundle` (`NoDuplicateBundle`), `DirectoriesSound` (`DirectoriesAreSound`), `ReadersSafe` (`ReadersNeverTrip`), `PublishReturns` (`ReturnsPublishedBundle`) |
| SourceCatalogProofs | `SnapshotsSound` (`SnapshotsAreSound`), `EvidenceMatches` (`EvidenceMatchesCatalog`), `LoadsConsistent` (`LoadIsConsistent`); of the batch: `ReportFaithful` (`ReportIsFaithful`) |
| DtsClosureProofs | of one fetch: `OneTracePerFetch` (`OneTrace`), `HopsFollowRedirects` (`HopsAreAWalk`), `SafeguardsAreFinal` (`SafeguardIsLast`), `FetchIsBounded` (`BoundedRequests`); of the closure: `ClosureSound` (`ClosureIsSound`), `ReplayFaithful` (`ReplayAgrees`), `SafeguardStays` (`SafeguardIsFinal`), `CapturesFit` (`ExternalsFit`), `FetchesKeepTheirPromises` (the fetcher's four, inside a closure) |
| AcquisitionProofs | `AttemptsRecorded` (`AttemptsAreRecorded`), `SafeguardsTyped` (`SafeguardsStayTyped`), `InputIsInline` (`InputIsTheInlineSet`), `PublishedSound` (`PublishedIsSound`) |
| SectionsProofs | `MonotonicDpIsRight` (of the operator), `SectionsInvariant` (the inductive invariant), `StartsBeyondDoubt` (`StartsAreBeyondDoubt`), `SectionsOfOneItem` (`SectionsAreOfOneItem`), `SectionsAccountedFor` (`EverySectionIsAccountedFor`) |
| ReadingProofs | of extraction: `ExtractionInvariant` (the inductive invariant), `NothingLost` (`NothingFiledIsLost`), `NothingDropped` (`NothingIsDroppedInSilence`), `AcceptedCoherent` (`AcceptedIsCoherent`); of financials: `ObservationsFollowTheFacts` (`ObservationsAreRight`), `SheetsSound` (`IdentitiesAreSound`), `OutputFinal` (`OutputIsFinal`), `OracleFollows` (`OracleFollowsTheFact`) |

Each rests on an inductive invariant. What it adds to the property is what the
code relies on between two steps.

**The ledger.** `NoAmbiguity` is not inductive, for two reasons. First it speaks
of containment of a period end, while the code checks overlap:
`ApplyingScopesOverlap` shows that two scopes which apply to one fact overlap,
the fact without period end included, so it is enough to prove `NoCollision`.
Second, that a commit keeps `NoCollision` depends on a check made statements
earlier. `IInv` carries that knowledge: `LockInv` (one holder of a concept's
lock), `ClearedInv` (what the check found free stays free until the commit,
because every other exact acceptance for the concept would need the lock),
`IndexInv` (a pending index entry is the only one for its row, which has no
successor yet), `JobInv` (the locals still agree with the row they were read
from, which never changes), and `ShareInv` and `DeleteInv` (a metric a pending
row refers to is in the mirror, and no sync is deleting it). The refinement maps
each `Commit` to `Propose` or `Decide`, `SyncCommit` to `Mirror`, and every other
step to a stutter. The assumptions: dates form an interval, `None` is no date,
issuer, definition, hash or id, proposals are what the model validator admits.

**The store.** `AtWork(p)` is what publisher `p` relies on inside the `with` of the
lock: it holds the lock, its staging directory is as it left it, no published
directory of the accession holds its bundle since `list_published` said so, and
the objects that `validate_bundle_integrity` found are there unless bytes rot.
Without it the rename could publish a duplicate or an incomplete bundle. The
properties say what each fault model allows, and so does the proof: the sets of
faults are a parameter.

**The catalog.** `AtStep(e)` relates an extractor to its own uncommitted work, and
`Apart` says that no two persist one filing, which the row lock and the unique
accession give. `TableInv` says of committed rows that their extraction has
committed (`Spent`) and will not again. A reader that found a report knows only
that: its facts are there with their measures, or both have been replaced.

**The batch.** `WorkInv` (a worker that has committed and a record of success
stand for a snapshot of this batch) and `PastInv` (nothing on disk is of a batch
that has not begun), from which the report is never ahead of the snapshots.

**The fetcher.** `HopsInv` (the fetch is where the walk of its hops has led, and
before it is over no hop is final), `TraceInv` (a trace has been emitted exactly
when the fetch is over, and it agrees with the builder) and `BudgetInv` (the
requests so far are at most those of the hops left behind plus the attempts at
this one; that is what makes the product bound inductive). The limits are
natural numbers, and nothing else is assumed.

**The closure.** `DtsInv` joins the fetcher's invariant to `ClosureInv`. That a
bound closure is closed and a replay faithful is a statement about a least set:
`Reach(b)` says that any set with the entry which is closed under the references
of what `b` binds holds all that `b` binds. Resolving a wanted document keeps it,
and since the replay starts from the same bindings, it makes the two loads equal
in whichever order each proceeded. `PipeInv` says who may have written into which
pipe, `ResultInv` that a result on its way lists what it lacks. That every fetch
of a closure keeps the fetcher's promises follows since a step of the closure is
a step of `Fetcher`, a new call of it, or leaves it alone. `ChargeInv` is the byte
counter against the sum over the captured documents, with `SumOfMore`.

**Acquisition.** `AttemptInv` gives the first two theorems: `RunInv` says of the
attempt under way what its record will have to say (before it ends it has met
nothing fatal, and when it ends its fatal issues are those that explain its
exception). All steps of `_acquire_body` are first shown to be one relation,
`BodyStep`, so that the invariant is shown once for them. On top of it
`InputInv` says that the input chosen is the inline set of the payload, and
that it stays so. For the byte limits, `PayloadInv` states exactly which paths the payload
holds at each step: a path that is fetched is new, so a refusal for the budget
means that the files stored and this one are disjoint parts of the filing whose
sizes add up to too much (`SumOfDisjoint`, `SumOfPart`); `ExcuseInv` keeps that in the
record. `FoundInv` says which part of the directory has been dealt with and that
both inventories name only what is listed, from which completeness follows at
the publication. The assumptions about a site (`SitesAssumption`) are those the
parsers establish: a name in the listing or the index is a name, there is a
block of recent filings, every resource has a size, documents outside of the
accession have paths of their own.

**Sections.** The heart is the dynamic programme `_global_monotonic_dp`, which keeps
one node per last ordinal and drops the others. A *reading* of the first `m`
boundaries is a set of candidates with at most one for each of them, in ascending
order. `LayerRight` says that every node of a layer stands for a reading (its path,
its total, its last ordinal), and that for every reading some node ends at the same
place and is as good. `LayerStep` shows that one more boundary keeps it: what may
follow a dropped node may follow the one that took its place. It is carried along the
sequence of boundaries by an induction over a set of lengths, since a fold over a
sequence is, like a sum, a fold over the set of its places (`IterExists` in
`SumProofs`). So the last layer has a best reading (`BestIs`), and the same argument
with the options of one boundary cut down to one choice says what
`_score_path_with_forced` returns (`ForcedAre`, `CloseIs`). `MonotonicDpIsRight` puts
these together, against a definition without layers: what is selected is what all
readings within the gap of the best agree on, and the alternatives listed for an
ambiguous boundary include every start that one of them has.

`SectionsInv` says at each step of `extract_filing_sections` what has been
established: the marks and candidates are those of the document, one per block and
boundary (`CandsOK`), the choice is right (`ChosenRight`), and the output is what
the last loop assembles from it. The three properties follow. Chosen starts are in every nearly best
reading and so ascend along the grammar; the next chosen start bounds a section, and
`end_for` refuses an end where a doubtful boundary lies in between, so no other
heading is inside. That a reason is given once is a case analysis over the branches
for a missing start. `DocumentsAssumption` says that a form is one of the four and a
block is what the signals say; the length of a document, the number of candidates
and the neighbourhoods of the table of contents are arbitrary.

**Extraction.** The inventory comes first. `WalkIs` says what the walk of
`_walk_continuation_chain` returns: a chain of unique elements, each continued by the
next, and either its end or a reason. The step bound is never what stops it, because a
chain of different elements has no more of them than there are (`ChainFits`).
`FollowingIs` shows that it met exactly what the fixed point `Following` says follows the
reference, so the inventory refuses a report for its chains exactly if one of them is
unsound or shared (`ChainsAreDecided`): for every number and every shape of
continuations, cycles included. The recursive functions are shown to exist, and
to be what their definitions say, from the folds of `SumProofs` (`RecExists`).

`ExtractionInv` is a statement about the failure that has not happened. A pass skips
what it cannot represent and records an issue, so one lemma per pass says that a table
filled without a fatal issue is what was filed: `ContextsPass`, `UnitsPass`,
`FactsPass`, `RelationshipsPass`, `RetainPass`. For facts that includes what a row must
say of an item without a value or a text (`ItemIs`, `FactSpoken`), and for contexts and
units that the dimensions and measures are the filed ones, row by row. `TablesRight` collects them under the
hypothesis that no issue is fatal, which survives later passes since issues are only
added, and `BuiltIsRight` carries it into the assembled report, where rows that are
referred to by their place get back the id that led to them (`IdAtRow`; that one element
has the id is the inventory's check for collisions). Two gaps remain, and something else
closes each. Arelle keeps the last of two contexts with one id: there are no two, by the
inventory, and `LoadedWhole` shows that nothing is dropped then. Arelle may leave out
facts without a word: the invariant compares facts with items only if they are as many,
and that they are is the parent's own count, at the end. For an XML instance the parent
counts the items of all targets; `PickWhole` shows that an equal count still leaves none
out. `FilingsAssumption` says what a filing is, and of Arelle that the name it gives a
document leads back to that document or to none.

**Financials.** What the code computes in the order of the rows is first shown to
be a function of the set of facts. `ReducesMeans`: narrowing an intersection fact
by fact fails exactly if two of the facts disagree, for intervals that meet two by
two have a common point. `TopRank`: `survivor_rank` is a total order, so one fact
outranks all others. `AgreementMeans` puts these together over all concepts, and
`SelectedIs` compares `select_metric` with `SelectionIsRight`, one branch at a time.
`PeriodIs` does so for the reporting period, where the cover that is read first
speaks for all. `OperandOf` shows that the intersection over concepts is the
intersection over facts, and `SumsMeet` that two intervals have amounts with a sum in
a third exactly if the third meets their sum. `OperandMeans` shows that a side has an
interval exactly if its facts agree, by `AgreementMeans` again, and have an amount in
common; so `SheetIsSound`, in both directions. These are facts of
one filing. `BuildInv` carries them through the build: every observation and finding
is founded on the facts as they were read (`loaded`), those and the rows stored now
are among the two generations a filing has, an observation exists for every metric
of every filing built, and past the last filing all are built. `OracleFollows` needs
only that an id names one fact in both generations. `WorldsAssumption` states what the
tables give: ids are unique, a duration has a start, amounts and precisions are
whole numbers (`decimals` at most 0 or unlimited; the unit is arbitrary), and a
decision of a standard taxonomy names no issuer.

**Sums.** `SumProofs` shows what the library's `MapThenSumSet` computes: nothing for
the empty set, one element more for one more element, and so on for disjoint
unions and parts. The library defines it by a fold over a `CHOOSE` of an element,
so even that the order does not matter needs an induction. It is done over the
set of the subsets of a finite set for which the claim holds (`SetInduction`,
`SubsetInduction`), with the claim as a set and not as an operator.

The inductive invariants were model-checked on the instances of the runs before
they were proved, but for `BuildInv`, which TLC cannot evaluate (it quantifies over
all days), and `SectionsInv`; their parts are close to the properties that the run checks.

**Only model-checked.** All liveness properties: they need fairness, which is
beyond the prover. `BlocksAreThePage`: `Blocks` walks a tree by a recursive operator,
and that the walk is the document order is an induction over trees.

## Plan

1. The replay of a bundle with aliases and the receipts of extractions.
2. `Blocks` as a walk with an explicit stack, so that its order can be proved.

## Not modelled

- Registry YAML parsing and printing, the read-only mapping views, the command
  line, configuration, acceptance comparison and migrations: input and output
  without state of their own.
- The wire codec between worker and parent (`xbrl/source_wire.py`,
  `xbrl/records.py`) and the extraction receipt: field by field encoding.
- The parse of bytes by lxml, the loading of a taxonomy by Arelle, the regular
  expressions over headings: a block, a page and a document are what these say.
- The census, the counts and layout of the quality report, `_git_state`, the CSV,
  JSON and Markdown files and the cache of companyfacts.
- The pause between requests: time is not modelled.
- The write of the job to a worker's standard input (`xbrl/closure.py:179`): it blocks
  before the deadline is looked at, so a worker that does not read a job larger than the
  pipe would hold up the parent; `EveryClosureEnds` starts after it.
- An interrupt from the keyboard during `acquire`: it is no `Exception`, so the record is
  written with no `terminal_error`.
- The entries of the directories above a bundle's: `publish` creates them
  (`storage/bundles.py:162`) and never syncs their parents. No property relies on them.

Small risks that no property covers, since nothing reads the result: a mapping
view may mix two states of the ledger; a death inside `put_stream` leaves a
temporary file; the manifest of a build hashes the decision files after the build
has used them. An object whose bytes rot is never replaced, and every publish
and listing that needs it fails until an operator removes it.

`PROJECT.json` lists every part with its status, and the hazards with the
properties that cover them.
