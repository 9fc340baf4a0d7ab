# Verification of graph-coder

TLA+ models of [graph-coder](../src/README.md), TLC configurations that check
them on small instances, and TLAPS proofs that carry the main results to every
instance.

graph-coder is a command line tool that keeps the durable state of a crew of
language models: a plan is compiled into a delegation graph, managers and
workers carry out its nodes, and a SQLite database with a hash-chained event
ledger remembers what happened, so that an interrupted session can be recovered.
The tool is passive. It never starts a worker: a *Director*, managers and
workers outside it read its answers and run its commands, several of them at the
same time, and any of them may be killed.

## 1. Inventory

| Component | Source | State | Operations | Interacts with |
|---|---|---|---|---|
| Execution contract | `execution.py` | a status per node | `validate_transition`, `apply_manager_review`, `block_descendants`, `compute_frontier` | statuses are stored in `graph_nodes`; `ready_frontier` reads them |
| Event ledger | `events.py`, `db.py` | table `events` | `append_event`, `verify_chain`, `rebuild_projections` | every command appends to it |
| Crash recovery | `recovery.py` | `attempts`, `units`, `projections` | `recover`, called by `run recover` and `context build` | ledger, projection |
| Human decisions | `recovery.py` | status and `human_decisions` of a `graph_nodes` row | `resume_human_required` | ledger, graph rows |
| Delegation graph | `graph.py`, `cli.py` | one graph file, rows of `graph_nodes` | `validate`, `topological_nodes`, `compile_plan_units`; `graph compile`, `route set` | built from a plan, read by the adapter |
| Plan store | `plans.py`, `cli.py` | `plan_versions`, `units`, snapshot files | `plan snapshot`, `plan reconcile` | ledger, recovery |
| Plans | `plans.py`, `contracts.py` | none | parsing, readiness, semantic hash, approval | plan store, graph |
| Routing | `routing.py`, `registry.py` | none | `route_model`, `build_registry` | cache, route store |
| Registry cache | `llm_stats.py` | one cache file | fetch with cache, expiry, stale fallback | `route refresh`, `route assign` |
| Route store | `cli.py` | table `routes` | `route assign` | ledger, projection |
| jcode adapter | `adapters/jcode.py` | none | `jcode emit`: preflight, bundle of tasks | graph file; the harness runs what it answers |
| Input and output | `config.py`, `context.py`, `redaction.py`, `terminal.py` | files | reading, masking | none that matters here |
| Skills, installers | `skills/`, `scripts/` | none | instructions, copying | none |

(Paths are under `src/src/graph_coder/` unless they say otherwise.)

What is hard about it:

* **Concurrency.** Commands are processes on one database. Ledger appends are
  one transaction, but every command above it is several: it reads, checks,
  writes and appends in separate steps.
* **Crashes.** A process may be killed, or time out on the database lock,
  between any two of those steps. There is no journal that says which of them
  were done; the next recovery has to infer it.
* **Idempotency by key.** Retries are made safe by keys. Where a key says less
  than the event, a new event is taken for an old one.
* **A file without a lock.** The graph file is replaced by one command and
  written in place by another, each from what it read before.
* **Long histories.** The state machine of a node has cycles (repair, retry,
  block, human decision, reopening after completion), and the frontier work is
  dispatched from has to be right after any of them.

The hazards, each at its line with the properties that would catch it, are in
`PROJECT.json`.

What makes each component correct:

* Execution: work is unlocked by passed reviews only; a failure stalls its
  descendants and nothing else; writers of one scope do not run together.
* Ledger: the chain verifies at every moment, keys are recorded once, callers
  see an atomic append, tampering shows.
* Recovery: each interruption is recorded exactly once, nothing in flight or
  unverified is passed over for ever, finished work is left alone, and what is
  reported and shown is what the ledger says.
* Human decisions: the record of a node and the ledger tell the same story.
* Graph: accepted graphs are acyclic, within bounds, with ordered writers; file,
  rows and ledger are of one content.
* Plans, adapter: completed work that is still valid is kept; what is handed to
  the harness can be run, with the models and on the evidence that were chosen.
* Plan store: versions and files agree, evidence survives exactly for
  unchanged units.
* Registry cache, routing: no stale evidence where fresh is demanded; the
  choice does not depend on the order of the candidates.

## 2. Modules

| Module | What it is |
|---|---|
| `DelegationGraph` | the graph as constant data, with what `validate()` and `_graph_from_plan` guarantee as assumptions |
| `GraphCheck` | `validate()`, `topological_nodes()` and `compile_plan_units()` with their work lists |
| `GraphCheckProofs` | theorems about `GraphCheck` |
| `Execution` | the execution contract and the two frontiers |
| `ReviewGate` | abstract: approvals come in dependency order |
| `ExecutionProofs` | theorems about `Execution` |
| `Ledger` | `append_event` statement by statement, `verify_chain` |
| `AppendLog` | abstract: an append-only log with unique keys and honest answers |
| `LedgerProofs` | theorems about `Ledger` |
| `Recovery` | `recover()` transaction by transaction |
| `RecoveryProofs` | theorems about `Recovery` |
| `BranchResume` | `resume_human_required` step by step |
| `BranchResumeProofs` | theorems about `BranchResume` |
| `PlanStore` | `plan snapshot` step by step, beside evidence and reopening |
| `PlanStoreProofs` | theorems about `PlanStore` |
| `Dispatch` | `graph compile`, `route set` and `jcode emit` step by step on one file, with what they make of a plan |
| `DispatchProofs` | theorems about `Dispatch` |
| `Reconcile` | what a plan is held to, and `plan reconcile` |
| `Router` | `route_model` stage by stage |
| `Routes` | `route refresh` and `route assign --from-cache`, with time |
| `RoutingProofs` | theorems about `Router` and `Routes` |
| `MC*` | instances for TLC |

Each module's properties follow its specification. Operators commented
`Mutant:` are not part of a specification: each is the body of the definition
next to it with a plausible bug, and shows that some property would notice.

### Execution

`status` is `graph_nodes.status`; `passed` and `reopened` are history. The
package guards transitions and others choose among them, so an action is one
choice that the responsible function accepts: `Dispatch` takes a node from
`ReadyFrontier` (the SQL query of `recovery.ready_frontier`), `Review` goes
through `apply_manager_review` with a verdict and its evidence, `Resume` is
`resume_human_required`, the others go through `validate_transition`.
Composite nodes (the Director and the managers) keep the status they are
compiled with: nothing in the repository moves them.

What the code stores and what is derived are kept apart as in the code:
`ReadyFrontier` reads rows and looks at direct dependencies, `Frontier` is
`compute_frontier` and also isolates the descendants of stopped nodes.
`FrontiersAgree` says when the two agree.

One choice is narrower than the transition table: a node in `human_required`
leaves it through `Resume` only, because `run resume` is the command for it, and
`human_required -> running` is not used by any caller.

### GraphCheck

One call of `compile_plan_units`, which calls `topological_nodes`, which calls
`validate`; `phase` says where it is. The graph is a variable that no step
changes: every graph over `Given` is an initial state. A node is its position in
`graph.nodes`. `Dequeue` is one round of the loop of
`_validate_acyclic_and_depth`, and of the same loop in `topological_nodes`;
`EndWalk` its checks; `Pop` one round of `_ancestors` and `NextNode` its return;
`CheckWrites` the comparison of all pairs; `MakeUnit` one round of the grouping.
The code's queue and stack are ordered; here any element may be taken, which
covers the code's order and every other, so the results are shown not to depend
on it. The one place where the code's order matters is kept: a unit is made for
the first node of the order that is in none. Write scopes are compared through
a relation `Overlapping`, as `_scopes_overlap` compares text with patterns, and
need not be transitive. `depends_on` is a set: a repeated entry is counted twice
and taken off twice in the code.

Two things about plan units are noted and not stated as properties:
`depends_on` of a unit names nodes, not units (`graph.py:461`), and grouping does
not look at the owner of a node, which `skills/delegation-graph/SKILL.md:66-69`
asks for.

`AcceptedFits` instantiates `DelegationGraph`, the module `Execution` is built
on: what `Execution` assumes of its graph is what the code has checked.

### Ledger

One process per running command, with `pc` naming the statement it is at.
`events` is the committed table, `draft` the table as the transaction in
progress sees it. `BEGIN IMMEDIATE` is `Begin` or `BusyTimeout`; the rollback
of the context manager is in `InsertRefused`; `Crash` kills a process anywhere,
and SQLite drops its transaction. A caller whose process was killed, or that
timed out, may call again: calls are not told apart from retries. SHA-256 is
modelled as free of collisions: a digest is the sequence of contents it commits
to.

`ImplementsLog` is the contract the other modules rely on: they append in one
step.

### Recovery

`recover()` is `SelectInFlight`, `MarkInterrupted`, `RecordInterrupted` for each
row, `SelectUnverified`, `ReopenUnits`, `RecordReopened` for each row,
`ReadEvents`, `StoreProjection`, `Return`: one action for each transaction or
query of its own. `Stop` ends a process between two of them (killed, or an
exception such as a lock timeout). Others write meanwhile: attempts are written
by the harness (nothing in `src/src/` inserts them; the tests do, with a row
and, separately, an event), unit rows by `plan snapshot`, evidence by the
harness. An attempt's last write is assumed to happen while it is in flight.
`event append` gives an event a key only if it is told one, so `RecordStart` may
report a start any number of times, before the attempt has a row or after it was
interrupted; the events of `recovery.py` and their keys are left to `recovery.py`.
`projection` is the attempts part of the row `control`: `Rebuild` applies the events
one after the other as `rebuild_projections` does (`Applied`), and `LastWord` states,
without going through them in order, what a reader would take from them. The packet
has a count of interrupted attempts, the ids of reopened units and `last_sequence`;
`reported` is what the first two are counted from and `seen` the third. The chain
verification `recover()` begins with is left out because `ChainVerifies` is proved.
`lost` is history: attempts marked by a process that was stopped before their events.

Three losses and a false picture follow from the code and are noted here. A
recovery stopped between its update and its events leaves rows the next one does
not select (`recovery.py:18`), so those interruptions are never recorded, although
`docs/architecture.md:99` says that every phase transition is an event;
`SilentOnlyAfterStop` says that these, and no others, are silent. An attempt that
finishes between a recovery's query and its update is overwritten as interrupted
(`recovery.py:18-31`); `FinishedStands` says that this is the only way. The key of a
reopening (`recovery.py:72`) is used up by the first one, so a second reopening of a
unit is not recorded. And a start that is reported after the interruption, late or
again, sets the attempt in flight in the projection for good (`events.py:206-211`),
because the interruption has used up its key too; `ReportedIsInLedger` says that
nothing else makes the projection of a recovery contradict what it reports.

### BranchResume

`Read` is the query and the checks, `Update` the transaction, `AppendResumed`
the event. `Escalate` stands for all work that leads a branch back to
`human_required`, `Compile` for the row that `graph compile` deletes and inserts
anew. Two variables are history: `raced`, some update overwrote a row that had
changed since it was read, and `lost`, the decisions a process had written when it
was stopped before their event.

Noted, and checked while the module was written: the key of `branch.resumed`
does not name the graph, so where one node has rows in the graphs of two plan
versions, or a row was compiled anew, a decision is answered with the event of an
earlier one of its number and gets none of its own (`recovery.py:181`,
`docs/architecture.md:111-112`). `LedgerAgreesWithRecord` and `AnsweredForItself`
exclude these cases (`Undisturbed`); `NoSilentDecision` holds in them as well, and
says what is left: an event of the node and number is there. The run here keeps to
branches whose nodes differ, and compiles rows anew; the theorem has both.

### PlanStore

The versions of one plan. `Query` looks for the content among the rows,
`ChooseVersion` counts files and looks at the plan's own number, `WriteFile`
writes and renames the file, `Insert` or `InsertFails` is the transaction,
`AppendSnapshotted` the event with its default key, the content; `Stop` may come
between any two. A content is a member of a set, and `Plan` says what it parses
to: its own version number, and the semantic hash and status of each unit.
`completed` stands for `completed` and `done`. Beside it the harness files
evidence for a unit as it is (`FileEvidence`, in one step) and recovery reopens
units (`Reopen`). Evidence is named by the hash it was filed for, which the
code does not store; that is what `EvidenceFits` compares. Three variables are
history: `overlapped`, two commands were under way at once; `contested`, the numbers
a command chose while another was about to write them, whose files are overwritten;
`late`, the versions whose command was stopped before their event, which a retry may
append after the event of a newer one. The requirements table, which is
deleted and written with the units, is left out.

### Dispatch

From a plan to what the harness is given. A content of the plan file parses to
units with dependencies, managers, models and artifacts; `NodesOf`, `Kind`,
`Needs` and `ReviewOwner` are the graph `_graph_from_plan` builds, and `Accepted`
says that it passes `validate()`: fan-out and artifacts as the code checks them,
the rest through `DelegationGraph`, which is instantiated for each content
(`Graph(c)`) and which `GraphCheck` proves the code to establish. Of a graph only
the routes change afterwards, so a graph is a content and a route for each unit.

`graph compile` is `BeginCompile`, `StoreRows` (one transaction),
`AppendCompiled` (the key has the content in it, so a content that comes back adds
nothing) and `ReplaceFile` (`_write_json` renames). `route set` is `BeginSet` (read,
change in memory), `OpenFile` and `FillFile`: `dump_json` truncates the file and
then writes. What others who have the file open are left with is `grip`: a
process writes over its own text (`own`), over a text another wrote meanwhile
(`mixed`: the result is its text, or, when the other's was longer, no JSON), or to a
file that was replaced (`gone`: nobody reads it). `Emit` reads and answers in one
step, because it writes nothing of its own. `Stop` ends a process anywhere.
`alone` and `clean` are history: `clean` holds from a compile that ran beside no
other command until a command overlaps another or is stopped.

What overlapping route sets lose is not stated as a property, because nothing in the
repository promises otherwise; `CompileHeals` and `NothingElseSet` say what can be
relied on without a lock, and `EvidenceOfItsModel` and `BundleStands` what holds
even so.

Noted while modelling, and not stated as properties: the evidence of a route stays
in the graph file and is not among what `jcode emit` answers, though
`cli.py:945-946` records it so that a route is never mistaken for one the router
derived; a fallback of an earlier `route set` stays beside new evidence when the
new one names none (`cli.py:983`); `concurrency_limit` of the bundle is always 8,
because `_graph_from_plan` does not put `max_active_workers` into the graph's
metadata, where `adapters/jcode.py:179` looks for it; a unit whose
`capability_profile` has a key the adapter does not know compiles, and `jcode emit`
raises (`portable`); a hand-written graph with a dependency on a manager would
give a task that waits for what is no task, which no plan compiles to; a compile
takes the statuses of all rows back and its event is recorded once for each
content.

### Reconcile

`Traceable`, `NoDefects` and `Parses` are what `check_traceability`,
`collect_readiness_defects` and `parse_markdown_plan` ask of a document. The fields
of a unit are told apart as far as the code does: those in the semantic hash
(`work`, `dependencies`), those it leaves out (`detailed`), the evidence and the
status. `Reconcile` is one `plan reconcile` of any two documents that parse.
Looking dependencies up among the units of the whole plan, instead of in the copy
with one unit, is enough for `ValidWorkKept` to hold of all pairs of documents.

Noted while modelling: `plan reconcile` reports units of status `done` as kept
(`cli.py:367`), which `plans.py:57-58` says is not accepted; a unit that is pending
in a revision is set to completed again if it was before, evidence or not
(`plans.py:672`); the two documents need not be of one plan.

### Routes

`fetch_models_with_cache` is `AnswerFromCache`, or `StartFetch` (the cache is
read and the time taken), `FetchRecords` (the first page is served) and
`WriteCache`; further pages and retries are the time that passes before it.
`FetchFails` covers errors, the fallback to the stale cache, and a killed
process: none of them writes. `route assign --from-cache` is `Decide`,
`SaveRoute` and `AppendChanged`, with the default key. `Tick` is the clock, in
hours, as the ages asked for; the tool and its processes share it. Records are
named by the time they were served, and the row keeps, as history, when its
route was chosen and how old evidence was allowed to be. The other input of
`route assign`, models listed in the request itself, has no age and is left out, and
so is a key the caller gives with `--idempotency-key`. Four variables are history:
`overtaken`, the refreshes during which another one wrote the cache; `lost`, requests
whose assignment was stopped between row and event; `repeated`, units whose present
request the ledger knew before it was saved (r1, r2, r1 records nothing the last
time); `crossed`, units that were assigned while the event of another assignment was
still to come. In the last three the projection and the table may differ, in the
first older records come back: that is what the code does, and `RoutesKnown` and
`EvidenceMovesOn` say that it takes just these.

Noted, and checked while the module was written: the expiry of a cache is set by
the refresh that wrote it, so after a refresh with a longer `--max-age-hours` a
`route assign` with a shorter one is refused, and the `route refresh` that its error
asks for is answered from the same cache until the old expiry
(`llm_stats.py:116`, `../src/README.md:136-138`).

### Router

One call of `route_model`: `PinDirector` and `PinMissing` are
`_route_pinned_director`; `HardFilter`, then `Override`, or `QualityFloor`,
`SubscriptionFirst`, `Retain` (frontier, margin and fallbacks) and `Select`. The
task and the routes are variables that no step changes (`RouterInit`,
`RouterNext` and so on are named apart from those of `Routes`, because
`RoutingProofs` extends both modules); every registry over
`Given` and every task of `Tasks` is an initial state. Pass probabilities are
fractions of `QualityUnit * ReliabilityUnit`, and costs are scaled by powers of
it, so that the formulas of `_score_candidate`, `_expected_cost` and
`_attach_fallback` are exact. The sum of powers in `_expected_cost` is written as
its recurrence (`Accrued`): an attempt is paid for, and if it fails the others
are. The code computes with floating point numbers and
rounds to twelve digits. The weighted means behind a quality are left out. Routes
have different ids, as `build_registry` gives them; the form of `route assign`
that lists models itself does not check that.

Noted while modelling, and not stated as properties: the key that
`_duplicate_of` adds for the task's own `equivalence_class` (`routing.py:547-548`)
is in the set already, so it widens nothing, although the docstring says it
does; duplicates of owned routes are of a later group than what they duplicate,
so recording them separately changes reasons only; the receipt of an override
names no provider for the fallback, because `scored` is empty there
(`routing.py:234`), and the row of a route assigned from the cache has none
either (`cli.py:750`).

## 3. What the runs check

Passing runs. Type invariants are proved (section 4), and the configurations do not
check them a second time.

| Run | Bounds | States | Shows |
|---|---|---|---|
| `MCExecution` | 5 nodes | 66,760 | `OnlyReviewsUnlock`, `FrontiersAgree`, `WritersSeparate`, refinement of `ReviewGate`, `IndependentBranchesFinish` |
| `MCLedger` | 2 processes, 3 calls | 206,845 | `ChainVerifies`, `KeysUnique`, `TamperingShows`, refinement of `AppendLog`, `LockIsReleased` |
| `MCRecovery` | 2 processes, 1 attempt, 1 unit, 2 reports of a start, 2 unit writes, 1 stop | 1,612,877 | `MarkedExactlyOnce`, `SilentOnlyAfterStop`, `ProjectionIsLastWord`, `ReportedIsInLedger`, `FinishedStands`, `RecoveredAtLast` |
| `MCBranchResume` | 2 processes, 2 branches, 2 escalations, 1 compile, 1 stop | 403,544 | `LedgerAgreesWithRecord`, `AnsweredForItself`, `NoSilentDecision` |
| `MCPlanStore` | 2 processes, 3 contents, 2 units, 4 calls, 1 stop | 326,153 | `EvidenceFits`, `AnswersAgree`, `UndisturbedInserts`, `FilesMatchRows`, `NewestIsCurrent` |
| `MCGraphCheck` | 3 nodes, 5 kinds of them, 3 scopes, depth 2 or 3 | 465,434 | `AcceptedFits`, `RejectedRightly`, `DepthIsLongest`, `UnitsFollowDependencies`, `Terminates` |
| `MCRouter` | 3 routes of 13 kinds, 4 providers, 23 tasks | 232,882 | `OnlyFitRoutes`, `RefusedRightly`, `OwnedFirst`, `NoneBetter` |
| `MCDispatch` | 2 processes, 5 contents of a plan, 2 units, 4 calls, 1 stop | 182,835 | `CompileHeals`, `NothingElseSet`, `EvidenceOfItsModel`, `BundleStands` |
| `MCRoutes` | 2 processes, 2 requests for a unit, ages 1 and 2, 4 points in time | 3,458,059 | `RoutedOnFresh`, `RoutesKnown`, `EvidenceMovesOn` |

Runs that show a disagreement between the code and what the repository says of
it (the counterexample is the expected result):

| Run | The text | What the code does |
|---|---|---|
| `MCExecutionFrontier` | `recovery.py:89-90` | in a chain a, b, c: a is completed, b dispatched, a reopened and then stopped as `human_required`, b passes its review, and c is offered |
| `MCBranchResumeRace` | `recovery.py:133-135` | loses a decision to a concurrent one |
| `MCReconcile` | `docs/design-contract.md:22` | reopens every completed unit that depends on another |

**Bounds.** The graph of `MCExecution` has a chain of three units, two of which
write the same files, an independent unit and a manager: the shortest shapes in
which direct and transitive dependencies differ, two writers are ordered, and a
branch is independent. The state machine itself has no bound. Two processes
are enough for every race between a read and a write of another process; three
ledger calls let a process retry, both kinds of key collide, and an edit be made
at either end of the chain or inside it. One stop
is enough because a stopped process leaves only committed rows behind. Attempts
do not influence each other, so one is enough in `MCRecovery`; its start is reported
twice, so that one report may come before its interruption and one after it. The
proofs do not depend on any of these. Two writes of a unit are what a second
reopening takes, two escalations what a second decision takes. The contents of
`MCPlanStore` change a unit, change it back and drop another, and one has a
number of its own that jumps; the fourth call is a retry. In `MCRoutes` the
clock reaches the largest age plus one, so that evidence can be fetched, kept,
expire and be fetched again while an assignment waits. Three nodes have every
form of cycle (alone, with another, behind a node that is seen), a chain that is
too deep, a node reached on two paths, and writers that are ordered through a
third; the scopes include two that overlap without being equal. Three routes
are a selected one, its fallback, and one that either should have been; their
kinds tie, dominate each other in each respect, and are of each group. The
contents of `MCDispatch` are a plan of a producer and a consumer with one manager
named, a smaller one that is routed and asks for capabilities, and three mistakes
that compile refuses (a missing dependency, a cycle, too small a fan-out); four
commands are two that disturb each other, a compile that heals, and one after it.
`MCReconcile` takes all pairs of documents of one or two units, the second of
which may depend on the first.

**Deadlock** is not checked: a project ends when its units are settled, and
commands are run only when somebody runs them.

**Fairness.** `Execution!Fairness`: the Director works through the frontier, a
worker reports or stops, a submission is reviewed. These are what the skills
instruct; rescues (repair, unblocking, retry, human decision, reopening) are
never owed, and the property assumes that they end, because nothing in the
package limits them. `GraphCheck!Spec`: the functions, once called, run.
`Ledger!Fairness`: a running process gets on, and the busy
timeout bounds the wait for the lock. `RecoveredAtLast` assumes no fairness: it
is about histories in which recoveries keep being completed.

## 4. What is proved

All for every value of the constants that satisfies the named assumptions.

* `ExecutionProofs`, from `GraphAssumption` and `UnitAssumption`. The inductive
  invariant `IInv` adds to the types that started nodes have their direct
  dependencies passed (`StartedOnPassed`), that a passed node stays completed
  until it is reopened (`ApprovalStands`), and that `passed` is closed under
  dependencies. The last is what carries direct dependencies, which the query
  looks at, to transitive ones: `AncestorsLeast` says that ancestors are inside
  any closed set that has the direct dependencies. From it follow `TypeOK`,
  `OnlyReviewsUnlock`, `WritersSeparate` (with write safety of the compiled
  graph: of two overlapping writers one is upstream of the other, and was passed),
  `FrontiersAgree`, and the refinement of `ReviewGate`.
* `LedgerProofs`, from `LedgerAssumption`. The inductive invariant `LInv` says
  what a process knows at each statement: the draft is the committed table,
  with its own row at the end from the insert on (`DraftFollows`); a process
  about to return has the row that stands for its call (`ResultStands`); calls
  are numbered apart (`CallsApart`). From it follow `TypeOK`, `ChainVerifies`,
  `KeysUnique` and the refinement of `AppendLog`. `TamperingShows` needs no more
  than a chain that verifies: digests of different contents differ, so an edit, a
  removal or an exchange leaves a row whose digest or predecessor does not fit.
* `RecoveryProofs`, from `RecoveryAssumption`. `TypeOK`, and
  `MarkedExactlyOnce` and `SilentOnlyAfterStop` from an invariant that ties
  what a process owes to the rows it has updated (`RInv`). `FinishedStands` is about
  steps: only an update marks rows, and only those that its process selected.
  `ProjectionIsLastWord` from two facts: of any sequence of events, applying them
  one after the other gives their last word (`RebuildIsLastWord`, by the least
  length at which it would not, with one event at a time in `NextWord`), and the
  ledger only grows, so that a prefix once read stays a prefix (`LedgerGrows`).
  `ReportedIsInLedger` from `Knows`, which follows what a process is to report: it
  is owed, or in the ledger, and from the reading on in the part that was read.
* `BranchResumeProofs`, from `ResumeAssumption`. `TypeOK`. `LedgerAgreesWithRecord`
  and `AnsweredForItself` are about resumes that nothing disturbs, and need `Told`:
  what a process has written stands in the row, under a number that no other
  process has; the ledger has no event of that number until the process appends
  its own, and after that the answer is this event. `NoSilentDecision` has no such
  condition: what a process is to write on top of its own decision was in a row
  when it was read, and so is accounted for (`Founded`), and what is accounted for
  stays so (`AccountsStay`), because events stay and a process leaves the step
  before its event with the event or among the lost.
* `PlanStoreProofs`, from `PlanAssumption`. `TypeOK`; `EvidenceFits`, which is
  inductive as it stands; `AnswersAgree`, from an invariant that whoever is
  about to append or to answer holds a version that has a row, and from `EventsTold`:
  a version is logged, late, or about to be logged. `FilesMatchRows` holds however
  commands overlap, because a number that is not contested belongs to the one command
  that chose it until it has written its file (`FileInv`). `UndisturbedInserts` and
  `NewestIsCurrent` are about histories in which no two commands overlap, stopped
  ones among them: numbers have a maximum, because there are finitely many files
  (`NumberInv`), so a command alone takes a number and a content that have no row
  (`SerialInv`), the newest row is the one whose units stand (`CurrentInv`), and an
  event that is to come is late or of the newest version (`OrderInv`).
* `GraphCheckProofs`, from `GraphCheckAssumption`. `AcceptedFits`: the nodes a
  walk has seen never hold each other up (`WalkInv`: every set of them has a
  member that depends on none of the set), and a graph with a node that is its
  own ancestor has a set that does (`ChainlessAcyclic`). `RejectedRightly` is the
  other direction (`AcyclicChainless`): where no node is its own ancestor, what a
  walk has left over would be such a set, so it leaves nothing over. A node's
  ancestors are between what was found and what is still on the stack
  (`ReachInv`), so they are what was found when the stack is empty
  (`ReachIsAncestors`). `DepthIsLongest`: what a queued node has been given is the
  longest path over what was dequeued (`DepthInv`). `UnitsFollowDependencies`: the
  order puts nodes after their dependencies (`Sorted`), and units are made along
  it (`UnitsInv`). With this, the write safety that `ExecutionProofs` takes from
  `GraphAssumption` is what `validate` establishes.
* `DispatchProofs`, from `DispatchAssumption` and `NoGraphAssumption`. `TypeOK`;
  `EvidenceOfItsModel` and `BundleStands`, because every graph in the file or in
  the memory of a command has the evidence of the command that set each
  route (`AllHonest`), which is inductive whatever overlaps. `CompileHeals` and
  `NothingElseSet` from `DInv`: what commands hold apart from each other
  (`Separate`), what a compile has done when it ends (`CompileHasDone`), and what a
  set leaves alone (`SetRests`).
* `RoutingProofs`, first part, from `RouterAssumption`. `RouterTypeOK`, by
  which no route falls back on itself, and `OnlyFitRoutes` and `OwnedFirst`: what
  each stage leaves is eligible and of the first group that has eligible routes
  (`Precedent`), duplicates that are taken out are of the last group, and
  fallbacks are taken from what is left. `RefusedRightly` and `NoneBetter`
  follow from `BestInv`: before the frontier the pool is exactly the foremost
  routes (`Foremost`), and what the frontier and the margin keep (`BestOf`) is
  empty only if these are, and is dominated by none of them. Two facts about data
  carry this. In a finite set with a strict order there is a minimal member below
  each (`MinimalBelow`, by well-foundedness of strict subsets), so that every
  dropped route is dominated by one on the frontier (`FrontierBeats`), and the
  smallest selection key exists (`LeastExists`); that is why `RouterAssumption`
  says that there are finitely many routes. And expected costs are integers,
  because the recurrence of `Accrued` has a solution of integers
  (`AccruedType`, by the least number at which it would have none).
* `RoutingProofs`, second part, from `RoutesAssumption`. `TypeOK` and
  `RoutedOnFresh`: records are dated by the question, never later than the answer
  (`HonestDates`), so an age computed from the date is never too small.
  `RoutesKnown` with `TellingInv`: while the assignments of a unit do not cross, the
  one that is to append an event is the only one of the unit and its route is the
  row. `EvidenceMovesOn`: a refresh that is not overtaken asked after what is cached
  was served (`AsksLater`).

Every invariant and every action property of the passing runs is stated by a
theorem, and so are the two refinements. Only model-checked: liveness
(`IndependentBranchesFinish`, `LockIsReleased`, `RecoveredAtLast`, `Terminates`),
which is out of the prover's reach because it needs fairness and `ENABLED`, and the
disagreements, which are counterexamples by their nature. None of the proofs
assumes fairness.

## 5. What is not modelled, and the plan

In order:

1. The rest of the projection: plans and routes of the replay against the
   tables, with keys that return to an earlier content.
2. Composition of `Recovery` and `Execution` through the rows both use:
   interrupted attempts whose nodes stay running.
3. `Fetch`: pages, cursors and retries of one request, as the interval that
   `Routes` leaves open.

Partly or not modelled, and why:

* `build_registry` (`registry.py`) turns records into routes in one pass without
  state; `Router` starts from routes as it gives them. Reading it showed three
  things. A route without a price costs 0, and a missing output price is not
  reported either (`registry.py:216-217`, `registry.py:290-291`). `benchmark_scales`
  counts available models that no provider offers and that get no route,
  although `docs/architecture.md` speaks of the field the router may actually
  choose from (`registry.py:134-136`). And the class of a provider is set by the
  first record that names it (`registry.py:303`).
* `approval_is_valid` (`plans.py`) is a comparison of hashes that no command
  calls.

Left out for good: parsing and rendering, redaction, configuration, terminal
and git inspection, the prompts the adapter writes, the skills' texts and the
installers. They keep no state, or are instructions to language models.
