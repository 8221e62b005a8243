# Verification of auditable_go

TLA+ models of the audit library in this repository, the TLC runs that check
them on small instances and the theorems TLAPS proves about them.

    tlc -config mongo_calls.cfg MCAuditableCollection     # a run, see "Runs"
    tlapm AuditableCollectionProofs.tla                   # a proof module

## 1. The system

The library writes an *audit* (who, what, old and new values) for each mutation
of a record, and numbers the audits of one record `1, 2, 3, ...`. It comes as a
GORM plugin, as a wrapper around a MongoDB collection, and with two stores for
the audits.

| Component | State | Operations | Source |
|---|---|---|---|
| Audited MongoDB collection | the wrapped collection, its audit collection, its version collection | `InsertOne/Many`, `UpdateOne/Many`, `ReplaceOne`, `DeleteOne/Many`; `SoftDelete(Many)` and `Restore` are updates with fixed operators | `mongodbv2/collection.go` |
| Change computation, field policy | none between calls; size limits, a computer with a timeout, a deferred handler | `computeChanges`, `deferChanges`, four default computers, `sanitizeDeferredRequest` | `mongodbv2/collection.go`, `mongodbv2/diff.go` |
| Struct tags of documents | a cache from type to parsed tags | `auditTagsFromStruct`, `parseOpsTag` | `mongodbv2/collection.go` |
| GORM plugin | the snapshot of the row, in `db.Statement.Context`; the set of skipped tables | before and after callbacks of create, update, delete | `postgres-gorm/plugin.go` |
| `GormStore` | audit table, version table | `Save`, `NextVersion`, `Migrate`, `MigrateWithTable` | `postgres-gorm/store.go`, `audit.go` |
| `MongoStore` | audit collection, version collection | `Save`, `NextVersion` | `mongodbv2/store.go` |
| GORM plugin of the module root | audit table | the after callbacks, numbers by `MAX(version) + 1` | `plugin.go` |
| MongoDB wrapper, driver v1 | as v2 | as v2 | `mongodb/*.go` |
| Documents of the caller | structs and maps the caller keeps; the wrapper sets timestamps and an `_id` in them | `setDocumentTimestamps`, `toMap` | `mongodbv2/collection.go` |
| Acting user, comment, models, indexes | none | values copied from a `context.Context`; index creation | `context.go`, `model.go` |

**Interaction.** The plugin is called by GORM around a statement and calls an
`AuditStore` (`NextVersion`, then `Save`) once per element of the statement's
model. `GormStore` answers through the *statement's own* `*gorm.DB`: inside the
transaction when the callback runs inside it, and with the plugin's callbacks
running again for the rows of the library. The collection wrapper does its own
pre-read, mutation, numbering and insert against one MongoDB server. Both hand
errors to `OnError`, audits to `OnAudit`, and either go on (*fail open*) or
return the error (*fail closed*, `FailOnAuditError`).

**What is hard.** No step of a wrapper call is tied to the next: documents change
between the pre-read and the mutation, other callers number audits between a
mutation and its audit, two callers create one sequence document at once, the
process dies anywhere, an insert is applied and its answer lost. In SQL the
number is a row lock held to the end of a transaction, batches take several of
them in the order their caller lists the elements and may wait for each other,
errors abort the transaction on one database and not on another, and a rollback
takes the numbers back. The callbacks run for the library's own tables. Three sources of field
policy meet four ways of computing changes and a deferred one. Values are seen
as Go has them and as the server gives them back, and a caller goes on using the
objects it passed.

**What makes each part correct.**

- *Numbering* (every integration): a number is issued once per `auditable_id`,
  at most one audit carries it, an audit is never changed; a gap means a failure.
- *Wrapper*: nothing it read and wrote is missing from the trail without the
  caller or `OnError` learning of it; fail closed writes nothing after a failed
  pre-read; an audit names a document its call wrote; versions agree with real
  time; without overlap the trail replays the document; calls return.
- *Plugin in the transaction*: change and audit commit together, versions follow
  the commits, no gaps; batches that list shared sequences in one order never wait
  for each other in a circle, and a circle that opposite orders close costs one of
  them an audit, which is reported, or with `FailOnAuditError` fails the statement;
  none of them hangs.
- *Changes*: protected fields never leave; the recorded pairs turn the old
  record into the new one; what is deferred is what would have been inline.
- *Lives of documents*: whoever replays a trail has the document, or knows of which
  field it has only what an operator was asked to do; the caller's objects stay its own.
- *Library tables*: one audit per element, no audit of an audit, no recursion.

## 2. Modules

| Module | Models | Checked by |
|---|---|---|
| `AuditTrail` | abstract: numbers are issued, held, recorded or lost | implemented by the next two |
| `AuditableCollection` | the wrapper's calls, round trip by round trip | `MCAuditableCollection` |
| `ChangeComputers` | operators: field policy, struct tags, the four computers, the sanitizer; no state | with the next two |
| `MongoDiff` | what one MongoDB mutation records, defers or discloses | `MCMongoDiff` |
| `DocumentLife` | sequences of calls on documents, and what their trails tell | `MCDocumentLife` |
| `GormPlugin` | callbacks, transactions, locks and both stores | `MCGormPlugin` |
| `GormDiff` | what one GORM statement records | `MCGormDiff` |
| `GormSelfAudit` | tables, skip list and nested callbacks | `MCGormSelfAudit` |
| `AuditTrailProofs`, `AuditableCollectionProofs`, `MongoDiffProofs`, `DocumentLifeProofs`, `GormPluginProofs`, `GormCommitProofs`, `GormDiffProofs`, `GormSelfAuditProofs` | theorems | TLAPS |

Every definition is mapped to its lines in `PROJECT.json`. Operators commented
"Mutant of X" are deliberate errors in X: each property is shown to notice one.

### AuditTrail

`issued` is the version collection (table), `held` the numbers given to a caller
whose audit is not written, `trail` the audits. `Issue` is `NextVersion`,
`Record` is `Save`; `Burn` and `Lose` are their failures.

### AuditableCollection

`coll`, `seq` and `audits` are the three collections. A client is a goroutine;
`pc` is the next round trip of its call:

    Begin -> Read -> Mutate -> { Compute -> Alloc [-> Upsert] -> Persist }*

`Begin` to `Mutate` are the bodies of the seven operations; `Compute` is
`computeChanges` with the early return of `writeAudit`; `Alloc` and `Upsert` are
the two halves of the `FindOneAndUpdate` with upsert in `nextVersion` (the server
looks for the document, then inserts one, and another upsert may come between);
`Persist` is the insert of `persist` with `OnAudit`. `snap` is what the pre-read
returned, `todo` the loop over documents, `attempt` the loop of `nextVersion`.
Each round trip has a failing twin (`ReadFails`, ...) that covers a refusal, an
expired context and a lost answer, and `Crash` ends a call anywhere. A document
is the member of `Value` that the policy lets into an audit; `MongoDiff` opens
it. `match`/`plain` model that the pre-read does not get the operation's options:
a filter finds other documents with and without its `Collation`.
`order`, `reported`, `outcome` and `earlier` are history variables.

### ChangeComputers and MongoDiff

A document is a function from top-level fields to values, `Absent` where it has
none. `AuditTagsFromStruct` turns the tags of a struct type into a policy,
`OpsOf` the tags of its embedded structs into operations (`parseOpsTag`),
`FieldPolicy` merges the three sources (`normalizeConfig`, `fieldPolicy`), and
`CreateChanges`, `DeleteChanges`, `DiffDocs` and `ExtractUpdateChanges` are the
functions of those names. `Decoded[v]` is what the server gives back for the Go
value `v`: `Stored` applies it to a document, and `ToMap` is the codec round trip
a struct takes and a `bson.M` does not.

`MongoDiff` follows one mutation: `Gate` is `allowsOp`, `Check`, `ComputeInline`,
`ComputeTimeout` and `DeferChanges` are the paths of `computeChanges`.

### DocumentLife

The same operators over time, for one goroutine without failures: a caller
changes its `objects` (`Assign`) and inserts, replaces, updates, soft-deletes,
restores and deletes with them. `told` is what the audits written so far tell a
reader who applies the new value of each pair: the trail itself is not kept.
An update gives each field an operator and its operand: the audit of `$set` and
`$unset` names the value they leave, that of any other operator (`Intents`: `$inc`
stands for them) its operand, while the server stores what `Operated` makes of the
operand and the old value. `dark` holds the documents changed by calls that are documented not to be audited,
an upsert that inserts and a pipeline. `Stamped` is `setDocumentTimestamps`;
`ReplaceOne` writes the `_id` into the caller's map because `toMap` returns a
`bson.M` itself.

### GormPlugin

`rows`, `seq`, `audits` are committed tables; `write`, `bump`, `staged` what the
open transaction of a client adds. `Guard`, `BeforeUpdate` and `SnapshotFails`
are the before callbacks, `Write` the statement, `NextVersion`, `InsertVersion`
and `Save` the loop of `audit`, `Commit` and `CommitFails` GORM's default
transaction. A `setup`, chosen in `Init` and never changed, is a configuration
and a database: the store, whether the after callbacks run before the commit
(`inTx`), whether an error aborts the transaction (`abortOnError`, as PostgreSQL
does), `FailOnAuditError`, `AllowUnauditedBulk`, how keys print (`pkStr` takes
the first non-zero primary field, so composite keys may share a trail), and the
statements of the run. A statement has its elements (`ids`) and their places in the
slice: `Chosen` is the element of the loop, and two statements may list two
sequences in opposite orders. `Waits` says who waits for a sequence row of whom,
and of a circle of such waits (`Deadlocked`) the database fails one statement
(`VersionFails` without a fault). `inTx` is free because the place of the callbacks in
GORM's chain is not decided in this repository: they are registered
`After("gorm:create")` and so on, and the transaction's end is registered with
that name, too.

The plugin of the module root (`plugin.go`) is the store `"root"`: it has no
before callbacks, audits whatever the number of affected rows, tries to audit a
failed statement and is refused by the session it shares (`AuditsFailure`), and
numbers by `ReadMax`, or with 1 after `ReadMaxFails`. It is modelled with the
configuration it is equivalent to, `failOnAuditError` false and
`allowUnauditedBulk` true (`SetupAssumption`).

### GormDiff

One statement on one row: `Before` (snapshot), `Execute`, `After`, with
`MapChanges`, `StructChanges`, `SingleChanges` for `auditFromMap`,
`auditFromChangedCols`, `auditSingle`. `changed` is what `Statement.Changed`
answers and is given with the statement. `root` selects the functions of the
module root, `RootMapChanges`, `RootChanges` and `RootSingleChanges`, which load no
snapshot and know the tags `false` and `redact` only.

### GormSelfAudit

A stack of statements: the callback on top creates a version row and an audit
row, whose own callbacks run on top of it unless their *schema* table is in the
skip set. Those of a create that failed return at `db.Error` in `postgres-gorm`; those
of the module root go on (`FailureEnds`). A `config` is a plugin, the names it was given and the tables there are;
the plugin of the module root reads its number (`ReadMax`) instead of creating a
version row.

## 3. Runs

Bounds are chosen per run; every run takes a few minutes at most.

| Run | Question | Bounds |
|---|---|---|
| `mongo_calls` | Are versions unique, is one retry of the upsert enough, does an audit name a document its call wrote, does the trail agree with real time and replay the documents, is nothing missing unreported or there twice? | 2 clients, 2 documents, 2 values, failing closed; 3 calls on single documents without failure, or 2 calls on several documents with 1 failure, oversized values deferred |
| `mongo_trail` | Does the wrapper implement `AuditTrail`, does each gap cost a failure, do calls return? | 2 clients, 2 calls, 2 failures, failing open, both documents printing to one id, deletes not audited |
| `mongo_diff` | Disclosure, replay, deferral, limits, operations let through | all documents and updates over `_id` and two fields; 3 configurations and 6 tag sets of the example, documents with and without a struct type, maps with a value the server stores as another; at most 1 changed field inline |
| `mongo_life` | Does the replayed trail tell the document or an intent, are the caller's objects kept? | 2 documents of `_id`, name, a stamp and `deleted_at`, a pointer to a struct and a map, 5 assignments, updates by `$set` and by an operator recorded by its operand, 4 calls, 4 policies |
| `gorm_tx` | GormStore in the transaction: atomicity, order, density | 6 setups: fail closed with shared ids (2 statements, 2 failures), fail open (3 statements), batches (2 statements, 2 failures), one caller after the commit (3 statements), the root plugin in the transaction and after the commit (2 statements, 1 failure) |
| `gorm_trail` | MongoStore and GormStore outside the transaction implement `AuditTrail`; batches in one order never deadlock; statements return | 4 setups, 2 statements, 1 failure; batches of two pairs of rows sharing two sequences, listed in one order and in opposite ones |
| `gorm_diff` | Tags, replay, completeness | rows of key, two fields, timestamp; all tags of one field; both plugins |
| `gorm_self` | One audit per element, no nesting | 3 statements of up to 3 elements; both plugins, a skipped table of the application, custom names, missing tables; stack of 6 |
| `mongo_wrong_id`, `gorm_phantom`, `gorm_migrate`, `gorm_recursion` | a sentence of the documentation | violated, see "Divergences" |

Why the bounds suffice for the questions: the upsert race and its
retry need two clients and one sequence; an overtaken pre-read needs one foreign
write; a replay error needs two audits of one document and a
third to be overwritten; four calls insert, replace, delete and insert again
under one `_id`; a circle of waits needs two transactions and two
sequences; and a batch of two has a first, and a last, element. Two failures let
a failure meet the handling of another.

`CHECK_DEADLOCK FALSE` is set because programs stop when their calls are used up.
Symmetry (clients) is used where no liveness is checked.

**Fairness.** `FairSpec` assumes weak fairness of each client's non-failing steps
(`Step`): the Go scheduler runs every goroutine, the server answers or the
driver's timeout turns the wait into a failure, which also moves the call on. No
fairness makes anybody begin a call or a failure happen. In `GormPlugin` a step
that waits for a lock is enabled when the holder is done; weak fairness is enough
because at most the two clients of the run compete. Who waits in a circle fails as a
`Step`, not as a failure that may or may not happen: a database detects the deadlock
or runs into its lock timeout, and store.go:104 has no other way on. `GormSelfAudit` assumes weak
fairness of its one goroutine.

## 4. Proofs

From the assumptions on the constants only (any sets of clients, documents,
values, ids and requests, any bounds):

- `AuditTrailProofs!SlotsAreUnique`: in the abstract trail no two audits share
  entity and version. Not inductive alone: `IInv` adds that numbers in use were
  issued (`IssuedBound`: a new number is fresh) and that a held number is on no
  audit (`HeldUnused`: recording it cannot clash).
- `AuditableCollectionProofs!TypeCorrect`: `Spec => []TypeOK`, by `TInv`, which
  adds that a call in progress has a number (`BusyCall`).
- `AuditableCollectionProofs!VersionsAreUnique`: `Spec => []UniqueVersions`,
  through every race, failure and crash. `NumberInv` is the image of the abstract
  invariant: versions of audits and of the clients about to write are issued, and
  what a client holds is on no audit and in nobody else's hands. The last part
  has no counterpart in the abstract trail, where `held` is one set.
  `StepKinds` classifies each step by what it does to the numbers (nothing,
  allocate, burn, write, drop), and `NumberStep` argues once per kind.
- `AuditableCollectionProofs!ImplementsAuditTrail`: `Spec => TrailSpec`. Every
  step allocates (`Issue`), burns (`Burn`), writes (`Record`), drops (`Lose`) or
  stutters; `HeldStep` needs uniqueness of holders, so that one
  client giving up its number removes it from the set.
- `AuditableCollectionProofs!FailuresMakeGaps`: `Spec => []GapsNeedFaults`. The
  missing numbers are finitely many and at most `faults` (`GapInv`): a step adds at
  most one, and only a failure adds one (`LossNeedsFault`, `MissingStep`).
- `AuditableCollectionProofs!OneRetryIsEnough`: `RetryAbsorbsUpsertRace`, assuming
  `DeferredChanges \/ Oversized = {}` (inline, an oversized document is an error of
  its own). `RetryInv`: a call that has used its retry is about to increment a
  version document that exists.
- `AuditableCollectionProofs` goes on with what a call promises, proved in this order,
  each invariant with the help of those before. All of them argue about the calls under way through
  `CallStep` and `Deeds`, which say what a step of one call does to it and that it
  leaves the others alone.
  - `FailClosed`: a call that reports an audit error under `FailOnAuditError` ends
    in that step, so that a call in progress has reported nothing, and one in its
    pre-read has written nothing (`ClosedInv`); calls are told apart by numbers that
    only grow (`NumbersInv`).
  - `RealTimeOrder`: a number held lies beyond every audit of a call that had
    returned when the holder began (`OrderedInv`).
  - `NamedDocumentWasWritten`, assuming `IsFiniteSet(DocId)` (so that a filter by one
    `_id` selects one document): the entries of a loop are for different documents of
    the filter, or for none, and a call in its loop has written (`LoopInv`).
  - `AuditedOncePerCall`, assuming `IdsApart`, that the strings made of `_id`s tell
    documents apart (two documents with one string are one to a reader of the trail, and
    `InsertMany` may well insert both): what is still to be audited is on no audit
    of the call (`OnceInv`).
  - `NoSilentGap`: every document a call can know to have written is covered, or
    due in the loop (`CoverInv`); a call that runs alone has in its snapshot what it
    is about to select (`SeesOf`).
  - `TrailReplaysDocument`, assuming `IdsApart`: while calls follow one another, the
    audit of the last writer ends at the document and each audit starts where that of
    the writer before ended; what the call in progress is going to record fits that
    (`ReplayInv`).
  - `AuditsNameWritten`: the audits of a call that ran alone and reported nothing name
    documents it wrote, whatever its filter, assuming `PreReadsSee`, that the pre-read
    is given what the operation is given. The snapshot of such a call holds nothing but
    what it is about to select, and its loop nothing it has not written (`NamesInv`).
    `MatchedDocumentNamed` concludes `AuditOfMatchedDocument`, the sentence
    `mongo_wrong_id` refutes, for updates of one document (`UpdatesAreSingle`) as long
    as calls do not overlap and report nothing: the options and other writers are all
    that is wrong.
  - `CallsEnd`, assuming `IsFiniteSet(DocId)`: each step of a call, failures included,
    makes its distance from the return smaller (`CallsApproachReturn`), and no step of
    another call makes it larger. The distance is, in lexicographic order, the stage of
    the call, the entries left in its loop, and the round trips left for the current
    one, which the retry of `nextVersion` prolongs once. That the distance then runs
    out, `CallsReturn`, needs fairness and stays with TLC.
- `MongoDiffProofs`: all properties of `MongoDiff` for every set of fields and values,
  every policy and every mutation. `SanitizingKeepsChanges` is the fact about the four
  computers behind `DeferredEqualsInline`; the invariant `Consistent` says that the
  request is the one made of the call, that what was handed over is its sanitized form,
  and that what was let through and skipped had no changes. Assumed:
  `WhitelistAssumption`, that a struct type with a whitelist of its own has that of
  the example (another one *replaces* it and lets fields through that the example
  leaves out). `ReplacementReplays` and `SkippedTouchesNothing` also need
  `StructOfExample`, that the type of a document hides no field the example shows, and
  `ReadBack`, that what was read before the mutation is as the server gives it back;
  the calls of `mongo_diff` satisfy both.
- `DocumentLifeProofs`: `TypeOK`, `TrailTellsDocument` and `CallerObjectsKept` for
  any number of calls of the modelled operations. `TrailTellsDocument` speaks of the
  fields for which the replayed trail has a value: a field last changed by an operator
  other than `$set` and `$unset` is told as `{"$op": operand}`, until an audit names a
  value again (docs/how-it-works.md:173), and of documents that no upsert inserted and
  no pipeline changed. `CreateTells`, `DeleteTells`, `ReplaceTells` and
  `UpdateTells` say that the pair a computer records of a field no policy hides,
  or its silence, leads a reader from the old value to the new one, in spite of
  Go values that the server stores as others; `AuditTells` carries that over to
  `told`, one lemma per action to the step. The property is inductive given
  `TypeOK`, because each audit names its values and never only a difference.
  Assumed: reading back what was read back changes nothing
  (`DecodedAssumption`), no update names `_id` (the server refuses it; `InputAssumption`),
  and what the server makes of a field under an operator depends on its value and the
  operand, in any way, and what is recorded of it can be told from a value and from
  the mask (`OperatorAssumption`).
- `GormPluginProofs`: `TypeOK`, `UniqueVersions`, `DenseTrail` and `TrailSpec` for
  any number of clients, statements and failures and every setup. A committed
  audit says nothing about the numbers open transactions hold, so `IInv` speaks of
  both. `TxInv`: a transaction whose statement has not run, or that is not the
  store's, has taken and staged nothing. `NumberInv` has one part per way of
  numbering. `SequencedInv` (a number is committed when it is given) is the image of
  the abstract invariant, as for the collection. `JointInv` (inside the
  transaction): at most one transaction has taken numbers of a sequence, what it
  staged or holds lies above the committed number and within its takings, and
  committed versions lie at or below it; hence a rollback cannot leave a number
  with two owners. `RootInv` (`MAX + 1`): with one caller the number held exceeds
  every version the caller can see. `DenseInv` adds that the staged and held
  versions of an unbroken transaction fill its takings. As above, `StepKinds`
  classifies steps (here `Quiet`, `Undoes`, `Publishes`, `Takes`, `Burns`, `Reads`,
  `Records`) and each invariant is argued once per kind. Assumed: that each setup is
  one the code can have (`SetupAssumption`, `RequestAssumption`).
- `GormCommitProofs`: `NoSilentGap`, `AuditedIffCommitted` and
  `VersionOrderIsCommitOrder` of `GormPlugin`. All three speak of statements that
  have returned; what makes them inductive speaks of those under way. `CoverInv`: a
  row that a statement wrote and names has its audit, an entry in the loop, or is the
  current one, or its audit was given up and reported, and then, failing closed in
  the transaction, that is broken and will not commit. `CommitInv`: who stages
  audits has written rows. `OrderInv`: what a transaction staged or holds for a
  row it has locked lies beyond every audit of an earlier change of that row; at the
  commit this becomes the order of versions. `CallInv` keeps calls, their locks and
  what they have committed apart. The steps are classified once more, by what they
  do to the call (`Deed`).
  `OneOrderIsSafe` proves `OneOrderNeverDeadlocks`. `ListedInv`: while a statement
  waits for the number of an element, each sequence it has taken is that of an element
  no later in the slice. In a circle of waits take the member that waits for the
  lowest sequence of the common order (`Minimum`). Another waits for a sequence this
  one has written, hence for one no higher, hence for the same; but one transaction at
  a time has taken numbers of a sequence (`JointInv`), and somebody in the circle
  holds it already (`CirclesNeedTwoOrders`).
  `UpdatesFollowOn` adds `UpdatesReplay`. While `Undisturbed` (one caller, no failure,
  keys printed apart, updates that name their rows; the property says so itself), at
  most one call is under way, and what the caller can see, its own transaction
  included, is a trail in which numbers only grow (`Rising`), each audit of an update
  starts where the one before it ended (`Chained`), and whose end leads to the before
  image of the next element of the loop or to the row the transaction will leave
  (`Leads`): that is `ReplayInv`.
- `GormDiffProofs`: `TypeOK`, `TaggedFieldsStayInside`, `AuditReplaysRow` and
  `ChangesAreAudited` for every model, statement, snapshot and report of GORM. The
  invariant `Consistent` ties the snapshot to the row before the statement, the row
  after it to what GORM executes, and the audit to what the plugin computes of them.
  `OnlyZeroFieldsAreNamedUnchanged` is the extent of what `gorm_phantom` shows: a
  field that the audit of `Updates(struct)` names without a change is zero in the
  struct and not in the row, and is recorded as changed to zero, or masked.
- `GormSelfAuditProofs`: `TypeOK` and `OneAuditPerElement` for every configuration,
  tables and batches. No sum over the stack is needed, since every reachable state is
  one of three (`IInv`): the goroutine has crashed; or it is `Doomed`, that is, on top of
  the stack is a statement of the library that is not skipped (or one that is, for its
  number), which audits itself by another such statement until the stack overflows;
  or it is `Sane`: at most one statement of the library is nested in that of the
  application, and for every table the elements owed are audited, reported, or still
  due in the application's statement (`Balanced`), from which the property follows
  when the stack is empty.
  - `SurvivesItself`: `~crashed`, what `gorm_recursion` refutes, assuming that the
    schema names of the library's tables are skipped (`SkipsOwnTables`) and that
    `MaxDepth` leaves room for one nested statement.
  - `MigratedTablesSuffice`: `MigratedStoreWorks`, what `gorm_migrate` refutes, assuming
    that the tables the store names exist (`TablesMigrated`), whatever others do.

Model-checked only: the liveness properties `CallsReturn`, `StatementsReturn` and
`StatementReturns`, which rest on fairness and are out of the prover's reach. Every
other property of a passing run is a theorem.

## 5. Divergences

Checked by runs that end in a violation:

- `mongo_wrong_id`, README.md:311: `UpdateOne` takes the id for the audit from a
  pre-read without the options of the update. With a `Collation` or another
  writer in between it names another document, or `<nil>`; without either, and
  without an error, the sentence holds (`MatchedDocumentNamed`).
- `gorm_phantom`, README.md:206: for `Updates(struct)` the fallback meant for
  `Save` compares all fields with the snapshot and records zero fields of the
  struct, which GORM did not write, as changed to zero, and nothing else that did not
  change (`OnlyZeroFieldsAreNamedUnchanged`).
- `gorm_migrate`, README.md:372: `Migrate` creates `audit_versions`; the default
  `GormStore` uses `audits_versions`. With the tables it names it reports nothing
  (`MigratedTablesSuffice`).
- `gorm_recursion`: under `MigrateWithTable` with a default `Config` the version
  row is audited itself, which asks for a version, and so on. `SkipTables:
  {"audit_versions"}` avoids it (`gorm_self`), as does any configuration that skips the
  tables of the library (`SurvivesItself`).

Reproduced by the models, without a run of their own: a conditional update of a
blank slice model is executed unaudited (docs/auditable.requirements.md:84,
`Unguarded`); a delete records the struct in memory, not the row (README.md:208,
`SingleChanges`); a map naming a timestamp records it (README.md:197,
`MapChanges`); with a custom `TableName` the audit rows are audited (README.md:181,
`Skipped` on `AuditSchema`), by the plugin of the module root without end unless
`audits` is in `SkipTables` (plugin.go:74,106,165), whether or not the table exists:
`audit` has no test for `db.Error` (plugin.go:134), so that a create that failed is
audited, too (`FailureEnds`); a replacement given as a
`bson.M` may record a field whose stored value stays the same, because Go values
of other types are compared (collection.go:896 says "identical fields omitted";
`ReplacementReplays` allows for it).

The plugin of the module root promises less, and the properties are conditioned
for it. Two writers whose statements do not lock a common row, or any writer after
a maximum that could not be read (it then takes 1), give one version to two
audits, and no unique index of this audit table rejects the second:
`UniqueVersions` holds for one caller without errors, and
`VersionOrderIsCommitOrder` in the transaction. It never audits `Save` (`Named`),
and it audits updates and deletes that changed no row (`Write`).

## 6. Not modelled

- **`mongodb/` (driver v1)**: differs from `mongodbv2/` in imports, option types
  and comments only.
- **Struct tag parsing**: `AuditTagsFromStruct` starts from one tag per field and
  `OpsOf` from the tags of all embedded structs; the walk by reflection, names from
  `bson` tags and the cache, which always returns what it was given, are left out.
- **Size and depth of a document**: a document over `MaxDocumentBytes` or
  `MaxDepth` is one with a value in `Huge`; `depthOf` itself is not modelled, nor
  are values nested in values, which no computer looks into.
- **Indexes, contexts, models, `Find*`**: no control of their own. The unique
  index is not assumed; `UniqueVersions` shows that it never rejects.
- **MongoDB**: `UpdateMany`, `DeleteMany` and `InsertMany` are atomic except when
  they fail (`MutateFails`); documents are scanned in `_id` order; a command that
  timed out is applied at once or never.
- **Updates of MongoDB documents**: one operator per field, on top-level fields.
  Dotted paths, the second field a `$rename` changes, and array filters are left out.
  A `deleted_at` of null is stored and told, and `NotDeleted` (`$exists: false`) takes
  such a document for deleted, but `TrailTellsDocument` takes null for missing.
- **SQL**: a statement takes all its row locks at once. A deadlock between
  batches that list the same *rows* in opposite orders is resolved by the
  database's detector, which is `WriteFails`; circles of waits for *sequences* are
  modelled. Each statement has a transaction of its own: several in one that the
  application opened, which would keep their sequences longer, are left out. Whether a dialect accepts the
  unqualified `version + 1` of store.go:107 is not modelled.
- **GORM**: `Targets`, `NewContent`, `Executed` and the transaction are external,
  modelled from how the plugin uses them. That `First` is given keys as strings,
  which GORM takes as conditions when they are not numbers, appears as
  `SnapshotFails`.

## 7. Plan

Done: every component whose operations change state, and a theorem for every safety
property of the passing runs. What is left is proof, in this order:

1. `GormPlugin`: a distance from the return that each step of a statement makes
   smaller, as `CallsEnd` has for the collection; waiting for a lock leaves it as it is.
2. `GormSelfAudit`: the same for the stack of a `Sane` goroutine, behind
   `StatementReturns`.
