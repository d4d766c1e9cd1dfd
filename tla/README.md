# A verification of ai-write-stage in TLA+

ai-write-stage writes novels and plays with language models. A deterministic
engine decides from the facts on disk what happens next, dispatches one LLM
worker at a time (architects, chapter planner, writer), commits a chapter once
every writing unit of it is there, and lets the user intervene at any moment. A
second engine writes the beats of a branching play ahead of its player.

This directory holds TLA+ modules for the parts of the program whose correctness
is a matter of ordering, crashes and interleavings, TLC configurations that check
them on small instances, and TLAPS proofs for every value of the constants.

    tlc -config CommitSaga.cfg MCCommitSaga.tla     # any .cfg, with its MC module
    tlapm CommitSagaProofs.tla                      # any ...Proofs module

Section 1 describes the system, 2 the modules, 3 what TLC checks, 4 what is
proved, 5 where the code does something else than the repository says, 6 what is
not modelled. `PROJECT.json` maps every definition to the lines it translates.

## 1. The system

Paths are relative to `src/internal`. All state that matters is in files; a file
is written to a temporary name, synced and renamed (`store/io.go`), so that one
write is atomic and a sequence of writes is not.

| part | state | operations | who calls it | hard because |
|---|---|---|---|---|
| chapter commit, `tools/commit_chapter.go` | `pending_commit.json`, chapters, summaries, four fact stores, checkpoints | `Execute`, `executeRewriteCommit`, `finishPendingCommit` | automatic commit of the engine, importer | a dozen files, a crash between any two, a retry with another draft |
| progress, `store/progress.go` | `progress.json`: phase, flow, completed chapters, rewrite queue | `StartChapter`, `MarkChapterComplete`, `CompleteRewrite`, `MarkComplete`, `Reopen` | every tool | what one tool writes is another one's guard |
| engine, `host/engine.go` | pending operations, next instruction, loop counters | `run`, `enqueue`, `start`, `abort` | host | a goroutine that is started again while the old one cleans up |
| host, `host/host.go` | lifecycle, exclusive slot, `interMu` | `Steer`, `Continue`, `Resume`, `Abort`, `Close` | web, headless | every request in its own goroutine |
| run record, `store/run_meta.go` | `run.json`: mode, permit, hold, `PendingSteer` | set and clear | host, engine, gate | one slot for several messages |
| advance gate, `host/advance_gate.go` | reads `run.json`, `progress.json`, the pending commit, checkpoints | `HandleBoundary`, `Allow` | engine | reconciles three files that change separately |
| router, `flow/router.go` | none | `Route(state)` | engine | the order of its cases is the program |
| writing units, `store/drafts.go` | units, drafts, chapter plans | `SaveWritingUnit`, projections | writer's tools | the draft is a projection written before its unit |
| outline, `store/outline.go`, `store/store.go` | layered and flat outline | expand, append, revise | architect's tools | written before the progress that counts it |
| theatre engine, `galgame/play/engine.go`, `host/play.go` | `progress`, `meta`, `spine`, `outline`, `facts`, one file per beat | `Run`, `Advance`, `Choose`, `Replan`, `StartPlay`, `PausePlay` | web | the player acts while models are being waited for |
| image jobs, `imagejob/service` | job files, cancel functions of running jobs | `Start`, `Cancel`, `Retry` | web, host, play | a goroutine per job, a copy of the job in each |
| budget, `host/budget.go` | four atomic states | `OnCost`, `HandleBoundary` | usage tracker, engine | callback against boundary |
| append logs, `store/append_log.go` | keyed records, one per line | append, replace, load | fact stores | a tail cut by a crash |
| play log, `store/galgame_log.go`, `host/playlog.go` | log files with epoch and size, subscribers | append, rotate, subscribe, snapshot | theatre, web | stream joined to a snapshot |
| import, `host/imp` | a workspace of artifacts keyed by input digests | nine stages, each resumable | web | resumes anywhere; publishes through the saga |
| arbiter, agents, contexts, `llmcontract`, `llmretry` | none that lasts | LLM calls | engine, host, play | they take long, fail and are cancelled |

How they interact: a request enters the **host**; an intervention is decided by
the **arbiter** under `interMu` and becomes operations that the **engine** applies
at its next boundary; the engine asks **gate**, **router** and **progress** what is
due, runs a worker whose **tools** write files, and calls the **commit saga** when
a chapter is complete; the saga changes progress, which the router reads. The
theatre and the engine exclude each other by the host's exclusive slot. The import
publishes through the saga and hands the book to the engine. One process works
on a book (`host/book_lock.go`), which is why no module has two processes.

`PROJECT.json` lists every part, modelled or not, with the reason.

## 2. The modules

| module | models | used with |
|---|---|---|
| `AtomicCommit` | what a chapter commit promises: one step | abstract specification of `CommitSaga` |
| `CommitSaga` | the saga, one action per file written, with progress, rewrites, outline | `CommitSagaProofs` |
| `AutoCommit` | the engine that has chapters written and commits them, crash and continue | EXTENDS `CommitSaga`; `CommitSagaProofs` |
| `Intervention` | `doIntervention`, control operations, engine goroutines, abort, resume | `InterventionProofs` |
| `PlayEngine` | the theatre engine and the requests of its player | `PlayEngineProofs` |
| `ImageJobs` | image jobs, the watcher of finished units, the engine's wait for pictures | `ImageJobsProofs` |
| `FactList` | a list without repetition that keeps what it confirmed | abstract specification of `FactLog` |
| `FactLog` | an append-only file of facts, its old form and its readable copy | `FactLogProofs` |
| `PlayLog` | rotated log files, broker, the handler of one client | `PlayLogProofs` |
| `BookOutline` | planning tools, outline files, confirmation gate, router, workers | `BookOutlineProofs` |
| `Import` | the stages of an import, its requests, publication, hand-over | `ImportProofs` |
| `MC...` | instances for TLC | |

No module has a recursive operator. A module models one part with the parts it
shares state with folded in; the seams are: a commit is one step in `BookOutline`
and `Import` (`AtomicCommit` is what justifies it), a worker's turn is one step in
`Intervention`, a job's pictures are a set in `ImageJobs`.

### CommitSaga and AtomicCommit

A program counter `call.pc` stands before the write it names; the eleven labels
follow `Execute` from `SavePendingCommit` on. `pending`, `progress`, `final`,
`summary`, `facts`, `checkpoints` are the files. `Interrupt` is a process death or
a failed write: the call is lost, the files stay. `Resume` enters at the label the
stage in the record leads to (`ResumeLabel`), with the text and the payload frozen
in the record. `WriteDraft` and `RebuildDraft` are the writer, `Reopen`,
`ReopenContinue`, `CompleteBook` and `ReviseOutline` the other tools that change
what the saga checks; they run between calls because the engine runs one worker
at a time and the tool declares itself not safe for concurrency.

Abstracted: a text and a payload are model values; a fact store holds the set of
payloads whose records it has for a chapter (its append is idempotent by key, see
`FactLog`); the head of `Execute`, which only reads, belongs to the write it leads
to. Left out: the cast ledger (its failure is logged only), `UpdateVolumeArc`,
`AppendOutlineFeedback`, rule violations and style statistics (nothing reads them
for control), validation of arguments. `ReviseOutline` changes outline and progress
in one step; `BookOutline` has the death between the two files. Foreshadows are
settled between calls only.

`AtomicCommit` has one step for a commit, one for a rewrite and one for opening
chapters. The refinement mapping counts a chapter as committed once its record is
saved: before recovery the record stands for the files.

### AutoCommit

Adds the engine's view: `CommitDue` (`automaticCommitChapter`), `WriterDue` (the
cases of `Route` a flat book meets), refusal by the tool, `Crash`, `Continue`, and in
`ReopenSpec` a user who reopens the finished book. Unlike the saga alone, the engine
has the next chapter drafted while a record may be pending. A sequence of writer
turns that ends with the last unit is one step. The stop that asks the user to
confirm the foundation is folded into `Continue`. `FlatAssumption`: the volume and arc
cases of `Route` are in `BookOutline`.

### Intervention

`call[c]` is a running `doIntervention`, of a message, of `Resume`, or of an engine
goroutine that decides a stale intervention again. `run[r]` is an engine goroutine
with its place in `run`; two may exist, because `engine.run` clears `running`
before its deferred function is through. `ops`, `next`, `deferNext` are the engine's
memory, `steer` and `hold` the run record, `book` the facts that decisions are
checked against: the phase, and whether a rewrite queue is there. A turn is a
worker's (`TurnEnds`) or an automatic commit (`AutoCommitEnds`); the commit goes on at
the top of the loop and so passes by the gate after a turn (`engine.go:228`). What a
turn does to the book is chosen from `BookMoves`: it queues chapters or works them off
(`"rewrites"`), or finishes the book (`"finish"`). `strays` counts, for the property
`HoldLetsOneTurnPass` only, the turns that have begun under a hold since it was set.

Merged into one step: the arbiter's answer and the queueing of its operations;
clearing the slot, restarting and unlocking; `applyControlOp` of one operation.
Left out: the review mode with its permits (`Host.New` turns it into the automatic
one and nothing turns it on), `Close`, exclusive work, writing rules, the direction
text of a reopening, failing writes of the run record. A message is sent once.

### PlayEngine

One action per file write of the engine (`Top` to `Leave`) and of the requests
(`Advance`, `commitChoice` in five writes, `Replan` in five, revision of the next
station). An engine value has its own mutex and wake channel; a request that
finds no engine makes a value of its own, written `h = 0`, which shares its mutex
with nobody. What is read before a model call and saved after it is a field of
`run[g]` or `call[c]`. A rejected answer of a model is a failing call. `Patient`
restricts the player to one request at a time. Nothing in the code does; only
`play_live` assumes it. `raced` is history: it is set when two requests, or a request
and an engine, have held copies of the progress without a mutex in common (`Overlap`),
which a replan does, that takes none, and a request with a value of its own. From then
on one can save over what the other did, and `NoOrphanChoice`, `HeadsHaveBeats` and
`AnswersStay` claim nothing (section 5 has what happens). Up to then, and for everything
else that overlaps, they hold.

Left out: texts, threads, images, the writer's session; stage texts (their load
and save of the meta is merged with the neighbouring step); several plays; failing
file operations. `playEngine = nil`, `releaseExclusive` and `close(done)` are one
step (`Leave`).

### ImageJobs

A job is a file with a status and a start; `runs[k]` is the goroutine of the k-th
start, with a copy of the job that it saves at every report and at its end, whatever
the file says by then. Every call (`Start` of the watcher, `Start`, `Cancel`, `Retry` of
a user) reads, then saves. `settings` is what a call finds switched on; the engine
starts to wait, waits, and merges. `CanMove` bounds units and disturbances together
(`Size`). Merged: the two reads of `Start`; load and signal of `Cancel`; load and save
of `Retry`. A timeout is a failed job. Left out: several profiles; the abort of a
waiting engine; jobs of chat and theatre scenes; that ComfyUI's interrupt stops
whatever runs there, not the job it is meant for.

### FactLog and FactList

`timeline.jsonl`, the `timeline.json` of earlier versions and `timeline.md`, a copy for
readers; `state_changes.jsonl` is the same log without the copy. Every step of a call
may be its last: a read, a write, a sync or a removal fails, the process dies, the
power fails and takes what was not synced. `cache` decides which facts are new, so it
has to agree with the file after every failure. Assumed of the file system: appended
bytes reach the disk in order and all of them with a sync; renames and removals are
durable on return. Not modelled: `SaveTimeline`, which only tests call.

### PlayLog

Two files that grow past a cap and are rotated into a new epoch, a broker with a
bounded channel, a handler that subscribes, reads the ends of both files and then
drops what its snapshot already had. `due` and `overflow` are history: what the client
has to get, and what found the channel full. Left out: the files of a play nobody
subscribes to, the cut of the tail at a character boundary.

### BookOutline

`layered` is a list of entries with the ends of its arcs, an arc that adds no entry
being a skeleton; `flat` and `total` are the files derived from it; `conf` and `audit`
hold the fingerprint they were given for. A tool call is a sequence of writes, of
which `call.write` is the next, a process death between any two; the router dispatches
the architect, the planner or the writer, or commits. `Dispatched` names the workers a
message, the failure arbiter or the deadlock reroute may send: any of the three, and
the engine runs them without `Route`, so without its confirmation gate. `sent` and
`ahead` are history: the planner or writer at work was sent, and one that was sent has
written a chapter that was not its turn (`InTurn`). They are the exceptions that
`ForwardWorkConfirmed` and `WrittenEntriesKept` name; the other properties have none.

Abstracted: texts; volumes (a list of arcs); the phases before writing are one;
short and long architects are one; a planner's turn ends after `plan_chapter`, a
writer's after one unit and its two writes are one step; one chapter is estimated
per skeleton; `Reopen` is the one that continues a book. The rewrite queue is in
`CommitSaga`. Not modelled: `type=outline` of a long book.

### Import

No stage is recorded: `NextAction` derives it from the artifacts, each with a digest,
here the tuple of its inputs. One action per stage, and one per write of the
publication; `Interrupt` is a cancellation, a failed model call or a failed write,
`Restart` a process death, perhaps with newer prompts (`MaxUpgrades`). `session` is what
the web shows, with the sticky wish to go on; `asked` is history.

Abstracted: a batch has one chapter, so that the prefix of a batch that is kept when
the rest fails (`salvagePrefix`, `analyze.go:418-431`) is outside; the caches of chunks
and ranges only save calls; the premise stands for premise, characters and world rules; the commit of a
chapter is one step. Left out: drafts, the planning tier, the name, the total, the
compass, checkpoints, the check of the source against the workspace, reads that fail
in the hand-over; `Options.AutoConfirm` (`runner.go:522`), which neither web nor host
sets. A book may have had a flat outline without a premise, by `save_foundation` or a
death between its two writes (`Interrupted`): `checkFoundationConflicts` compares every
artifact but that one, and `FoundationIsKept` names it as its exception
(`Unprotected`).

## 3. What is checked

Every property of a passing run has a mutant: a definition of the model changed the
way a plausible bug would change the code (`Mutant:` in the modules), for which TLC
finds the property violated under the run's own configuration.

| run | shows | instance |
|---|---|---|
| `saga` | `ImplementsAtomicCommit`, `FinishedIsCertified`, recovery never refused, queue and flow agree; the strengthening `IInv` the proofs use | two chapters, two texts, two payloads of which one carries records for two stores; flat outlines and eight layered ones (open, exhausted, settled, with a declared finale); at most three checkpoints (`FewRewrites`), that is both chapters committed and one rewritten; texts are symmetric |
| `auto_commit` | `RefusedOnlyByStranded`: only a stranded record makes the automatic commit fail; an interrupted commit is recovered; the book ends or strands | three chapters, the third after an extension of the outline, two crashes, a user who may reopen the book |
| `intervention` | `SlotGuardsDecision`, `OneLoop`, `HoldLetsOneTurnPass` | two messages that hold, or hold and dispatch; two goroutines; turns queue chapters and work them off; the user resumes and aborts at will; 4.4 million states, symmetric in messages and goroutines |
| `intervention_live` | `AbortStops`: a cancelled engine ends; `CallsReturn`, unless a goroutine asks for the mutex it holds | one message, sent with `Continue`, whose facts go stale under it, decided again; one crash |
| `intervention_reconsult` | a finding, see section 5 | one message, the book is finished meanwhile |
| `play_engine` | `OneEngine`, `NoOrphanChoice`, `HeadsHaveBeats`, `ReplanWorksAlone`, `AnswersStay` | one beat ahead, three beats, one station and those a replan adds, two at a time, two engine values, failing models, one crash between any two writes; a page turned, a choice, a replan and a pause, two of them at a time (`TwoUnraced`), followed until they have raced; 1.3 million states |
| `play_live` | `WaitsForAReason`: no lost wake-up; `PauseReturns` | one beat ahead, three beats, two stations, plans with and without a choice, an option that ends the play, no replan, one change of settings, one request at a time |
| `image_jobs` | `InFlightIsWorkedOn`, `EveryUnitWasTried`, `MergedIsQuiet`; `JobsSettle`, `WaitEnds` | up to three units, the watcher and two users, units and disturbances together three |
| `fact_log` | `AckedSurvives`, `CopyFollowsLog`, `ImplementsFactList`, `EveryBatchGetsIn` | two batches of three facts with repetitions in them, between them and with an old file; four faults |
| `play_log` | `NoGapNoRepetition` | two files of four records, a cap, an end and a channel of two, one fault; 2.1 million states |
| `book` | `ViewsAgree`, `ForwardWorkConfirmed`, `WrittenEntriesKept`, `CompletedWhenWritten`, `ChapterByChapter` | two chapters, two arcs, one unit each; two long books and a short one; one disturbance (pause, feedback, a message that sends any worker, reopening), one crash; 141 427 states |
| `import` | `AnalysedInOrder`, `HeldUnlessAsked`, `OnlyConfirmedIsPublished`, `FoundationIsKept`, `RunsEnd` | a source cut in two ways into two chapters; a planned book and one interrupted while its first outline was saved, which an import treats like an empty one until it replaces that outline; a plain request and one that asks for everything; any number of interruptions and restarts |

Why these bounds are enough to be worth running: a violation of the saga needs one
chapter half committed and another one to follow; of an intervention two callers
and two goroutines, which is the most that start, abort and restart can produce
before one is gone; of a play a choice, the beat after it and a beat ahead; of the
images two calls on one job and the goroutine between them; of a log a fault, the
retry, and a fault in the retry; of an outline a written chapter with an unwritten
one behind it, and a skeleton behind that; of an import a chapter analysed before a
new cut and one after it. Where a bound could hide something the theorems of
section 4 have none.

`CHECK_DEADLOCK FALSE` stands where the system may really stop: a host with every
message answered, a play at the bound of its beats, a merged chapter, a complete
book, a log at the bound of its records.

**Fairness.**

* `AutoCommit`: weak fairness of the engine's steps, since its goroutine keeps running,
  and of `Continue`: its properties are about a user who goes on with the book. Nobody
  has to crash or to reopen.
* `Intervention`, `PlayEngine`: weak fairness of every goroutine and request (a model
  call returns with a result or an error, as it has a deadline); strong fairness of
  taking a mutex, because `sync.Mutex` hands itself to a waiter that has waited for
  a millisecond. The user does nothing of necessity. `AbortStops` is checked with
  decisions that cannot conflict with a hold (`LightPlans`): with one that does, every
  `Resume` puts the operation of a refused decision in front of the cancelled engine
  again, and a user who resumes for ever keeps it from leaving.
* `ImageJobs`: calls and goroutines go on (every execution has a timeout), the engine
  polls, and every unit has its turn with the watcher, which goes through all of them.
* `FactLog`: a running call ends; a commit that has failed is run again in the end.
* `BookOutline`: tools, engine and turns end; a worker that is asked again and again
  does once what it is asked for; the user comes back to a book that stopped and
  confirms what is shown. This is an assumption about models and users. Its strength
  is the point of `ChapterByChapter`: given it, nothing in the code stands in the way.
* `Import`: the runner's steps. Requests, confirmations and restarts are free.

## 4. What is proved

Every safety property of a passing run, invariant, action property or refinement,
is a theorem for all values of the constants that satisfy the named `ASSUME`s (TLC
evaluates those in every run). Sizes, numbers of callers, crashes and faults are
arbitrary. Each proof module has an inductive invariant, one lemma per action
that keeps it, and the theorems.

**`CommitSagaProofs`** (all chapters, texts, payloads, outlines, both kinds of book).
`Invariance`: `Spec => []IInv`. No single property is inductive: that a finished
chapter has its checkpoint (`FinishedIsCertified`) rests on the checkpoint being
there when the stage is `signal_saved` (`CheckpointOfRecord`), which rests on the
running call and the record agreeing (`CallFollowsRecord`), which for a resumed
call rests on what each stage promises of the files (`RecordIsApplied`,
`FactsOfRecord`). `DraftIsNext`, `NoGaps` and `CompletedInOutline` tie a draft that is
not committed yet to the outline that may be revised under it. From it
`TypeCorrectness`, `FinishedCertified`, `RecoveryNeverRefused`, `MarkingNeverRefused`,
`QueueAndFlow`, `ChaptersInOrder`, and `Refinement`: `Spec => ImplementsAtomicCommit`.
Saving the record is the commit; every later write of the saga is a stutter
(`SagaIsInvisible`).

`OnlyStrandedRefuses`: `ReopenSpec => []RefusedOnlyByStranded`. `IInv` does not hold
of the engine, which has the next chapter drafted while a record is pending. Its own
invariant `AutoIInv` keeps the parts that survive this and adds `RecordIsNext`: a record
is for a rewrite, for a completed chapter (stranded), or for the next chapter.

**`InterventionProofs`** (all messages, goroutines, decisions, crashes).
`InterventionInvariance`, `ConsultsOneAtATime`, `DecisionIsGuarded`, `SingleLoop`. The
invariant adds that a call in flight has a message and that an applying goroutine
has something to apply. `OneTurnPasses` is about the hold: its counter can only
be bounded together with `StrayIsOver`, which says where in its loop the goroutine that
let a turn pass can still be, after an automatic commit at the top again, and that no
other one will.

**`PlayEngineProofs`.** `SingleEngine` for overlapping requests: `OneEngine` alone is
not inductive, since the last write of a replan gives the exclusive slot back and
would give back that of an engine; `SlotIInv` says which requests hold the slot. From
it also `ReplansAlone`: while a replan, which takes no mutex, has read the files and
not written them all, no engine and no other replan is at work. `NoOrphans`, `PagesExist` and
`AnswersAreKept` hold for requests that overlap in any number, with each other, with
starts, pauses and deaths, up to the moment the properties name (`raced`); they come
from `UnracedIInv`: as long as no two have held copies without a mutex in common, each of
the copies in `run[g]` and `call[c]` still has in common with the files what its save
will need (`PlayIInv`, and `OthersFit` for a caller that is joined by another one). That
an answer survives the engine's save after planning, which is of an earlier read and
under no mutex, is part of it: no choice is open while the engine plans. `HeadsHaveBeats`,
and so `PagesExist`, is about a play in which no process has died.

**`ImageJobsProofs`** (any number of units, users, moves). `Inductive`; `NoJobForgotten`;
`MergedAfterTrying`, from the watcher's memory and the engine's count; and
`MergedStaysQuiet`, from `QuietInv`: without requests of users one goroutine works on a
job and one job exists per unit.

**`FactLogProofs`** (all batches, any old file, any number of faults). `Inductive`: after
every failure the cache is unloaded or agrees with what a reader of the file would
find, its torn end aside. `ConfirmedForGood`, `CopyIsTrue`, `LogImplementsList`.

**`PlayLogProofs`** (any files, records, rotations, restarts, sizes). `StreamHasNoGap`
from `LogIInv`: the file is in order (`FileInOrder`), everything in the channel lies
before the place the file is at (`Placed`), every snapshot at or before it (`Caught`),
and the record of the writer that holds `logMu` is above all others.

**`BookOutlineProofs`** (all outlines, payloads, sizes, crashes, and any workers sent
past the router). `BookInductive`: the skeleton arcs lie behind everything written or
about to be, until a writer that was sent is `ahead`. On top of it `WrittenKept`, with that
exception; `WorkConfirmed`, with `GateInv`, for every worker but those that were sent; `Views` and `WholeBookWritten`, with `ViewInv`, for books without a process
death, which is what the two properties are about.

**`ImportProofs`** (all splits, answers, windows, requests, books, upgrades).
`ImportInductive`, with the parts `FormsInv`, `StagesInv`, `LedgerInv`, `FoundationInv`,
`CommittedInv`, `AskedInv`. `LedgerInv` quantifies over all splits, not the current one:
an analysis may count again after the text was cut back. Hence `InOrder`, `Held`,
`OnlyConfirmed`, `FoundationKept`, for every book the tools may have left. That a set of chapters that is closed below is
counted by its largest (`PrefixIsInterval`) is proved by well-foundedness. `OnlyConfirmed`
uses that an interrupted publication is refused (section 5): a repair of that
must compare the committed chapters with the split before it goes on.

Every strengthening was checked with TLC before it was proved; of them only `IInv` is
an invariant of a run, because the others say nothing a reader would ask for.

Only model-checked: liveness, that is `UnmarkedCommitIsRecovered`, `BookEndsOrStrands`,
`AbortStops`, `CallsReturn`, `WaitsForAReason`, `PauseReturns`, `JobsSettle`, `WaitEnds`,
`EveryBatchGetsIn`, `ChapterByChapter`, `RunsEnd`. The proof system does not reason about
`ENABLED`, on which fairness rests.

## 5. Where the code does not do what it says

One run ends in a counterexample. `intervention_reconsult`: a stale dispatch that the
host applies itself is decided again in the same goroutine, which holds the mutex it
asks for; `engine.go:37-38` says that this happens asynchronously.

More properties state what the repository says and have counterexamples. They are
defined in the modules and are in no configuration. TLC finds each of them violated
under the configuration given, put there in place of its properties and with the
constants changed as said; `P` is a `PROPERTY`, `I` an `INVARIANT`.

| property | says | how it fails | configuration |
|---|---|---|---|
| `PendingDrivesRerun` P | `commit_chapter.go:454-455`, a pending commit that is visible after a restart always drives a re-run | a death after `MarkChapterComplete` and before the record is cleared leaves a record nobody works off: the engine only asks for the next chapter, which is refused | `AutoCommit.cfg` |
| `ReopenedQueueIsWorkedOff` P | `reopen_book.go:18-19`, the writer is dispatched chapter by chapter until the queue is empty | the writer has no tool that accepts a completed chapter | `AutoCommit.cfg` |
| `SlotIsClearedByItsOwner` P | `engine.go:160-163`, a leftover intervention is replayed by the next Resume or Continue | `Continue` stores its own text over the restored one | `InterventionReconsult.cfg`, `Messages` and `Continues` both `{m1, m2}` |
| `DispatchSurvivesExit` I | `engine.go:938-940`, a normal exit or Abort puts a dispatch back | `next` is not put back, only queued operations are | `InterventionReconsult.cfg` |
| `LifecycleFollowsEngine` I | `host.go:516-518`, a late `runEnded` cannot turn a running engine idle | `running` is cleared before `onDone` is called | `InterventionReconsult.cfg` |
| `EndingCompletes` I | `play/engine.go:641-642`, an ending the player chooses completes the play | chosen while the play is paused it is answered like any choice | `PlayEngineLive.cfg` |
| `AwaitReplanExits` P | `play/engine.go:212-213`, the engine exits when the stations run out | with a full buffer it waits in its loop and holds the slot | `PlayEngineLive.cfg`, no choosers, no pausers, `Pure = TRUE` |
| `PlanSeesFacts` P | `README.md:78`, planning respects what has happened | the engine plans between two writes of a choice | `PlayEngineLive.cfg` |
| `ReviseTouchesNextOnly` P | `play/engine_test.go:409`, a choice revises the next station only | the spine read before the model call is saved after it | `PlayEngineLive.cfg` |
| `SettingsStay` P | `play_exclusive_test.go:66`, what `UpdatePlay` accepts is stored | the meta read before the writer's turn is saved after it | `PlayEngineLive.cfg` |
| `NoAnswerIsLost` P | `play/engine_test.go:544-545`, replanning leaves the history alone | a choice made during the model call of `Replan` is erased | `PlayEngine.cfg` without its `CONSTRAINT` |
| `PagesStayTurned` P | `play/engine_test.go:533-534`, a replan keeps the beats that were played | the engine saves the progress it read before planning (`engine.go:381-382`) over the pages turned meanwhile; a replan then counts them as not played | `PlayEngineLive.cfg`, `Ahead = 2`, `Pure = TRUE`, `NStations = 3`, `MaxStations = 3` |
| `WaitsForAReason` P | `play/engine_test.go:125`, the engine continues after the choice | the wake-up goes to an engine value nobody runs | `PlayEngineLive.cfg`, `Patient = FALSE` |
| `AllWorkConfirmed` I | `flow/router.go:141-144`, what goes on with the writing waits until the user has confirmed the plan | a planner or writer the arbiter sends is run without the router | `BookOutline.cfg` |
| `BegunEntriesKept` P | `store/store.go:426, 456`, a revision replaces only what has not happened yet | a writer the arbiter sends writes a chapter behind the protected ones, whose entry may still be changed | `BookOutline.cfg`, `MaxDisturbances = 2` |
| `OneJobInFlight` I | `service.go:246-247`, one job in flight per unit | two requests both look before either saves | `ImageJobs.cfg` |
| `RestartRecovers` P | `README.md:275` and `docs/history/novel_comfy_bridge_architecture.md:192-200`, jobs of a dead process can be started again, are resumed or marked failed | nothing looks at them; the chapter waits until the user retries | `ImageJobs.cfg` |
| `MergedHasPictures` I | `README.md:58`, a chapter is complete only when all its pictures are on disk | a failed or cancelled job is good enough | `ImageJobs.cfg` |
| `SameTextSameJob` I | the same document, 180-187: an unchanged unit has one job, retried on request | two starts overlap and save one each | `ImageJobs.cfg` |
| `RepublishingIsIdempotent` I | `imp/publish.go:20`, publishing the same content again is idempotent; `docs/history/import-pipeline.md:608, 938, 940` | the phase is set back to premise (`publish.go:39`), which the store refuses: an import interrupted between the outline phase and its last chapter can never be resumed, and the engine's gate keeps the book locked | `Import.cfg` |
| `OutlineIsKept` P | `imp/publish.go:107-111`, an existing artifact that differs is not overwritten | the flat outline of a book without a premise is not compared and is replaced | `Import.cfg` |
| `OnlyContinueSkipsHold` I | `imp/runner.go:841`, only `--continue` skips the hold | the session keeps the wish of a request that was refused, and hands it to the next import | `Import.cfg` |
| `FinishedIsWhole` I | `imp/state.go:47`, a finished import has been reconciled as a whole | chapters are only counted: after an upgrade of the segmentation prompt the text is cut again, into fewer chapters, and a half-published book is finished | `Import.cfg`, `MaxUpgrades = 1`, `MCSplits == {<<"a","c">>, <<"ac">>}` |

`WaitsForAReason` holds for a player who makes one request at a time, which is what
`play_live` says. The others are not weakened anywhere: where a run has a property
nearby (`AnswersStay`, `ForwardWorkConfirmed`, `WrittenEntriesKept`, `FoundationIsKept`,
`RefusedOnlyByStranded`, `UnmarkedCommitIsRecovered`, `WaitEnds`), the property names the
exception.

What else was met, which the models contain or step around:

* **Confirmation.** `ConfirmOutline` stores the confirmation, then the phase
  (`outline_review.go:57-66`); a death between leaves a planning phase with nothing to
  dispatch until the foundation changes. It confirms the fingerprint it finds, not the
  one the user saw. With a file of the foundation missing nothing is awaited, which is
  why `ForwardWorkConfirmed` has its second disjunct. The automatic commit ignores the
  gate.
* **Torn outlines.** `expand_arc`, `append_volume`, `revise_outline` die between the
  layered outline, its flat view and the total (`store.go:372-423`); the comments at
  `outline.go:281-283, 315-317` rely on a retry nobody dispatches. The planner reads the
  flat view, `complete_book` its length. The first layered outline may be torn before
  the book is marked layered (`save_foundation.go:182-199`).
* **Dispatch past the gate.** A planner or writer sent by a message, the failure
  arbiter or the deadlock reroute passes `Route`'s gate by (`AllWorkConfirmed` and
  `BegunEntriesKept` above). `plan_chapter` saves its plan before `StartChapter`
  (`plan_chapter.go:145-150`).
* **Outline tools.** `type=outline` with `scale=long` keeps the layered outline;
  `complete_book` ignores skeletons; `expand_arc` asks for no phase.
* **Flat books** are completed by their chapter count alone: a late recovery may do
  that with rewrites queued. A rewrite that reports `advance` for a resolved
  foreshadow reopens it (`world.go:161-223`).
* **Import.** A hold of the user makes `SetCompletionHold` fail after the phase was set,
  with the same end as above. The comment of `applyGuidance` says that the book is
  empty, which is checked for chapters only; `ResetGuidance` does not look at the
  premise, `applyDeepWindow` not at the publication. A death between `ConsumeContinue`
  and `startEngine` loses the wish to go on; `--guide` is lost between ingest and the
  guidance's write. An event of a cancelled run may change the session of the next.
* **Play log.** A write that fails leaves text in the file that live readers do not
  get; nothing tells a client to reconnect after an overflow.
* **Budget.** `Close` and `autoSaveLoop` promise a replay of the sessions for the lost
  tail of the usage, which runs only when `usage.json` is missing or invalid. `OnCost`
  while no engine runs leaves a state in which no boundary stops a run.
* **Images.** A cancelled ComfyUI job interrupts whatever is running there.

## 6. What is not modelled

`PROJECT.json` lists every part with its reason; in short:

* one call that reads or writes one file, or none: novel context, cast, decisions,
  sessions, simulation and export, rules, style, diagnosis, configuration;
* dead code: the permits of the advance gate (`Host.New` turns the review mode into the
  automatic one), the tools of reviews and summaries, which no worker has;
* models and people: what an arbiter, an agent or a tavern character answers is
  enumerated where control depends on it;
* input and output: the HTTP handlers (those with state are the requests of
  `PlayEngine`, `Intervention`, `Import`, `PlayLog`), ComfyUI, the vendored libraries;
* budget and usage: counters nobody reads, but for the pause of a spent budget, which
  is one more caller of `Abort`;
* failing writes outside the saga, the two logs and the import; several plays at
  once; several image profiles.

The plan of the modules (saga, engine, interventions, theatre, images, logs, outline,
import) and of their safety proofs is done. Left: finer steps where section 2 says
merged, and the wedge of an interrupted import, whose repair would give `OnlyConfirmed` a second proof.
