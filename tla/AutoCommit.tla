------------------------------ MODULE AutoCommit ------------------------------
(***************************************************************************)
(* The engine (internal/host/engine.go) driving the commit saga: it has    *)
(* the next chapter written unit by unit and, once every unit is there,    *)
(* calls AutoCommitPlannedChapter for it.  An error of the automatic       *)
(* commit pauses the engine; the user may continue at any time.            *)
(*                                                                         *)
(* Unlike the importer, the engine never looks at pending_commit.json: it  *)
(* always commits the NEXT chapter, and the saga refuses a call for any    *)
(* chapter other than the pending one.                                     *)
(***************************************************************************)
EXTENDS CommitSaga

CONSTANTS
  AutoPayload,   \* deterministicCommitArgs: no world deltas
  MaxCrashes     \* bound on the interruptions of one behaviour

ASSUME AutoPayloadAssumption == AutoPayload \in Payload
ASSUME MaxCrashesAssumption  == MaxCrashes \in Nat

\* The volume and arc cases of Route are not modelled here
ASSUME FlatAssumption        == \A o \in Outlines : ~o.layered

VARIABLES
  engine,        \* "running", or "stopped": paused, aborted or process dead
  crashes        \* interruptions so far

autoVars == <<vars, engine, crashes>>

AutoInit == Init /\ engine = "running" /\ crashes = 0

Running == engine = "running" /\ Idle

\* Mutant: no automatic commit while a record exists
CommitDueWithoutRecord ==
  /\ progress.phase = "writing"
  /\ progress.queue = {}
  /\ pending = NoPending
  /\ NextChapter \in Chapters
  /\ draft[NextChapter] # None

\* automaticCommitChapter: every unit of the next chapter is written
CommitDue ==
  /\ progress.phase = "writing"
  /\ progress.queue = {}
  /\ NextChapter \in Chapters
  /\ draft[NextChapter] # None

\* Route, cases 3 and 8 to 10: the head of the rewrite queue, or the next chapter
WriterDue(ch) ==
  /\ progress.phase = "writing"
  /\ ~CommitDue
  /\ \/ ch \in progress.queue
     \/ progress.queue = {} /\ ch = NextChapter /\ ch <= outline.chapters

\* A sequence of writer turns that ends with the last unit of the chapter
WriterFinishesUnits(ch, t) ==
  /\ Running /\ WriterDue(ch)
  /\ ch \notin progress.completed
  /\ WriteDraft(ch, t)
  /\ UNCHANGED <<engine, crashes>>

\* write_chapter_unit is the writer's only writing tool and it rejects completed
\* chapters, so the turn ends without progress; trackDeadlock pauses the engine
\* after five of them
WriterCannotRewrite(ch) ==
  /\ Running /\ WriterDue(ch)
  /\ ch \in progress.completed
  /\ progress' = [progress EXCEPT !.inProgress = ch]
  /\ engine' = "stopped"
  /\ UNCHANGED <<pending, outline, draft, final, summary, facts, checkpoints,
                 call, crashes>>

AutoCommitStarts ==
  /\ Running /\ CommitDue
  /\ BeginCommit(NextChapter, AutoPayload) \/ Resume(NextChapter, AutoPayload)
  /\ UNCHANGED <<engine, crashes>>

\* The checks of the tool: a record of the same chapter that can be resumed, or
\* no record and a chapter that may be committed
CommitAccepted ==
  IF pending = NoPending
    THEN /\ NextChapter \notin progress.completed
         /\ ChapterWorkAllowed(NextChapter)
         /\ InOutline(NextChapter)
    ELSE pending.chapter = NextChapter /\ Resumable

AutoCommitRefused ==
  /\ Running /\ CommitDue
  /\ ~CommitAccepted
  /\ engine' = "stopped"
  /\ UNCHANGED <<vars, crashes>>

AutoCommitStep ==
  /\ engine = "running"
  /\ Saga
  /\ UNCHANGED <<engine, crashes>>

\* Route, case 8: every outlined chapter is written, the architect completes the
\* book or goes on with the outline
ArchitectDecides ==
  /\ Running /\ progress.phase = "writing" /\ progress.queue = {}
  /\ NextChapter > outline.chapters
  /\ \/ CompleteBook
     \/ \E o \in Outlines : o.chapters >= NextChapter /\ ReviseOutline(o)
  /\ UNCHANGED <<engine, crashes>>

\* A process death anywhere, or a failed write inside the saga
Crash ==
  /\ engine = "running"
  /\ crashes < MaxCrashes
  /\ IF Idle THEN UNCHANGED vars ELSE Interrupt
  /\ engine' = "stopped"
  /\ crashes' = crashes + 1

\* Host.Resume: a book that is complete is not resumed
Continue ==
  /\ engine = "stopped"
  /\ progress.phase = "writing"
  /\ engine' = "running"
  /\ UNCHANGED <<vars, crashes>>

\* Between two worker turns, or while the engine is stopped
UserReopens ==
  \E chs \in SUBSET Chapters : Reopen(chs) /\ UNCHANGED <<engine, crashes>>

AutoNext ==
  \/ \E ch \in Chapters, t \in Text : WriterFinishesUnits(ch, t)
  \/ \E ch \in Chapters : WriterCannotRewrite(ch)
  \/ AutoCommitStarts \/ AutoCommitRefused \/ AutoCommitStep
  \/ ArchitectDecides \/ Crash \/ Continue

\* The engine goroutine keeps running and the user keeps continuing the book;
\* nobody is obliged to crash it or to reopen it.
AutoFairness ==
  /\ WF_autoVars(\E ch \in Chapters, t \in Text : WriterFinishesUnits(ch, t))
  /\ WF_autoVars(\E ch \in Chapters : WriterCannotRewrite(ch))
  /\ WF_autoVars(AutoCommitStarts)
  /\ WF_autoVars(AutoCommitRefused)
  /\ WF_autoVars(AutoCommitStep)
  /\ WF_autoVars(ArchitectDecides)
  /\ WF_autoVars(Continue)

AutoSpec == AutoInit /\ [][AutoNext]_autoVars /\ AutoFairness

\* The same book, which the user may also reopen for rewrites
ReopenSpec == AutoInit /\ [][AutoNext \/ UserReopens]_autoVars /\ AutoFairness

--------------------------------------------------------------------------------
(***************************************************************************)
(* Properties.                                                             *)
(***************************************************************************)

\* The record of a commit that died AFTER its chapter was marked complete.
Stranded == pending # NoPending /\ pending.chapter \in progress.completed /\ Idle

\* The engine's next chapter never collides with a record whose chapter still
\* has to be completed, and no check of the tool rejects it: only a stranded
\* record makes the automatic commit fail.
RefusedOnlyByStranded ==
  CommitDue /\ Idle /\ ~CommitAccepted => Stranded

\* What makes it inductive.  The invariant IInv of the saga is none here: the engine
\* has the next chapter drafted while the record of another one is pending.
RecordIsNext ==
  pending # NoPending /\ pending.chapter \notin progress.completed =>
    pending.chapter = NextChapter

AutoIInv ==
  /\ pending \in PendingCommit \cup {NoPending} /\ progress \in Progress
  /\ outline \in Outlines /\ call \in Call \cup {NoCall}
  /\ draft \in [Chapters -> Text \cup {None}]
  /\ CallFollowsRecord /\ RecordOfCompleted /\ RecordIsNext
  /\ QueueMatchesFlow /\ HasLatest

\* Whatever interrupts a commit before its chapter is marked complete, continuing
\* the book finishes that chapter, with the frozen text.
UnmarkedCommitIsRecovered ==
  \A ch \in Chapters :
    pending.chapter = ch /\ ch \notin progress.completed
      ~> ch \in progress.completed

\* The engine finishes the book at least once unless a record is stranded on the
\* way: no other interruption stops it for good.
BookEndsOrStrands ==
  <>(progress.phase = "complete" \/ Stranded)

\* commit_chapter.go: "the checkpoint comes before the record is cleared, so a
\* pending_commit visible after a restart can always drive a re-run that fills in
\* the missing checkpoint."  Stated for a book that is still being written.
PendingDrivesRerun ==
  pending # NoPending /\ progress.phase = "writing"
    ~> pending = NoPending \/ progress.phase = "complete"

\* reopen_book.go: "the router dispatches the writer for the queue chapter by
\* chapter and the book is completed again when the queue is worked off."
ReopenedQueueIsWorkedOff ==
  progress.queue # {} ~> progress.queue = {}
================================================================================
