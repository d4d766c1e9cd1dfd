------------------------------ MODULE CommitSaga ------------------------------
(***************************************************************************)
(* commit_chapter (internal/tools/commit_chapter.go): the saga that turns  *)
(* a finished draft into a committed chapter through about a dozen         *)
(* separate files, each written atomically (temporary file, fsync,         *)
(* rename), with meta/pending_commit.json as its write-ahead record.       *)
(* Between any two writes the process may die, or a write may fail; both   *)
(* lose the running call and keep the files.                               *)
(*                                                                         *)
(* One action per write.  The reads and checks at the head of Execute have *)
(* no concurrent writer (one engine goroutine, ConcurrencySafe is false)   *)
(* and belong to the write they lead to.                                   *)
(***************************************************************************)
EXTENDS Integers, FiniteSets

CONSTANTS
  Chapters,    \* chapter numbers 1..n (the bound on the book's length)
  Text,        \* chapter bodies
  Payload,     \* commitArgs: title, summary, world deltas
  Touches,     \* Touches[p]: the fact stores payload p has records for
  Outlines,    \* the outlines an architect may save
  None         \* "no file" / "no value"

FactStores == {"timeline", "foreshadow", "relationships", "state_changes"}

ASSUME ChaptersAssumption == Chapters \subseteq Nat \ {0}
ASSUME NoneAssumption     == None \notin Text /\ None \notin Payload
ASSUME TouchesAssumption  == Touches \in [Payload -> SUBSET FactStores]
ASSUME OutlinesAssumption ==
  Outlines \subseteq
    [layered  : BOOLEAN,  \* progress.layered: volumes and arcs, or a flat list
     chapters : Nat,      \* expanded chapters (layered), TotalChapters (flat)
     open     : BOOLEAN,  \* a skeleton arc is still to be expanded
     finale   : BOOLEAN,  \* the last volume is declared final
     threads  : BOOLEAN,  \* the compass lists open threads
     settled  : BOOLEAN]  \* compass without open threads, no active foreshadow

VARIABLES
  (* files *)
  pending,      \* meta/pending_commit.json
  progress,     \* meta/progress.json
  outline,      \* outline.json / layered_outline.json, foreshadow, compass
  draft,        \* drafts/NN.draft.md, None until every writing unit is there
  final,        \* chapters/NN.md
  summary,      \* summaries/NN.json
  facts,        \* facts[s][ch]: payloads whose records for ch are in store s
  checkpoints,  \* commit checkpoints: <<chapter, text, payload>> digests
  (* memory *)
  call          \* the running Execute: program counter and local variables

files == <<pending, progress, outline, draft, final, summary, facts,
           checkpoints>>
vars == <<pending, progress, outline, draft, final, summary, facts,
          checkpoints, call>>

(***************************************************************************)
(* Values.                                                                 *)
(***************************************************************************)
Stages == {"started", "state_applied", "progress_marked", "signal_saved"}

NoPending == [chapter |-> 0, stage |-> "absent", rewrite |-> FALSE,
              text |-> None, payload |-> None]

PendingCommit == [chapter : Chapters, stage : Stages, rewrite : BOOLEAN,
                  text : Text, payload : Payload]

Progress == [phase      : {"writing", "complete"},
             flow       : {"writing", "rewriting"},
             completed  : SUBSET Chapters,
             queue      : SUBSET Chapters,     \* pending_rewrites
             reopened   : BOOLEAN,             \* reopened_from_complete
             inProgress : Chapters \cup {0}]

Labels == FactStores \cup
          {"final", "summary", "applied", "mark", "drain",
           "complete", "marked", "checkpoint", "saved", "clear_in_progress",
           "clear_pending"}

NoCall == [pc |-> "idle", chapter |-> 0, rewrite |-> FALSE,
           text |-> None, payload |-> None]

Call == [pc : Labels, chapter : Chapters, rewrite : BOOLEAN,
         text : Text, payload : Payload]

TypeOK ==
  /\ pending \in PendingCommit \cup {NoPending}
  /\ progress \in Progress
  /\ outline \in Outlines
  /\ draft \in [Chapters -> Text \cup {None}]
  /\ final \in [Chapters -> Text \cup {None}]
  /\ summary \in [Chapters -> Payload \cup {None}]
  /\ facts \in [FactStores -> [Chapters -> SUBSET Payload]]
  /\ checkpoints \subseteq Chapters \X Text \X Payload
  /\ call \in Call \cup {NoCall}

Init ==
  /\ pending = NoPending
  /\ progress = [phase |-> "writing", flow |-> "writing", completed |-> {},
                 queue |-> {}, reopened |-> FALSE, inProgress |-> 0]
  /\ outline \in Outlines
  /\ draft = [ch \in Chapters |-> None]
  /\ final = [ch \in Chapters |-> None]
  /\ summary = [ch \in Chapters |-> None]
  /\ facts = [s \in FactStores |-> [ch \in Chapters |-> {}]]
  /\ checkpoints = {}
  /\ call = NoCall

Idle == call.pc = "idle"

At(label) == call.pc = label

Goto(label) == call' = [call EXCEPT !.pc = label]

(***************************************************************************)
(* Guards shared by several operations.                                    *)
(***************************************************************************)

\* ProgressStore.ValidateChapterWork
ChapterWorkAllowed(ch) ==
  /\ progress.phase = "writing"
  /\ progress.flow = "rewriting" =>
       /\ progress.queue \subseteq progress.completed
       /\ ch \in progress.queue

\* CheckArcBoundary finds the chapter, or the book is not layered
InOutline(ch) == outline.layered => ch <= outline.chapters

\* Progress.NextChapter and Progress.LatestCompleted
LatestCompleted ==
  IF progress.completed = {} THEN 0
  ELSE CHOOSE m \in progress.completed : \A c \in progress.completed : c <= m

NextChapter == LatestCompleted + 1

StructurallyComplete ==
  /\ progress.queue = {}
  /\ ~outline.open
  /\ outline.chapters > 0
  /\ Cardinality(progress.completed) >= outline.chapters

LayeredComplete ==
  /\ StructurallyComplete
  /\ outline.finale \/ outline.settled

(***************************************************************************)
(* Entering Execute(ch, p): a fresh commit, a rewrite, or the recovery of  *)
(* the pending one.  Every other combination returns an error, or the skip *)
(* result of an already completed chapter, and writes nothing.             *)
(***************************************************************************)
Enter(label, ch, rewrite, t, p) ==
  call' = [pc |-> label, chapter |-> ch, rewrite |-> rewrite,
           text |-> t, payload |-> p]

SaveStarted(ch, rewrite, t, p) ==
  pending' = [chapter |-> ch, stage |-> "started", rewrite |-> rewrite,
              text |-> t, payload |-> p]

\* The callers (the engine's automatic commit and the importer) commit chapters
\* in order; the tool itself accepts any number
BeginCommit(ch, p) ==
  /\ Idle /\ pending = NoPending
  /\ ch = NextChapter /\ ch \notin progress.completed
  /\ ChapterWorkAllowed(ch)
  /\ InOutline(ch)
  /\ draft[ch] # None
  /\ SaveStarted(ch, FALSE, draft[ch], p)
  /\ Enter("final", ch, FALSE, draft[ch], p)
  /\ UNCHANGED <<progress, outline, draft, final, summary, facts,
                 checkpoints>>

\* validateRewriteDraft: text or title must differ from the committed one
RewriteChanges(ch, p) ==
  /\ draft[ch] # None
  /\ draft[ch] # final[ch] \/ p # summary[ch]

BeginRewrite(ch, p) ==
  /\ Idle /\ pending = NoPending
  /\ ch \in progress.completed \cap progress.queue
  /\ RewriteChanges(ch, p)
  /\ SaveStarted(ch, TRUE, draft[ch], p)
  /\ Enter("final", ch, TRUE, draft[ch], p)
  /\ UNCHANGED <<progress, outline, draft, final, summary, facts,
                 checkpoints>>

\* Mutant: a chapter marked complete is taken to have its checkpoint
ResumeLabelSkippingCheckpoint ==
  [started         |-> "final",
   state_applied   |-> "mark",
   progress_marked |-> "clear_in_progress",
   signal_saved    |-> "clear_in_progress"]

\* Where a call for the pending chapter picks the saga up again
ResumeLabel ==
  [started         |-> "final",
   state_applied   |-> "mark",
   progress_marked |-> "checkpoint",
   signal_saved    |-> "clear_in_progress"]

\* Mutant: recovery insists on a record whose chapter is completed
ResumableOnceMarked == pending.chapter \in progress.completed

\* The checks a recovering call makes before its first write
Resumable ==
  /\ pending.rewrite \/ pending.stage \in {"progress_marked", "signal_saved"}
       => pending.chapter \in progress.completed
  /\ ~pending.rewrite /\ pending.stage \in {"started", "state_applied"}
       => InOutline(pending.chapter)

\* Mutant: the retry commits what the draft holds by now
ResumeWithCurrentDraft(ch, p) ==
  /\ Idle /\ pending # NoPending
  /\ pending.chapter = ch
  /\ Resumable
  /\ draft[ch] # None
  /\ Enter(ResumeLabel[pending.stage], ch, pending.rewrite, draft[ch],
           pending.payload)
  /\ UNCHANGED files

\* The arguments of the retry are ignored: payload and text come from the record
Resume(ch, p) ==
  /\ Idle /\ pending # NoPending
  /\ pending.chapter = ch
  /\ Resumable
  /\ Enter(ResumeLabel[pending.stage], ch, pending.rewrite, pending.text,
           pending.payload)
  /\ UNCHANGED files

(***************************************************************************)
(* The writes, in program order.                                           *)
(***************************************************************************)
SaveFinal ==
  /\ At("final")
  /\ final' = [final EXCEPT ![call.chapter] = call.text]
  /\ Goto("summary")
  /\ UNCHANGED <<pending, progress, outline, draft, summary, facts,
                 checkpoints>>

SaveSummary ==
  /\ At("summary")
  /\ summary' = [summary EXCEPT ![call.chapter] = call.payload]
  /\ Goto(IF call.rewrite THEN "applied" ELSE "timeline")
  /\ UNCHANGED <<pending, progress, outline, draft, final, facts,
                 checkpoints>>

AfterDelta == [timeline      |-> "foreshadow",
               foreshadow    |-> "relationships",
               relationships |-> "state_changes",
               state_changes |-> "applied"]

\* Records are keyed, so adding those of the same payload again adds nothing
ApplyDelta ==
  \E s \in FactStores :
    /\ At(s)
    /\ facts' = IF s \in Touches[call.payload]
                  THEN [facts EXCEPT ![s][call.chapter] = @ \cup {call.payload}]
                  ELSE facts
    /\ Goto(AfterDelta[s])
    /\ UNCHANGED <<pending, progress, outline, draft, final, summary,
                   checkpoints>>

SaveApplied ==
  /\ At("applied")
  /\ pending' = [pending EXCEPT !.stage = "state_applied"]
  /\ Goto("mark")
  /\ UNCHANGED <<progress, outline, draft, final, summary, facts,
                 checkpoints>>

\* Mutant: completes the chapter after the committed one
CompletingFollower(ch) ==
  [progress EXCEPT !.completed = @ \cup {ch + 1}, !.inProgress = 0]

\* ProgressStore.MarkChapterComplete, whose phase check rejects a finished book
Completing(ch) == [progress EXCEPT !.completed = @ \cup {ch}, !.inProgress = 0]

MarkChapter ==
  /\ At("mark") /\ ~call.rewrite
  /\ \/ /\ call.chapter \notin progress.completed
        /\ progress.phase = "writing"
        /\ progress' = Completing(call.chapter)
     \/ /\ call.chapter \in progress.completed
        /\ UNCHANGED progress
  /\ Goto("complete")
  /\ UNCHANGED <<pending, outline, draft, final, summary, facts,
                 checkpoints>>

MarkRewritten ==
  /\ At("mark") /\ call.rewrite
  /\ \/ /\ progress.phase = "writing"
        /\ progress' = Completing(call.chapter)
        /\ Goto("drain")
     \/ /\ progress.phase = "complete"
        /\ UNCHANGED progress
        /\ Goto("complete")
  /\ UNCHANGED <<pending, outline, draft, final, summary, facts,
                 checkpoints>>

\* Mutant: the flow stays "rewriting" when the queue is empty
DrainQueueKeepingFlow ==
  /\ At("drain")
  /\ progress' = [progress EXCEPT !.queue = @ \ {call.chapter}]
  /\ Goto("complete")
  /\ UNCHANGED <<pending, outline, draft, final, summary, facts,
                 checkpoints>>

\* ProgressStore.CompleteRewrite
DrainQueue ==
  /\ At("drain")
  /\ LET rest == progress.queue \ {call.chapter}
     IN  progress' = [progress EXCEPT
                        !.queue = rest,
                        !.flow = IF rest = {} THEN "writing" ELSE @]
  /\ Goto("complete")
  /\ UNCHANGED <<pending, outline, draft, final, summary, facts,
                 checkpoints>>

\* ProgressStore.MarkComplete
MarkedComplete == [progress EXCEPT !.phase = "complete", !.reopened = FALSE]

\* applyCompletion: a flat book ends with its last chapter number
FlatComplete ==
  outline.chapters > 0 /\ call.chapter + 1 > outline.chapters

\* The completion rule at the end of executeRewriteCommit
RewriteComplete ==
  /\ progress.queue = {}
  /\ IF outline.layered
       THEN IF progress.reopened THEN StructurallyComplete ELSE LayeredComplete
       ELSE /\ outline.chapters > 0
            /\ Cardinality(progress.completed) >= outline.chapters

\* applyCompletion leaves a book that is already complete alone
BookComplete ==
  IF call.rewrite THEN RewriteComplete
  ELSE /\ progress.phase = "writing"
       /\ IF outline.layered THEN LayeredComplete ELSE FlatComplete

ApplyCompletion ==
  /\ At("complete")
  /\ progress' = IF BookComplete THEN MarkedComplete ELSE progress
  /\ Goto("marked")
  /\ UNCHANGED <<pending, outline, draft, final, summary, facts,
                 checkpoints>>

SaveMarked ==
  /\ At("marked")
  /\ pending' = [pending EXCEPT !.stage = "progress_marked"]
  /\ Goto("checkpoint")
  /\ UNCHANGED <<progress, outline, draft, final, summary, facts,
                 checkpoints>>

\* appendCommitCheckpoint digests the two files as they are on disk now
AppendCheckpoint ==
  /\ At("checkpoint")
  /\ checkpoints' = checkpoints \cup
       {<<call.chapter, final[call.chapter], summary[call.chapter]>>}
  /\ Goto("saved")
  /\ UNCHANGED <<pending, progress, outline, draft, final, summary, facts>>

SaveSignal ==
  /\ At("saved")
  /\ pending' = [pending EXCEPT !.stage = "signal_saved"]
  /\ Goto("clear_in_progress")
  /\ UNCHANGED <<progress, outline, draft, final, summary, facts,
                 checkpoints>>

ClearInProgress ==
  /\ At("clear_in_progress")
  /\ progress' = [progress EXCEPT !.inProgress = 0]
  /\ Goto("clear_pending")
  /\ UNCHANGED <<pending, outline, draft, final, summary, facts,
                 checkpoints>>

ClearPending ==
  /\ At("clear_pending")
  /\ pending' = NoPending
  /\ call' = NoCall
  /\ UNCHANGED <<progress, outline, draft, final, summary, facts,
                 checkpoints>>

\* The process dies, or the next write returns an error: Execute is over.
Interrupt ==
  /\ ~Idle
  /\ call' = NoCall
  /\ UNCHANGED files

(***************************************************************************)
(* Around the saga, between two calls.                                     *)
(***************************************************************************)

\* Mutant: the chapter is not marked in progress
WriteDraftUnprotected(ch, t) ==
  /\ Idle
  /\ \/ ch = NextChapter /\ ch <= outline.chapters
     \/ ch \in progress.queue
  /\ ChapterWorkAllowed(ch)
  /\ InOutline(ch)
  /\ draft' = [draft EXCEPT ![ch] = t]
  /\ UNCHANGED <<pending, progress, outline, final, summary, facts,
                 checkpoints, call>>

\* A writer marks its chapter (the next one, or a queued one) in progress and
\* leaves a complete draft t; write_chapter_unit and runWorker call StartChapter
WriteDraft(ch, t) ==
  /\ Idle
  /\ \/ ch = NextChapter /\ ch <= outline.chapters     \* Route
     \/ ch \in progress.queue
  /\ ChapterWorkAllowed(ch)
  /\ InOutline(ch)                                    \* EnsureChapterExpanded
  /\ progress' = [progress EXCEPT !.inProgress = ch]
  /\ draft' = [draft EXCEPT ![ch] = t]
  /\ UNCHANGED <<pending, outline, final, summary, facts, checkpoints,
                 call>>

\* RebuildWritingUnitDraft at the head of AutoCommitPlannedChapter: an image that
\* arrived since splices itself into the draft
RebuildDraft(ch, t) ==
  /\ Idle
  /\ ch = NextChapter
  /\ draft[ch] # None
  /\ draft' = [draft EXCEPT ![ch] = t]
  /\ UNCHANGED <<pending, progress, outline, final, summary, facts,
                 checkpoints, call>>

\* ReopenBookTool / ProgressStore.Reopen
Reopen(chs) ==
  /\ Idle
  /\ chs # {} /\ chs \subseteq progress.completed
  /\ progress.phase = "complete"
  /\ progress' = [progress EXCEPT !.phase = "writing", !.flow = "rewriting",
                                  !.queue = chs, !.reopened = TRUE]
  /\ UNCHANGED <<pending, outline, draft, final, summary, facts,
                 checkpoints, call>>

\* ProgressStore.ReopenContinue
ReopenContinue ==
  /\ Idle
  /\ progress.phase = "complete"
  /\ progress' = [progress EXCEPT !.phase = "writing"]
  /\ UNCHANGED <<pending, outline, draft, final, summary, facts,
                 checkpoints, call>>

\* save_foundation type=complete_book
CompleteBook ==
  /\ Idle
  /\ progress.phase = "writing"
  /\ progress.queue = {}
  /\ progress.completed # {}
  /\ outline.chapters > 0 => NextChapter > outline.chapters
  /\ ~outline.threads
  /\ progress' = MarkedComplete
  /\ UNCHANGED <<pending, outline, draft, final, summary, facts,
                 checkpoints, call>>

\* Mutant: only written chapters are protected
ReviseOutlineUnprotected(o) ==
  /\ Idle
  /\ progress.phase = "writing"
  /\ o.layered = outline.layered
  /\ \A ch \in progress.completed : ch <= o.chapters
  /\ outline' = o
  /\ UNCHANGED <<pending, progress, draft, final, summary, facts,
                 checkpoints, call>>

\* expand_arc, append_volume, revise_outline, update_compass: written and
\* in-progress chapters are protected, and the kind of outline is settled by now
ReviseOutline(o) ==
  /\ Idle
  /\ progress.phase = "writing"
  /\ o.layered = outline.layered
  /\ \A ch \in progress.completed \cup {progress.inProgress} : ch <= o.chapters
  /\ outline' = o
  /\ UNCHANGED <<pending, progress, draft, final, summary, facts,
                 checkpoints, call>>

Saga == \/ SaveFinal \/ SaveSummary \/ ApplyDelta \/ SaveApplied
        \/ MarkChapter \/ MarkRewritten \/ DrainQueue \/ ApplyCompletion
        \/ SaveMarked \/ AppendCheckpoint \/ SaveSignal \/ ClearInProgress
        \/ ClearPending

Execute(ch, p) == BeginCommit(ch, p) \/ BeginRewrite(ch, p) \/ Resume(ch, p)

\* A caller that recovers a pending commit before it has another chapter
\* drafted, as the importer does.  The engine does not: see AutoCommit.
RecoverFirst(ch) == pending = NoPending \/ pending.chapter = ch

Environment ==
  \/ \E ch \in Chapters, t \in Text :
       RecoverFirst(ch) /\ (WriteDraft(ch, t) \/ RebuildDraft(ch, t))
  \/ \E chs \in SUBSET Chapters : Reopen(chs)
  \/ ReopenContinue
  \/ CompleteBook
  \/ \E o \in Outlines : ReviseOutline(o)

Next == \/ \E ch \in Chapters, p \in Payload : Execute(ch, p)
        \/ Saga
        \/ Interrupt
        \/ Environment

Spec == Init /\ [][Next]_vars

--------------------------------------------------------------------------------
(***************************************************************************)
(* Properties.                                                             *)
(***************************************************************************)

\* A chapter counts as finished once it is completed and no commit of it is
\* pending any more.
Finished(ch) == ch \in progress.completed /\ pending.chapter # ch

\* The advance gate refuses a completed chapter without a commit checkpoint, so
\* the record must outlive the checkpoint: every finished chapter has a
\* checkpoint of exactly the text and metadata now on disk.
FinishedIsCertified ==
  \A ch \in Chapters : Finished(ch) =>
    <<ch, final[ch], summary[ch]>> \in checkpoints

\* However a commit was interrupted and whatever was drafted or planned since,
\* calling commit_chapter again for the pending chapter is never rejected: the
\* record can always be worked off.
RecoveryIsNeverRefused ==
  Idle /\ pending # NoPending => Resumable

\* A call that is about to mark its chapter complete finds the book open: the
\* phase check inside MarkChapterComplete never strands a half-applied commit.
MarkingIsNeverRefused ==
  At("mark") /\ call.chapter \notin progress.completed =>
    progress.phase = "writing"

\* pending_rewrites only ever names completed chapters, and the queue and the
\* rewriting flow come and go together.
QueueMatchesFlow ==
  /\ progress.queue \subseteq progress.completed
  /\ progress.queue # {} <=> progress.flow = "rewriting"

\* Chapters are completed without gaps, so "one past the last completed chapter"
\* is the first chapter still to write.
NoGaps == \A ch \in progress.completed : \A c \in Chapters :
            c <= ch => c \in progress.completed

(***************************************************************************)
(* The inductive invariant the proofs use: what a half-done commit has     *)
(* written, by the stage of its record and the place of the running call.  *)
(***************************************************************************)
DeltaOf(p) == [s \in FactStores |-> IF s \in Touches[p] THEN {p} ELSE {}]

\* The stores already written when the call stands at a label
DoneBefore(label) ==
  CASE label = "foreshadow"    -> {"timeline"}
    [] label = "relationships" -> {"timeline", "foreshadow"}
    [] label = "state_changes" -> {"timeline", "foreshadow", "relationships"}
    [] label = "applied"       -> FactStores
    [] OTHER                   -> {}

CallFollowsRecord ==
  ~Idle =>
    /\ pending # NoPending
    /\ call.chapter = pending.chapter /\ call.rewrite = pending.rewrite
    /\ call.text = pending.text /\ call.payload = pending.payload
    /\ call.pc \in FactStores \cup {"final", "summary", "applied"}
         => pending.stage = "started"
    /\ call.pc \in {"mark", "drain", "complete", "marked"}
         => pending.stage = "state_applied"
    /\ call.pc \in {"checkpoint", "saved"} => pending.stage = "progress_marked"
    /\ call.pc \in {"clear_in_progress", "clear_pending"}
         => pending.stage = "signal_saved"
    /\ call.pc \in FactStores => ~pending.rewrite

RecordOfCompleted ==
  /\ pending # NoPending
  /\ \/ pending.rewrite
     \/ pending.stage \in {"progress_marked", "signal_saved"}
     \/ call.pc \in {"drain", "complete", "marked"}
  => pending.chapter \in progress.completed

RecordIsApplied ==
  pending # NoPending =>
    /\ pending.stage # "started" \/ call.pc \in FactStores \cup {"summary", "applied"}
         => final[pending.chapter] = pending.text
    /\ pending.stage # "started" \/ call.pc \in FactStores \cup {"applied"}
         => summary[pending.chapter] = pending.payload

FactsOfRecord ==
  pending # NoPending /\ ~pending.rewrite =>
    \A s \in FactStores :
      /\ facts[s][pending.chapter] \subseteq DeltaOf(pending.payload)[s]
      /\ pending.stage # "started" \/ s \in DoneBefore(call.pc)
         => facts[s][pending.chapter] = DeltaOf(pending.payload)[s]

CheckpointOfRecord ==
  pending # NoPending /\ (pending.stage = "signal_saved" \/ call.pc = "saved") =>
    <<pending.chapter, pending.text, pending.payload>> \in checkpoints

UnfinishedIsUntouched ==
  \A ch \in Chapters \ progress.completed : pending.chapter # ch =>
    /\ final[ch] = None /\ summary[ch] = None
    /\ \A s \in FactStores : facts[s][ch] = {}

\* Only the next chapter can have a draft before it is completed; it is protected
\* by in_progress_chapter, and no other commit is pending
DraftIsNext ==
  \A ch \in Chapters \ progress.completed : draft[ch] # None =>
    /\ progress.inProgress = ch /\ ch = NextChapter
    /\ ch <= outline.chapters
    /\ progress.phase = "writing" /\ progress.queue = {}
    /\ RecoverFirst(ch)

RecordHasDraft ==
  pending # NoPending /\ pending.chapter \notin progress.completed =>
    draft[pending.chapter] # None

CompletedInOutline == \A ch \in progress.completed : ch <= outline.chapters

HasLatest ==
  progress.completed # {} =>
    \E m \in progress.completed : \A c \in progress.completed : c <= m

IInv ==
  /\ TypeOK
  /\ CallFollowsRecord /\ RecordOfCompleted /\ RecordIsApplied
  /\ FactsOfRecord /\ CheckpointOfRecord /\ UnfinishedIsUntouched
  /\ DraftIsNext /\ RecordHasDraft /\ CompletedInOutline /\ HasLatest
  /\ FinishedIsCertified /\ QueueMatchesFlow /\ NoGaps

(***************************************************************************)
(* Refinement.  Once the record is saved the commit has happened: the book *)
(* a reader will find after recovery holds the frozen text and payload.    *)
(***************************************************************************)
InCommit(ch) == pending.chapter = ch

BookText == [ch \in Chapters |->
               IF InCommit(ch) THEN pending.text ELSE final[ch]]

BookMeta == [ch \in Chapters |->
               IF InCommit(ch) THEN pending.payload ELSE summary[ch]]

BookWorld == [ch \in Chapters |->
                IF InCommit(ch) /\ ~pending.rewrite
                  THEN DeltaOf(pending.payload)
                  ELSE [s \in FactStores |-> facts[s][ch]]]

BookOpen == progress.queue \ (IF pending.rewrite THEN {pending.chapter} ELSE {})

Atomic == INSTANCE AtomicCommit
            WITH text <- BookText, meta <- BookMeta, world <- BookWorld,
                 open <- BookOpen

\* The saga, with every interruption and every redraft in between, is an atomic
\* commit: no chapter ever mixes the text of one attempt with the facts of
\* another, and a rewrite happens once per opening of its chapter and leaves the
\* facts of the original commit alone.
ImplementsAtomicCommit == Atomic!Spec
================================================================================
