----------------------------- MODULE BookOutline ------------------------------
(***************************************************************************)
(* From the first outline to the last chapter: the planning tools          *)
(* (internal/tools), the files they write (internal/store), the gate at    *)
(* which the user confirms an outline (internal/host/outline_review.go)    *)
(* and the engine loop with its router (internal/host/engine.go,           *)
(* internal/flow).                                                         *)
(*                                                                         *)
(* A long book has a layered outline: arcs that are either expanded into   *)
(* chapters or skeletons.  outline.json is a flat view derived from it,    *)
(* progress.json holds the number of chapters.  A planning tool writes     *)
(* these files one after the other; the process may die between any two.   *)
(* A short book has only the flat outline.                                 *)
(*                                                                         *)
(* The phases init, premise and outline are one ("planning"): nothing      *)
(* looks at their difference.  Committing a chapter is one step here; its  *)
(* own steps, and the rewrite queue, are those of CommitSaga.  The         *)
(* arbiter's dispatches after a failure are among its messages.            *)
(*                                                                         *)
(* The arbiter may send any worker, and the engine runs it without asking  *)
(* the router.  sent and ahead are no state of the code: they remember     *)
(* that this happened, for the properties that have it as an exception.    *)
(***************************************************************************)
EXTENDS Naturals, Sequences, FiniteSets

CONSTANTS
  Texts,        \* contents of a chapter's entry
  Settings,     \* contents of premise, characters and world rules
  Openings,     \* the outlines with which an architect opens a book
  Payloads,     \* the chapter lists with which it goes on
  MaxChapters,  \* bound on the chapters outlined
  MaxArcs,      \* bound on the arcs
  Units,        \* writing units of a chapter
  Dispatched,   \* the workers that the arbiter may dispatch for a message
  MaxDisturbances, \* bound on pauses, feedback, messages, reopenings, crashes
  MaxCrashes,   \* bound on crashes
  None

Chapters == 1..MaxChapters

ASSUME BoundsAssumption ==
  /\ MaxChapters \in Nat \ {0} /\ MaxArcs \in Nat \ {0} /\ Units \in Nat \ {0}
  /\ MaxDisturbances \in Nat /\ MaxCrashes \in Nat
  /\ None \notin Settings /\ Payloads \subseteq Seq(Texts)
  /\ Dispatched \subseteq {"architect", "planner", "writer"}

--------------------------------------------------------------------------------
(***************************************************************************)
(* Outlines.  entries are the chapters in their global order; ends[i] is   *)
(* the number of the last chapter of arc i, a skeleton having none.        *)
(***************************************************************************)

NoOutline == [entries |-> <<>>, ends |-> <<>>, final |-> FALSE]

ArcStart(o, i) == IF i = 1 THEN 0 ELSE o.ends[i - 1]
Skeleton(o, i) == o.ends[i] = ArcStart(o, i)
Skeletons(o)   == {i \in DOMAIN o.ends : Skeleton(o, i)}

\* What the files of an outline can hold
OutlineShape(o) ==
  /\ o \in [entries : Seq(Texts), ends : Seq(Nat), final : BOOLEAN]
  /\ \A i, j \in DOMAIN o.ends : i <= j => o.ends[i] <= o.ends[j]
  /\ o.ends # <<>> => o.ends[Len(o.ends)] = Len(o.entries)

\* architect-long.md: the first arc has its chapters
ASSUME OpeningsAssumption ==
  \A o \in Openings :
    /\ OutlineShape(o)
    /\ o.entries # <<>>
    /\ o.ends # <<>> => o.ends[1] > 0

\* EstimatedChapterCapacity, one chapter being estimated for a skeleton
Capacity(o) == Len(o.entries) + Cardinality(Skeletons(o))

\* A bound: every skeleton can still be expanded
Fits(o) == Capacity(o) <= MaxChapters /\ Len(o.ends) <= MaxArcs

\* Arc i keeps the chapters up to keep and goes on with new ones
Splice(o, i, keep, new) ==
  [entries |-> SubSeq(o.entries, 1, keep) \o new
                 \o SubSeq(o.entries, o.ends[i] + 1, Len(o.entries)),
   ends    |-> [j \in DOMAIN o.ends |->
                  IF j < i THEN o.ends[j]
                           ELSE keep + Len(new) + (o.ends[j] - o.ends[i])],
   final   |-> o.final]

\* expandArcUnlocked
Expanded(o, i, new) == Splice(o, i, o.ends[i], new)

\* appendVolumeUnlocked: an expanded arc, and perhaps a skeleton
Appended(o, new, more, fin) ==
  [entries |-> o.entries \o new,
   ends    |-> o.ends \o [i \in 1..(IF more THEN 2 ELSE 1)
                            |-> Len(o.entries) + Len(new)],
   final   |-> fin]

\* The arc whose tail reviseLayeredTail replaces: the one that has the chapter,
\* the last expanded one for the chapter after the last
Revised(o, from, i) ==
  \/ ArcStart(o, i) < from /\ from <= o.ends[i]
  \/ /\ from = Len(o.entries) + 1
     /\ ~Skeleton(o, i)
     /\ \A j \in DOMAIN o.ends : j > i => Skeleton(o, j)

--------------------------------------------------------------------------------
VARIABLES
  settings,    \* premise.md, characters.json and world_rules.json, or None
  compass,     \* meta/compass.json: threads still open or not, or None
  layered,     \* layered_outline.json
  flat,        \* outline.json
  total,       \* progress: TotalChapters
  longForm,    \* progress: Layered
  phase,       \* progress: Phase
  completed,   \* progress: the chapters 1..completed are committed
  inProgress,  \* progress: InProgressChapter
  audit,       \* {} or {fingerprint of the last audit, which found the book ready}
  conf,        \* {} or {fingerprint of the outline the user confirmed last}
  plans,       \* chapters with a drafts/NN.plan.json
  units,       \* units of every chapter that are written
  call,        \* the writes that the running tool still has to do
  engine,      \* "stopped", "loop" at a boundary, or the worker that runs
  next,        \* engine.next
  confirming,  \* the ConfirmOutline request of the user
  messages, crashes,
  sent,        \* the planner or writer that runs, or ran last, was sent
  ahead        \* a writer that was sent wrote a chapter out of its turn

foundation == <<settings, compass, layered, flat>>
progress   == <<total, longForm, phase, completed, inProgress>>
gates      == <<audit, conf>>
drafts     == <<plans, units>>
control    == <<engine, next, confirming, messages, crashes>>
codeVars == <<foundation, progress, gates, drafts, call, control>>
vars == <<codeVars, sent, ahead>>

\* A tool between two writes: the one that comes next, the number of chapters
\* it will save, the form it gives the book, whether its turn ends with it
IdleCall == [write |-> "none", total |-> 0, form |-> "kept", ends |-> FALSE,
             chapter |-> 0]

BookInit ==
  /\ settings = None /\ compass = None /\ layered = NoOutline /\ flat = <<>>
  /\ total = 0 /\ longForm = FALSE /\ phase = "planning"
  /\ completed = 0 /\ inProgress = 0
  /\ audit = {} /\ conf = {}
  /\ plans = {} /\ units = [ch \in Chapters |-> 0]
  /\ call = IdleCall
  /\ engine = "loop" /\ next = "architect" /\ confirming = "no"
  /\ messages = 0 /\ crashes = 0
  /\ sent = FALSE /\ ahead = FALSE

Idle == call = IdleCall

NextChapter == completed + 1

\* What the steps of engine and user mostly leave alone
Files == <<foundation, progress, gates, drafts>>

--------------------------------------------------------------------------------
(***************************************************************************)
(* The gate (store.go: FoundationMissing, FoundationFingerprint,           *)
(* FoundationReview).                                                      *)
(***************************************************************************)

\* The compass is part of a long book only
Fingerprint ==
  [settings |-> settings, flat |-> flat, layered |-> layered,
   compass  |-> IF layered = NoOutline THEN None ELSE compass]

ArtifactMissing ==
  \/ settings = None \/ flat = <<>>
  \/ layered # NoOutline /\ compass = None

\* An audit is asked for during planning only
FoundationMissing ==
  ArtifactMissing \/ (phase = "planning" /\ Fingerprint \notin audit)

Confirmed == Fingerprint \in conf

\* Mutant: once a book is written, its outline is not confirmed again
AwaitingBeforeWriting ==
  /\ phase # "complete" /\ ~FoundationMissing
  /\ ~Confirmed /\ phase = "planning"

\* A book that is written and was never confirmed is not held up
Awaiting ==
  /\ phase # "complete" /\ ~FoundationMissing
  /\ ~Confirmed
  /\ phase = "writing" => conf # {}

--------------------------------------------------------------------------------
(***************************************************************************)
(* The router.                                                             *)
(***************************************************************************)

\* CheckArcBoundary of the last chapter: the arc is written
ArcWritten(i) == ~Skeleton(layered, i) /\ layered.ends[i] = completed

ExpansionDue ==
  /\ longForm /\ completed > 0
  /\ \E i \in DOMAIN layered.ends : ArcWritten(i) /\ i + 1 \in Skeletons(layered)

VolumeDue ==
  /\ longForm /\ completed > 0
  /\ \E i \in DOMAIN layered.ends : ArcWritten(i) /\ i = Len(layered.ends)

OutlineUsedUp == ~longForm /\ total > 0 /\ NextChapter > total

\* EnsureChapterExpanded, for chapter ch of a book that is being written
InOutline(ch) == longForm => ch <= Len(layered.entries)

\* Mutant: one unit too many is waited for
UnitsWrittenLate == NextChapter \in plans /\ units[NextChapter] > Units

UnitsWritten == NextChapter \in plans /\ units[NextChapter] = Units

\* What an architect has to do before the next chapter
OutlineWorkDue ==
  ExpansionDue \/ VolumeDue \/ OutlineUsedUp \/ ~InOutline(NextChapter)

RouteOfWriting ==
  IF UnitsWritten THEN "commit"
  ELSE IF Awaiting THEN "stop"
  ELSE IF OutlineWorkDue THEN "architect"
  ELSE IF NextChapter \notin plans THEN "planner" ELSE "writer"

\* automaticCommitChapter, Route, planStartFallback and precheck
Route ==
  CASE phase = "complete" -> "stop"
    [] phase = "planning" -> IF FoundationMissing THEN "architect" ELSE "stop"
    [] phase = "writing"  -> RouteOfWriting

--------------------------------------------------------------------------------
(***************************************************************************)
(* The tools of an architect.  A call's first write is the step that       *)
(* makes it: what comes before only reads.                                 *)
(***************************************************************************)

Architect == engine = "architect" /\ Idle

Wrote(write, n, form, ends) ==
  call' = [write |-> write, total |-> n, form |-> form, ends |-> ends, chapter |-> 0]

\* A layered outline is saved first, then the views made from it, then the total
SaveLayered(o, form, ends) ==
  /\ Fits(o)
  /\ layered' = o
  /\ Wrote("flat", Capacity(o), form, ends)
  /\ UNCHANGED <<settings, compass, flat, progress, gates, drafts, control>>

SaveFlat(entries, form) ==
  /\ Len(entries) <= MaxChapters
  /\ flat' = entries
  /\ Wrote("total", Len(entries), form, FALSE)
  /\ UNCHANGED <<settings, compass, layered, progress, gates, drafts, control>>

\* save_foundation, types premise, characters, world_rules
SaveSettings(s) ==
  /\ Architect /\ settings' = s
  /\ UNCHANGED <<compass, layered, flat, progress, gates, drafts, call, control>>

\* save_foundation, type update_compass
UpdateCompass(c) ==
  /\ Architect /\ compass' = c
  /\ UNCHANGED <<settings, layered, flat, progress, gates, drafts, call, control>>

\* save_foundation, type layered_outline
SaveLayeredOutline(o) ==
  /\ Architect /\ phase = "planning"
  /\ o.ends # <<>>
  /\ SaveLayered(o, "long", FALSE)

\* save_foundation, type outline, of a book that is not long
SaveOutline(o) ==
  /\ Architect /\ phase = "planning"
  /\ o.ends = <<>>
  /\ SaveFlat(o.entries, "short")

\* save_foundation, type expand_arc: no phase is asked for
ExpandArc(i, new) ==
  /\ Architect
  /\ i \in Skeletons(layered) /\ new # <<>>
  /\ SaveLayered(Expanded(layered, i, new), "kept", TRUE)

\* save_foundation, type append_volume
AppendVolume(new, more, fin) ==
  /\ Architect /\ phase # "complete"
  /\ layered # NoOutline /\ new # <<>>
  /\ SaveLayered(Appended(layered, new, more, fin), "kept", FALSE)

\* The same volume once more
RepeatVolume ==
  /\ Architect /\ phase # "complete"
  /\ layered # NoOutline
  /\ SaveLayered(layered, "kept", FALSE)

\* Mutant: the chapter that is being written is not protected
RevisableAfterCompleted(from) == phase # "complete" /\ from > completed

\* Chapters that are completed or being written are protected
Revisable(from) ==
  /\ phase # "complete"
  /\ from > completed /\ from > inProgress

\* revise_outline of a layered book
ReviseLayered(from, new) ==
  /\ Architect /\ Revisable(from) /\ longForm
  /\ \E i \in DOMAIN layered.ends :
       /\ Revised(layered, from, i)
       /\ from - 1 - ArcStart(layered, i) + Len(new) > 0
       /\ SaveLayered(Splice(layered, i, from - 1, new), "kept", FALSE)

\* revise_outline of a flat one: everything from the chapter on is replaced
ReviseFlat(from, new) ==
  /\ Architect /\ Revisable(from) /\ ~longForm
  /\ flat # <<>> /\ from <= Len(flat) + 1
  /\ from - 1 + Len(new) > 0
  /\ SaveFlat(SubSeq(flat, 1, from - 1) \o new, "kept")

\* audit_foundation: nothing asks for the audit of a book that is being written
AuditReady ==
  /\ Architect /\ phase = "planning"
  /\ ~ArtifactMissing
  /\ audit' = {Fingerprint}
  /\ engine' = "loop"
  /\ UNCHANGED <<foundation, progress, conf, drafts, call, next, confirming,
                 messages, crashes>>

AuditRejects ==
  /\ Architect /\ phase = "planning"
  /\ ~ArtifactMissing
  /\ audit' = {}
  /\ UNCHANGED <<foundation, progress, conf, drafts, call, control>>

\* Mutant: the number of chapters alone is asked for
CompletableByTotal ==
  /\ phase = "writing" /\ completed > 0 /\ compass # "open"
  /\ longForm \/ NextChapter > total

\* save_foundation, type complete_book: arcs not expanded are not asked for
Completable ==
  /\ phase = "writing" /\ completed > 0 /\ compass # "open"
  /\ IF longForm THEN NextChapter > Len(flat)
                 ELSE total > 0 => NextChapter > total

CompleteBook ==
  /\ Architect /\ Completable
  /\ phase' = "complete" /\ inProgress' = inProgress
  /\ engine' = "loop"
  /\ UNCHANGED <<foundation, total, longForm, completed, gates, drafts, call,
                 next, confirming, messages, crashes>>

--------------------------------------------------------------------------------
(***************************************************************************)
(* The writes that follow.                                                 *)
(***************************************************************************)

Done == /\ call' = IdleCall
        /\ engine' = IF call.ends THEN "loop" ELSE engine

\* Mutant: the progress is not told how many chapters there are
WriteFlatOnly ==
  /\ call.write = "flat"
  /\ flat' = layered.entries
  /\ call' = IdleCall /\ engine' = (IF call.ends THEN "loop" ELSE engine)
  /\ UNCHANGED <<settings, compass, layered, progress, gates, drafts, next,
                 confirming, messages, crashes>>

WriteFlat ==
  /\ call.write = "flat"
  /\ flat' = layered.entries
  /\ call' = [call EXCEPT !.write = "total"]
  /\ UNCHANGED <<settings, compass, layered, progress, gates, drafts, control>>

WriteTotal ==
  /\ call.write = "total"
  /\ total' = call.total
  /\ IF call.form = "kept"
     THEN Done
     ELSE call' = [call EXCEPT !.write = "form"] /\ UNCHANGED engine
  /\ UNCHANGED <<foundation, longForm, phase, completed, inProgress, gates,
                 drafts, next, confirming, messages, crashes>>

\* SetLayered
WriteForm ==
  /\ call.write = "form"
  /\ longForm' = (call.form = "long")
  /\ IF longForm'
     THEN Done
     ELSE call' = [call EXCEPT !.write = "clear"] /\ UNCHANGED engine
  /\ UNCHANGED <<foundation, total, phase, completed, inProgress, gates, drafts,
                 next, confirming, messages, crashes>>

ClearLayered ==
  /\ call.write = "clear"
  /\ layered' = NoOutline
  /\ Done
  /\ UNCHANGED <<settings, compass, flat, progress, gates, drafts, next,
                 confirming, messages, crashes>>

--------------------------------------------------------------------------------
(***************************************************************************)
(* The chapter planner and the writer.  Each stops with the call it is     *)
(* for.                                                                    *)
(***************************************************************************)

\* plan_chapter: the chapter is the planner's choice
PlanChapter(ch) ==
  /\ engine = "planner" /\ Idle
  /\ phase = "writing" /\ InOutline(ch)
  /\ ch > completed /\ ch \notin plans
  /\ plans' = plans \cup {ch}
  /\ call' = [IdleCall EXCEPT !.write = "start", !.ends = TRUE, !.chapter = ch]
  /\ UNCHANGED <<foundation, progress, gates, units, control>>

StartChapter ==
  /\ call.write = "start"
  /\ inProgress' = call.chapter
  /\ Done
  /\ UNCHANGED <<foundation, total, longForm, phase, completed, gates, drafts,
                 next, confirming, messages, crashes>>

\* resolveWriterChapter
WriterChapter == IF inProgress > 0 THEN inProgress ELSE NextChapter

WriteUnit ==
  /\ engine = "writer" /\ Idle
  /\ phase = "writing" /\ InOutline(WriterChapter)
  /\ WriterChapter \in plans /\ WriterChapter > completed
  /\ units[WriterChapter] < Units
  /\ units' = [units EXCEPT ![WriterChapter] = @ + 1]
  /\ inProgress' = WriterChapter
  /\ engine' = "loop"
  /\ UNCHANGED <<foundation, total, longForm, phase, completed, gates, plans,
                 call, next, confirming, messages, crashes>>

--------------------------------------------------------------------------------
(***************************************************************************)
(* The engine.                                                             *)
(***************************************************************************)

\* precheck
Checked(worker) ==
  IF worker = "architect" THEN "architect"
  ELSE IF phase # "writing" THEN "stopped"
  ELSE IF InOutline(NextChapter) THEN worker ELSE "architect"

\* A dispatch is run before the router is asked
TakeNext ==
  /\ engine = "loop" /\ next # None
  /\ next' = None
  /\ engine' = IF phase = "complete" THEN "loop" ELSE Checked(next)
  /\ UNCHANGED <<Files, call, confirming, messages, crashes>>

DispatchRouted ==
  /\ engine = "loop" /\ next = None
  /\ Route \in {"architect", "planner", "writer"}
  /\ engine' = Route
  /\ inProgress' = IF Route = "writer" THEN NextChapter ELSE inProgress
  /\ UNCHANGED <<foundation, total, longForm, phase, completed, gates, drafts,
                 call, next, confirming, messages, crashes>>

\* Nothing to do, or a commit that is refused
StopAtBoundary ==
  /\ engine = "loop" /\ next = None
  /\ \/ Route = "stop"
     \/ Route = "commit" /\ ~InOutline(NextChapter)
  /\ engine' = "stopped"
  /\ UNCHANGED <<Files, call, next, confirming, messages, crashes>>

\* layeredStructurallyComplete, ch being the last chapter written
Structurally(ch) ==
  /\ layered.entries # <<>> /\ Skeletons(layered) = {}
  /\ ch >= Len(layered.entries)

\* layeredComplete, applyCompletion; whether foreshadows are left is not known
Finishes(ch) ==
  IF longForm THEN IF layered.final THEN {Structurally(ch)}
                   ELSE {FALSE, Structurally(ch) /\ compass = "closed"}
              ELSE {total > 0 /\ ch >= total}

\* CommitCompletedChapter
CommitChapter ==
  /\ engine = "loop" /\ next = None
  /\ Route = "commit" /\ InOutline(NextChapter)
  /\ completed' = NextChapter /\ inProgress' = 0
  /\ \E finished \in Finishes(NextChapter) :
       phase' = IF finished THEN "complete" ELSE phase
  /\ UNCHANGED <<foundation, total, longForm, gates, drafts, call, control>>

\* A worker ends, whether it did what it was asked or not
TurnEnds ==
  /\ engine \notin {"stopped", "loop"} /\ Idle
  /\ engine' = "loop"
  /\ UNCHANGED <<Files, call, next, confirming, messages, crashes>>

--------------------------------------------------------------------------------
(***************************************************************************)
(* The user, and the end of the process.                                   *)
(***************************************************************************)

Disturb ==
  /\ messages + crashes < MaxDisturbances
  /\ messages' = messages + 1

\* Abort, a hold, the budget, a worker that fails for good
Pause ==
  /\ Disturb
  /\ engine # "stopped" /\ Idle
  /\ engine' = "stopped"
  /\ UNCHANGED <<Files, call, next, confirming, crashes>>

Resume ==
  /\ engine = "stopped" /\ phase # "complete"
  /\ engine' = "loop"
  /\ UNCHANGED <<Files, call, next, confirming, messages, crashes>>

\* ConfirmOutline: the engine and the gate are looked at first
Confirm ==
  /\ confirming = "no"
  /\ engine = "stopped" /\ Awaiting
  /\ confirming' = "checked"
  /\ UNCHANGED <<Files, call, engine, next, messages, crashes>>

StoreConfirmation ==
  /\ confirming = "checked"
  /\ IF ArtifactMissing THEN confirming' = "no" /\ UNCHANGED conf
                        ELSE confirming' = "stored" /\ conf' = {Fingerprint}
  /\ UNCHANGED <<foundation, progress, audit, drafts, call, engine, next,
                 messages, crashes>>

\* The audit of a book that is written is forgotten here: nothing reads it
EnterWriting ==
  /\ confirming = "stored"
  /\ confirming' = "no"
  /\ IF phase = "complete"
     THEN UNCHANGED <<phase, audit, engine>>
     ELSE /\ phase' = "writing" /\ audit' = {}
          /\ engine' = IF engine = "stopped" THEN "loop" ELSE engine
  /\ UNCHANGED <<foundation, total, longForm, completed, inProgress, conf, drafts,
                 call, next, messages, crashes>>

\* SubmitOutlineFeedback
Feedback ==
  /\ Disturb
  /\ engine = "stopped" /\ Awaiting
  /\ next' = "architect" /\ engine' = "loop"
  /\ UNCHANGED <<Files, call, confirming, crashes>>

\* An intervention whose dispatch is applied at a boundary, or starts the engine
Message(worker) ==
  /\ Disturb
  /\ engine \in {"stopped", "loop"}
  /\ next' = worker /\ engine' = "loop"
  /\ UNCHANGED <<Files, call, confirming, crashes>>

\* The user goes on with a book that was complete
Reopen ==
  /\ Disturb
  /\ engine = "stopped" /\ phase = "complete"
  /\ phase' = "writing"
  /\ UNCHANGED <<foundation, total, longForm, completed, inProgress, gates, drafts,
                 call, engine, next, confirming, crashes>>

Crash ==
  /\ crashes < MaxCrashes /\ messages + crashes < MaxDisturbances
  /\ crashes' = crashes + 1
  /\ call' = IdleCall /\ engine' = "stopped" /\ next' = None /\ confirming' = "no"
  /\ UNCHANGED <<Files, messages>>

--------------------------------------------------------------------------------
ArchitectCalls ==
  \/ \E s \in Settings : SaveSettings(s)
  \/ \E c \in {"open", "closed"} : UpdateCompass(c)
  \/ \E o \in Openings : SaveLayeredOutline(o)
  \/ \E o \in Openings : SaveOutline(o)
  \/ \E i \in 1..MaxArcs, new \in Payloads : ExpandArc(i, new)
  \/ \E new \in Payloads, more, fin \in BOOLEAN : AppendVolume(new, more, fin)
  \/ RepeatVolume
  \/ \E from \in Chapters, new \in Payloads : ReviseLayered(from, new)
  \/ \E from \in Chapters, new \in Payloads : ReviseFlat(from, new)
  \/ AuditReady \/ AuditRejects \/ CompleteBook

CallWrites == WriteFlat \/ WriteTotal \/ WriteForm \/ ClearLayered \/ StartChapter

OtherCalls == (\E ch \in Chapters : PlanChapter(ch)) \/ WriteUnit

EngineSteps ==
  TakeNext \/ DispatchRouted \/ StopAtBoundary \/ CommitChapter \/ TurnEnds

UserSteps ==
  \/ Pause \/ Resume \/ Confirm \/ StoreConfirmation \/ EnterWriting
  \/ Feedback \/ Reopen
  \/ \E worker \in Dispatched : Message(worker)

CodeStep ==
  ArchitectCalls \/ CallWrites \/ OtherCalls \/ EngineSteps \/ UserSteps \/ Crash

\* The router's turn is the next chapter, when no arc before it is a skeleton
InTurn(ch) ==
  /\ ch = NextChapter
  /\ longForm => \A i \in Skeletons(layered) : ch <= layered.ends[i]

Remember ==
  /\ sent' = IF engine = "loop" /\ engine' \in {"planner", "writer"}
             THEN next # None ELSE sent
  /\ ahead' = (ahead \/ (sent /\ units' # units /\ ~InTurn(WriterChapter)))

BookNext == CodeStep /\ Remember

BookSpec == BookInit /\ [][BookNext]_vars

(***************************************************************************)
(* Fairness.  Tools, engine and turns come to an end.  A worker that is    *)
(* asked again and again does once what it is asked for: the arc that      *)
(* comes next, the end of the book, the next chapter's plan, a unit.  A    *)
(* user comes back to a book that stopped.                                 *)
(***************************************************************************)
ExpandNextArc ==
  \E i \in 1..(MaxArcs - 1), new \in Payloads :
    i \in DOMAIN layered.ends /\ ArcWritten(i) /\ ExpandArc(i + 1, new)

CloseThreads == (VolumeDue \/ OutlineUsedUp) /\ UpdateCompass("closed")

Fairness ==
  /\ WF_codeVars(CallWrites) /\ WF_codeVars(EngineSteps) /\ SF_codeVars(TurnEnds)
  /\ SF_codeVars(ExpandNextArc) /\ SF_codeVars(CloseThreads) /\ SF_codeVars(CompleteBook)
  /\ SF_codeVars(NextChapter <= MaxChapters /\ PlanChapter(NextChapter))
  /\ SF_codeVars(WriteUnit)
  /\ WF_codeVars(Resume)
  /\ SF_codeVars(Confirm) /\ WF_codeVars(StoreConfirmation) /\ WF_codeVars(EnterWriting)

FairBookSpec == BookSpec /\ Fairness

--------------------------------------------------------------------------------
(***************************************************************************)
(* Properties.                                                             *)
(***************************************************************************)

BookTypeOK ==
  /\ OutlineShape(layered) /\ flat \in Seq(Texts)
  /\ total \in Nat /\ longForm \in BOOLEAN
  /\ phase \in {"planning", "writing", "complete"}
  /\ completed \in Nat /\ inProgress \in Nat
  /\ plans \subseteq Chapters /\ units \in [Chapters -> 0..Units]
  /\ call \in [write : {"none", "flat", "total", "form", "clear", "start"},
               total : Nat, form : {"kept", "long", "short"}, ends : BOOLEAN,
               chapter : Nat]
  /\ engine \in {"stopped", "loop", "architect", "planner", "writer"}
  /\ next \in Dispatched \cup {"architect", None}
  /\ confirming \in {"no", "checked", "stored"}
  /\ sent \in BOOLEAN /\ ahead \in BOOLEAN

\* What a book is written from
Entries == IF longForm THEN layered.entries ELSE flat

\* A first layered outline whose save was cut off leaves a book of no form
FormKnown == longForm <=> layered # NoOutline

Written(ch) == ch <= completed \/ units[ch] > 0

NothingWritten == completed = 0 /\ \A ch \in Chapters : units[ch] = 0

\* The calls and their workers; an outline that replaces another one comes
\* before the first chapter
CallInv ==
  /\ call.write = "none" => call = IdleCall
  /\ call.write = "start" =>
       engine = "planner" /\ call.form = "kept" /\ call.chapter > completed
  /\ call.write \in {"flat", "total", "form", "clear"} => engine = "architect"
  /\ call.form # "kept" => NothingWritten
  /\ call.form = "long" \/ call.write = "flat" => layered # NoOutline
  /\ call.write \in {"form", "clear"} => call.form # "kept"
  /\ call.write = "clear" => ~longForm

\* A chapter with units is completed, or it is the next one and what is marked
\* as being written does not lie before it
BegunInv ==
  /\ phase = "planning" => NothingWritten
  /\ ~ahead => \A ch \in Chapters : units[ch] > 0 =>
                 ch <= completed \/ (ch = NextChapter /\ ch <= inProgress)
  /\ engine = "writer" /\ ~sent => inProgress = NextChapter

\* The arcs of a long book that are still skeletons lie behind all that is
\* written, and behind what a routed writer is about to write
SkeletonInv ==
  /\ layered # NoOutline => layered.ends # <<>> /\ layered.ends[1] > 0
  /\ longForm => layered # NoOutline
  /\ longForm /\ ~ahead =>
       /\ completed <= Len(layered.entries)
       /\ \A ch \in Chapters : units[ch] > 0 => ch <= Len(layered.entries)
       /\ \A i \in Skeletons(layered) :
            /\ completed <= layered.ends[i]
            /\ \A ch \in Chapters : units[ch] > 0 => ch <= layered.ends[i]
            /\ engine = "writer" /\ ~sent => NextChapter <= layered.ends[i]

BookIInv == BookTypeOK /\ CallInv /\ BegunInv /\ SkeletonInv

\* Whatever outline tools an architect calls, in whatever order, whenever the
\* process dies: a chapter keeps the number and the entry it was written from
\* (outline_review.go:134, store.go:426-480), until a writer that the arbiter
\* sent past the router writes a chapter that is not the next one, or one that
\* lies behind an arc not yet expanded (intervention.go:222, engine.go:632-636).
WrittenEntriesKept ==
  [][FormKnown /\ FormKnown' /\ ~ahead =>
       \A ch \in Chapters :
         Written(ch) /\ ch \in DOMAIN Entries =>
           ch \in DOMAIN Entries' /\ Entries'[ch] = Entries[ch]]_vars

\* The same without the exception: TLC finds it violated, see the README
BegunEntriesKept ==
  [][FormKnown /\ FormKnown' =>
       \A ch \in Chapters :
         Written(ch) /\ ch \in DOMAIN Entries =>
           ch \in DOMAIN Entries' /\ Entries'[ch] = Entries[ch]]_vars

\* Between two calls the flat view and the total are those of the outline,
\* as long as no process died in the middle of a save (outline.go:315-317).
ViewsAgree ==
  crashes = 0 /\ Idle =>
    /\ FormKnown
    /\ longForm => flat = layered.entries /\ total = Capacity(layered)
    /\ ~longForm => total = Len(flat)

\* No chapter is planned or written from an outline that the user has not
\* confirmed in this form, but for two cases: a file of the foundation is missing,
\* the gate does not look at an incomplete one (store.go:285-286,
\* router.go:141-147); or the arbiter sent the worker, which the engine runs
\* without asking the router (engine.go:198-199, 632-636, 705-710).
ForwardWorkConfirmed ==
  engine \in {"planner", "writer"} => Confirmed \/ ArtifactMissing \/ sent

\* The same for the workers that are sent: violated, see the README
AllWorkConfirmed ==
  engine \in {"planner", "writer"} => Confirmed \/ ArtifactMissing

\* As long as no process died, a book is not declared complete while a chapter of
\* its outline is unwritten
CompletedWhenWritten ==
  [][crashes = 0 /\ phase # "complete" /\ phase' = "complete"
       => completed' >= Len(Entries)]_vars

\* A book that is being written gets chapter after chapter, up to the bound, or
\* its end, through every gate, expansion and volume on the way, as long as no
\* process dies (commit_chapter.go:803-806 tells of a book for which this failed).
ChapterByChapter ==
  (phase = "writing" /\ crashes = 0)
    ~> (phase = "complete" \/ completed = MaxChapters \/ crashes > 0)

================================================================================
