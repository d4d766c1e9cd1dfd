------------------------------- MODULE Import -------------------------------
(***************************************************************************)
(* The import of an existing novel (internal/host/imp, host/import.go).    *)
(*                                                                         *)
(* Nine stages turn a source text into a book.  No stage is recorded: the  *)
(* next one is derived from the artifacts of the workspace, each of which  *)
(* carries a digest of what it was made from, and from the book.  A digest *)
(* is the tuple of its inputs here.  What a model answers is chosen from   *)
(* small sets, and may differ when it is asked again.                      *)
(***************************************************************************)
EXTENDS Integers, Sequences, FiniteSets

CONSTANTS
  None,
  Own,         \* what a book held before the import
  Splits,      \* what the model may answer to the segmentation: chapters
  MaxChapters, \* that a split may have
  Guides,      \* guidances the user may give to it
  Reports,     \* what the model may make of the text of a chapter
  Worlds,      \* world evidence of a deep extraction
  Answers,     \* what the synthesis may answer: [premise, status]
  Windows,     \* sizes of the near window of the deep extraction
  Default,     \* the one of a request that names none
  Books,       \* books an import may begin with
  Holds,       \* the hold that may be set then
  Requests,    \* the options of the requests to start or to go on
  Raised,      \* the prompts a newer program may bring
  MaxUpgrades  \* how often that happens

Stages == {"segment", "analyze", "deep", "synthesize"}
Choices == {"open", "closed"}
Statuses == Choices \cup {"uncertain"}

Options == [guide: Guides \cup {None}, reset: BOOLEAN, story: Choices \cup {None},
            cont: BOOLEAN, deep: Windows \cup {None}, accept: BOOLEAN]

Texts == UNION {{s[i] : i \in DOMAIN s} : s \in Splits}
Facts == Texts \X Reports
Workspaces == [story: Choices \cup {None}, cont: BOOLEAN, deep: Windows]
Segmentations == [of: ({None} \cup Guides) \X Nat, chapters: Splits]
Analyses ==
  [of: (({None} \cup Guides) \X Nat) \X Nat \X Nat \X Texts, light: Facts,
   world: {None} \cup Worlds, deep: {None} \cup Nat, ledger: Seq(Facts)]
Outlines == [entries: Seq(Facts), final: BOOLEAN]

ASSUME WindowsAssumption == Windows \subseteq Nat /\ Default \in Windows
ASSUME UpgradesAssumption == MaxUpgrades \in Nat /\ Raised \subseteq Stages
ASSUME NoneAssumption ==
  /\ None \notin Windows /\ None \notin Guides \cup Worlds \cup Choices \cup {Own, "import"}
  /\ None \notin Workspaces /\ None \notin Outlines /\ None \notin Analyses
\* Splits of one text: none is a beginning of another
ASSUME SplitsAssumption ==
  /\ MaxChapters \in Nat
  /\ Splits \subseteq Seq(Texts)
  /\ \A s \in Splits : Len(s) \in 1..MaxChapters
  /\ \A s, t \in Splits : Len(s) < Len(t) => \E i \in 1..Len(s) : s[i] # t[i]
ASSUME AnswersAssumption == \A a \in Answers : a.status \in Statuses /\ a.premise # Own
ASSUME RequestsAssumption ==
  \A o \in Requests : o \in Options /\ ~o.reset /\ ~o.accept
OwnOutlines == Seq({Own})
ASSUME BooksAssumption ==
  \A b \in Books :
    /\ b.premise \in {None, Own} /\ b.flat \in OwnOutlines
    /\ b.phase \in {"init", "premise", "outline", "writing"}

VARIABLES
  ws,        \* intent.json of the workspace, None: no workspace
  guide,     \* guidance.txt
  seg,       \* segmentation.json
  conf,      \* confirmation.json: the segmentation it is bound to
  ana,       \* analyses/NNNNNN.json
  syn,       \* synthesis.json
  res,       \* story-resolution.json
  premise,   \* premise, characters and world rules of the book
  layered,   \* layered_outline.json
  flat,      \* outline.json
  phase,     \* of progress.json
  book,      \* the chapters that are committed
  hold,      \* the hold of run.json: None, "import" or Own
  run,       \* the runner: where it is, its options, the facts it saw last
  session,   \* the state the web shows, and its flag to go on writing
  engine,    \* the engine was started by the import
  version,   \* of the prompts of the running program
  asked      \* history: who asked to go on writing after the import

workspace == <<ws, guide, seg, conf, ana, syn, res>>
store == <<premise, layered, flat, phase, book, hold>>
host == <<session, engine, version, asked>>
vars == <<workspace, store, run, host>>

Ranks == [init |-> 1, premise |-> 2, outline |-> 3, writing |-> 4]
Numbers == 1..MaxChapters

(***************************************************************************)
(* What the artifacts say.                                                 *)
(***************************************************************************)
SegIdentity == <<guide, version["segment"]>>
Total == Len(seg.chapters)

\* The digest of an analysis: split, prompt, number and text of its chapter.
ChapterIdentity(i) == <<seg.of, version["analyze"], i, seg.chapters[i]>>
Fresh(i) == ana[i] # None /\ ana[i].of = ChapterIdentity(i)
AnalyzedChapters == Cardinality({n \in 1..Total : \A i \in 1..n : Fresh(i)})

DeepFresh(i) == Fresh(i) /\ ana[i].deep = version["deep"]
WindowStart == IF ws.deep >= Total THEN 1 ELSE Total - ws.deep + 1
DeepDue == {i \in WindowStart..Total : ~DeepFresh(i)}

\* The digest of the synthesis: what the compact view keeps of the facts.
SynIdentity == <<[i \in 1..Total |-> <<ana[i].light, ana[i].world>>], version["synthesize"]>>
ResolutionFresh == res # None /\ res.of = syn

\* The formal book is only counted, against the split that is stored.
IsPublished ==
  /\ seg # None
  /\ premise # None
  /\ Len(flat) >= Total
  /\ Len(book) >= Total

\* Mutant: the confirmation is bound to the question, not to the split
FactsByQuestion ==
  LET segmented == ws # None /\ seg # None /\ seg.of = SegIdentity
      confirmed == segmented /\ conf # None /\ conf.of = seg.of
      analyzed == IF confirmed THEN AnalyzedChapters ELSE 0
      deep == confirmed /\ analyzed = Total /\ DeepDue = {}
      synthesized == deep /\ syn # None /\ syn.of = SynIdentity
  IN  [ready |-> ws # None, segmented |-> segmented, confirmed |-> confirmed,
       expected |-> IF segmented THEN Total ELSE 0, analyzed |-> analyzed,
       deep |-> deep, synthesized |-> synthesized,
       uncertain |-> synthesized /\ syn.status = "uncertain",
       resolved |-> synthesized /\ (ResolutionFresh \/ ws.story # None),
       published |-> IsPublished]

CollectFacts ==
  LET segmented == ws # None /\ seg # None /\ seg.of = SegIdentity
      confirmed == segmented /\ conf = seg
      analyzed == IF confirmed THEN AnalyzedChapters ELSE 0
      deep == confirmed /\ analyzed = Total /\ DeepDue = {}
      synthesized == deep /\ syn # None /\ syn.of = SynIdentity
  IN  [ready |-> ws # None, segmented |-> segmented, confirmed |-> confirmed,
       expected |-> IF segmented THEN Total ELSE 0, analyzed |-> analyzed,
       deep |-> deep, synthesized |-> synthesized,
       uncertain |-> synthesized /\ syn.status = "uncertain",
       resolved |-> synthesized /\ (ResolutionFresh \/ ws.story # None),
       published |-> IsPublished]

NextAction(f) ==
  CASE f.published -> "done"
    [] ~f.published /\ ~f.ready -> "ingest"
    [] ~f.published /\ f.ready /\ ~f.segmented -> "segment"
    [] ~f.published /\ f.segmented /\ ~f.confirmed -> "confirm"
    [] ~f.published /\ f.confirmed /\ f.analyzed < f.expected -> "analyze"
    [] ~f.published /\ f.confirmed /\ f.analyzed >= f.expected /\ ~f.deep -> "deep"
    [] ~f.published /\ f.deep /\ ~f.synthesized -> "synthesize"
    [] ~f.published /\ f.synthesized /\ f.uncertain /\ ~f.resolved -> "story"
    [] OTHER -> "publish"

\* The decision on an uncertain story: the stored one, else the request's,
\* else the one given with the first request.
StoryChoice ==
  IF ResolutionFresh THEN res.choice
  ELSE IF run.opts.story # None THEN run.opts.story
  ELSE ws.story

\* The outline a publication writes.
Volumes ==
  [entries |-> [i \in 1..Total |-> ana[i].light],
   final |-> syn.status = "closed" \/ (syn.status = "uncertain" /\ StoryChoice = "closed")]

(***************************************************************************)
(* Requests.                                                               *)
(***************************************************************************)
Plain == [guide |-> None, reset |-> FALSE, story |-> None, cont |-> FALSE,
          deep |-> None, accept |-> FALSE]

\* ImportStatus: a fresh process derives the state from the artifacts.
SessionState ==
  LET action == NextAction(CollectFacts) IN
  CASE session.state # "idle" -> session.state
    [] session.state = "idle" /\ ws = None -> "idle"
    [] OTHER -> IF action \in {"confirm", "story", "done"} THEN action ELSE "stopped"

\* StartImport.  The session takes the flag before the host accepts the
\* request; it is refused while the engine or another job is at work.
StartImport(o) ==
  /\ run = None
  /\ session.state # "running"
  /\ \/ /\ ~engine
        /\ run' = [pc |-> "top", opts |-> o, seen |-> None]
        /\ session' = [state |-> "running", cont |-> session.cont \/ o.cont]
     \/ /\ UNCHANGED run
        /\ session' = [state |-> "stopped", cont |-> session.cont \/ o.cont]
  /\ UNCHANGED <<workspace, store, engine, version>>

Start(o) ==
  /\ StartImport(o)
  /\ asked' = (IF ws = None /\ asked # {} THEN {"earlier"} ELSE asked)
              \cup (IF o.cont THEN {"here"} ELSE {})

\* ConfirmImport, ResegmentImport and ResolveImportStory pass the flag of the
\* session on.
Confirm ==
  /\ SessionState = "confirm"
  /\ StartImport([Plain EXCEPT !.accept = TRUE, !.cont = session.cont])
  /\ UNCHANGED asked

Resegment(g) ==
  /\ SessionState = "confirm"
  /\ StartImport([Plain EXCEPT !.guide = g, !.reset = (g = None), !.cont = session.cont])
  /\ UNCHANGED asked

Resolve(c) ==
  /\ SessionState = "story"
  /\ StartImport([Plain EXCEPT !.story = c, !.cont = session.cont])
  /\ UNCHANGED asked

(***************************************************************************)
(* The runner.                                                             *)
(***************************************************************************)
At(pc) == run # None /\ run.pc = pc
Goto(pc) == run' = [run EXCEPT !.pc = pc]

\* The runner ends and leaves the session in state s.
End(s) ==
  /\ run' = None
  /\ session' = [session EXCEPT !.state = s]

\* applyGuidance and applyDeepWindow.
ApplyOptions ==
  LET g == run.opts.guide
      given == ws # None /\ ~run.opts.reset /\ g # None /\ g # guide
  IN
  /\ At("top")
  /\ IF given /\ premise # None
     THEN End("stopped") /\ UNCHANGED <<ws, guide>>
     ELSE /\ guide' = IF ws # None /\ run.opts.reset THEN None
                      ELSE IF given THEN g ELSE guide
          /\ ws' = IF ws # None /\ run.opts.deep # None
                   THEN [ws EXCEPT !.deep = run.opts.deep] ELSE ws
          /\ Goto("decide")
          /\ UNCHANGED session
  /\ UNCHANGED <<seg, conf, ana, syn, res, store, engine, version, asked>>

\* Facts that did not change since the last action end the run.
Decide ==
  LET f == CollectFacts IN
  /\ At("decide")
  /\ IF f = run.seen
     THEN End("stopped")
     ELSE /\ run' = [run EXCEPT !.pc = NextAction(f), !.seen = f]
          /\ UNCHANGED session
  /\ UNCHANGED <<workspace, store, engine, version, asked>>

Ingest ==
  /\ At("ingest")
  /\ IF book # <<>>
     THEN End("stopped") /\ UNCHANGED ws
     ELSE /\ ws' = [story |-> run.opts.story, cont |-> run.opts.cont,
                    deep |-> IF run.opts.deep = None THEN Default ELSE run.opts.deep]
          /\ Goto("top")
          /\ UNCHANGED session
  /\ UNCHANGED <<guide, seg, conf, ana, syn, res, store, engine, version, asked>>

Segment ==
  /\ At("segment")
  /\ \E s \in Splits : seg' = [of |-> SegIdentity, chapters |-> s]
  /\ Goto("top")
  /\ UNCHANGED <<ws, guide, conf, ana, syn, res, store, host>>

\* Without a decision of the user the run stops at the preview.
ConfirmSegmentation ==
  /\ At("confirm")
  /\ IF run.opts.accept
     THEN conf' = seg /\ Goto("top") /\ UNCHANGED session
     ELSE End("confirm") /\ UNCHANGED conf
  /\ UNCHANGED <<ws, guide, seg, ana, syn, res, store, engine, version, asked>>

\* Mutant: what was analysed before stays
KeepAnalysis ==
  /\ At("analyze")
  /\ Goto("light")
  /\ UNCHANGED <<workspace, store, host>>

\* The files behind the fresh prefix go, one by one, before any is made.
DiscardAnalysis ==
  LET stale == {i \in Numbers : i > AnalyzedChapters /\ i <= Total /\ ana[i] # None} IN
  /\ At("analyze")
  /\ IF stale = {}
     THEN Goto("light") /\ UNCHANGED ana
     ELSE /\ ana' = [ana EXCEPT ![CHOOSE i \in stale : \A j \in stale : i <= j] = None]
          /\ UNCHANGED run
  /\ UNCHANGED <<ws, guide, seg, conf, syn, res, store, host>>

\* Mutant: the digest that is stored is not the one that is asked for
AnalyzeUnderOldDigest ==
  LET i == AnalyzedChapters + 1 IN
  /\ At("light")
  /\ IF i > Total
     THEN Goto("top") /\ UNCHANGED ana
     ELSE /\ \E r \in Reports :
               ana' = [ana EXCEPT ![i] =
                         [of |-> <<guide, version["analyze"], i>>, light |-> <<seg.chapters[i], r>>,
                          world |-> None, deep |-> None,
                          ledger |-> [j \in 1..(i - 1) |-> ana[j].light]]]
          /\ UNCHANGED run
  /\ UNCHANGED <<ws, guide, seg, conf, syn, res, store, host>>

\* The ledger of the chapters before it is part of the question.
AnalyzeNext ==
  LET i == AnalyzedChapters + 1 IN
  /\ At("light")
  /\ IF i > Total
     THEN Goto("top") /\ UNCHANGED ana
     ELSE /\ \E r \in Reports :
               ana' = [ana EXCEPT ![i] =
                         [of |-> ChapterIdentity(i), light |-> <<seg.chapters[i], r>>, world |-> None,
                          deep |-> None, ledger |-> [j \in 1..(i - 1) |-> ana[j].light]]]
          /\ UNCHANGED run
  /\ UNCHANGED <<ws, guide, seg, conf, syn, res, store, host>>

\* A deep extraction without world evidence keeps the one that is there.
AnalyzeDeepNext ==
  /\ At("deep")
  /\ IF DeepDue = {}
     THEN Goto("top") /\ UNCHANGED ana
     ELSE LET i == CHOOSE n \in DeepDue : \A m \in DeepDue : n <= m IN
          /\ \E w \in Worlds \cup {None} :
               ana' = [ana EXCEPT ![i].deep = version["deep"],
                                  ![i].world = IF w = None THEN @ ELSE w]
          /\ UNCHANGED run
  /\ UNCHANGED <<ws, guide, seg, conf, syn, res, store, host>>

Synthesize ==
  /\ At("synthesize")
  /\ \E a \in Answers :
       syn' = [of |-> SynIdentity, premise |-> a.premise, status |-> a.status]
  /\ Goto("top")
  /\ UNCHANGED <<ws, guide, seg, conf, ana, res, store, host>>

ResolveStoryStatus ==
  /\ At("story")
  /\ IF StoryChoice = None
     THEN End("story") /\ UNCHANGED res
     ELSE /\ res' = [of |-> syn, choice |-> StoryChoice]
          /\ Goto("top")
          /\ UNCHANGED session
  /\ UNCHANGED <<ws, guide, seg, conf, ana, syn, store, engine, version, asked>>

(***************************************************************************)
(* Publication: conflicts, premise, phase, outline, its flat view, phases, *)
(* the hold, then the chapters through the commit saga.                    *)
(***************************************************************************)
\* Mutant: the outline is not compared
ConflictingPremise == premise # None /\ premise # syn.premise

Conflicts ==
  \/ premise # None /\ premise # syn.premise
  \/ layered # None /\ layered # Volumes

PublishPremise ==
  /\ At("publish")
  /\ IF Conflicts
     THEN End("stopped") /\ UNCHANGED premise
     ELSE premise' = syn.premise /\ Goto("premise phase") /\ UNCHANGED session
  /\ UNCHANGED <<workspace, layered, flat, phase, book, hold, engine, version, asked>>

\* UpdatePhase: the phase never goes back.
UpdatePhase(to, next) ==
  IF Ranks[phase] > Ranks[to]
  THEN End("stopped") /\ UNCHANGED phase
  ELSE phase' = to /\ Goto(next) /\ UNCHANGED session

PublishPremisePhase ==
  /\ At("premise phase")
  /\ UpdatePhase("premise", "layered")
  /\ UNCHANGED <<workspace, premise, layered, flat, book, hold, engine, version, asked>>

\* SaveLayeredOutline writes two files.
PublishLayered ==
  /\ At("layered")
  /\ layered' = Volumes
  /\ Goto("flat")
  /\ UNCHANGED <<workspace, premise, flat, phase, book, hold, host>>

PublishFlat ==
  /\ At("flat")
  /\ flat' = layered.entries
  /\ Goto("outline phase")
  /\ UNCHANGED <<workspace, premise, layered, phase, book, hold, host>>

PublishOutlinePhase ==
  /\ At("outline phase")
  /\ UpdatePhase("outline", "writing phase")
  /\ UNCHANGED <<workspace, premise, layered, flat, book, hold, engine, version, asked>>

PublishWritingPhase ==
  /\ At("writing phase")
  /\ phase' = "writing"
  /\ Goto("hold")
  /\ UNCHANGED <<workspace, premise, layered, flat, book, hold, host>>

\* Mutant: the hold is set when the chapters are out
HoldAfterChapters ==
  LET i == Len(book) + 1 IN
  /\ At("hold")
  /\ IF i <= Total
     THEN /\ book' = Append(book, [text |-> seg.chapters[i], facts |-> ana[i].light])
          /\ UNCHANGED <<run, hold>>
     ELSE /\ hold' = IF run.opts.cont \/ ws.cont THEN hold ELSE "import"
          /\ Goto("chapters") /\ UNCHANGED book
  /\ UNCHANGED <<workspace, premise, layered, flat, phase, host>>

\* Another hold is not replaced.
SetCompletionHold ==
  /\ At("hold")
  /\ IF run.opts.cont \/ ws.cont
     THEN Goto("chapters") /\ UNCHANGED <<hold, session>>
     ELSE IF hold = Own
     THEN End("stopped") /\ UNCHANGED hold
     ELSE hold' = "import" /\ Goto("chapters") /\ UNCHANGED session
  /\ UNCHANGED <<workspace, premise, layered, flat, phase, book, engine, version, asked>>

PublishChapter ==
  LET i == Len(book) + 1 IN
  /\ At("chapters")
  /\ IF i > Total
     THEN Goto("top") /\ UNCHANGED book
     ELSE /\ book' = Append(book, [text |-> seg.chapters[i], facts |-> ana[i].light])
          /\ UNCHANGED run
  /\ UNCHANGED <<workspace, premise, layered, flat, phase, hold, host>>

(***************************************************************************)
(* The end: the slot is released, the wish to go on writing is consumed,   *)
(* then the engine is started.                                             *)
(***************************************************************************)
ContinueAfterImport ==
  /\ At("done")
  /\ IF run.opts.cont \/ ws.cont
     THEN ws' = [ws EXCEPT !.cont = FALSE] /\ Goto("start") /\ UNCHANGED session
     ELSE End("done") /\ UNCHANGED ws
  /\ UNCHANGED <<guide, seg, conf, ana, syn, res, store, engine, version, asked>>

StartEngine ==
  /\ At("start")
  /\ NextAction(CollectFacts) = "done"
  /\ engine' = TRUE
  /\ End("done")
  /\ UNCHANGED <<workspace, store, version, asked>>

(***************************************************************************)
(* Disturbances.                                                           *)
(***************************************************************************)
\* The user cancels, a model call or a write fails.
Interrupt ==
  /\ run # None
  /\ run.pc \notin {"done", "start"}
  /\ End("stopped")
  /\ UNCHANGED <<workspace, store, engine, version, asked>>

\* The process dies; the next one, perhaps a newer program, starts the
\* engine when a finished import left the wish to.
Restart(v) ==
  /\ v = version \/ \E s \in Raised : v = [version EXCEPT ![s] = @ + 1]
  /\ v["segment"] + v["analyze"] + v["deep"] + v["synthesize"] <= MaxUpgrades
  /\ version' = v
  /\ run' = None
  /\ session' = [state |-> "idle", cont |-> FALSE]
  /\ engine' = (ws # None /\ NextAction(CollectFacts) = "done" /\ ws.cont)
  /\ ws' = IF engine' THEN [ws EXCEPT !.cont = FALSE] ELSE ws
  /\ UNCHANGED <<guide, seg, conf, ana, syn, res, store, asked>>

PauseEngine ==
  /\ engine
  /\ engine' = FALSE
  /\ UNCHANGED <<workspace, store, run, session, version, asked>>

(***************************************************************************)
(* A book without chapters: empty, with a premise of its own, planned, or  *)
(* left by a process that died between its first flat outline and the      *)
(* phase that goes with it.                                                *)
(***************************************************************************)
Empty == [premise |-> None, layered |-> None, flat |-> <<>>, phase |-> "init"]
Begun == [Empty EXCEPT !.premise = Own, !.phase = "premise"]
Planned == [premise |-> Own, layered |-> [entries |-> <<Own>>, final |-> FALSE],
            flat |-> <<Own>>, phase |-> "writing"]
Interrupted == [Empty EXCEPT !.flat = <<Own>>]

Init ==
  /\ ws = None /\ guide = None /\ seg = None /\ conf = None
  /\ ana = [i \in Numbers |-> None] /\ syn = None /\ res = None
  /\ \E b \in Books : /\ premise = b.premise /\ layered = b.layered
                     /\ flat = b.flat /\ phase = b.phase
  /\ book = <<>>
  /\ hold \in Holds
  /\ run = None
  /\ session = [state |-> "idle", cont |-> FALSE]
  /\ engine = FALSE
  /\ version = [s \in Stages |-> 0]
  /\ asked = {}

Step ==
  \/ ApplyOptions \/ Decide
  \/ Ingest \/ Segment \/ ConfirmSegmentation
  \/ DiscardAnalysis \/ AnalyzeNext \/ AnalyzeDeepNext
  \/ Synthesize \/ ResolveStoryStatus
  \/ PublishPremise \/ PublishPremisePhase \/ PublishLayered \/ PublishFlat
  \/ PublishOutlinePhase \/ PublishWritingPhase
  \/ SetCompletionHold \/ PublishChapter
  \/ ContinueAfterImport \/ StartEngine

Next ==
  \/ \E o \in Requests : Start(o)
  \/ Confirm
  \/ \E g \in Guides \cup {None} : Resegment(g)
  \/ \E c \in Choices : Resolve(c)
  \/ Step
  \/ Interrupt
  \/ \E v \in [Stages -> 0..MaxUpgrades] : Restart(v)
  \/ PauseEngine

Fairness == WF_vars(Step)
Spec == Init /\ [][Next]_vars /\ Fairness

--------------------------------------------------------------------------------
(***************************************************************************)
(* Properties.                                                             *)
(***************************************************************************)

\* discardAnalysesAfter: an analysis is only reused behind ones that are as
\* they were when it was made.  The chapters that count as analysed have been
\* analysed one after the other, each with the ledger of all before it, however
\* the source was cut and cut again in between.
AnalysedInOrder ==
  seg # None =>
    \A i \in 1..AnalyzedChapters :
      ana[i].ledger = [j \in 1..(i - 1) |-> ana[j].light]

\* Runner.stepConfirm: nothing of the book is written before the user has seen
\* the split.  What a publication has committed after any step is the beginning
\* of the split that was confirmed, with facts that were made from its texts.
OnlyConfirmedIsPublished ==
  [][book' # book =>
       /\ conf = seg
       /\ \A i \in DOMAIN book' : /\ book'[i].text = conf.chapters[i]
                                 /\ book'[i].facts[1] = conf.chapters[i]]_vars

\* A flat outline the book had before, without a premise
Unprotected == flat \in OwnOutlines /\ premise # Own

\* checkFoundationConflicts: what the book has as its foundation, its own or
\* that of an earlier publication, is never replaced by an import.  It does not
\* compare outline.json: the exception is a flat outline the book had before it
\* had a premise of its own.
FoundationIsKept ==
  [][/\ premise # None => premise' = premise
     /\ layered # None => layered' = layered
     /\ flat # <<>> => flat' = flat \/ Unprotected]_vars

\* checkFoundationConflicts: "an existing formal artifact that differs is not
\* overwritten".  The flat outline of a book without a premise is.
OutlineIsKept == [][flat # <<>> => flat' = flat]_vars

\* setCompletionHold: an imported book is held for its user, and no engine goes
\* on with it, unless a request has asked to go on, whatever was interrupted.
HeldUnlessAsked ==
  (IsPublished /\ hold = None) \/ engine => asked # {}

\* Runner.loop: no run goes round for ever; it ends published, in front of the
\* user, or refused.
RunsEnd == (run # None) ~> (run = None)

\* Where the runner is between its decision to publish and the last chapter
Publishing == {"premise phase", "layered", "flat", "outline phase", "writing phase",
               "hold", "chapters"}
Analysed == {"deep", "synthesize", "story", "publish"} \cup Publishing

Among(pcs) == run # None /\ run.pc \in pcs

\* The forms of the artifacts
FormsInv ==
  /\ ws = None \/ ws \in Workspaces
  /\ run # None => /\ run = [pc |-> run.pc, opts |-> run.opts, seen |-> run.seen]
                    /\ run.opts \in Options
  /\ session = [state |-> session.state, cont |-> session.cont]
  /\ session.cont \in BOOLEAN
  /\ guide \in {None} \cup Guides
  /\ version \in [Stages -> Nat]
  /\ seg \in {None} \cup Segmentations
  /\ ana \in [Numbers -> {None} \cup Analyses]
  /\ \A i \in Numbers : ana[i] # None => ana[i].light[1] = ana[i].of[4]
  /\ syn # None => syn.premise # Own
  /\ phase \in DOMAIN Ranks
  /\ book \in Seq([text: Texts, facts: Facts])

\* A stage is entered with what it needs, and keeps it
StagesInv ==
  /\ seg # None => ws # None
  /\ Among({"segment", "confirm", "analyze", "light", "done"} \cup Analysed) => ws # None
  /\ Among({"confirm", "analyze", "light"} \cup Analysed) => seg # None
  /\ Among({"analyze", "light"} \cup Analysed) => conf = seg
  /\ Among({"light"}) => \A i \in 1..Total : i > AnalyzedChapters => ana[i] = None
  /\ Among(Analysed) => \A i \in 1..Total : Fresh(i)
  /\ Among({"publish"} \cup Publishing) => syn # None

\* Analyses that would count for one split have been made one after the other
LedgerInv ==
  \A s \in Splits : \A n \in 1..Len(s) :
    /\ ana[n] # None
    /\ \A i \in 1..n : /\ ana[i] # None
                      /\ ana[i].of = <<ana[n].of[1], ana[n].of[2], i, s[i]>>
    => ana[n].ledger = [j \in 1..(n - 1) |-> ana[j].light]

FoundationInv ==
  /\ \/ premise = Own \/ flat \in OwnOutlines
     \/ layered # None /\ flat = layered.entries
  /\ Among(Publishing) => premise = syn.premise
  /\ Among({"premise phase", "layered"}) => layered = None \/ layered = Volumes
  /\ Among({"flat"}) => layered # None

\* Chapters are only committed after all else is, in the run that did it
CommittedInv ==
  /\ book # <<>> => phase = "writing"
  /\ Among(Publishing \ {"premise phase", "chapters"}) => book = <<>>
  /\ Among({"hold", "chapters"}) => phase = "writing"
  /\ Among({"chapters"}) =>
       /\ Len(book) <= Total
       /\ \A i \in DOMAIN book : /\ book[i].text = seg.chapters[i]
                                 /\ book[i].facts[1] = seg.chapters[i]

AskedInv ==
  /\ session.cont \/ engine \/ Among({"start"}) => asked # {}
  /\ run # None /\ run.opts.cont => asked # {}
  /\ ws # None /\ ws.cont => asked # {}
  /\ book # <<>> \/ Among({"chapters"}) => hold # None \/ asked # {}

\* The strengthening of the safety properties that every step keeps
ImportIInv ==
  /\ FormsInv /\ StagesInv /\ LedgerInv
  /\ FoundationInv /\ CommittedInv /\ AskedInv

\* publishFoundation: "publishing the same content again is idempotent".  The
\* code sets the phase back to premise, which the store refuses once the
\* outline is out, so a publication that was interrupted is refused for ever.
RepublishingIsIdempotent ==
  At("premise phase") => Ranks[phase] <= Ranks["premise"]

\* setCompletionHold: "only --continue skips" the hold.  The session keeps the
\* wish of a request that was refused or has failed.
OnlyContinueSkipsHold ==
  IsPublished /\ hold = None => "here" \in asked

\* state.go: "the formal store has been reconciled as a whole".  Chapters are
\* only counted, against a split that may have been made anew.
FinishedIsWhole ==
  engine /\ layered # None => Len(book) >= Len(layered.entries)
================================================================================
